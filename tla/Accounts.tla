------------------------------ MODULE Accounts ------------------------------
(***************************************************************************)
(* The rows of the table of users, as first logins, the administrator and  *)
(* the GitLab integration write them: which OIDC identity an account is    *)
(* linked to (auth/provision, reana_admin/cli) and the secret by which     *)
(* GitLab starts workflows for it (rest/gitlab, decorators).               *)
(*                                                                         *)
(* An account is its email: both are unique and stay.  A request reads the *)
(* row, goes on with what it has read, and writes at its commit only the   *)
(* columns it has changed.  The database keeps emails and identities       *)
(* unique at every commit.                                                 *)
(***************************************************************************)
EXTENDS Integers

CONSTANTS
  Request,         \* requests and administrator's commands
  Email, Identity, NoOne,
  Issuer,          \* Issuer[i]: the issuer of identity i
  Domain,          \* Domain[e]: the domain of email e
  Asserted,        \* Asserted[i]: the emails that the issuer may assert of i
  LinkingEnabled, AssumeVerified, IssuerAllowlist, DomainAllowlist,
  Lifetime,        \* REANA_GITLAB_WEBHOOK_SECRET_MAX_LIFETIME
  MaxSecret,       \* bound on the secrets generated
  LastDay          \* bound on the clock

ASSUME AccountsAssumption ==
  /\ NoOne \notin Identity
  /\ Asserted \in [Identity -> SUBSET Email]
  /\ LinkingEnabled \in BOOLEAN
  /\ Lifetime \in Nat \ {0} /\ MaxSecret \in Nat /\ LastDay \in Nat \ {0}

VARIABLES
  today,      \* the clock
  row,      \* row[e]: the row of the user with email e
  hooks,    \* installed GitLab hooks: the account and the secret they carry
  secrets,  \* how many secrets have been generated
  task,      \* req[r]: the local state of request r
  \* history
  deleted,  \* secrets that the administrator deleted
  moved,    \* accounts whose link was overwritten with another identity
  standing  \* standing[e]: the last word on the webhook of e

accountsVars == <<today, row, hooks, secrets, task, deleted, moved, standing>>

Secret == 1..MaxSecret
Until == 0..(LastDay + Lifetime)   \* 0: no expiry, so no authorization
Row == [exists : BOOLEAN, idp : Identity \cup {NoOne},
        secret : 0..MaxSecret, until : Until]
NoRow == [exists |-> FALSE, idp |-> NoOne, secret |-> 0, until |-> 0]
NewRow(i) == [NoRow EXCEPT !.exists = TRUE, !.idp = i]

\* What UserInfo says of email_verified.
Claim == {"true", "absent", "other"}

Stage == {"idle", "userinfo", "resolve", "owner", "commit", "winner",
          "renew", "connect", "install", "revoke", "done"}

\* `mine` is the row as the request has read it and `how` how a login ended.
\* `overtaken` is history: an authorization was committed after a revocation
\* had read the row.
Task ==
  [pc : Stage, by : {"login", "command", "none"}, dry : BOOLEAN,
   who : Identity \cup {NoOne}, email : Email \cup {NoOne}, claim : Claim,
   mine : Row, secret : 0..MaxSecret,
   how : {"none", "known", "linked", "created", "refused"},
   overtaken : BOOLEAN]

NoTask == [pc |-> "idle", by |-> "none", dry |-> FALSE, who |-> NoOne,
         email |-> NoOne, claim |-> "absent", mine |-> NoRow, secret |-> 0,
         how |-> "none", overtaken |-> FALSE]

AccountsInit ==
  /\ today = 1
  /\ row \in [Email -> {NoRow, NewRow(NoOne)}]
  /\ hooks = {} /\ secrets = 0
  /\ task = [r \in Request |-> NoTask]
  /\ deleted = {} /\ moved = {}
  /\ standing = [e \in Email |-> "none"]

-----------------------------------------------------------------------------
(* Helpers                                                                 *)

Free(r) == task[r].pc \in {"idle", "done"}
Sets(r, q) == task' = [task EXCEPT ![r] = q]
Done(q, how) == [NoTask EXCEPT !.pc = "done", !.by = q.by, !.who = q.who,
                             !.email = q.email, !.claim = q.claim, !.how = how]

\* get_user_by_idp_identity: the account of identity i, if any.
Owns(i, e) == row[e].exists /\ row[e].idp = i
Owned(i) == \E e \in Email : Owns(i, e)

email_linking_allowed(i, e, claim) ==
  /\ LinkingEnabled
  /\ claim = "true" \/ (claim = "absent" /\ Issuer[i] \in AssumeVerified)
  /\ IssuerAllowlist # {} => Issuer[i] \in IssuerAllowlist
  /\ DomainAllowlist # {} => Domain[e] \in DomainAllowlist

webhookVars == <<today, hooks, secrets, deleted, standing>>

-----------------------------------------------------------------------------
(* get_or_provision_user: the first login of an identity                   *)

\* The identity lookup, with which a returning user is done.
SignIn(r, i) ==
  /\ Free(r)
  /\ LET q == [NoTask EXCEPT !.by = "login", !.who = i]
     IN \/ /\ ~Owned(i)
           /\ Sets(r, [q EXCEPT !.pc = "userinfo"])
        \/ \E e \in Email : /\ Owns(i, e)
                            /\ Sets(r, Done([q EXCEPT !.email = e], "known"))
  /\ UNCHANGED <<row, moved, webhookVars>>

\* fetch_userinfo, verify_userinfo_subject and _validated_email.
FetchUserinfo(r) ==
  /\ task[r].pc = "userinfo"
  /\ \E e \in Asserted[task[r].who], claim \in Claim :
       Sets(r, [task[r] EXCEPT !.pc = "resolve", !.email = e, !.claim = claim])
  /\ UNCHANGED <<row, moved, webhookVars>>

UserinfoFails(r) ==
  /\ task[r].pc = "userinfo"
  /\ Sets(r, Done(task[r], "refused"))
  /\ UNCHANGED <<row, moved, webhookVars>>

\* The lookup by email; _link_existing_user begins when there is an account.
MayLink(q, found) ==
  email_linking_allowed(q.who, q.email, q.claim) /\ found.idp = NoOne

Resolve(r) ==
  LET q == task[r]
      found == row[q.email]
  IN /\ q.pc = "resolve"
     /\ Sets(r, IF ~found.exists
                THEN [q EXCEPT !.pc = "commit", !.mine = found]
                ELSE IF found.idp = q.who THEN Done(q, "known")
                ELSE IF MayLink(q, found)
                     THEN [q EXCEPT !.pc = "owner", !.mine = found]
                ELSE Done(q, "refused"))
     /\ UNCHANGED <<row, moved, webhookVars>>

-----------------------------------------------------------------------------
(* link_user_identity, also from the command line                          *)

\* link-user-identity, and create-admin-user for an account that exists or not.
LinkCommand(r, i, e, dry) ==
  /\ Free(r)
  /\ row[e].exists \/ ~dry
  /\ Sets(r, [NoTask EXCEPT !.pc = "owner", !.by = "command", !.dry = dry,
                          !.who = i, !.email = e, !.mine = row[e]])
  /\ UNCHANGED <<row, moved, webhookVars>>

\* Refuses to move either side of a link; an identical link is kept.
UnlinkedOrNot(q) == TRUE
UnlinkedAsRead(q) == q.mine.idp = NoOne

CheckOwner(r) ==
  LET q == task[r]
      elsewhere == \E e \in Email \ {q.email} : Owns(q.who, e)
  IN /\ q.pc = "owner"
     /\ Sets(r, IF elsewhere THEN Done(q, "refused")
                ELSE IF q.mine.idp = q.who THEN Done(q, "known")
                ELSE IF ~UnlinkedAsRead(q) \/ q.dry THEN Done(q, "refused")
                ELSE [q EXCEPT !.pc = "commit"])
     /\ UNCHANGED <<row, moved, webhookVars>>

-----------------------------------------------------------------------------
(* The commit, and its failure                                             *)

\* The unique constraints on emails and identities.
Conflict(q) ==
  \/ \E e \in Email \ {q.email} : Owns(q.who, e)
  \/ ~q.mine.exists /\ row[q.email].exists

\* An existing row is updated whatever has been committed since it was read.
Commit(r) ==
  LET q == task[r]
      e == q.email
  IN /\ q.pc = "commit" /\ ~Conflict(q)
     /\ row' = [row EXCEPT ![e].exists = TRUE, ![e].idp = q.who]
     /\ moved' = moved \cup {d \in {e} : row[d].idp \notin {NoOne, q.who}}
     /\ Sets(r, Done(q, IF q.mine.exists THEN "linked" ELSE "created"))
     /\ UNCHANGED webhookVars

\* IntegrityError: rolled back.  A login looks for the winner of the race.
CommitConflicts(r) ==
  LET q == task[r]
  IN /\ q.pc = "commit" /\ Conflict(q)
     /\ Sets(r, IF q.by = "login" THEN [q EXCEPT !.pc = "winner"]
                                  ELSE Done(q, "refused"))
     /\ UNCHANGED <<row, moved, webhookVars>>

WinnerOfEmail(q) == {e \in {q.email} : row[e].exists}
Winner(q) == {e \in Email : Owns(q.who, e)}
ReuseWinner(r) ==
  LET q == task[r]
  IN /\ q.pc = "winner"
     /\ \/ \E e \in Winner(q) : Sets(r, Done([q EXCEPT !.email = e], "known"))
        \/ Winner(q) = {} /\ Sets(r, Done(q, "refused"))
     /\ UNCHANGED <<row, moved, webhookVars>>

\* user-create, and create-admin-user without an identity.
CreateUser(e) ==
  /\ ~row[e].exists
  /\ row' = [row EXCEPT ![e] = NewRow(NoOne)]
  /\ UNCHANGED <<task, moved, webhookVars>>

-----------------------------------------------------------------------------
(* The webhook secret                                                      *)

Expired(until) == until <= today
Expiry == today + Lifetime

\* An authorization of e is committed: it overtakes the revocations that have
\* read the row before.
Granted(e, q) ==
  [r \in Request |-> IF q[r].email = e /\ q[r].pc = "revoke"
                     THEN [q[r] EXCEPT !.overtaken = TRUE] ELSE q[r]]

\* gitlab_webhook_token: the user is loaded at the authentication.
PutToken(r, e) ==
  /\ Free(r) /\ row[e].exists
  /\ LET q == [NoTask EXCEPT !.email = e]
     IN Sets(r, IF row[e].secret = 0 THEN Done(q, "refused")
                                     ELSE [q EXCEPT !.pc = "renew"])
  /\ UNCHANGED <<row, moved, webhookVars>>

\* Only the column of the expiry is written.
Renew(r) ==
  LET e == task[r].email
  IN /\ task[r].pc = "renew"
     /\ row' = [row EXCEPT ![e].until = Expiry]
     /\ standing' = [standing EXCEPT ![e] = "granted"]
     /\ task' = Granted(e, [task EXCEPT ![r] = Done(task[r], "none")])
     /\ UNCHANGED <<today, hooks, secrets, deleted, moved>>

\* gitlab_webhook POST; whether the expiry that it tests is the one loaded at
\* the authentication or the one under the row lock is left open.
PostWebhook(r, e) ==
  /\ Free(r) /\ row[e].exists
  /\ Sets(r, [NoTask EXCEPT !.pc = "connect", !.email = e, !.mine = row[e]])
  /\ UNCHANGED <<row, moved, webhookVars>>

\* get_or_create_bearer_secret and the commit: all under the row lock.
NoSecretAsRead(q) == q.mine.secret = 0
NoSecret(q) == row[q.email].secret = 0

CreateSecret(r) ==
  LET q == task[r]
      e == q.email
  IN /\ q.pc = "connect" /\ NoSecret(q) /\ secrets < MaxSecret
     /\ secrets' = secrets + 1
     /\ row' = [row EXCEPT ![e].secret = secrets', ![e].until = Expiry]
     /\ standing' = [standing EXCEPT ![e] = "granted"]
     /\ task' = Granted(e, [task EXCEPT ![r] =
                 [q EXCEPT !.pc = "install", !.secret = secrets',
                           !.mine = NoRow]])
     /\ UNCHANGED <<today, hooks, deleted, moved>>

ReuseSecret(r) ==
  LET q == task[r]
      e == q.email
  IN /\ q.pc = "connect" /\ ~NoSecret(q)
     /\ \E until \in {row[e].until, q.mine.until} :
          Sets(r, IF Expired(until) THEN Done(q, "refused")
                  ELSE [q EXCEPT !.pc = "install", !.secret = row[e].secret,
                                 !.mine = NoRow])
     /\ UNCHANGED <<row, moved, webhookVars>>

\* The call to GitLab, without the lock.
Install(r) ==
  /\ task[r].pc = "install"
  /\ \/ hooks' = hooks \cup {<<task[r].email, task[r].secret>>}
     \/ UNCHANGED hooks   \* the client raises
  /\ Sets(r, Done(task[r], "none"))
  /\ UNCHANGED <<today, row, secrets, deleted, moved, standing>>

DeleteWebhook ==
  /\ \E h \in hooks : hooks' = hooks \ {h}
  /\ UNCHANGED <<today, row, secrets, task, deleted, moved, standing>>

\* gitlab-webhook-revoke, also within revoke-identity.
RevokeCommand(r, e) ==
  /\ Free(r) /\ row[e].exists /\ row[e].secret # 0
  /\ Sets(r, [NoTask EXCEPT !.pc = "revoke", !.email = e, !.mine = row[e]])
  /\ UNCHANGED <<row, moved, webhookVars>>

\* Columns that the command found empty are not written.
Revoked(was, mine, delete) ==
  [was EXCEPT !.until = IF mine.until = 0 THEN @ ELSE 0,
              !.secret = IF delete THEN 0 ELSE @]

Revoke(r, delete) ==
  LET q == task[r]
      e == q.email
  IN /\ q.pc = "revoke"
     /\ row' = [row EXCEPT ![e] = Revoked(@, q.mine, delete)]
     /\ standing' = [standing EXCEPT ![e] = IF q.overtaken THEN @
                                           ELSE "revoked"]
     /\ deleted' = IF delete THEN deleted \cup ({row[e].secret} \ {0})
                             ELSE deleted
     /\ Sets(r, Done(q, "none"))
     /\ UNCHANGED <<today, hooks, secrets, moved>>

RevokeFails(r) ==   \* dry run, or an error
  /\ task[r].pc = "revoke"
  /\ Sets(r, Done(task[r], "none"))
  /\ UNCHANGED <<row, moved, webhookVars>>

-----------------------------------------------------------------------------
DayPasses ==
  /\ today < LastDay
  /\ today' = today + 1
  /\ UNCHANGED <<row, hooks, secrets, task, deleted, moved, standing>>

Links ==
  \/ \E r \in Request :
       \/ \E i \in Identity : SignIn(r, i)
       \/ \E i \in Identity, e \in Email, dry \in BOOLEAN :
            LinkCommand(r, i, e, dry)
       \/ FetchUserinfo(r) \/ UserinfoFails(r) \/ Resolve(r) \/ CheckOwner(r)
       \/ Commit(r) \/ CommitConflicts(r) \/ ReuseWinner(r)
  \/ \E e \in Email : CreateUser(e)

Webhooks ==
  \/ \E r \in Request :
       \/ \E e \in Email :
            PutToken(r, e) \/ PostWebhook(r, e) \/ RevokeCommand(r, e)
       \/ Renew(r) \/ CreateSecret(r) \/ ReuseSecret(r) \/ Install(r)
       \/ \E delete \in BOOLEAN : Revoke(r, delete)
       \/ RevokeFails(r)
  \/ DeleteWebhook
  \/ DayPasses

AccountsNext == Links \/ Webhooks
AccountsSpec == AccountsInit /\ [][AccountsNext]_accountsVars

-----------------------------------------------------------------------------
(* Properties                                                              *)

\* Rows and requests are well formed, and identities are unique.
AccountsTypeOK ==
  /\ today \in 1..LastDay
  /\ row \in [Email -> Row]
  /\ \A e \in Email : ~row[e].exists => row[e] = NoRow
  /\ \A d, e \in Email : row[d].idp = row[e].idp => d = e \/ row[e].idp = NoOne
  /\ hooks \in SUBSET (Email \X Secret)
  /\ secrets \in 0..MaxSecret
  /\ task \in [Request -> Task]
  /\ deleted \in SUBSET Secret /\ moved \in SUBSET Email
  /\ standing \in [Email -> {"none", "granted", "revoked"}]

\* A login acts for an account that is linked to its own identity, however
\* many logins and commands raced for that identity or that email, unless the
\* link was overwritten later; and it has taken an account over by its email
\* only with a claim that is true, or absent at an attested issuer.
Attested(q) ==
  q.claim = "true" \/ (q.claim = "absent" /\ Issuer[q.who] \in AssumeVerified)
SignedInAsOwner ==
  \A r \in Request :
    LET q == task[r]
    IN q.by = "login" /\ q.how \in {"known", "linked", "created"} =>
         /\ Owns(q.who, q.email) \/ q.email \in moved
         /\ q.how = "linked" => LinkingEnabled /\ Attested(q)

\* A link is overwritten only by a request that had read the account while it
\* was not linked; whoever reads it later is refused.
LinkMovesOnlyInRace ==
  [][\A e \in Email :
       row[e].idp # NoOne /\ row'[e].idp # row[e].idp =>
         \E r \in Request : /\ task[r].pc = "commit" /\ task[r].email = e
                            /\ task[r].mine.exists
                            /\ task[r].mine.idp = NoOne]_accountsVars

\* "refuses to move either side of an existing link" (link_user_identity).
LinkNeverMoves ==
  [][\A e \in Email :
       row[e].idp # NoOne => row'[e].idp = row[e].idp]_accountsVars

\* Installed hooks carry the secret of their account, unless that was deleted:
\* two first enables do not install two secrets.
HooksCarryTheSecret ==
  \A h \in hooks : h[2] = row[h[1]].secret \/ h[2] \in deleted

\* A deleted secret never comes back.
DeletedStaysDeleted == \A e \in Email : row[e].secret \notin deleted

\* GitLab's events are accepted for an account only if an authorization was
\* committed after every revocation that read it: no request that merely uses
\* the secret brings a revoked authorization back.
AuthorizedByGrant ==
  \A e \in Email :
    row[e].secret # 0 /\ ~Expired(row[e].until) => standing[e] = "granted"

\* What the columns of the webhook secret promise to GitLab and to the
\* administrator while enabling, renewal and revocation interleave.
WebhookSecrets ==
  HooksCarryTheSecret /\ DeletedStaysDeleted /\ AuthorizedByGrant
=============================================================================
