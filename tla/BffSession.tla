----------------------------- MODULE BffSession -----------------------------
(***************************************************************************)
(* Browser (BFF) sessions in Redis, and who races for them:                *)
(*                                                                         *)
(*   - requests whose access cookie has expired refresh the session under  *)
(*     a per-session Redis lock with a time to live; a request that does   *)
(*     not get the lock polls for the winner's token;                      *)
(*   - logout, a new login that replaces the session, and the admin's      *)
(*     revoke-identity delete sessions without ever taking that lock.      *)
(*                                                                         *)
(* The issuer is external: it rotates the refresh token on every refresh   *)
(* and, when a refresh token is presented twice, revokes the grant.        *)
(* Refresh and access tokens are generation numbers: the n-th refresh      *)
(* returns refresh token n and access token n.  Every Redis call and every *)
(* issuer call is a step of its own; the steps of a request interleave     *)
(* with those of all other actors.                                         *)
(***************************************************************************)
EXTENDS Integers, FiniteSets

CONSTANTS
  Request,     \* concurrent requests with an expired access cookie
  Sid,         \* session identifiers, never reused by the server
  Identity,    \* (issuer, subject) pairs
  Owner,       \* Owner[s]: the identity that logs in to obtain s
  NoOne,       \* in place of a request or an identity
  SessionTTL,  \* REANA_AUTH_SESSION_TTL
  PollRounds,  \* refresh_wait_timeout, in rounds of polling
  MaxTime,     \* bound on the clock
  MaxToken,    \* bound on the refreshes of one session
  MaxFaults    \* bound on crashes, lost answers, Redis errors, lock expiries

ASSUME BffAssumption ==
  /\ Owner \in [Sid -> Identity]
  /\ NoOne \notin Request \cup Identity
  /\ SessionTTL \in Nat \ {0} /\ PollRounds \in Nat
  /\ MaxTime \in Nat /\ MaxToken \in Nat /\ MaxFaults \in Nat

VARIABLES
  now,       \* the clock
  sess,      \* sess[s]: the Redis value of session s, or NoSession
  lock,      \* lock[s]: the request whose value the refresh lock of s holds
  grant,     \* grant[s]: the issuer's refresh token for s, and is it revoked
  req,       \* req[r]: the local state of request r
  replaced,  \* sessions that a completed login still has to delete
  scan,      \* the progress of revoke-identity
  faults,    \* how many faults have happened
  \* history
  born,      \* born[s]: when the login created s; -1 before
  ended,     \* sessions a logout, a login or a complete revocation ended
  reused,    \* sessions whose refresh token was presented to the issuer twice
  spent,     \* sessions for which a rotated token may not have been stored
  stale      \* requests whose lock expired while they held it

historyVars == <<born, ended, reused, spent, stale>>
vars == <<now, sess, lock, grant, req, replaced, scan, faults, born, ended,
          reused, spent, stale>>

Token == 0..MaxToken
NoToken == -1      \* the login's token response had no refresh token
Outcome == {"none", "success", "terminal", "transient", "unavailable"}

Session == [sub : Identity \cup {NoOne}, rt : Token \cup {NoToken}, at : Token,
            created : 0..MaxTime, expires : 0..(MaxTime + SessionTTL)]
NoSession == [sub |-> NoOne, rt |-> 0, at |-> 0, created |-> 0, expires |-> 0]
Exists(s) == sess[s] # NoSession
SessionMatchesAnyone(s, id) == TRUE
SessionMatches(s, id) == sess[s].sub = id

\* Where a request is between two calls to Redis or to the issuer; with the
\* lock it is in one of the Critical places.
Critical == {"read", "issuer", "store", "rejected", "unusable", "release"}
Waiting == {"poll", "probe", "final"}
Place == {"idle", "acquire", "validate", "answer"} \cup Critical \cup Waiting

Idle == [pc |-> "idle", sid |-> NoOne, who |-> NoOne, prev |-> 0,
         got |-> NoSession, polls |-> 0, result |-> "none"]
NoScan == [keys |-> {}, due |-> {}, sub |-> NoOne]

-----------------------------------------------------------------------------
(* store_session, delete_session                                           *)

SmallerOf(a, b) == IF a <= b THEN a ELSE b
WindowOpen(created) == created + SessionTTL - now > 0

\* The record store_session writes; its time to live is bounded by what is left
\* of the window that opened when the session was created.
StoredWithFullTTL(sub, rt, at, created) ==
  [sub |-> sub, rt |-> rt, at |-> at, created |-> created,
   expires |-> now + SessionTTL]
Stored(sub, rt, at, created) ==
  [sub |-> sub, rt |-> rt, at |-> at, created |-> created,
   expires |-> now + SmallerOf(SessionTTL, created + SessionTTL - now)]

\* A refresh stores with SET XX: only while the key is there.
MayReplaceUnconditionally(s) == TRUE
MayReplace(s) == Exists(s)

Deleted(s) == [sess EXCEPT ![s] = NoSession]

-----------------------------------------------------------------------------
(* A request refreshes: refresh_session                                    *)

Goes(r, place) == req' = [req EXCEPT ![r].pc = place]
\* Leave the critical section, through "finally: release".
Conclude(r, outcome) ==
  req' = [req EXCEPT ![r].pc = "release", ![r].result = outcome]
\* Leave refresh_session; a token it returns is validated once more.
Return(r, outcome) ==
  req' = [req EXCEPT ![r].pc = IF outcome = "success" THEN "validate"
                                                      ELSE "answer",
                     ![r].result = outcome]

\* _authenticate found an expired access cookie and a session cookie.  The
\* browser may hold an older token than the session, and the two cookies may
\* belong to different identities.
BeginRefresh(r, s, id, token) ==
  /\ req[r].pc = "idle"
  /\ born[s] >= 0
  /\ id = Owner[s] => token <= sess[s].at
  /\ req' = [req EXCEPT ![r] = [Idle EXCEPT !.pc = "acquire", !.sid = s,
                                            !.who = id, !.prev = token]]
  /\ stale' = stale \ {r}
  /\ UNCHANGED <<now, sess, lock, grant, replaced, scan, faults, born, ended,
                 reused, spent>>

\* SET NX EX with a value of its own, or wait for the request that has it.
AlwaysFree(s) == TRUE
LockFree(s) == lock[s] = NoOne

AcquireLock(r) ==
  LET s == req[r].sid IN
  /\ req[r].pc = "acquire"
  /\ \/ /\ LockFree(s)
        /\ lock' = [lock EXCEPT ![s] = r]
        /\ Goes(r, "read")
     \/ /\ ~LockFree(s)
        /\ Goes(r, "poll")
        /\ UNCHANGED lock
  /\ UNCHANGED <<now, sess, grant, replaced, scan, faults, historyVars>>

\* _refresh_locked_session up to the issuer call: no session, one without a
\* refresh token or one of another identity is terminal and left alone; one past
\* its window is deleted.
Refreshable(s) == sess[s].rt # NoToken

ReadSession(r) ==
  LET s == req[r].sid
      ours == Exists(s) /\ Refreshable(s) /\ SessionMatches(s, req[r].who)
  IN
  /\ req[r].pc = "read"
  /\ \/ /\ ~ours
        /\ Conclude(r, "terminal")
        /\ UNCHANGED sess
     \/ /\ ours /\ ~WindowOpen(sess[s].created)
        /\ sess' = Deleted(s)
        /\ Conclude(r, "terminal")
     \/ /\ ours /\ WindowOpen(sess[s].created)
        /\ req' = [req EXCEPT ![r].pc = "issuer", ![r].got = sess[s]]
        /\ UNCHANGED sess
  /\ UNCHANGED <<now, lock, grant, replaced, scan, faults, historyVars>>

Fresh(r) ==
  ~grant[req[r].sid].revoked /\ req[r].got.rt = grant[req[r].sid].rt

\* The issuer rotates the refresh token and returns new tokens.  The new access
\* or ID token may turn out invalid, or to have changed identity.
IssuerRotates(r) ==
  /\ req[r].pc = "issuer" /\ Fresh(r) /\ req[r].got.rt < MaxToken
  /\ grant' = [grant EXCEPT ![req[r].sid].rt = @ + 1]
  /\ \E place \in {"store", "unusable"} : Goes(r, place)
  /\ UNCHANGED <<now, sess, lock, replaced, scan, faults, historyVars>>

\* invalid_grant: the grant was revoked, or this token was already used and the
\* issuer revokes the grant now.
IssuerRejects(r) ==
  LET s == req[r].sid IN
  /\ req[r].pc = "issuer" /\ ~Fresh(r)
  /\ grant' = [grant EXCEPT ![s].revoked = TRUE]
  /\ reused' = reused \cup (IF req[r].got.rt # grant[s].rt THEN {s} ELSE {})
  /\ Goes(r, "rejected")
  /\ UNCHANGED <<now, sess, lock, replaced, scan, faults, born, ended, spent,
                 stale>>

\* The issuer cannot be reached or answers with an error: transient.
IssuerUnavailable(r) ==
  /\ req[r].pc = "issuer"
  /\ Conclude(r, "transient")
  /\ UNCHANGED <<now, sess, lock, grant, replaced, scan, faults, historyVars>>

\* The issuer rotates the token but its answer is lost: also transient.
IssuerAnswerLost(r) ==
  /\ req[r].pc = "issuer" /\ Fresh(r) /\ req[r].got.rt < MaxToken
  /\ faults < MaxFaults
  /\ faults' = faults + 1
  /\ grant' = [grant EXCEPT ![req[r].sid].rt = @ + 1]
  /\ spent' = spent \cup {req[r].sid}
  /\ Conclude(r, "transient")
  /\ UNCHANGED <<now, sess, lock, replaced, scan, born, ended, reused, stale>>

\* delete_session after a rejected or an unusable refresh; terminal.
DeleteRejected(r) ==
  /\ req[r].pc \in {"rejected", "unusable"}
  /\ sess' = Deleted(req[r].sid)
  /\ Conclude(r, "terminal")
  /\ UNCHANGED <<now, lock, grant, replaced, scan, faults, historyVars>>

\* store_session(require_existing=True), with the creation time and the subject
\* of the session that was read; past the window it deletes instead.
StoreRefreshed(r) ==
  LET s == req[r].sid
      old == req[r].got
  IN
  /\ req[r].pc = "store"
  /\ \/ /\ WindowOpen(old.created) /\ MayReplace(s)
        /\ sess' = [sess EXCEPT ![s] = Stored(old.sub, old.rt + 1, old.rt + 1,
                                                 old.created)]
        /\ Conclude(r, "success")
     \/ /\ WindowOpen(old.created) /\ ~MayReplace(s)
        /\ Conclude(r, "terminal")
        /\ UNCHANGED sess
     \/ /\ ~WindowOpen(old.created)
        /\ sess' = Deleted(s)
        /\ Conclude(r, "terminal")
  /\ UNCHANGED <<now, lock, grant, replaced, scan, faults, historyVars>>

\* _release_refresh_lock: WATCH, compare with the own value, DEL.
MayReleaseAnyLock(r) == TRUE
MayRelease(r) == lock[req[r].sid] = r

ReleaseLock(r) ==
  /\ req[r].pc = "release"
  /\ lock' = IF MayRelease(r) THEN [lock EXCEPT ![req[r].sid] = NoOne] ELSE lock
  /\ Return(r, req[r].result)
  /\ UNCHANGED <<now, sess, grant, replaced, scan, faults, historyVars>>

(* A request that lost the race: _wait_for_concurrent_refresh              *)

ForeignIgnored(r) == FALSE
Foreign(r) == Exists(req[r].sid) /\ ~SessionMatches(req[r].sid, req[r].who)
NewToken(r) == Exists(req[r].sid) /\ sess[req[r].sid].at # req[r].prev

\* One round of polling reads the session ...
Poll(r) ==
  /\ req[r].pc = "poll"
  /\ IF Foreign(r) THEN Return(r, "terminal")
     ELSE IF NewToken(r) THEN Return(r, "success")
     ELSE Goes(r, "probe")
  /\ UNCHANGED <<now, sess, lock, grant, replaced, scan, faults, historyVars>>

\* ... and then looks whether the lock is still there, until the deadline.
NeverTooLate(r) == FALSE
TooLate(r) == req[r].polls = PollRounds

Probe(r) ==
  /\ req[r].pc = "probe"
  /\ IF LockFree(req[r].sid) \/ TooLate(r)
     THEN Goes(r, "final")
     ELSE req' = [req EXCEPT ![r].pc = "poll",
                             ![r].polls = SmallerOf(@ + 1, PollRounds)]
  /\ UNCHANGED <<now, sess, lock, grant, replaced, scan, faults, historyVars>>

\* Without a new token, only a session that is gone ends the login.
VerdictAlwaysTerminal(r) ==
  IF Foreign(r) THEN "terminal" ELSE IF NewToken(r) THEN "success"
  ELSE "terminal"
Verdict(r) ==
  IF Foreign(r) THEN "terminal" ELSE IF NewToken(r) THEN "success"
  ELSE IF Exists(req[r].sid) THEN "transient" ELSE "terminal"

FinalRead(r) ==
  /\ req[r].pc = "final"
  /\ Return(r, Verdict(r))
  /\ UNCHANGED <<now, sess, lock, grant, replaced, scan, faults, historyVars>>

(* Back in _authenticate                                                   *)

\* The refreshed token is valid, or not (it may have expired meanwhile): then
\* the session is deleted and the outcome is terminal.
ValidateToken(r) ==
  /\ req[r].pc = "validate"
  /\ \/ Goes(r, "answer") /\ UNCHANGED sess
     \/ sess' = Deleted(req[r].sid) /\ Return(r, "terminal")
  /\ UNCHANGED <<now, lock, grant, replaced, scan, faults, historyVars>>

\* The response is sent; the browser may send another request.
Respond(r) ==
  /\ req[r].pc = "answer"
  /\ req' = [req EXCEPT ![r] = Idle]
  /\ stale' = stale \ {r}
  /\ UNCHANGED <<now, sess, lock, grant, replaced, scan, faults, born, ended,
                 reused, spent>>

(* Faults                                                                  *)

\* After one of these places fails, the session may keep a token already used.
Losing == {"store", "unusable"}
SpentBy(r) == IF req[r].pc \in Losing THEN {req[r].sid} ELSE {}

\* A Redis call fails: 503.  With the lock, "finally" still releases it; only
\* the deletion of a rejected session swallows the error and stays terminal.
RedisError(r) ==
  /\ req[r].pc \in ({"acquire", "validate"} \cup Critical \cup Waiting)
                      \ {"issuer"}
  /\ faults < MaxFaults
  /\ faults' = faults + 1
  /\ \/ req[r].pc = "rejected" /\ Conclude(r, "terminal")
     \/ /\ req[r].pc \in Critical \ {"rejected", "release"}
        /\ Conclude(r, "unavailable")
     \/ /\ req[r].pc \in {"acquire", "validate", "release"} \cup Waiting
        /\ Return(r, "unavailable")
  /\ spent' = spent \cup SpentBy(r)
  /\ UNCHANGED <<now, sess, lock, grant, replaced, scan, born, ended, reused,
                 stale>>

\* The worker stops: the lock stays until it expires.
Crash(r) ==
  /\ req[r].pc \in Critical
  /\ faults < MaxFaults
  /\ faults' = faults + 1
  /\ req' = [req EXCEPT ![r] = Idle]
  /\ spent' = spent \cup SpentBy(r)
  /\ UNCHANGED <<now, sess, lock, grant, replaced, scan, born, ended, reused,
                 stale>>

\* The lock's time to live passes.  It covers every timeout of a refresh, so
\* that it runs out under a live holder is a fault.
LockExpires(s) ==
  LET holders == {r \in Request : lock[s] = r /\ req[r].sid = s
                                    /\ req[r].pc \in Critical}
  IN
  /\ lock[s] # NoOne
  /\ lock' = [lock EXCEPT ![s] = NoOne]
  /\ \/ holders = {} /\ UNCHANGED <<faults, stale, spent>>
     \/ /\ holders # {} /\ faults < MaxFaults
        /\ faults' = faults + 1
        /\ stale' = stale \cup holders
        /\ spent' = spent \cup {s}
  /\ UNCHANGED <<now, sess, grant, req, replaced, scan, born, ended, reused>>

-----------------------------------------------------------------------------
(* Logins, logouts, revocation, and time                                   *)

\* oauth_callback stores a new session, with a refresh token if the issuer gave
\* one, then deletes the one its browser had if that belongs to the same identity.
Login(s) ==
  /\ born[s] = -1
  /\ born' = [born EXCEPT ![s] = now]
  /\ \E rt \in {0, NoToken} :
       sess' = [sess EXCEPT ![s] = Stored(Owner[s], rt, 0, now)]
  /\ \/ UNCHANGED replaced
     \/ \E old \in Sid \ {s} : /\ Exists(old) /\ SessionMatches(old, Owner[s])
                               /\ replaced' = replaced \cup {old}
  /\ UNCHANGED <<now, lock, grant, req, scan, faults, ended, reused, spent,
                 stale>>

DeleteReplaced(s) ==
  /\ s \in replaced
  /\ replaced' = replaced \ {s}
  /\ sess' = Deleted(s)
  /\ ended' = ended \cup {s}
  /\ UNCHANGED <<now, lock, grant, req, scan, faults, born, reused, spent,
                 stale>>

\* logout deletes the session of a matching pair of cookies; while the issuer's
\* keys are unavailable, that of the exact access token stored in it.
Logout(s, id, token, issuerUp) ==
  /\ Exists(s)
  /\ IF issuerUp THEN SessionMatches(s, id)
     ELSE id = Owner[s] /\ token = sess[s].at
  /\ sess' = Deleted(s)
  /\ ended' = ended \cup {s}
  /\ UNCHANGED <<now, lock, grant, req, replaced, scan, faults, born, reused,
                 spent, stale>>

\* delete_sessions_for_subject: SCAN returns every key that exists throughout.
RevokeStart(id) ==
  /\ scan.sub = NoOne
  /\ scan' = [keys |-> {s \in Sid : Exists(s)}, sub |-> id,
              due |-> {s \in Sid : Exists(s) /\ Owner[s] = id}]
  /\ UNCHANGED <<now, sess, lock, grant, req, replaced, faults, historyVars>>

\* Read a key and delete it when it belongs to the identity.
RevokeKey(s) ==
  /\ s \in scan.keys
  /\ scan' = [scan EXCEPT !.keys = @ \ {s}]
  /\ sess' = IF SessionMatches(s, scan.sub) THEN Deleted(s) ELSE sess
  /\ UNCHANGED <<now, lock, grant, req, replaced, faults, historyVars>>

\* The command reports success: every session there was at its start is ended.
RevokeEnd ==
  /\ scan.sub # NoOne /\ scan.keys = {}
  /\ scan' = NoScan
  /\ ended' = ended \cup scan.due
  /\ UNCHANGED <<now, sess, lock, grant, req, replaced, faults, born, reused,
                 spent, stale>>

\* A Redis error ends the scan; the command reports the failure.
RevokeFails ==
  /\ scan.sub # NoOne
  /\ faults < MaxFaults
  /\ faults' = faults + 1
  /\ scan' = NoScan
  /\ UNCHANGED <<now, sess, lock, grant, req, replaced, historyVars>>

\* Times to live are whole seconds, rounded up: a key may outlive its window
\* by less than one tick.
Tick ==
  /\ now < MaxTime
  /\ \A s \in Sid : Exists(s) => sess[s].expires > now
  /\ now' = now + 1
  /\ UNCHANGED <<sess, lock, grant, req, replaced, scan, faults, historyVars>>

Expire(s) ==
  /\ Exists(s) /\ sess[s].expires <= now
  /\ sess' = Deleted(s)
  /\ UNCHANGED <<now, lock, grant, req, replaced, scan, faults, historyVars>>

-----------------------------------------------------------------------------
Init ==
  /\ now = 0
  /\ sess = [s \in Sid |-> NoSession]
  /\ lock = [s \in Sid |-> NoOne]
  /\ grant = [s \in Sid |-> [rt |-> 0, revoked |-> FALSE]]
  /\ req = [r \in Request |-> Idle]
  /\ replaced = {}
  /\ scan = NoScan
  /\ faults = 0
  /\ born = [s \in Sid |-> -1]
  /\ ended = {}
  /\ reused = {}
  /\ spent = {}
  /\ stale = {}

\* What request r does on its own, with the issuer's answers.
Step(r) ==
  \/ AcquireLock(r) \/ ReadSession(r)
  \/ IssuerRotates(r) \/ IssuerRejects(r) \/ IssuerUnavailable(r)
  \/ DeleteRejected(r) \/ StoreRefreshed(r) \/ ReleaseLock(r)
  \/ Poll(r) \/ Probe(r) \/ FinalRead(r)
  \/ ValidateToken(r) \/ Respond(r)

Next ==
  \/ \E r \in Request :
       \/ \E s \in Sid, id \in Identity, token \in Token :
            BeginRefresh(r, s, id, token)
       \/ Step(r)
       \/ IssuerAnswerLost(r) \/ RedisError(r) \/ Crash(r)
  \/ \E s \in Sid :
       \/ LockExpires(s) \/ Login(s) \/ DeleteReplaced(s)
       \/ \E id \in Identity, token \in Token, issuerUp \in BOOLEAN :
            Logout(s, id, token, issuerUp)
       \/ RevokeKey(s) \/ Expire(s)
  \/ \E id \in Identity : RevokeStart(id)
  \/ RevokeEnd \/ RevokeFails \/ Tick

Spec == Init /\ [][Next]_vars

\* A request's thread runs on: every call it makes has a timeout.
Fairness == \A r \in Request : WF_vars(Step(r))
FairSpec == Spec /\ Fairness

-----------------------------------------------------------------------------
(* Properties                                                              *)

\* Type correctness of the state in Redis, at the issuer and in the requests.
TypeOK ==
  /\ now \in 0..MaxTime /\ faults \in 0..MaxFaults
  /\ sess \in [Sid -> Session]
  /\ lock \in [Sid -> Request \cup {NoOne}]
  /\ grant \in [Sid -> [rt : Token, revoked : BOOLEAN]]
  /\ req \in [Request -> [pc : Place, sid : Sid \cup {NoOne},
                          who : Identity \cup {NoOne}, prev : Token,
                          got : Session, polls : 0..PollRounds,
                          result : Outcome]]
  /\ \A r \in Request : req[r].pc = "validate" => req[r].result = "success"
  /\ replaced \subseteq Sid
  /\ scan \in [keys : SUBSET Sid, due : SUBSET Sid,
               sub : Identity \cup {NoOne}]
  /\ born \in [Sid -> -1..MaxTime]
  /\ ended \subseteq Sid /\ reused \subseteq Sid /\ spent \subseteq Sid
  /\ stale \subseteq Request

\* A session that a logout, a replacing login or a completed revoke-identity
\* ended never comes back, whatever refreshes of it are in flight: the SET XX
\* of store_session.
NoResurrection == \A s \in ended : ~Exists(s)

\* However often a session is refreshed, it expires at most SessionTTL after
\* the login that created it: the bounded time to live of store_session.  With
\* the type of the state, its times above all.
AbsoluteCap ==
  /\ TypeOK
  /\ \A s \in Sid : Exists(s) => sess[s].expires <= born[s] + SessionTTL

\* A request between acquiring and releasing the refresh lock has it, unless
\* it expired under it: a slow request never releases its successor's lock.
HolderOwnsLock ==
  \A r \in Request : req[r].pc \in Critical /\ r \notin stale
                       => lock[req[r].sid] = r

\* A refresh token is presented to the issuer twice, which revokes the login,
\* only after a rotated token was lost in a fault or the lock expired under its
\* holder: what the lock of refresh_session is for.
ReuseOnlyAfterFault == reused \subseteq spent

\* A terminal answer to a request whose cookies belong together, which makes
\* the browser drop them, means that no refresh of the session can ever succeed
\* again: it is gone, rejected by the issuer, or was stored by a login that got
\* no refresh token.  Only in the last case does a session stay in Redis that the
\* issuer has not rejected (sessions.py:398), until its time to live has passed.
Over(s) == ~Exists(s) \/ grant[s].revoked \/ sess[s].rt = NoToken

TerminalMeansGone ==
  \A r \in Request :
    LET s == req[r].sid IN
    req[r].result = "terminal" /\ req[r].who = Owner[s] => Over(s)

\* A request gets a token of its own identity only, as the winner and as the
\* loser of the race, even if its session cookie is another identity's.
OwnIdentityOnly ==
  \A r \in Request : req[r].result = "success" => req[r].who = Owner[req[r].sid]

\* A request whose two cookies belong to different identities never changes
\* the session it points to, nor uses its refresh token.
MismatchLeavesSession ==
  [][\A r \in Request :
       /\ req[r].pc # "idle" /\ req[r].who # Owner[req[r].sid]
       /\ req'[r] # req[r]
       => sess' = sess /\ grant' = grant]_vars

\* Every request is answered, also the one that waits for a winner that has
\* crashed and whose lock never expires.
RequestAnswered ==
  \A r \in Request : req[r].pc # "idle" ~> req[r].pc = "idle"
=============================================================================
