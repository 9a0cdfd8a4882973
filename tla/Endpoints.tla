----------------------------- MODULE Endpoints ------------------------------
(***************************************************************************)
(* A request through the API: the rate limit, the guards of its handler    *)
(* (Handlers), its body, the call to whoever does the work, its answer.    *)
(*                                                                         *)
(* The workflow-controller, GitLab and the others are asked over HTTP: they *)
(* do the work or refuse it, their answer may be unreadable, may not come  *)
(* in time or at all, and what was asked for may still happen afterwards.  *)
(* Between two steps of a request other requests take theirs, and a new    *)
(* run may become the one that a bare name means.                          *)
(*                                                                         *)
(* A workflow is named by its UUID, here the run itself, or by its name.   *)
(* The lease of a lock, the submission of workflows and their deletion are *)
(* in WorkspaceLocks, Scheduler and WorkflowFamily.                        *)
(***************************************************************************)
EXTENDS Handlers, Sequences

CONSTANTS
  Client,
  Run,          \* the runs of one user's workflow
  Workspace,    \* Workspace[w]: the directory of a run
  Bare,         \* the name of the workflow
  NoKey

ASSUME EndpointsAssumption ==
  /\ Workspace \in [Run -> Run]
  /\ Bare \notin Run /\ NoKey \notin Run \cup {Bare}

VARIABLES
  latest,       \* the run that Bare means
  req           \* req[c]: the request of c

endpointVars == <<latest, req>>

Identifier == Run \cup {Bare}
Person == {"owner", "sharee", "stranger"}

\* What the validation of a credential may find.
Definitive == {"undecodable", "noSession", "terminal", "unusable"}
Temporary == {"transient", "unavailable", "backoff"}
Verdict == {"good", "invalid", "misconfigured", "noRole", "csrf", "unprovisioned"}
             \cup Definitive \cup Temporary

\* One request.  `effect` is how far what it changes has come, `key` the lock it
\* holds; `late` says that the server no longer waits for what it has asked for,
\* and `clear` that it has understood the answer.
Idle ==
  [pc |-> "idle", name |-> "ping", method |-> "GET", who |-> "stranger",
   id |-> Bare, stage |-> 1, key |-> NoKey, target |-> NoKey,
   effect |-> "none", late |-> FALSE, clear |-> TRUE, code |-> Forwarded,
   how |-> "nothing", finding |-> "good", csrf |-> FALSE,
   refreshed |-> FALSE, admitted |-> FALSE, cookies |-> "kept"]

EndpointsInit == latest \in Run /\ req = [c \in Client |-> Idle]

H(c) == Handler[req[c].name]
Is(c, place) == req[c].pc = place
Changing(c) == /\ H(c).changes # "nothing"
               /\ req[c].method = "GET" => H(c).methods = {"GET"}

Goes(c, place) == req' = [req EXCEPT ![c].pc = place]
\* Leaves the handler and its guards, the lock included.  A token refreshed on
\* the way in goes out with every answer.
AnswersWith(c, code, clear, late) ==
  req' = [req EXCEPT ![c].pc = "answered", ![c].code = code, ![c].key = NoKey,
            ![c].clear = clear, ![c].late = late,
            ![c].cookies = IF req[c].admitted /\ req[c].refreshed
                           THEN "renewed" ELSE @]
Answers(c, code) == AnswersWith(c, code, TRUE, FALSE)

-----------------------------------------------------------------------------
(* The guards                                                              *)

Arrive(c, name, method, who, id) ==
  /\ Is(c, "idle") /\ method \in Handler[name].methods
  /\ req' = [req EXCEPT ![c] =
       [Idle EXCEPT !.pc = "guard", !.name = name, !.method = method,
                    !.who = who, !.id = id]]
  /\ UNCHANGED latest

\* The rate limit comes before everything.
handle_rate_limit_error(c) ==
  /\ Is(c, "guard") /\ req[c].stage = 1
  /\ Answers(c, 429)
  /\ UNCHANGED latest

Faces(c, guard) ==
  /\ Is(c, "guard") /\ req[c].stage <= Len(H(c).via)
  /\ H(c).via[req[c].stage] = guard
Passes(c) == req' = [req EXCEPT ![c].stage = @ + 1]
Passed(c) == Is(c, "guard") /\ req[c].stage > Len(H(c).via)

\* webargs and handle_args_validation_error.
ParseArguments(c) ==
  /\ Faces(c, "args")
  /\ Passes(c) \/ Answers(c, 400)
  /\ UNCHANGED latest

check_quota(c) ==
  /\ Faces(c, "quota")
  /\ Passes(c) \/ \E code \in {403, 500} : Answers(c, code)
  /\ UNCHANGED latest

check_quota_management_secret(c) ==
  /\ Faces(c, "secret")
  /\ Passes(c) \/ \E code \in {403, 401} : Answers(c, code)
  /\ UNCHANGED latest

\* What a name means now to the one who asks; only the owner has it.
Meant(c) == IF req[c].id = Bare THEN latest ELSE req[c].id

\* The workflow is looked up for its owner to find the lock to take; whatever
\* is not found is locked by its name.
LockKeyAsNamed(c) == req[c].id
LockKey(c) == IF req[c].who = "owner" THEN Workspace[Meant(c)] ELSE req[c].id
LockFree(key) == \A c \in Client : req[c].key # key

serialize_workspace_mutation(c) ==
  /\ Faces(c, "lock")
  /\ \/ /\ LockFree(LockKey(c))
        /\ req' = [req EXCEPT ![c].stage = @ + 1, ![c].key = LockKey(c)]
     \/ ~LockFree(LockKey(c)) /\ Answers(c, 409)
     \/ Answers(c, 503)
  /\ UNCHANGED latest

-----------------------------------------------------------------------------
(* The sign-in: signin_required, _authenticate                             *)

\* The answer to what was found; a role that is missing after a refresh still
\* installs the new token.
CodeOf(how, finding) ==
  CASE finding \in Definitive \cup {"invalid"} -> 401
    [] finding = "backoff" -> IF how = "bearer" THEN 401 ELSE 503
    [] finding \in {"transient", "unavailable"} -> 503
    [] finding \in {"noRole", "csrf", "unprovisioned"} -> 403
    [] OTHER -> 500
ClearsOnDoubt(finding) == finding \in Definitive \cup Temporary
Clears(finding) == finding \in Definitive

Rejects(c, how, finding) ==
  req' = [req EXCEPT ![c].pc = "answered", ![c].code = CodeOf(how, finding),
            ![c].how = how, ![c].finding = finding,
            ![c].cookies = IF Clears(finding) THEN "cleared"
                           ELSE IF finding = "noRole" /\ req[c].refreshed
                                THEN "renewed" ELSE @]
Continues(c, how, place) ==
  req' = [req EXCEPT ![c].pc = place, ![c].how = how]

\* A bearer token comes first.
BearerSignIn(c) ==
  /\ Faces(c, "signin")
  /\ \/ Continues(c, "bearer", "authorize")
     \/ \E f \in {"invalid", "backoff", "unavailable", "misconfigured"} :
          Rejects(c, "bearer", f)
  /\ UNCHANGED latest

\* Then the cookie, which a request that changes something must prove its own;
\* one that is rejected may only have expired.
CookieSignIn(c) ==
  /\ Faces(c, "signin")
  /\ \/ req[c].method \notin SafeMethod /\ Rejects(c, "cookie", "csrf")
     \/ \E place \in {"authorize", "refresh"} :
          req' = [req EXCEPT ![c].pc = place, ![c].how = "cookie",
                             ![c].csrf = TRUE]
     \/ /\ req[c].method \in SafeMethod
        /\ \E place \in {"authorize", "refresh"} :
             Continues(c, "cookie", place)
     \/ \E f \in {"backoff", "unavailable", "misconfigured"} :
          Rejects(c, "cookie", f)
  /\ UNCHANGED latest

\* The token is not merely expired, there is no session, it has ended, or it
\* yields a token that is not valid; or one of them cannot be found out now.
RefreshToken(c) ==
  /\ Is(c, "refresh")
  /\ \/ req' = [req EXCEPT ![c].pc = "authorize", ![c].refreshed = TRUE]
     \/ \E f \in Definitive \cup Temporary \cup {"misconfigured"} :
          Rejects(c, "cookie", f)
  /\ UNCHANGED latest

\* Last the secret of a GitLab webhook, where the handler takes it.
GitLabSignIn(c) ==
  /\ Faces(c, "signin") /\ H(c).gitlab
  /\ \/ req' = [req EXCEPT ![c].stage = @ + 1, ![c].how = "gitlab",
                           ![c].admitted = TRUE]
     \/ Rejects(c, "gitlab", "invalid")
  /\ UNCHANGED latest

NotSignedIn(c) ==
  /\ Faces(c, "signin")
  /\ Rejects(c, "nothing", "invalid")
  /\ UNCHANGED latest

\* The role, then the account.
Authorize(c) ==
  /\ Is(c, "authorize")
  /\ \/ req' = [req EXCEPT ![c].pc = "guard", ![c].stage = @ + 1,
                           ![c].admitted = TRUE]
     \/ \E f \in {"noRole", "unprovisioned", "unavailable", "misconfigured"} :
          Rejects(c, req[c].how, f)
  /\ UNCHANGED latest

-----------------------------------------------------------------------------
(* The body                                                                *)

Refuse(c) ==
  /\ Passed(c)
  /\ \E code \in H(c).refuses : Answers(c, code)
  /\ UNCHANGED latest

MayFindShared(who, finds) == who \in {"owner", "sharee"}
MayFind(who, finds) ==
  who = "owner" \/ (who = "sharee" /\ finds = "shared")

\* Looked up here, again if the lock has done so before.
Find(c) ==
  /\ Passed(c) /\ H(c).finds # "nothing"
  /\ IF MayFind(req[c].who, H(c).finds)
     THEN req' = [req EXCEPT ![c].pc = "found", ![c].target = Meant(c)]
     ELSE Answers(c, H(c).missing)
  /\ UNCHANGED latest

Lack(c) ==
  /\ Is(c, "found") \/ (Passed(c) /\ H(c).finds = "nothing")
  /\ \E code \in H(c).lacks : Answers(c, code)
  /\ UNCHANGED latest

\* A change of the handler's own that is still to be made is committed first.
Ask(c) ==
  /\ Is(c, "found") \/ (Passed(c) /\ H(c).finds = "nothing")
  /\ \/ Goes(c, "asked")
     \/ /\ req[c].method \in H(c).prepares
        /\ req' = [req EXCEPT ![c].pc = "asked", ![c].effect = "prepared"]
  /\ UNCHANGED latest

\* What has been asked for has not begun.
Unasked == {"none", "prepared"}

\* The work begins, at the controller after looking up the name once more, and
\* perhaps after the server has given up waiting.
Begin(c) ==
  /\ Is(c, "asked") \/ (Is(c, "answered") /\ req[c].late)
  /\ Changing(c) /\ req[c].effect \in Unasked
  /\ H(c).asks = "controller" => req[c].who = "owner"
  /\ req' = [req EXCEPT ![c].effect = "running",
                        ![c].target = IF @ = NoKey THEN Meant(c) ELSE @]
  /\ UNCHANGED latest

Complete(c) ==
  /\ req[c].effect = "running"
  /\ req' = [req EXCEPT ![c].effect = "done"]
  /\ UNCHANGED latest

Succeeded(c) == Is(c, "asked") /\ (Changing(c) => req[c].effect = "done")

Succeed(c) ==
  /\ Succeeded(c)
  /\ \E code \in H(c).ok : Answers(c, code)
  /\ UNCHANGED latest

\* except ValueError, or whatever takes an answer that cannot be read.
Garble(c) ==
  /\ Succeeded(c)
  /\ \E code \in H(c).garbled : AnswersWith(c, code, FALSE, FALSE)
  /\ UNCHANGED latest

\* except HTTPError.
BeRefused(c) ==
  /\ Is(c, "asked") /\ req[c].effect \in Unasked /\ H(c).asks # "nobody"
  /\ \E code \in {H(c).refused} \cup H(c).badError : Answers(c, code)
  /\ UNCHANGED latest

\* except BravadoTimeoutError, RequestException.
TimeOut(c) ==
  /\ Is(c, "asked")
  /\ \E code \in H(c).timeout : AnswersWith(c, code, TRUE, TRUE)
  /\ UNCHANGED latest

\* except Exception: the connection breaks, or the work done here in the middle.
Break(c) ==
  /\ Is(c, "asked") /\ H(c).asks # "nobody"
  /\ \E code \in H(c).lost : AnswersWith(c, code, TRUE, TRUE)
  /\ UNCHANGED latest

BreakHere(c) ==
  /\ Is(c, "asked") /\ H(c).asks = "nobody"
  /\ \E code \in H(c).lost :
       req' = [req EXCEPT ![c].pc = "answered", ![c].code = code,
                 ![c].key = NoKey,
                 ![c].effect = IF @ = "running" THEN "partial" ELSE @,
                 ![c].cookies = IF req[c].refreshed THEN "renewed" ELSE @]
  /\ UNCHANGED latest

Leave(c) ==
  /\ Is(c, "answered") /\ req[c].effect # "running"
  /\ req' = [req EXCEPT ![c] = Idle]
  /\ UNCHANGED latest

\* Somebody creates another run of the name.
NewRun ==
  /\ latest' \in Run \ {latest}
  /\ UNCHANGED req

Step(c) ==
  \/ handle_rate_limit_error(c) \/ ParseArguments(c) \/ check_quota(c)
  \/ check_quota_management_secret(c) \/ serialize_workspace_mutation(c)
  \/ BearerSignIn(c) \/ CookieSignIn(c) \/ RefreshToken(c) \/ GitLabSignIn(c)
  \/ NotSignedIn(c) \/ Authorize(c) \/ Refuse(c) \/ Find(c) \/ Lack(c)
  \/ Ask(c) \/ Begin(c) \/ Complete(c) \/ Succeed(c) \/ Garble(c)
  \/ BeRefused(c) \/ TimeOut(c) \/ Break(c) \/ BreakHere(c) \/ Leave(c)

EndpointsNext ==
  \/ \E c \in Client :
       \/ \E name \in DOMAIN Handler, who \in Person, id \in Identifier :
            \E method \in Handler[name].methods :
              Arrive(c, name, method, who, id)
       \/ Step(c)
  \/ NewRun

EndpointsSpec == EndpointsInit /\ [][EndpointsNext]_endpointVars

-----------------------------------------------------------------------------
(* Properties                                                              *)

EndpointsTypeOK ==
  /\ latest \in Run
  /\ req \in [Client ->
       [pc : {"idle", "guard", "refresh", "authorize", "found", "asked",
              "answered"},
        name : DOMAIN Handler, method : {"GET", "POST", "PUT", "PATCH", "DELETE"},
        who : Person, id : Identifier, stage : 1..5,
        key : Identifier \cup {NoKey}, target : Run \cup {NoKey},
        effect : {"none", "prepared", "running", "done", "partial"},
        late : BOOLEAN,
        clear : BOOLEAN, code : {Forwarded} \cup 200..599,
        how : {"nothing", "bearer", "cookie", "gitlab"}, finding : Verdict,
        csrf : BOOLEAN, refreshed : BOOLEAN, admitted : BOOLEAN,
        cookies : {"kept", "cleared", "renewed"}]]

Answered(c) == Is(c, "answered")
Success(code) == code \in 200..399
Refusal(code) == code \in 400..499

\* Codes a handler gives although its specification does not list them, besides
\* that of the rate limit: a page that is not a number in the list of projects,
\* a body of secrets that is not JSON.
Undeclared == {<<"gitlab_projects", 400>>, <<"add_secrets", 415>>,
               <<"delete_secrets", 400>>, <<"delete_secrets", 415>>}

\* The handlers that answer with 403 also when a ValueError ends their own work,
\* in the middle or at its end.
Enclosing == {"prune_workspace", "add_secrets", "delete_secrets"}

\* A refusal that has left something behind all the same: such a 403, or, when
\* GitLab refuses a webhook, the secret that has been committed for it.
RefusedTooLate(c) ==
  \/ req[c].code = 403 /\ req[c].name \in Enclosing
  \/ /\ req[c].effect = "prepared" /\ ~req[c].late
     /\ req[c].name = "gitlab_webhook" /\ req[c].method = "POST"

\* What a handler answers itself is in its specification.  A success means that
\* what it changes has changed (a start, a creation and a deletion aside, which
\* are in WorkflowFamily; gitlab_oauth without a code changes nothing), and a
\* refusal that nothing has or will, unless the answer of a success could not
\* be read, or the refusal is one of those of RefusedTooLate.  Secrets go to the
\* owner, data to those it is shared with.  With the type of the state.
AnswersHonest ==
  /\ EndpointsTypeOK
  /\ \A c \in Client : Answered(c) =>
       LET h == H(c)  code == req[c].code IN
       /\ code \in h.declared \cup {Forwarded, 429}
            \/ <<req[c].name, code>> \in Undeclared
       /\ Changing(c) /\ h.changes # "family" =>
            /\ Success(code) => \/ req[c].effect = "done"
                                \/ req[c].name = "gitlab_oauth" /\ code = 200
            /\ Refusal(code) => \/ req[c].effect = "none" /\ ~req[c].late
                                \/ ~req[c].clear /\ req[c].effect = "done"
                                \/ RefusedTooLate(c)
       /\ h.finds # "nothing" /\ Success(code) =>
            \/ req[c].who = "owner"
            \/ req[c].who = "sharee" /\ h.gives = "data"

\* The browser's cookies are cleared by a definitive verdict and by nothing
\* else; what cannot be found out now answers a browser with 503.  A request
\* that gets through a guarded handler is signed in, with the proof of the
\* browser if it changes something, with a webhook's secret only to create a
\* workflow; and a token that was refreshed for it reaches the browser.
SignInHonest ==
  \A c \in Client :
    LET r == req[c]
        through == r.pc \in {"found", "asked"} \/ r.effect # "none" IN
    /\ Answered(c) => (r.cookies = "cleared" <=> r.finding \in Definitive)
    /\ Answered(c) /\ r.how = "cookie" /\ r.finding \in Temporary => r.code = 503
    /\ through /\ H(c).via # <<>> /\ H(c).via # <<"secret">> => r.admitted
    /\ through /\ r.how = "cookie" /\ r.method \notin SafeMethod => r.csrf
    /\ through /\ r.how = "gitlab" => r.name = "create_workflow"
    /\ Answered(c) /\ r.admitted => (r.cookies = "renewed" <=> r.refreshed)

Mutates(c) == H(c).changes = "workspace" /\ req[c].effect = "running"
\* The lock of a request whose bare name meant another run when it was taken.
Mislocked(c) ==
  /\ req[c].id = Bare /\ req[c].key \in Run
  /\ req[c].key # Workspace[req[c].target]

\* Two changes of one workspace never overlap, except with one that the server
\* has given up waiting for, or whose bare name came to mean a new run between
\* the lock and the change.
MutationsExclusive ==
  \A c, d \in Client :
    c # d /\ Mutates(c) /\ Mutates(d)
      /\ Workspace[req[c].target] = Workspace[req[d].target] =>
      \E e \in {c, d} : req[e].late \/ Mislocked(e)
=============================================================================
