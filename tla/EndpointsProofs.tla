--------------------------- MODULE EndpointsProofs ---------------------------
(* Changes of a workspace exclude each other, a request is signed in as its  *)
(* handler demands and is answered honestly, for every number of clients and *)
(* runs and whatever runs share a workspace.                                 *)
EXTENDS Endpoints, TLAPS

USE EndpointsAssumption

-----------------------------------------------------------------------------
(* What is true of every handler                                           *)

Codes == 200..599
Successes == 200..399
Refusals == 400..499
Faults == 500..599
Failures == 400..599
Method == {"GET", "POST", "PUT", "PATCH", "DELETE"}

\* The codes the handler may answer.
Answerable(name, h) ==
  h.declared \cup {Forwarded, 429} \cup {code \in Codes : <<name, code>> \in Undeclared}

\* What its guards answer it may answer; it is signed in to once, unless it is
\* open or behind the secret, and locked last.
GuardsSound(name, h) ==
  /\ Len(h.via) \in 0..4
  /\ \A k \in 1..Len(h.via) :
       /\ h.via[k] = "signin" => SignInCodes \subseteq Answerable(name, h)
       /\ h.via[k] = "args" => 400 \in Answerable(name, h)
       /\ h.via[k] = "quota" => {403, 500} \subseteq Answerable(name, h)
       /\ h.via[k] = "secret" => {401, 403} \subseteq Answerable(name, h)
       /\ h.via[k] = "lock" => {409, 503} \subseteq Answerable(name, h)
       /\ \A l \in 1..Len(h.via) :
            h.via[k] = "signin" /\ h.via[l] = "signin" => k = l
       /\ h.via[k] = "lock" => k = Len(h.via)
  /\ h.via # <<>> /\ h.via # <<"secret">> =>
       \E k \in 1..Len(h.via) : h.via[k] = "signin"
  /\ h.changes = "workspace" =>
       /\ Len(h.via) >= 1 /\ h.via[Len(h.via)] = "lock"
       /\ h.asks = "controller" \/ h.finds = "owned"
  /\ h.gitlab => name = "create_workflow"

\* What its body answers it may answer, a success only for what has succeeded,
\* and no refusal for what is not known to have failed, the handlers of Enclosing
\* aside; only one handler changes something before it asks.
BodySound(name, h) ==
  /\ h.methods \subseteq Method
  /\ h.declared \subseteq Codes
  /\ h.finds \in {"nothing", "owned", "shared"}
  /\ h.refuses \cup h.lacks \cup h.ok \cup h.garbled \cup h.timeout \cup h.lost
       \subseteq Answerable(name, h)
  /\ h.finds # "nothing" => h.missing \in Answerable(name, h)
  /\ h.asks # "nobody" => {h.refused} \cup h.badError \subseteq Answerable(name, h)
  /\ h.refuses \ (IF name = "gitlab_oauth" THEN {200} ELSE {}) \subseteq Failures
  /\ h.lacks \cup h.garbled \cup h.badError \cup {h.missing} \subseteq Failures
  /\ h.refused \in Failures \cup {Forwarded}
  /\ h.timeout \subseteq Faults
  /\ h.lost \subseteq Faults \cup {403}
  /\ 403 \in h.lost =>
       h.asks = "nobody" /\ (h.changes = "nothing" \/ name \in Enclosing)
  /\ h.prepares # {} =>
       /\ name = "gitlab_webhook" /\ h.prepares = {"POST"}
       /\ h.changes = "webhook" /\ h.asks = "gitlab"
  /\ h.ok \subseteq Successes \cup Faults
  /\ h.finds = "shared" => h.gives = "data"
  /\ h.finds # "nothing" => name # "gitlab_oauth"

HandlerSound(name, h) == GuardsSound(name, h) /\ BodySound(name, h)

LEMMA HandlersSound ==
  ASSUME NEW name \in DOMAIN Handler
  PROVE  HandlerSound(name, Handler[name])
<1> USE DEF Reads, Writes, Here, Encloses, Enclosing, Open, With, Administers, Answerable, Undeclared,
            SignInCodes, Codes, Successes, Faults, Failures, Method, Forwarded,
            GuardsSound, BodySound, HandlerSound
<1>1. HandlerSound("validate_workflow_specification", validate_workflow_specification)
  BY DEF validate_workflow_specification
<1>2. HandlerSound("get_workflows", get_workflows)
  BY DEF get_workflows
<1>3. HandlerSound("create_workflow", create_workflow)
  BY DEF create_workflow
<1>4. HandlerSound("get_workflow_specification", get_workflow_specification)
  BY DEF get_workflow_specification
<1>5. HandlerSound("get_workflow_logs", get_workflow_logs)
  BY DEF get_workflow_logs
<1>6. HandlerSound("get_workflow_status", get_workflow_status)
  BY DEF get_workflow_status
<1>7. HandlerSound("restart_workflow", restart_workflow)
  BY DEF restart_workflow
<1>8. HandlerSound("start_workflow", start_workflow)
  BY DEF start_workflow
<1>9. HandlerSound("set_workflow_status", set_workflow_status)
  BY DEF set_workflow_status
<1>10. HandlerSound("upload_file", upload_file)
  BY DEF upload_file
<1>11. HandlerSound("download_file", download_file)
  BY DEF download_file
<1>12. HandlerSound("delete_file", delete_file)
  BY DEF delete_file
<1>13. HandlerSound("get_files", get_files)
  BY DEF get_files
<1>14. HandlerSound("get_workflow_parameters", get_workflow_parameters)
  BY DEF get_workflow_parameters
<1>15. HandlerSound("get_workflow_diff", get_workflow_diff)
  BY DEF get_workflow_diff
<1>16. HandlerSound("open_interactive_session", open_interactive_session)
  BY DEF open_interactive_session
<1>17. HandlerSound("close_interactive_session", close_interactive_session)
  BY DEF close_interactive_session
<1>18. HandlerSound("get_interactive_session_secret", get_interactive_session_secret)
  BY DEF get_interactive_session_secret
<1>19. HandlerSound("move_files", move_files)
  BY DEF move_files
<1>20. HandlerSound("prune_workspace", prune_workspace)
  BY DEF prune_workspace
<1>21. HandlerSound("get_workflow_disk_usage", get_workflow_disk_usage)
  BY DEF get_workflow_disk_usage
<1>22. HandlerSound("get_workflow_retention_rules", get_workflow_retention_rules)
  BY DEF get_workflow_retention_rules
<1>23. HandlerSound("share_workflow", share_workflow)
  BY DEF share_workflow
<1>24. HandlerSound("unshare_workflow", unshare_workflow)
  BY DEF unshare_workflow
<1>25. HandlerSound("get_workflow_share_status", get_workflow_share_status)
  BY DEF get_workflow_share_status
<1>26. HandlerSound("launch", launch)
  BY DEF launch
<1>27. HandlerSound("info", info)
  BY DEF info
<1>28. HandlerSound("status", status)
  BY DEF status
<1>29. HandlerSound("ping", ping)
  BY DEF ping
<1>30. HandlerSound("get_config", get_config)
  BY DEF get_config
<1>31. HandlerSound("health", health)
  BY DEF health
<1>32. HandlerSound("get_you", get_you)
  BY DEF get_you
<1>33. HandlerSound("get_users_shared_with_you", get_users_shared_with_you)
  BY DEF get_users_shared_with_you
<1>34. HandlerSound("get_users_you_shared_with", get_users_you_shared_with)
  BY DEF get_users_you_shared_with
<1>35. HandlerSound("get_quota_usage", get_quota_usage)
  BY DEF get_quota_usage
<1>36. HandlerSound("set_quota_limit", set_quota_limit)
  BY DEF set_quota_limit
<1>37. HandlerSound("patch_quota", patch_quota)
  BY DEF patch_quota
<1>38. HandlerSound("add_secrets", add_secrets)
  BY DEF add_secrets
<1>39. HandlerSound("get_secrets", get_secrets)
  BY DEF get_secrets
<1>40. HandlerSound("delete_secrets", delete_secrets)
  BY DEF delete_secrets
<1>41. HandlerSound("gitlab_webhook_token", gitlab_webhook_token)
  BY DEF gitlab_webhook_token
<1>42. HandlerSound("gitlab_connect", gitlab_connect)
  BY DEF gitlab_connect
<1>43. HandlerSound("gitlab_oauth", gitlab_oauth)
  BY DEF gitlab_oauth
<1>44. HandlerSound("gitlab_projects", gitlab_projects)
  BY DEF gitlab_projects
<1>45. HandlerSound("gitlab_webhook", gitlab_webhook)
  BY DEF gitlab_webhook
<1>46. HandlerSound("openid_configuration", openid_configuration)
  BY DEF openid_configuration
<1> HIDE DEF HandlerSound
<1> QED
  BY <1>1, <1>2, <1>3, <1>4, <1>5, <1>6, <1>7, <1>8, <1>9, <1>10,
     <1>11, <1>12, <1>13, <1>14, <1>15, <1>16, <1>17, <1>18, <1>19, <1>20,
     <1>21, <1>22, <1>23, <1>24, <1>25, <1>26, <1>27, <1>28, <1>29, <1>30,
     <1>31, <1>32, <1>33, <1>34, <1>35, <1>36, <1>37, <1>38, <1>39, <1>40,
     <1>41, <1>42, <1>43, <1>44, <1>45, <1>46
     DEF Handler

-----------------------------------------------------------------------------
(* The invariant, request by request                                       *)

Request ==
  [pc : {"idle", "guard", "refresh", "authorize", "found", "asked", "answered"},
   name : DOMAIN Handler, method : Method, who : Person, id : Identifier,
   stage : 1..5, key : Identifier \cup {NoKey}, target : Run \cup {NoKey},
   effect : {"none", "prepared", "running", "done", "partial"}, late : BOOLEAN,
   clear : BOOLEAN, code : {Forwarded} \cup Codes,
   how : {"nothing", "bearer", "cookie", "gitlab"}, finding : Verdict,
   csrf : BOOLEAN, refreshed : BOOLEAN, admitted : BOOLEAN,
   cookies : {"kept", "cleared", "renewed"}]

\* The handler of a request, and whether the request changes something.
Of(r) == Handler[r.name]
Changes(r) == Of(r).changes # "nothing" /\ (r.method = "GET" => Of(r).methods = {"GET"})

\* A request whose handler got as far as its work.
Through(r) == r.pc \in {"found", "asked"} \/ r.effect # "none" \/ r.late

\* A guard that a request is past has done what it is for.
GuardsInv(r) ==
  /\ r.stage <= Len(Of(r).via) + 1
  /\ Through(r) => r.stage = Len(Of(r).via) + 1
  /\ r.pc \in {"refresh", "authorize"} =>
       /\ r.stage <= Len(Of(r).via) /\ Of(r).via[r.stage] = "signin"
       /\ r.pc = "refresh" => r.how = "cookie"
  /\ \A k \in 1..Len(Of(r).via) : k < r.stage =>
       /\ Of(r).via[k] = "signin" => r.admitted
       /\ Of(r).via[k] = "lock" /\ r.pc # "answered" => r.key # NoKey
  /\ r.admitted => \E k \in 1..Len(Of(r).via) : k < r.stage /\ Of(r).via[k] = "signin"

SignInInv(r) ==
  /\ r.cookies = "cleared" <=> r.finding \in Definitive
  /\ r.pc # "answered" => r.cookies = "kept" /\ r.finding = "good"
  /\ r.finding # "good" => ~r.admitted
  /\ r.pc = "answered" /\ r.how = "cookie" /\ r.finding \in Temporary => r.code = 503
  /\ r.pc = "answered" /\ r.admitted => (r.cookies = "renewed" <=> r.refreshed)
  /\ r.pc # "answered" \/ Through(r) =>
       /\ r.how = "cookie" /\ r.method \notin SafeMethod => r.csrf
       /\ r.how = "gitlab" => Of(r).gitlab

\* What a request works on is what it has looked up and locked.
WorkInv(r) ==
  /\ r.effect # "none" => r.pc \in {"asked", "answered"} /\ Changes(r)
  /\ r.effect \notin Unasked => r.target # NoKey
  /\ r.effect = "prepared" => r.name = "gitlab_webhook" /\ r.method = "POST"
  /\ r.effect = "running" => r.pc = "asked" \/ r.late
  /\ r.late => r.pc = "answered" /\ r.code \in Faults
  /\ Through(r) /\ Of(r).finds # "nothing" => MayFind(r.who, Of(r).finds)
  /\ r.effect # "none" /\ Of(r).asks = "controller" => r.who = "owner"
  /\ r.target # NoKey /\ r.id # Bare => r.target = r.id
  /\ r.key # NoKey /\ r.who = "owner" =>
       r.key \in Run /\ (r.id # Bare => r.key = Workspace[r.id])

\* A refusal of RefusedTooLate.
TooLate(r) ==
  \/ r.code = 403 /\ r.name \in Enclosing
  \/ /\ r.effect = "prepared" /\ ~r.late
     /\ r.name = "gitlab_webhook" /\ r.method = "POST"

AnswerInv(r) ==
  r.pc = "answered" =>
    /\ r.code \in Answerable(r.name, Of(r))
    /\ Changes(r) /\ Of(r).changes # "family" =>
         /\ r.code \in Successes => \/ r.effect = "done"
                                    \/ (r.name = "gitlab_oauth" /\ r.code = 200)
         /\ r.code \in Refusals => \/ (r.effect = "none" /\ ~r.late)
                                   \/ (~r.clear /\ r.effect = "done")
                                   \/ TooLate(r)
    /\ Of(r).finds # "nothing" /\ r.code \in Successes =>
         \/ r.who = "owner"
         \/ r.who = "sharee" /\ Of(r).gives = "data"

RequestInv(r) == GuardsInv(r) /\ SignInInv(r) /\ WorkInv(r) /\ AnswerInv(r)

OneHolder == \A c, d \in Client : c # d /\ req[c].key = req[d].key => req[c].key = NoKey

IInv ==
  /\ latest \in Run
  /\ req \in [Client -> Request]
  /\ \A c \in Client : RequestInv(req[c])
  /\ OneHolder

-----------------------------------------------------------------------------
(* How a request moves                                                     *)

LEMMA CodeRanges ==
  /\ \A code \in Failures : code \notin Successes
  /\ \A code \in Faults : code \in Codes /\ code \notin Successes /\ code \notin Refusals
  /\ \A code \in Successes : code \notin Refusals
  /\ Forwarded \notin Successes
BY DEF Codes, Successes, Refusals, Faults, Failures, Forwarded

LEMMA RequestNow ==
  ASSUME IInv, NEW c \in Client
  PROVE  /\ req[c] \in Request /\ RequestInv(req[c])
         /\ req[c].name \in DOMAIN Handler /\ HandlerSound(req[c].name, Of(req[c]))
         /\ H(c) = Of(req[c])
BY HandlersSound DEF IInv, Request, Of, H

LEMMA Updated ==
  ASSUME IInv, NEW c \in Client, NEW new \in Request,
         req' = [req EXCEPT ![c] = new], latest' = latest, RequestInv(new),
         \/ new.key = NoKey \/ new.key = req[c].key
         \/ \A d \in Client : req[d].key # new.key
  PROVE  IInv'
<1>1. /\ req' \in [Client -> Request] /\ req'[c] = new
      /\ \A d \in Client \ {c} : req'[d] = req[d]
  BY DEF IInv
<1>2. OneHolder'
  BY <1>1 DEF IInv, OneHolder
<1>3. \A d \in Client : RequestInv(req'[d])
  BY <1>1 DEF IInv
<1> QED BY <1>1, <1>2, <1>3 DEF IInv

\* The codes of a sound handler are codes.
LEMMA CodesAnswered ==
  ASSUME NEW name, NEW h, HandlerSound(name, h)
  PROVE  Answerable(name, h) \subseteq {Forwarded} \cup Codes
BY DEF HandlerSound, BodySound, Answerable, Codes, Forwarded

\* A record that differs from `old` in what an answer sets.
Closed(new, old, code, clear, late, jar) ==
  /\ new \in Request
  /\ new.pc = "answered" /\ new.code = code /\ new.key = NoKey
  /\ new.clear = clear /\ new.late = late /\ new.cookies = jar
  /\ new.name = old.name /\ new.method = old.method /\ new.who = old.who
  /\ new.id = old.id /\ new.stage = old.stage /\ new.target = old.target
  /\ new.effect = old.effect /\ new.how = old.how /\ new.finding = old.finding
  /\ new.csrf = old.csrf /\ new.refreshed = old.refreshed
  /\ new.admitted = old.admitted

Answer(old, code, clear, late, jar) ==
  [old EXCEPT !.pc = "answered", !.code = code, !.key = NoKey,
              !.clear = clear, !.late = late, !.cookies = jar]

LEMMA Closes ==
  ASSUME NEW old \in Request, NEW code \in {Forwarded} \cup Codes,
         NEW clear \in BOOLEAN, NEW late \in BOOLEAN,
         NEW jar \in {"kept", "cleared", "renewed"}
  PROVE  Closed(Answer(old, code, clear, late, jar), old, code, clear, late, jar)
<1> DEFINE new == Answer(old, code, clear, late, jar)
           one == [old EXCEPT !.pc = "answered", !.code = code, !.key = NoKey]
           two == [one EXCEPT !.clear = clear]
           three == [two EXCEPT !.late = late]
           four == [three EXCEPT !.cookies = jar]
<1>1. one \in Request
  BY DEF Request
<1>2. two \in Request
  <2> HIDE DEF one
  <2> QED BY <1>1 DEF Request
<1>3. three \in Request
  <2> HIDE DEF two
  <2> QED BY <1>2 DEF Request
<1>4. four \in Request
  <2> HIDE DEF three
  <2> QED BY <1>3 DEF Request
<1>5. new = four
  BY DEF Answer
<1>6. /\ new.pc = "answered" /\ new.code = code /\ new.key = NoKey
      /\ new.clear = clear /\ new.late = late /\ new.cookies = jar
      /\ new.name = old.name /\ new.method = old.method /\ new.who = old.who
      /\ new.id = old.id /\ new.stage = old.stage /\ new.target = old.target
  BY DEF Request, Answer
<1>7. /\ new.effect = old.effect /\ new.how = old.how /\ new.finding = old.finding
      /\ new.csrf = old.csrf /\ new.refreshed = old.refreshed
      /\ new.admitted = old.admitted
  BY DEF Request, Answer
<1> HIDE DEF four
<1>8. new \in Request
  BY <1>4, <1>5
<1> HIDE DEF new
<1>9. Closed(new, old, code, clear, late, jar)
  BY <1>6, <1>7, <1>8 DEF Closed
<1> QED BY <1>9 DEF new

LEMMA AnswerCloses ==
  ASSUME IInv, NEW c \in Client, NEW code \in {Forwarded} \cup Codes,
         NEW clear \in BOOLEAN, NEW late \in BOOLEAN,
         AnswersWith(c, code, clear, late)
  PROVE  \E new \in Request :
           /\ req' = [req EXCEPT ![c] = new]
           /\ Closed(new, req[c], code, clear, late,
                     IF req[c].admitted /\ req[c].refreshed THEN "renewed"
                     ELSE req[c].cookies)
<1> DEFINE old == req[c]
           jar == IF old.admitted /\ old.refreshed THEN "renewed" ELSE old.cookies
           new == Answer(old, code, clear, late, jar)
<1>1. req \in [Client -> Request] /\ old \in Request
  BY DEF IInv
<1>2. jar \in {"kept", "cleared", "renewed"}
  BY <1>1 DEF Request
<1>3. req' = [req EXCEPT ![c] = new]
  BY <1>1 DEF AnswersWith, Answer
<1>4. Closed(new, old, code, clear, late, jar)
  <2> HIDE DEF old, jar
  <2> QED BY <1>1, <1>2, Closes
<1>5. new \in Request
  BY <1>4 DEF Closed
<1> HIDE DEF new
<1> QED BY <1>3, <1>4, <1>5

\* A request is answered by its guards or its body.
LEMMA Answering ==
  ASSUME IInv, NEW c \in Client, NEW code, NEW clear \in BOOLEAN, NEW late \in BOOLEAN,
         AnswersWith(c, code, clear, late), latest' = latest,
         req[c].pc \in {"guard", "found", "asked"},
         code \in Answerable(req[c].name, Of(req[c])),
         late => Through(req[c]) /\ code \in Faults,
         req[c].effect = "running" => late,
         code \in Successes =>
           /\ Through(req[c]) \/ Of(req[c]).finds = "nothing"
           /\ \/ ~Changes(req[c]) \/ Of(req[c]).changes = "family"
              \/ req[c].effect = "done"
              \/ req[c].name = "gitlab_oauth" /\ code = 200,
         code \in Refusals => \/ req[c].effect \in Unasked
                              \/ (~clear /\ req[c].effect = "done")
  PROVE  IInv'
<1> DEFINE old == req[c]
           jar == IF old.admitted /\ old.refreshed THEN "renewed" ELSE old.cookies
<1>1. old \in Request /\ RequestInv(old) /\ HandlerSound(old.name, Of(old))
  BY RequestNow
<1>2. code \in {Forwarded} \cup Codes
  BY <1>1, CodesAnswered
<1>3. /\ jar = "renewed" <=> old.admitted /\ old.refreshed
      /\ jar # "renewed" => jar = "kept"
      /\ old.finding = "good"
  BY <1>1 DEF RequestInv, SignInInv, Request
<1>4. PICK new \in Request : /\ req' = [req EXCEPT ![c] = new]
                             /\ Closed(new, old, code, clear, late, jar)
  BY <1>2, AnswerCloses
<1> HIDE DEF jar, old
<1>5. GuardsInv(new)
  BY <1>1, <1>4 DEF RequestInv, GuardsInv, Through, Of, old, Closed
<1>6. SignInInv(new)
  BY <1>1, <1>3, <1>4 DEF RequestInv, SignInInv, Through, Of, old, Closed,
                          Definitive, Temporary
<1>7. WorkInv(new)
  BY <1>1, <1>4 DEF RequestInv, WorkInv, Through, Of, Changes, old, Closed
<1>8. AnswerInv(new)
  <2>1. /\ new.code = code /\ Of(new) = Of(old) /\ new.name = old.name
        /\ new.effect = old.effect /\ new.who = old.who
        /\ Changes(new) <=> Changes(old)
        /\ new.late <=> late
        /\ new.clear <=> clear
    BY <1>4 DEF Of, Changes, Closed
  <2>2. Changes(old) /\ Of(old).changes # "family" =>
          /\ code \in Successes => \/ old.effect = "done"
                                   \/ (old.name = "gitlab_oauth" /\ code = 200)
          /\ code \in Refusals => \/ (old.effect = "none" /\ ~late)
                                  \/ (~clear /\ old.effect = "done")
                                  \/ (old.effect = "prepared" /\ ~late)
    BY CodeRanges DEF old, Unasked
  <2>3. Of(old).finds # "nothing" /\ code \in Successes =>
          old.who = "owner" \/ (old.who = "sharee" /\ Of(old).gives = "data")
    <3>1. Of(old).finds # "nothing" /\ code \in Successes => Through(old)
      BY DEF old
    <3>2. Through(old) /\ Of(old).finds # "nothing" => MayFind(old.who, Of(old).finds)
      BY <1>1 DEF RequestInv, WorkInv
    <3>3. Of(old).finds = "shared" => Of(old).gives = "data"
      BY <1>1 DEF HandlerSound, BodySound
    <3> QED BY <3>1, <3>2, <3>3 DEF MayFind
  <2>4. code \in Answerable(old.name, Of(old))
    BY DEF old
  <2>5. Changes(new) /\ Of(new).changes # "family" =>
          /\ new.code \in Successes => \/ new.effect = "done"
                                       \/ (new.name = "gitlab_oauth" /\ new.code = 200)
          /\ new.code \in Refusals => \/ (new.effect = "none" /\ ~new.late)
                                      \/ (~new.clear /\ new.effect = "done")
                                      \/ TooLate(new)
    <3>1. new.effect = "prepared" => new.name = "gitlab_webhook" /\ new.method = "POST"
      BY <1>7 DEF WorkInv
    <3> QED BY <2>1, <2>2, <3>1 DEF TooLate
  <2>6. Of(new).finds # "nothing" /\ new.code \in Successes =>
          new.who = "owner" \/ (new.who = "sharee" /\ Of(new).gives = "data")
    BY <2>1, <2>3
  <2>7. new.code \in Answerable(new.name, Of(new))
    BY <2>1, <2>4
  <2> QED BY <2>5, <2>6, <2>7 DEF AnswerInv
<1> QED BY <1>4, <1>5, <1>6, <1>7, <1>8, Updated DEF RequestInv, Closed

\* A record that a sign-in rejects.
Rejected(old, num, how, finding, jar) ==
  [old EXCEPT !.pc = "answered", !.code = num, !.how = how, !.finding = finding,
              !.cookies = jar]

LEMMA RejectedIsRequest ==
  ASSUME NEW old \in Request, NEW num \in Codes, NEW finding \in Verdict,
         NEW how \in {"nothing", "bearer", "cookie", "gitlab"},
         NEW jar \in {"kept", "cleared", "renewed"}
  PROVE  Rejected(old, num, how, finding, jar) \in Request
<1> DEFINE one == [old EXCEPT !.pc = "answered", !.code = num]
           two == [one EXCEPT !.how = how]
           three == [two EXCEPT !.finding = finding]
           four == [three EXCEPT !.cookies = jar]
<1>1. one \in Request
  BY DEF Request
<1>2. two \in Request
  <2> HIDE DEF one
  <2> QED BY <1>1 DEF Request
<1>3. three \in Request
  <2> HIDE DEF two
  <2> QED BY <1>2 DEF Request
<1>4. four \in Request
  <2> HIDE DEF three
  <2> QED BY <1>3 DEF Request
<1> QED BY <1>4 DEF Rejected

\* What the sign-in rejects is answered at once, and is not admitted.
LEMMA Rejecting ==
  ASSUME IInv, NEW c \in Client, NEW finding \in Verdict \ {"good"},
         NEW how \in {"nothing", "bearer", "cookie", "gitlab"},
         Rejects(c, how, finding), latest' = latest,
         req[c].pc \in {"guard", "refresh", "authorize"},
         req[c].stage <= Len(Of(req[c]).via), Of(req[c]).via[req[c].stage] = "signin"
  PROVE  IInv'
<1> DEFINE old == req[c]
           num == CodeOf(how, finding)
           jar == IF Clears(finding) THEN "cleared"
                  ELSE IF finding = "noRole" /\ old.refreshed THEN "renewed"
                  ELSE old.cookies
           new == Rejected(old, num, how, finding, jar)
<1>1. /\ old \in Request /\ RequestInv(old) /\ HandlerSound(old.name, Of(old))
      /\ req \in [Client -> Request] /\ old.cookies = "kept"
  BY RequestNow DEF IInv, RequestInv, SignInInv
<1>2. req' = [req EXCEPT ![c] = new]
  BY <1>1 DEF Rejects, Rejected
<1>3. /\ num \in SignInCodes
      /\ how = "cookie" /\ finding \in Temporary => num = 503
  BY DEF CodeOf, SignInCodes, Temporary, Definitive
<1>4. num \in Answerable(old.name, Of(old)) /\ num \in Codes /\ num \in Failures
  <2>1. SignInCodes \subseteq Codes \cap Failures
    BY DEF SignInCodes, Codes, Failures
  <2>2. old.stage \in 1..Len(Of(old).via)
    BY <1>1 DEF HandlerSound, GuardsSound, Request
  <2> QED BY <1>1, <1>3, <2>1, <2>2 DEF HandlerSound, GuardsSound
<1>5. /\ jar \in {"kept", "cleared", "renewed"}
      /\ jar = "cleared" <=> finding \in Definitive
  BY <1>1 DEF Clears
<1> HIDE DEF num, jar, old
<1>6. new \in Request
  BY <1>1, <1>4, <1>5, RejectedIsRequest
<1>7. /\ new.pc = "answered" /\ new.code = num /\ new.how = how
      /\ new.finding = finding /\ new.cookies = jar /\ new.key = old.key
      /\ new.name = old.name /\ new.method = old.method /\ new.who = old.who
      /\ new.id = old.id /\ new.stage = old.stage /\ new.target = old.target
      /\ new.effect = old.effect /\ new.late = old.late /\ new.admitted = old.admitted
  BY <1>1 DEF Request, Rejected
<1> HIDE DEF new
<1>8. ~Through(old) /\ old.effect = "none" /\ ~old.late /\ ~old.admitted
  BY <1>1 DEF RequestInv, GuardsInv, WorkInv, Through, HandlerSound, GuardsSound, Request, old
<1>9. GuardsInv(new)
  BY <1>1, <1>7, <1>8 DEF RequestInv, GuardsInv, Through, Of
<1>10. SignInInv(new)
  BY <1>3, <1>5, <1>7, <1>8 DEF SignInInv, Through, Of
<1>11. WorkInv(new)
  BY <1>1, <1>7, <1>8 DEF RequestInv, WorkInv, Through, Of, Changes
<1>12. AnswerInv(new)
  BY <1>4, <1>7, <1>8, CodeRanges DEF AnswerInv, Changes, Of
<1> QED BY <1>2, <1>6, <1>7, <1>9, <1>10, <1>11, <1>12, Updated DEF RequestInv, old

-----------------------------------------------------------------------------
(* The guards                                                              *)

LEMMA IdleIsRequest == Idle \in Request
<1>1. "ping" \in DOMAIN Handler
  BY DEF Handler
<1>2. /\ "GET" \in Method /\ "stranger" \in Person /\ Bare \in Identifier
      /\ 1 \in 1..5 /\ "good" \in Verdict /\ Forwarded \in {Forwarded} \cup Codes
      /\ NoKey \in Identifier \cup {NoKey} /\ NoKey \in Run \cup {NoKey}
  BY DEF Method, Person, Identifier, Verdict
<1> QED BY <1>1, <1>2 DEF Idle, Request

LEMMA ArriveStep ==
  ASSUME IInv, NEW c \in Client, NEW name \in DOMAIN Handler, NEW who \in Person,
         NEW id \in Identifier, NEW method \in Handler[name].methods,
         Arrive(c, name, method, who, id)
  PROVE  IInv'
<1> DEFINE new == [Idle EXCEPT !.pc = "guard", !.name = name, !.method = method,
                               !.who = who, !.id = id]
<1>1. method \in Method /\ Len(Handler[name].via) \in 0..4
  BY HandlersSound DEF HandlerSound, GuardsSound, BodySound
<1>2. new \in Request
  <2> DEFINE one == [Idle EXCEPT !.pc = "guard", !.name = name]
             two == [one EXCEPT !.method = method, !.who = who]
  <2>1. one \in Request
    BY IdleIsRequest DEF Request
  <2>2. two \in Request
    <3> HIDE DEF one
    <3> QED BY <1>1, <2>1 DEF Request
  <2>3. [two EXCEPT !.id = id] \in Request
    <3> HIDE DEF two
    <3> QED BY <2>2 DEF Request
  <2> QED BY <2>3
<1>3. /\ new.pc = "guard" /\ new.name = name /\ new.method = method /\ new.who = who
      /\ new.id = id /\ new.stage = 1 /\ new.key = NoKey /\ new.target = NoKey
      /\ new.effect = "none" /\ new.late = FALSE /\ new.how = "nothing"
      /\ new.finding = "good" /\ new.admitted = FALSE /\ new.cookies = "kept"
  BY DEF Idle
<1>4. req' = [req EXCEPT ![c] = new] /\ latest' = latest
  BY DEF Arrive
<1> HIDE DEF new
<1>5. GuardsInv(new)
  BY <1>1, <1>3 DEF GuardsInv, Through, Of
<1>6. SignInInv(new) /\ WorkInv(new) /\ AnswerInv(new)
  BY <1>3 DEF SignInInv, WorkInv, AnswerInv, Unasked, Through, Definitive, Temporary
<1> QED BY <1>2, <1>3, <1>4, <1>5, <1>6, Updated DEF RequestInv

\* A guard that only answers.
LEMMA GuardAnswers ==
  ASSUME IInv, NEW c \in Client, NEW code, Is(c, "guard"), Answers(c, code),
         latest' = latest, code \in Answerable(req[c].name, Of(req[c])), code \in Failures
  PROVE  IInv'
<1>1. RequestInv(req[c]) /\ req[c] \in Request
  BY RequestNow
<1>2. req[c].pc = "guard"
  BY DEF Is
<1>3. req[c].effect = "none"
  BY <1>1, <1>2 DEF RequestInv, WorkInv
<1>4. AnswersWith(c, code, TRUE, FALSE)
  BY DEF Answers
<1>5. code \notin Successes
  BY CodeRanges
<1> QED BY <1>2, <1>3, <1>4, <1>5, Answering DEF Unasked

\* A guard other than the sign-in and the lock lets through.
LEMMA GuardPasses ==
  ASSUME IInv, NEW c \in Client, NEW guard, Faces(c, guard),
         guard \notin {"signin", "lock"}, Passes(c), latest' = latest
  PROVE  IInv'
<1> DEFINE old == req[c]
           new == [old EXCEPT !.stage = @ + 1]
<1>1. /\ old \in Request /\ RequestInv(old) /\ HandlerSound(old.name, Of(old))
      /\ req \in [Client -> Request]
  BY RequestNow DEF IInv
<1>2. /\ old.pc = "guard" /\ old.stage <= Len(Of(old).via)
      /\ Of(old).via[old.stage] = guard
  BY DEF Faces, Is, H, Of
<1>3. req' = [req EXCEPT ![c] = new]
  BY <1>1 DEF Passes
<1>4. old.stage + 1 \in 1..5 /\ Len(Of(old).via) \in 0..4 /\ old.stage \in 1..5
  BY <1>1, <1>2 DEF HandlerSound, GuardsSound, Request
<1> HIDE DEF old
<1>5. /\ new \in Request /\ new.stage = old.stage + 1 /\ new.pc = old.pc
      /\ new.name = old.name /\ new.method = old.method /\ new.who = old.who
      /\ new.id = old.id /\ new.key = old.key /\ new.target = old.target
      /\ new.effect = old.effect /\ new.late = old.late
  BY <1>1, <1>4 DEF Request
<1>6. /\ new.admitted = old.admitted /\ new.how = old.how /\ new.finding = old.finding
      /\ new.csrf = old.csrf /\ new.refreshed = old.refreshed
      /\ new.cookies = old.cookies /\ new.code = old.code
  BY <1>1 DEF Request
<1> HIDE DEF new
<1>7. GuardsInv(new)
  BY <1>1, <1>2, <1>4, <1>5, <1>6 DEF RequestInv, GuardsInv, WorkInv, Through, Of
<1>8. SignInInv(new)
  BY <1>1, <1>5, <1>6 DEF RequestInv, SignInInv, Through, Of
<1>9. WorkInv(new) /\ AnswerInv(new)
  BY <1>1, <1>2, <1>5, <1>6 DEF RequestInv, WorkInv, AnswerInv, Through, Of, Changes
<1> QED BY <1>3, <1>5, <1>7, <1>8, <1>9, Updated DEF RequestInv, old

LEMMA Facing ==
  ASSUME IInv, NEW c \in Client, NEW guard, Faces(c, guard)
  PROVE  /\ Is(c, "guard") /\ req[c].pc = "guard"
         /\ req[c].stage \in 1..Len(Of(req[c]).via)
         /\ Of(req[c]).via[req[c].stage] = guard
         /\ GuardsSound(req[c].name, Of(req[c]))
<1>1. /\ req[c] \in Request /\ HandlerSound(req[c].name, Of(req[c]))
      /\ H(c) = Of(req[c])
  BY RequestNow
<1>2. req[c].stage \in 1..5 /\ Len(Of(req[c]).via) \in 0..4
  BY <1>1 DEF Request, HandlerSound, GuardsSound
<1> QED BY <1>1, <1>2 DEF Faces, Is, HandlerSound

LEMMA RateLimitStep ==
  ASSUME IInv, NEW c \in Client, handle_rate_limit_error(c)
  PROVE  IInv'
<1>1. Is(c, "guard") /\ Answers(c, 429) /\ latest' = latest
  BY DEF handle_rate_limit_error
<1>2. 429 \in Answerable(req[c].name, Of(req[c])) /\ 429 \in Failures
  BY DEF Answerable, Failures
<1> QED BY <1>1, <1>2, GuardAnswers

LEMMA ParseArgumentsStep ==
  ASSUME IInv, NEW c \in Client, ParseArguments(c)
  PROVE  IInv'
<1>1. Faces(c, "args") /\ latest' = latest
  BY DEF ParseArguments
<1>2. CASE Passes(c)
  BY <1>1, <1>2, GuardPasses
<1>3. CASE Answers(c, 400)
  <2>1. 400 \in Answerable(req[c].name, Of(req[c])) /\ 400 \in Failures
    BY <1>1, Facing DEF GuardsSound, Failures
  <2> QED BY <1>1, <1>3, <2>1, Facing, GuardAnswers
<1> QED BY <1>2, <1>3 DEF ParseArguments

LEMMA QuotaStep ==
  ASSUME IInv, NEW c \in Client, check_quota(c)
  PROVE  IInv'
<1>1. Faces(c, "quota") /\ latest' = latest
  BY DEF check_quota
<1>2. CASE Passes(c)
  BY <1>1, <1>2, GuardPasses
<1>3. ASSUME NEW code \in {403, 500}, Answers(c, code)  PROVE IInv'
  <2>1. code \in Answerable(req[c].name, Of(req[c])) /\ code \in Failures
    BY <1>1, Facing DEF GuardsSound, Failures
  <2> QED BY <1>1, <1>3, <2>1, Facing, GuardAnswers
<1> QED BY <1>2, <1>3 DEF check_quota

LEMMA QuotaSecretStep ==
  ASSUME IInv, NEW c \in Client, check_quota_management_secret(c)
  PROVE  IInv'
<1>1. Faces(c, "secret") /\ latest' = latest
  BY DEF check_quota_management_secret
<1>2. CASE Passes(c)
  BY <1>1, <1>2, GuardPasses
<1>3. ASSUME NEW code \in {403, 401}, Answers(c, code)  PROVE IInv'
  <2>1. code \in Answerable(req[c].name, Of(req[c])) /\ code \in Failures
    BY <1>1, Facing DEF GuardsSound, Failures
  <2> QED BY <1>1, <1>3, <2>1, Facing, GuardAnswers
<1> QED BY <1>2, <1>3 DEF check_quota_management_secret

LEMMA Named ==
  ASSUME IInv, NEW c \in Client
  PROVE  /\ Meant(c) \in Run /\ LockKey(c) \in Identifier /\ LockKey(c) # NoKey
         /\ req[c].id # Bare => Meant(c) = req[c].id
         /\ req[c].who = "owner" => LockKey(c) = Workspace[Meant(c)] /\ LockKey(c) \in Run
<1>1. req[c].id \in Identifier /\ latest \in Run
  BY DEF IInv, Request
<1>2. Meant(c) \in Run /\ (req[c].id # Bare => Meant(c) = req[c].id)
  BY <1>1 DEF Meant, Identifier
<1>3. Workspace[Meant(c)] \in Run
  BY <1>2
<1> QED BY <1>1, <1>2, <1>3 DEF LockKey, Identifier

\* The lock, taken.
LEMMA LockPasses ==
  ASSUME IInv, NEW c \in Client, Faces(c, "lock"), LockFree(LockKey(c)),
         req' = [req EXCEPT ![c].stage = @ + 1, ![c].key = LockKey(c)],
         latest' = latest
  PROVE  IInv'
<1> DEFINE old == req[c]
           key == LockKey(c)
           new == [old EXCEPT !.stage = @ + 1, !.key = key]
<1>1. /\ old \in Request /\ RequestInv(old) /\ req \in [Client -> Request]
      /\ GuardsSound(old.name, Of(old))
      /\ old.pc = "guard" /\ old.stage \in 1..Len(Of(old).via)
      /\ Of(old).via[old.stage] = "lock"
  BY RequestNow, Facing DEF IInv
<1>2. req' = [req EXCEPT ![c] = new]
  BY <1>1
<1>3. /\ key \in Identifier /\ key # NoKey
      /\ old.who = "owner" => key \in Run /\ (old.id # Bare => key = Workspace[old.id])
  BY Named
<1>4. old.stage + 1 \in 1..5 /\ Len(Of(old).via) \in 0..4 /\ old.stage \in 1..5
  BY <1>1 DEF GuardsSound
<1>5. \A d \in Client : req[d].key # key
  BY DEF LockFree
<1> HIDE DEF old, key
<1>6. new \in Request
  BY <1>1, <1>3, <1>4 DEF Request
<1>7. /\ new.stage = old.stage + 1 /\ new.pc = old.pc /\ new.key = key
      /\ new.name = old.name /\ new.method = old.method /\ new.who = old.who
      /\ new.id = old.id /\ new.target = old.target
      /\ new.effect = old.effect /\ new.late = old.late
  BY <1>1 DEF Request
<1>8. /\ new.admitted = old.admitted /\ new.how = old.how /\ new.finding = old.finding
      /\ new.csrf = old.csrf /\ new.refreshed = old.refreshed
      /\ new.cookies = old.cookies /\ new.code = old.code
  BY <1>1 DEF Request
<1> HIDE DEF new
<1>9. GuardsInv(new)
  BY <1>1, <1>3, <1>4, <1>7, <1>8 DEF RequestInv, GuardsInv, WorkInv, Through, Of
<1>10. SignInInv(new)
  BY <1>1, <1>7, <1>8 DEF RequestInv, SignInInv, Through, Of
<1>11. WorkInv(new) /\ AnswerInv(new)
  BY <1>1, <1>3, <1>7, <1>8 DEF RequestInv, WorkInv, AnswerInv, Through, Of, Changes
<1> QED BY <1>2, <1>5, <1>6, <1>7, <1>9, <1>10, <1>11, Updated DEF RequestInv, old

LEMMA LockStep ==
  ASSUME IInv, NEW c \in Client, serialize_workspace_mutation(c)
  PROVE  IInv'
<1>1. Faces(c, "lock") /\ latest' = latest
  BY DEF serialize_workspace_mutation
<1>2. ASSUME NEW code \in {409, 503}, Answers(c, code)  PROVE IInv'
  <2>1. code \in Answerable(req[c].name, Of(req[c])) /\ code \in Failures
    BY <1>1, Facing DEF GuardsSound, Failures
  <2> QED BY <1>1, <1>2, <2>1, Facing, GuardAnswers
<1> QED BY <1>1, <1>2, LockPasses DEF serialize_workspace_mutation

-----------------------------------------------------------------------------
(* The sign-in                                                             *)

\* A rejection at the guard itself.
LEMMA RejectingHere ==
  ASSUME IInv, NEW c \in Client, NEW finding \in Verdict \ {"good"},
         NEW how \in {"nothing", "bearer", "cookie", "gitlab"},
         Faces(c, "signin"), Rejects(c, how, finding), latest' = latest
  PROVE  IInv'
<1>1. /\ req[c].pc \in {"guard", "refresh", "authorize"}
      /\ req[c].stage <= Len(Of(req[c]).via) /\ Of(req[c]).via[req[c].stage] = "signin"
  BY Facing
<1> QED BY <1>1, Rejecting

\* The credential is good so far: a token goes on to the role and the account,
\* or to the refresh.
LEMMA Continuing ==
  ASSUME IInv, NEW c \in Client, Faces(c, "signin"), latest' = latest,
         NEW how \in {"bearer", "cookie"}, NEW place \in {"authorize", "refresh"},
         NEW csrf \in BOOLEAN, place = "refresh" => how = "cookie",
         req' = [req EXCEPT ![c].pc = place, ![c].how = how, ![c].csrf = csrf],
         how = "cookie" /\ req[c].method \notin SafeMethod => csrf
  PROVE  IInv'
<1> DEFINE old == req[c]
           one == [old EXCEPT !.pc = place]
           two == [one EXCEPT !.how = how]
           new == [two EXCEPT !.csrf = csrf]
<1>1. /\ old \in Request /\ RequestInv(old) /\ req \in [Client -> Request]
      /\ HandlerSound(old.name, Of(old))
      /\ old.pc = "guard" /\ old.stage \in 1..Len(Of(old).via)
      /\ Of(old).via[old.stage] = "signin"
  BY RequestNow, Facing DEF IInv
<1>2. req' = [req EXCEPT ![c] = new]
  BY <1>1
<1> HIDE DEF old
<1>3. /\ new.pc = place /\ new.how = how /\ new.csrf = csrf
      /\ new.stage = old.stage /\ new.key = old.key
      /\ new.name = old.name /\ new.method = old.method /\ new.who = old.who
      /\ new.id = old.id /\ new.target = old.target
      /\ new.effect = old.effect /\ new.late = old.late
  BY <1>1 DEF Request
<1>4. /\ new.admitted = old.admitted /\ new.finding = old.finding
      /\ new.refreshed = old.refreshed
      /\ new.cookies = old.cookies /\ new.code = old.code
  BY <1>1 DEF Request
<1>5. one \in Request
  BY <1>1 DEF Request
<1>6. two \in Request
  <2> HIDE DEF one
  <2> QED BY <1>5 DEF Request
<1>7. new \in Request
  <2> HIDE DEF two
  <2> QED BY <1>6 DEF Request
<1> HIDE DEF new
<1>8. GuardsInv(new)
  BY <1>1, <1>3, <1>4 DEF RequestInv, GuardsInv, WorkInv, Through, Of
<1>9. SignInInv(new)
  BY <1>1, <1>3, <1>4 DEF RequestInv, SignInInv, Through, Of, old
<1>10. WorkInv(new) /\ AnswerInv(new)
  BY <1>1, <1>3, <1>4 DEF RequestInv, WorkInv, AnswerInv, Through, Of, Changes
<1> QED BY <1>2, <1>3, <1>7, <1>8, <1>9, <1>10, Updated DEF RequestInv, old

LEMMA ContinuingPlainly ==
  ASSUME IInv, NEW c \in Client, Faces(c, "signin"), latest' = latest,
         NEW how \in {"bearer", "cookie"}, NEW place \in {"authorize", "refresh"},
         place = "refresh" => how = "cookie", Continues(c, how, place),
         how = "cookie" => req[c].method \in SafeMethod
  PROVE  IInv'
<1>1. req \in [Client -> Request] /\ req[c] \in Request /\ req[c].csrf \in BOOLEAN
  BY DEF IInv, Request
<1>2. req' = [req EXCEPT ![c].pc = place, ![c].how = how, ![c].csrf = req[c].csrf]
  <2>1. [req[c] EXCEPT !.pc = place, !.how = how]
          = [req[c] EXCEPT !.pc = place, !.how = how, !.csrf = req[c].csrf]
    BY <1>1 DEF Request
  <2> QED BY <1>1, <2>1 DEF Continues
<1> QED BY <1>1, <1>2, Continuing

LEMMA BearerStep ==
  ASSUME IInv, NEW c \in Client, BearerSignIn(c)
  PROVE  IInv'
<1>1. Faces(c, "signin") /\ latest' = latest
  BY DEF BearerSignIn
<1>2. CASE Continues(c, "bearer", "authorize")
  BY <1>1, <1>2, ContinuingPlainly
<1>3. ASSUME NEW f \in {"invalid", "backoff", "unavailable", "misconfigured"},
             Rejects(c, "bearer", f)
      PROVE  IInv'
  <2>1. f \in Verdict \ {"good"}
    BY DEF Verdict, Temporary
  <2> QED BY <1>1, <1>3, <2>1, RejectingHere
<1> QED BY <1>2, <1>3 DEF BearerSignIn

LEMMA CookieStep ==
  ASSUME IInv, NEW c \in Client, CookieSignIn(c)
  PROVE  IInv'
<1>1. Faces(c, "signin") /\ latest' = latest
  BY DEF CookieSignIn
<1>2. ASSUME NEW f \in {"csrf", "backoff", "unavailable", "misconfigured"},
             Rejects(c, "cookie", f)
      PROVE  IInv'
  <2>1. f \in Verdict \ {"good"}
    BY DEF Verdict, Temporary
  <2> QED BY <1>1, <1>2, <2>1, RejectingHere
<1>3. ASSUME NEW place \in {"authorize", "refresh"},
             req' = [req EXCEPT ![c].pc = place, ![c].how = "cookie", ![c].csrf = TRUE]
      PROVE  IInv'
  BY <1>1, <1>3, Continuing
<1>4. ASSUME NEW place \in {"authorize", "refresh"}, req[c].method \in SafeMethod,
             Continues(c, "cookie", place)
      PROVE  IInv'
  BY <1>1, <1>4, ContinuingPlainly
<1> QED BY <1>2, <1>3, <1>4 DEF CookieSignIn

\* A request between the guards of which the sign-in is one.
LEMMA SigningIn ==
  ASSUME IInv, NEW c \in Client, req[c].pc \in {"refresh", "authorize"}
  PROVE  /\ req[c].stage <= Len(Of(req[c]).via) /\ req[c].stage \in 1..4
         /\ Of(req[c]).via[req[c].stage] = "signin"
         /\ req[c].pc = "refresh" => req[c].how = "cookie"
<1>1. /\ req[c] \in Request /\ GuardsInv(req[c]) /\ GuardsSound(req[c].name, Of(req[c]))
  BY RequestNow DEF RequestInv, HandlerSound
<1>2. req[c].stage \in 1..5 /\ Len(Of(req[c]).via) \in 0..4
  BY <1>1 DEF Request, GuardsSound
<1> QED BY <1>1, <1>2 DEF GuardsInv

LEMMA RefreshTokenStep ==
  ASSUME IInv, NEW c \in Client, RefreshToken(c)
  PROVE  IInv'
<1> DEFINE old == req[c]
           new == [old EXCEPT !.pc = "authorize", !.refreshed = TRUE]
<1>1. /\ old \in Request /\ RequestInv(old) /\ req \in [Client -> Request]
      /\ old.pc = "refresh" /\ latest' = latest
  BY RequestNow DEF IInv, RefreshToken, Is
<1>2. old.stage <= Len(Of(old).via) /\ Of(old).via[old.stage] = "signin"
  BY <1>1, SigningIn
<1>3. CASE req' = [req EXCEPT ![c].pc = "authorize", ![c].refreshed = TRUE]
  <2>1. req' = [req EXCEPT ![c] = new]
    BY <1>1, <1>3
  <2> HIDE DEF old
  <2>2. new \in Request
    BY <1>1 DEF Request
  <2>3. /\ new.pc = "authorize" /\ new.refreshed = TRUE
        /\ new.stage = old.stage /\ new.key = old.key
        /\ new.name = old.name /\ new.method = old.method /\ new.who = old.who
        /\ new.id = old.id /\ new.target = old.target
        /\ new.effect = old.effect /\ new.late = old.late
        /\ new.how = old.how /\ new.csrf = old.csrf
        /\ new.admitted = old.admitted /\ new.finding = old.finding
        /\ new.cookies = old.cookies /\ new.code = old.code
    BY <1>1 DEF Request
  <2> HIDE DEF new
  <2>4. GuardsInv(new)
    BY <1>1, <1>2, <2>3 DEF RequestInv, GuardsInv, WorkInv, Through, Of
  <2>5. SignInInv(new)
    BY <1>1, <2>3 DEF RequestInv, SignInInv, Through, Of
  <2>6. WorkInv(new) /\ AnswerInv(new)
    BY <1>1, <2>3 DEF RequestInv, WorkInv, AnswerInv, Through, Of, Changes
  <2> QED BY <1>1, <2>1, <2>2, <2>3, <2>4, <2>5, <2>6, Updated DEF RequestInv, old
<1>4. ASSUME NEW f \in Definitive \cup Temporary \cup {"misconfigured"},
             Rejects(c, "cookie", f)
      PROVE  IInv'
  <2>1. f \in Verdict \ {"good"}
    BY DEF Verdict, Definitive, Temporary
  <2> QED BY <1>1, <1>2, <1>4, <2>1, Rejecting
<1> QED BY <1>3, <1>4 DEF RefreshToken

\* Admitted, a request is past the sign-in.
LEMMA Admitting ==
  ASSUME IInv, NEW c \in Client, latest' = latest,
         NEW new \in Request, req' = [req EXCEPT ![c] = new],
         req[c].pc \in {"guard", "authorize"}, req[c].stage \in 1..4,
         req[c].stage <= Len(Of(req[c]).via), Of(req[c]).via[req[c].stage] = "signin",
         new.pc = "guard", new.stage = req[c].stage + 1, new.admitted = TRUE,
         (new.how = "gitlab" /\ Of(new).gitlab) \/ new.how = req[c].how,
         /\ new.key = req[c].key /\ new.name = req[c].name
         /\ new.method = req[c].method /\ new.who = req[c].who
         /\ new.id = req[c].id /\ new.target = req[c].target
         /\ new.effect = req[c].effect /\ new.late = req[c].late
         /\ new.csrf = req[c].csrf /\ new.refreshed = req[c].refreshed
         /\ new.finding = req[c].finding /\ new.cookies = req[c].cookies
         /\ new.code = req[c].code
  PROVE  IInv'
<1> DEFINE old == req[c]
<1>1. /\ old \in Request /\ RequestInv(old) /\ GuardsSound(old.name, Of(old))
      /\ new.name = old.name /\ Of(new) = Of(old)
  BY RequestNow DEF HandlerSound, Of
<1>2. Len(Of(old).via) \in 0..4 /\ old.effect = "none" /\ ~old.late
  BY <1>1 DEF GuardsSound, RequestInv, WorkInv
<1>3. ~Through(new)
  BY <1>2 DEF Through
<1>4. GuardsInv(new)
  BY <1>1, <1>2, <1>3 DEF RequestInv, GuardsInv
<1>5. SignInInv(new)
  BY <1>1, <1>3 DEF RequestInv, SignInInv
<1>6. WorkInv(new)
  <2>1. new.effect = "none" /\ ~new.late
    BY <1>2
  <2> QED BY <1>1, <1>3, <2>1 DEF RequestInv, WorkInv
<1>7. AnswerInv(new)
  BY DEF AnswerInv
<1> QED BY <1>4, <1>5, <1>6, <1>7, Updated DEF RequestInv

LEMMA GitLabStep ==
  ASSUME IInv, NEW c \in Client, GitLabSignIn(c)
  PROVE  IInv'
<1> DEFINE old == req[c]
           one == [old EXCEPT !.stage = @ + 1]
           two == [one EXCEPT !.how = "gitlab"]
           new == [two EXCEPT !.admitted = TRUE]
<1>1. /\ old \in Request /\ req \in [Client -> Request] /\ Of(old).gitlab
      /\ Faces(c, "signin") /\ latest' = latest
  BY RequestNow DEF IInv, GitLabSignIn
<1>2. /\ old.pc = "guard" /\ old.stage \in 1..Len(Of(old).via)
      /\ Of(old).via[old.stage] = "signin" /\ GuardsSound(old.name, Of(old))
  BY <1>1, Facing
<1>3. old.stage \in 1..4 /\ old.stage + 1 \in 1..5 /\ old.stage <= Len(Of(old).via)
  BY <1>2 DEF GuardsSound
<1>4. CASE req' = [req EXCEPT ![c].stage = @ + 1, ![c].how = "gitlab",
                              ![c].admitted = TRUE]
  <2>1. req' = [req EXCEPT ![c] = new]
    BY <1>1, <1>4
  <2> HIDE DEF old
  <2>2. one \in Request
    BY <1>1, <1>3 DEF Request
  <2>3. two \in Request
    <3> HIDE DEF one
    <3> QED BY <2>2 DEF Request
  <2>4. new \in Request
    <3> HIDE DEF two
    <3> QED BY <2>3 DEF Request
  <2>5. /\ new.pc = "guard" /\ new.stage = old.stage + 1 /\ new.admitted = TRUE
        /\ new.how = "gitlab" /\ new.key = old.key /\ new.name = old.name
        /\ new.method = old.method /\ new.who = old.who
        /\ new.id = old.id /\ new.target = old.target
    BY <1>1, <1>2 DEF Request
  <2>6. /\ new.effect = old.effect /\ new.late = old.late
        /\ new.csrf = old.csrf /\ new.refreshed = old.refreshed
        /\ new.finding = old.finding /\ new.cookies = old.cookies
        /\ new.code = old.code
    BY <1>1, <1>2 DEF Request
  <2>7. Of(new).gitlab
    BY <1>1, <2>5 DEF Of
  <2> HIDE DEF new
  <2> QED BY <1>1, <1>2, <1>3, <2>1, <2>4, <2>5, <2>6, <2>7, Admitting DEF old
<1>5. CASE Rejects(c, "gitlab", "invalid")
  BY <1>1, <1>5, RejectingHere DEF Verdict
<1> QED BY <1>4, <1>5 DEF GitLabSignIn

LEMMA NotSignedInStep ==
  ASSUME IInv, NEW c \in Client, NotSignedIn(c)
  PROVE  IInv'
BY RejectingHere DEF NotSignedIn, Verdict

LEMMA AuthorizeStep ==
  ASSUME IInv, NEW c \in Client, Authorize(c)
  PROVE  IInv'
<1> DEFINE old == req[c]
           one == [old EXCEPT !.pc = "guard"]
           two == [one EXCEPT !.stage = old.stage + 1]
           new == [two EXCEPT !.admitted = TRUE]
<1>1. /\ old \in Request /\ req \in [Client -> Request]
      /\ old.pc = "authorize" /\ latest' = latest
  BY RequestNow DEF IInv, Authorize, Is
<1>2. /\ old.stage <= Len(Of(old).via) /\ Of(old).via[old.stage] = "signin"
      /\ old.stage \in 1..4 /\ old.stage + 1 \in 1..5
  BY <1>1, SigningIn
<1>3. CASE req' = [req EXCEPT ![c].pc = "guard", ![c].stage = @ + 1, ![c].admitted = TRUE]
  <2>1. req' = [req EXCEPT ![c] = new]
    BY <1>1, <1>3
  <2> HIDE DEF old
  <2>2. one \in Request
    BY <1>1 DEF Request
  <2>6. two \in Request
    <3> HIDE DEF one
    <3> QED BY <1>2, <2>2 DEF Request
  <2>3. new \in Request
    <3> HIDE DEF two
    <3> QED BY <2>6 DEF Request
  <2>4. /\ new.pc = "guard" /\ new.stage = old.stage + 1 /\ new.admitted = TRUE
        /\ new.how = old.how /\ new.key = old.key /\ new.name = old.name
        /\ new.method = old.method /\ new.who = old.who
        /\ new.id = old.id /\ new.target = old.target
    BY <1>1 DEF Request
  <2>5. /\ new.effect = old.effect /\ new.late = old.late
        /\ new.csrf = old.csrf /\ new.refreshed = old.refreshed
        /\ new.finding = old.finding /\ new.cookies = old.cookies
        /\ new.code = old.code
    BY <1>1 DEF Request
  <2> HIDE DEF new
  <2> QED BY <1>1, <1>2, <2>1, <2>3, <2>4, <2>5, Admitting DEF old
<1>4. ASSUME NEW f \in {"noRole", "unprovisioned", "unavailable", "misconfigured"},
             Rejects(c, old.how, f)
      PROVE  IInv'
  <2>1. f \in Verdict \ {"good"} /\ old.how \in {"nothing", "bearer", "cookie", "gitlab"}
    BY <1>1 DEF Verdict, Temporary, Request
  <2> QED BY <1>1, <1>2, <1>4, <2>1, Rejecting
<1> QED BY <1>3, <1>4 DEF Authorize

-----------------------------------------------------------------------------
(* The body                                                                *)

\* Past the guards, before and after the workflow is found.
LEMMA InBody ==
  ASSUME IInv, NEW c \in Client, Passed(c) \/ Is(c, "found")
  PROVE  /\ req[c].pc \in {"guard", "found"} /\ req[c].effect = "none"
         /\ req[c].stage = Len(Of(req[c]).via) + 1
<1>1. /\ req[c] \in Request /\ RequestInv(req[c]) /\ H(c) = Of(req[c])
      /\ GuardsSound(req[c].name, Of(req[c]))
  BY RequestNow DEF HandlerSound
<1>2. req[c].stage \in 1..5 /\ Len(Of(req[c]).via) \in 0..4
  BY <1>1 DEF Request, GuardsSound
<1> QED BY <1>1, <1>2 DEF Passed, Is, RequestInv, GuardsInv, WorkInv, Through

LEMMA RefuseStep ==
  ASSUME IInv, NEW c \in Client, Refuse(c)
  PROVE  IInv'
<1>1. /\ HandlerSound(req[c].name, Of(req[c])) /\ H(c) = Of(req[c])
  BY RequestNow
<1>2. PICK code \in Of(req[c]).refuses : AnswersWith(c, code, TRUE, FALSE)
  BY <1>1 DEF Refuse, Answers
<1>3. code \in Answerable(req[c].name, Of(req[c]))
  BY <1>1 DEF HandlerSound, BodySound
<1>4. code \in Successes => /\ req[c].name = "gitlab_oauth" /\ code = 200
                           /\ Of(req[c]).finds = "nothing"
  <2>1. BodySound(req[c].name, Of(req[c]))
    BY <1>1 DEF HandlerSound
  <2>2. code \in Failures \/ (req[c].name = "gitlab_oauth" /\ code = 200)
    BY <2>1 DEF BodySound
  <2>3. code \in Failures => code \notin Successes
    BY CodeRanges
  <2> QED BY <2>1, <2>2, <2>3 DEF BodySound
<1>5. /\ req[c].pc \in {"guard", "found"} /\ req[c].effect = "none" /\ latest' = latest
  BY InBody DEF Refuse
<1> QED BY <1>2, <1>3, <1>4, <1>5, Answering DEF Unasked

\* What fails before anything is asked for.
LEMMA BodyFails ==
  ASSUME IInv, NEW c \in Client, Passed(c) \/ Is(c, "found"),
         NEW code \in Failures, Answers(c, code), latest' = latest,
         code \in Answerable(req[c].name, Of(req[c]))
  PROVE  IInv'
<1>1. req[c].pc \in {"guard", "found"} /\ req[c].effect = "none"
  BY InBody
<1>2. AnswersWith(c, code, TRUE, FALSE)
  BY DEF Answers
<1>3. code \notin Successes
  BY CodeRanges
<1> QED BY <1>1, <1>2, <1>3, Answering DEF Unasked

\* The workflow is found, or what is to be done is asked for.
LEMMA GoingOn ==
  ASSUME IInv, NEW c \in Client, Passed(c) \/ Is(c, "found"), latest' = latest,
         NEW place \in {"found", "asked"}, NEW target \in Run \cup {NoKey},
         target = Meant(c) \/ target = req[c].target,
         req' = [req EXCEPT ![c].pc = place, ![c].target = target],
         Of(req[c]).finds # "nothing" => MayFind(req[c].who, Of(req[c]).finds)
  PROVE  IInv'
<1> DEFINE old == req[c]
           one == [old EXCEPT !.pc = place]
           new == [one EXCEPT !.target = target]
<1>1. /\ old \in Request /\ RequestInv(old) /\ req \in [Client -> Request]
      /\ old.pc \in {"guard", "found"} /\ old.effect = "none"
      /\ old.stage = Len(Of(old).via) + 1
  BY RequestNow, InBody DEF IInv
<1>2. req' = [req EXCEPT ![c] = new]
  BY <1>1
<1>3. target # NoKey /\ old.id # Bare => target = old.id
  BY <1>1, Named DEF RequestInv, WorkInv
<1> HIDE DEF old
<1>4. one \in Request
  BY <1>1 DEF Request
<1>5. new \in Request
  <2> HIDE DEF one
  <2> QED BY <1>4 DEF Request
<1>6. /\ new.pc = place /\ new.target = target
      /\ new.stage = old.stage /\ new.key = old.key
      /\ new.name = old.name /\ new.method = old.method /\ new.who = old.who
      /\ new.id = old.id /\ new.effect = old.effect /\ new.late = old.late
      /\ new.how = old.how /\ new.csrf = old.csrf
  BY <1>1 DEF Request
<1>7. /\ new.admitted = old.admitted /\ new.finding = old.finding
      /\ new.refreshed = old.refreshed
      /\ new.cookies = old.cookies /\ new.code = old.code
  BY <1>1 DEF Request
<1> HIDE DEF new
<1>8. GuardsInv(new)
  BY <1>1, <1>6, <1>7 DEF RequestInv, GuardsInv, Through, Of
<1>9. SignInInv(new)
  BY <1>1, <1>6, <1>7 DEF RequestInv, SignInInv, Through, Of
<1>10. WorkInv(new)
  BY <1>1, <1>3, <1>6 DEF RequestInv, WorkInv, Through, Unasked, Of, old
<1>11. AnswerInv(new)
  BY <1>6 DEF AnswerInv
<1> QED BY <1>2, <1>5, <1>6, <1>8, <1>9, <1>10, <1>11, Updated DEF RequestInv, old

LEMMA FindStep ==
  ASSUME IInv, NEW c \in Client, Find(c)
  PROVE  IInv'
<1>1. /\ HandlerSound(req[c].name, Of(req[c])) /\ H(c) = Of(req[c])
      /\ Passed(c) /\ Of(req[c]).finds # "nothing" /\ latest' = latest
      /\ Meant(c) \in Run
  BY RequestNow, Named DEF Find
<1>2. CASE MayFind(req[c].who, Of(req[c]).finds)
  <2>1. req' = [req EXCEPT ![c].pc = "found", ![c].target = Meant(c)]
    BY <1>1, <1>2 DEF Find
  <2> QED BY <1>1, <1>2, <2>1, GoingOn
<1>3. CASE ~MayFind(req[c].who, Of(req[c]).finds)
  <2>1. Answers(c, Of(req[c]).missing)
    BY <1>1, <1>3 DEF Find
  <2>2. /\ Of(req[c]).missing \in Answerable(req[c].name, Of(req[c]))
        /\ Of(req[c]).missing \in Failures
    BY <1>1 DEF HandlerSound, BodySound
  <2> QED BY <1>1, <2>1, <2>2, BodyFails
<1> QED BY <1>2, <1>3

LEMMA LackStep ==
  ASSUME IInv, NEW c \in Client, Lack(c)
  PROVE  IInv'
<1>1. /\ HandlerSound(req[c].name, Of(req[c])) /\ H(c) = Of(req[c])
      /\ Passed(c) \/ Is(c, "found")
      /\ latest' = latest
  BY RequestNow DEF Lack
<1>2. PICK code \in Of(req[c]).lacks : Answers(c, code)
  BY <1>1 DEF Lack
<1>3. code \in Answerable(req[c].name, Of(req[c])) /\ code \in Failures
  BY <1>1 DEF HandlerSound, BodySound
<1> QED BY <1>1, <1>2, <1>3, BodyFails DEF Lack

\* The handler commits its own change and asks.
LEMMA Preparing ==
  ASSUME IInv, NEW c \in Client, Passed(c) \/ Is(c, "found"), latest' = latest,
         req[c].method \in Of(req[c]).prepares,
         req' = [req EXCEPT ![c].pc = "asked", ![c].effect = "prepared"],
         Of(req[c]).finds # "nothing" => MayFind(req[c].who, Of(req[c]).finds)
  PROVE  IInv'
<1> DEFINE old == req[c]
           one == [old EXCEPT !.pc = "asked"]
           new == [one EXCEPT !.effect = "prepared"]
<1>1. /\ old \in Request /\ RequestInv(old) /\ req \in [Client -> Request]
      /\ old.pc \in {"guard", "found"} /\ old.effect = "none"
      /\ old.stage = Len(Of(old).via) + 1
  BY RequestNow, InBody DEF IInv
<1>2. req' = [req EXCEPT ![c] = new]
  BY <1>1
<1>3. /\ old.name = "gitlab_webhook" /\ old.method = "POST"
      /\ Of(old).changes # "nothing" /\ Of(old).asks # "controller"
  BY RequestNow DEF HandlerSound, BodySound
<1> HIDE DEF old
<1>4. one \in Request
  BY <1>1 DEF Request
<1>5. new \in Request
  <2> HIDE DEF one
  <2> QED BY <1>4 DEF Request
<1>6. /\ new.pc = "asked" /\ new.effect = "prepared" /\ new.target = old.target
      /\ new.stage = old.stage /\ new.key = old.key
      /\ new.name = old.name /\ new.method = old.method /\ new.who = old.who
      /\ new.id = old.id /\ new.late = old.late
      /\ new.how = old.how /\ new.csrf = old.csrf
  BY <1>1 DEF Request
<1>7. /\ new.admitted = old.admitted /\ new.finding = old.finding
      /\ new.refreshed = old.refreshed
      /\ new.cookies = old.cookies /\ new.code = old.code
  BY <1>1 DEF Request
<1> HIDE DEF new
<1>8. GuardsInv(new)
  BY <1>1, <1>6, <1>7 DEF RequestInv, GuardsInv, Through, Of
<1>9. SignInInv(new)
  BY <1>1, <1>6, <1>7 DEF RequestInv, SignInInv, Through, Of
<1>10. WorkInv(new)
  BY <1>1, <1>3, <1>6 DEF RequestInv, WorkInv, Through, Of, Changes, Unasked, old
<1>11. AnswerInv(new)
  BY <1>6 DEF AnswerInv
<1> QED BY <1>2, <1>5, <1>6, <1>8, <1>9, <1>10, <1>11, Updated DEF RequestInv, old

LEMMA AskStep ==
  ASSUME IInv, NEW c \in Client, Ask(c)
  PROVE  IInv'
<1>1. /\ req[c] \in Request /\ RequestInv(req[c]) /\ H(c) = Of(req[c])
      /\ req \in [Client -> Request]
  BY RequestNow DEF IInv
<1>2. Passed(c) \/ Is(c, "found")
  BY DEF Ask
<1>3. Of(req[c]).finds # "nothing" => MayFind(req[c].who, Of(req[c]).finds)
  BY <1>1 DEF Ask, Is, RequestInv, WorkInv, Through
<1>4. req[c].target \in Run \cup {NoKey} /\ latest' = latest
  BY <1>1 DEF Request, Ask
<1>5. CASE Goes(c, "asked")
  <2>1. [req[c] EXCEPT !.pc = "asked"]
          = [req[c] EXCEPT !.pc = "asked", !.target = req[c].target]
    BY <1>1 DEF Request
  <2>2. req' = [req EXCEPT ![c].pc = "asked", ![c].target = req[c].target]
    BY <1>1, <1>5, <2>1 DEF Goes
  <2> QED BY <1>2, <1>3, <1>4, <2>2, GoingOn
<1>6. CASE /\ req[c].method \in Of(req[c]).prepares
           /\ req' = [req EXCEPT ![c].pc = "asked", ![c].effect = "prepared"]
  BY <1>2, <1>3, <1>4, <1>6, Preparing
<1> QED BY <1>1, <1>5, <1>6 DEF Ask

\* The work of a request begins or ends; the rest of it stays as it is.
LEMMA Working ==
  ASSUME IInv, NEW c \in Client, latest' = latest, NEW target \in Run \cup {NoKey},
         NEW effect \in {"running", "done"},
         req' = [req EXCEPT ![c].effect = effect, ![c].target = target],
         \/ /\ req[c].pc = "asked" \/ (req[c].pc = "answered" /\ req[c].late)
            /\ req[c].effect \in Unasked /\ Changes(req[c])
            /\ Of(req[c]).asks = "controller" => req[c].who = "owner"
            /\ target = IF req[c].target = NoKey THEN Meant(c) ELSE req[c].target
         \/ req[c].effect = "running" /\ effect = "done" /\ target = req[c].target
  PROVE  IInv'
<1> DEFINE old == req[c]
           one == [old EXCEPT !.effect = effect]
           new == [one EXCEPT !.target = target]
<1>1. /\ old \in Request /\ RequestInv(old) /\ req \in [Client -> Request]
  BY RequestNow DEF IInv
<1>2. req' = [req EXCEPT ![c] = new]
  BY <1>1
<1>3. Through(old) /\ Changes(old)
      /\ (old.pc = "asked" \/ (old.pc = "answered" /\ old.late))
  BY <1>1 DEF Through, RequestInv, WorkInv
<1>4. target # NoKey /\ (old.id # Bare => target = old.id)
  BY <1>1, Named DEF RequestInv, WorkInv, Unasked
<1>5. Of(old).asks = "controller" => old.who = "owner"
  BY <1>1 DEF RequestInv, WorkInv
<1>6. old.effect = "running" \/ old.effect \in Unasked
  OBVIOUS
<1> HIDE DEF old
<1>7. one \in Request
  BY <1>1 DEF Request
<1>8. new \in Request
  <2> HIDE DEF one
  <2> QED BY <1>7 DEF Request
<1>9. /\ new.effect = effect /\ new.target = target
      /\ new.pc = old.pc /\ new.stage = old.stage /\ new.key = old.key
      /\ new.name = old.name /\ new.method = old.method /\ new.who = old.who
      /\ new.id = old.id /\ new.late = old.late /\ new.clear = old.clear
      /\ new.how = old.how /\ new.csrf = old.csrf
  BY <1>1 DEF Request
<1>10. /\ new.admitted = old.admitted /\ new.finding = old.finding
       /\ new.refreshed = old.refreshed
       /\ new.cookies = old.cookies /\ new.code = old.code
  BY <1>1 DEF Request
<1> HIDE DEF one, new
<1>11. Through(new)
  BY <1>3, <1>9 DEF Through
<1>12. GuardsInv(new)
  BY <1>1, <1>3, <1>9, <1>10, <1>11 DEF RequestInv, GuardsInv, Of
<1>13. SignInInv(new)
  BY <1>1, <1>3, <1>9, <1>10, <1>11 DEF RequestInv, SignInInv, Of
<1>14. WorkInv(new)
  BY <1>1, <1>3, <1>4, <1>5, <1>9, <1>10, <1>11
     DEF RequestInv, WorkInv, Of, Changes, Unasked
<1>15. AnswerInv(new)
  <2>1. CASE new.pc = "answered"
    <3>1. new.code \in Faults
      BY <1>1, <1>3, <1>9, <1>10, <2>1 DEF RequestInv, WorkInv
    <3> QED BY <1>1, <1>9, <1>10, <3>1, CodeRanges DEF RequestInv, AnswerInv, Of
  <2> QED BY <2>1 DEF AnswerInv
<1> QED BY <1>2, <1>8, <1>9, <1>12, <1>13, <1>14, <1>15, Updated DEF RequestInv, old

LEMMA BeginStep ==
  ASSUME IInv, NEW c \in Client, Begin(c)
  PROVE  IInv'
<1> DEFINE target == IF req[c].target = NoKey THEN Meant(c) ELSE req[c].target
<1>1. /\ req[c] \in Request /\ req \in [Client -> Request] /\ H(c) = Of(req[c])
      /\ target \in Run \cup {NoKey}
  BY RequestNow, Named DEF IInv, Request
<1>2. req' = [req EXCEPT ![c].effect = "running", ![c].target = target]
  BY <1>1 DEF Begin, Request
<1>3. /\ req[c].pc = "asked" \/ (req[c].pc = "answered" /\ req[c].late)
      /\ req[c].effect \in Unasked /\ latest' = latest
      /\ Of(req[c]).asks = "controller" => req[c].who = "owner"
  BY <1>1 DEF Begin, Is
<1>4. Changes(req[c])
  BY <1>1 DEF Begin, Changing, Changes
<1> HIDE DEF target
<1> QED BY <1>1, <1>2, <1>3, <1>4, Working DEF target

LEMMA CompleteStep ==
  ASSUME IInv, NEW c \in Client, Complete(c)
  PROVE  IInv'
<1>1. /\ req[c] \in Request /\ req \in [Client -> Request]
      /\ req[c].effect = "running" /\ latest' = latest
      /\ req[c].target \in Run \cup {NoKey}
  BY RequestNow DEF IInv, Complete, Request
<1>2. req' = [req EXCEPT ![c].effect = "done", ![c].target = req[c].target]
  <2>1. [req[c] EXCEPT !.effect = "done"]
          = [req[c] EXCEPT !.effect = "done", !.target = req[c].target]
    BY <1>1 DEF Request
  <2> QED BY <1>1, <2>1 DEF Complete
<1> QED BY <1>1, <1>2, Working

\* What was asked for has succeeded, as far as it changes anything.
LEMMA Succeeding ==
  ASSUME IInv, NEW c \in Client, Succeeded(c)
  PROVE  /\ req[c].pc = "asked" /\ Through(req[c]) /\ req[c].effect # "running"
         /\ Changes(req[c]) => req[c].effect = "done"
         /\ req[c].effect = "none" \/ req[c].effect = "done"
<1>1. /\ req[c] \in Request /\ RequestInv(req[c]) /\ H(c) = Of(req[c])
  BY RequestNow
<1>2. Changing(c) <=> Changes(req[c])
  BY <1>1 DEF Changing, Changes
<1>3. req[c].pc = "asked" /\ (Changes(req[c]) => req[c].effect = "done")
  BY <1>2 DEF Succeeded, Is
<1>4. req[c].effect # "none" => Changes(req[c])
  BY <1>1 DEF RequestInv, WorkInv
<1> QED BY <1>1, <1>3, <1>4 DEF Through

LEMMA SucceedStep ==
  ASSUME IInv, NEW c \in Client, Succeed(c)
  PROVE  IInv'
<1>1. /\ HandlerSound(req[c].name, Of(req[c])) /\ H(c) = Of(req[c])
      /\ Succeeded(c) /\ latest' = latest
  BY RequestNow DEF Succeed
<1>2. PICK code \in Of(req[c]).ok : AnswersWith(c, code, TRUE, FALSE)
  BY <1>1 DEF Succeed, Answers
<1>3. /\ code \in Answerable(req[c].name, Of(req[c]))
      /\ code \in Successes \cup Faults
  BY <1>1 DEF HandlerSound, BodySound
<1>4. code \notin Refusals
  BY <1>3, CodeRanges
<1>5. /\ req[c].pc = "asked" /\ Through(req[c]) /\ req[c].effect # "running"
      /\ ~Changes(req[c]) \/ req[c].effect = "done"
      /\ req[c].effect = "none" \/ req[c].effect = "done"
  BY <1>1, Succeeding
<1> QED BY <1>1, <1>2, <1>3, <1>4, <1>5, Answering

LEMMA GarbleStep ==
  ASSUME IInv, NEW c \in Client, Garble(c)
  PROVE  IInv'
<1>1. /\ HandlerSound(req[c].name, Of(req[c])) /\ H(c) = Of(req[c])
      /\ Succeeded(c) /\ latest' = latest
  BY RequestNow DEF Garble
<1>2. PICK code \in Of(req[c]).garbled : AnswersWith(c, code, FALSE, FALSE)
  BY <1>1 DEF Garble
<1>3. code \in Answerable(req[c].name, Of(req[c])) /\ code \in Failures
  BY <1>1 DEF HandlerSound, BodySound
<1>4. code \notin Successes
  BY <1>3, CodeRanges
<1>5. /\ req[c].pc = "asked" /\ Through(req[c]) /\ req[c].effect # "running"
      /\ ~Changes(req[c]) \/ req[c].effect = "done"
      /\ req[c].effect = "none" \/ req[c].effect = "done"
  BY <1>1, Succeeding
<1> QED BY <1>1, <1>2, <1>3, <1>4, <1>5, Answering DEF Unasked

LEMMA BeRefusedStep ==
  ASSUME IInv, NEW c \in Client, BeRefused(c)
  PROVE  IInv'
<1>1. /\ HandlerSound(req[c].name, Of(req[c])) /\ H(c) = Of(req[c])
      /\ req[c].pc = "asked" /\ req[c].effect \in Unasked /\ Of(req[c]).asks # "nobody"
      /\ latest' = latest
  BY RequestNow DEF BeRefused, Is
<1>2. PICK code \in {Of(req[c]).refused} \cup Of(req[c]).badError :
        AnswersWith(c, code, TRUE, FALSE)
  BY <1>1 DEF BeRefused, Answers
<1>3. /\ code \in Answerable(req[c].name, Of(req[c]))
      /\ code \in Failures \/ code = Forwarded
  BY <1>1 DEF HandlerSound, BodySound
<1>4. code \notin Successes /\ req[c].effect # "running"
  BY <1>1, <1>3, CodeRanges DEF Unasked
<1> QED BY <1>1, <1>2, <1>3, <1>4, Answering

\* The server no longer waits for what it has asked for.
LEMMA GivesUp ==
  ASSUME IInv, NEW c \in Client, Is(c, "asked"), latest' = latest,
         NEW code \in Of(req[c]).timeout \cup Of(req[c]).lost,
         code \in Of(req[c]).timeout \/ Of(req[c]).asks # "nobody",
         AnswersWith(c, code, TRUE, TRUE)
  PROVE  IInv'
<1>1. /\ HandlerSound(req[c].name, Of(req[c]))
      /\ req[c].pc \in {"guard", "found", "asked"} /\ Through(req[c])
  BY RequestNow DEF Is, Through
<1>2. code \in Answerable(req[c].name, Of(req[c])) /\ code \in Faults
  BY <1>1 DEF HandlerSound, BodySound
<1>3. code \notin Successes /\ code \notin Refusals
  BY <1>2, CodeRanges
<1> QED BY <1>1, <1>2, <1>3, Answering

LEMMA TimeOutStep ==
  ASSUME IInv, NEW c \in Client, TimeOut(c)
  PROVE  IInv'
<1>1. H(c) = Of(req[c])
  BY RequestNow
<1> QED BY <1>1, GivesUp DEF TimeOut

LEMMA BreakStep ==
  ASSUME IInv, NEW c \in Client, Break(c)
  PROVE  IInv'
<1>1. H(c) = Of(req[c])
  BY RequestNow
<1> QED BY <1>1, GivesUp DEF Break

LEMMA BreakHereStep ==
  ASSUME IInv, NEW c \in Client, BreakHere(c)
  PROVE  IInv'
<1> DEFINE old == req[c]
           effect == IF old.effect = "running" THEN "partial" ELSE old.effect
           jar == IF old.refreshed THEN "renewed" ELSE old.cookies
<1>1. /\ old \in Request /\ RequestInv(old) /\ HandlerSound(old.name, Of(old))
      /\ H(c) = Of(old) /\ req \in [Client -> Request] /\ old.pc = "asked"
      /\ latest' = latest
  BY RequestNow DEF IInv, BreakHere, Is
<1>2. PICK code \in Of(old).lost :
        req' = [req EXCEPT ![c].pc = "answered", ![c].code = code,
                  ![c].key = NoKey,
                  ![c].effect = IF @ = "running" THEN "partial" ELSE @,
                  ![c].cookies = IF req[c].refreshed THEN "renewed" ELSE @]
  BY <1>1 DEF BreakHere
<1>3. /\ code \in Answerable(old.name, Of(old)) /\ code \in Codes
      /\ code \notin Successes
      /\ code \in Refusals /\ Changes(old) =>
           code = 403 /\ old.name \in Enclosing
  <2>1. code \in Answerable(old.name, Of(old)) /\ code \in Faults \cup {403}
    BY <1>1 DEF HandlerSound, BodySound
  <2>2. code \in Codes /\ code \notin Successes
    BY <2>1, CodeRanges DEF Codes, Successes
  <2>3. code \in Refusals => code = 403
    BY <2>1, CodeRanges
  <2>4. code = 403 /\ Changes(old) => old.name \in Enclosing
    BY <1>1 DEF HandlerSound, BodySound, Changes
  <2> QED BY <2>1, <2>2, <2>3, <2>4
<1> DEFINE one == [old EXCEPT !.pc = "answered", !.code = code]
           two == [one EXCEPT !.key = NoKey]
           three == [two EXCEPT !.effect = effect]
           new == [three EXCEPT !.cookies = jar]
<1>4. req' = [req EXCEPT ![c] = new]
  BY <1>1, <1>2
<1>5. /\ effect \in {"none", "prepared", "done", "partial"}
      /\ old.effect # "none" <=> effect # "none"
      /\ effect \notin Unasked => old.effect \notin Unasked
      /\ effect = "prepared" => old.effect = "prepared"
  BY <1>1 DEF Request, Unasked
<1>6. /\ jar \in {"kept", "renewed"} /\ old.finding = "good" /\ ~old.late
      /\ old.cookies = "kept" /\ (jar = "renewed" <=> old.refreshed)
  BY <1>1 DEF RequestInv, SignInInv, WorkInv
<1> HIDE DEF old, effect, jar
<1>7. one \in Request
  BY <1>1, <1>3 DEF Request
<1>8. two \in Request
  <2> HIDE DEF one
  <2> QED BY <1>7 DEF Request
<1>9. three \in Request
  <2> HIDE DEF two
  <2> QED BY <1>5, <1>8 DEF Request
<1>10. new \in Request
  <2> HIDE DEF three
  <2> QED BY <1>6, <1>9 DEF Request
<1>11. /\ new.pc = "answered" /\ new.code = code /\ new.key = NoKey
       /\ new.effect = effect /\ new.cookies = jar
       /\ new.name = old.name /\ new.method = old.method /\ new.who = old.who
  BY <1>1 DEF Request
<1>12. /\ new.id = old.id /\ new.stage = old.stage /\ new.target = old.target
       /\ new.late = old.late /\ new.how = old.how /\ new.finding = old.finding
       /\ new.csrf = old.csrf /\ new.refreshed = old.refreshed
       /\ new.admitted = old.admitted
  BY <1>1 DEF Request
<1> HIDE DEF one, two, three, new
<1>13. Through(old) /\ (Through(new) => Through(old))
  BY <1>1 DEF Through
<1>14. GuardsInv(new)
  BY <1>1, <1>11, <1>12, <1>13 DEF RequestInv, GuardsInv, Of
<1>15. SignInInv(new)
  BY <1>1, <1>6, <1>11, <1>12, <1>13 DEF RequestInv, SignInInv, Of, Definitive, Temporary
<1>16. WorkInv(new)
  BY <1>1, <1>5, <1>6, <1>11, <1>12, <1>13 DEF RequestInv, WorkInv, Of, Changes
<1>17. AnswerInv(new)
  <2>1. /\ new.code = code /\ new.name = old.name /\ Of(new) = Of(old)
        /\ Changes(new) <=> Changes(old)
    BY <1>11 DEF Of, Changes
  <2>2. Changes(new) /\ new.code \in Refusals => TooLate(new)
    BY <1>3, <2>1 DEF TooLate
  <2> QED BY <1>3, <2>1, <2>2 DEF AnswerInv
<1> QED BY <1>1, <1>4, <1>10, <1>11, <1>14, <1>15, <1>16, <1>17, Updated DEF RequestInv, old

-----------------------------------------------------------------------------
(* The invariant                                                           *)

LEMMA IdleSound == Idle \in Request /\ RequestInv(Idle)
<1>1. Idle \in Request
  BY IdleIsRequest
<1>2. Len(Of(Idle).via) \in 0..4
  BY HandlersSound, <1>1 DEF Of, HandlerSound, GuardsSound, Request
<1>3. /\ Idle.pc = "idle" /\ Idle.effect = "none" /\ ~Idle.late /\ Idle.stage = 1
      /\ Idle.key = NoKey /\ Idle.target = NoKey /\ Idle.how = "nothing"
      /\ Idle.finding = "good" /\ ~Idle.admitted /\ Idle.cookies = "kept"
  BY DEF Idle
<1>4. GuardsInv(Idle)
  BY <1>2, <1>3 DEF GuardsInv, Through
<1>5. SignInInv(Idle) /\ WorkInv(Idle) /\ AnswerInv(Idle)
  BY <1>3 DEF SignInInv, WorkInv, AnswerInv, Unasked, Through, Definitive, Temporary
<1> QED BY <1>1, <1>4, <1>5 DEF RequestInv

LEMMA LeaveStep ==
  ASSUME IInv, NEW c \in Client, Leave(c)
  PROVE  IInv'
<1>1. req' = [req EXCEPT ![c] = Idle] /\ latest' = latest /\ Idle.key = NoKey
  BY DEF Leave, Idle
<1> QED BY <1>1, IdleSound, Updated

LEMMA Initially == EndpointsInit => IInv
<1> SUFFICES ASSUME EndpointsInit  PROVE IInv
  OBVIOUS
<1>1. \A c \in Client : req[c] = Idle /\ req[c].key = NoKey
  BY DEF EndpointsInit, Idle
<1>2. req \in [Client -> Request] /\ latest \in Run
  BY IdleSound DEF EndpointsInit
<1> QED BY <1>1, <1>2, IdleSound DEF IInv, OneHolder

LEMMA Stepping == IInv /\ [EndpointsNext]_endpointVars => IInv'
<1> SUFFICES ASSUME IInv, [EndpointsNext]_endpointVars  PROVE IInv'
  OBVIOUS
<1>1. ASSUME NEW c \in Client, NEW name \in DOMAIN Handler, NEW who \in Person,
             NEW id \in Identifier, NEW method \in Handler[name].methods,
             Arrive(c, name, method, who, id)
      PROVE  IInv'
  BY <1>1, ArriveStep
<1>2. ASSUME NEW c \in Client, Step(c)  PROVE IInv'
  <2>1. CASE \/ handle_rate_limit_error(c) \/ ParseArguments(c) \/ check_quota(c)
             \/ check_quota_management_secret(c) \/ serialize_workspace_mutation(c)
    BY <2>1, RateLimitStep, ParseArgumentsStep, QuotaStep, QuotaSecretStep, LockStep
  <2>2. CASE \/ BearerSignIn(c) \/ CookieSignIn(c) \/ RefreshToken(c)
             \/ GitLabSignIn(c) \/ NotSignedIn(c) \/ Authorize(c)
    BY <2>2, BearerStep, CookieStep, RefreshTokenStep, GitLabStep, NotSignedInStep,
       AuthorizeStep
  <2>3. CASE Refuse(c) \/ Find(c) \/ Lack(c) \/ Ask(c) \/ Begin(c) \/ Complete(c)
    BY <2>3, RefuseStep, FindStep, LackStep, AskStep, BeginStep, CompleteStep
  <2>4. CASE \/ Succeed(c) \/ Garble(c) \/ BeRefused(c) \/ TimeOut(c) \/ Break(c)
             \/ BreakHere(c) \/ Leave(c)
    BY <2>4, SucceedStep, GarbleStep, BeRefusedStep, TimeOutStep, BreakStep,
       BreakHereStep, LeaveStep
  <2> QED BY <1>2, <2>1, <2>2, <2>3, <2>4 DEF Step
<1>3. CASE NewRun
  BY <1>3 DEF NewRun, IInv, OneHolder
<1>4. CASE UNCHANGED endpointVars
  BY <1>4 DEF endpointVars, IInv, OneHolder
<1> QED BY <1>1, <1>2, <1>3, <1>4 DEF EndpointsNext

LEMMA Invariance == EndpointsSpec => []IInv
<1> QED BY Initially, Stepping, PTL DEF EndpointsSpec

-----------------------------------------------------------------------------
(* The theorems                                                            *)

\* Two changes of one workspace never overlap, except with one that the server
\* has given up waiting for, or whose bare name came to mean a new run between
\* the lock and the change: the lock is the last guard of whatever changes a
\* workspace, and what is changed is the workspace whose lock is held.
THEOREM ChangesExclude == EndpointsSpec => []MutationsExclusive
<1>1. IInv => MutationsExclusive
  <2> SUFFICES ASSUME IInv, NEW c \in Client, NEW d \in Client, c # d,
                      Mutates(c), Mutates(d),
                      Workspace[req[c].target] = Workspace[req[d].target],
                      \A e \in {c, d} : ~req[e].late /\ ~Mislocked(e)
               PROVE  FALSE
    BY DEF MutationsExclusive
  <2>1. ASSUME NEW e \in {c, d}
        PROVE  req[e].key = Workspace[req[e].target] /\ req[e].key # NoKey
    <3> DEFINE r == req[e]
    <3>1. /\ r \in Request /\ RequestInv(r) /\ GuardsSound(r.name, Of(r))
          /\ BodySound(r.name, Of(r)) /\ H(e) = Of(r)
      BY RequestNow DEF HandlerSound
    <3>2. /\ Of(r).changes = "workspace" /\ r.effect = "running" /\ ~r.late
          /\ ~Mislocked(e)
      BY <3>1 DEF Mutates
    <3>3. /\ r.pc = "asked" /\ r.target # NoKey /\ Through(r)
          /\ r.stage = Len(Of(r).via) + 1
      BY <3>1, <3>2 DEF RequestInv, WorkInv, Unasked, GuardsInv, Through
    <3>4. r.key # NoKey
      BY <3>1, <3>2, <3>3 DEF RequestInv, GuardsInv, GuardsSound
    <3>5. r.who = "owner"
      BY <3>1, <3>2, <3>3 DEF RequestInv, WorkInv, GuardsSound, MayFind
    <3>6. r.key \in Run /\ (r.id # Bare => r.key = Workspace[r.target])
      BY <3>1, <3>3, <3>4, <3>5 DEF RequestInv, WorkInv
    <3>7. r.id = Bare => r.key = Workspace[r.target]
      BY <3>2, <3>6 DEF Mislocked
    <3> QED BY <3>4, <3>6, <3>7
  <2>2. req[c].key = req[d].key /\ req[c].key # NoKey
    BY <2>1
  <2> QED BY <2>2 DEF IInv, OneHolder
<1> QED BY <1>1, Invariance, PTL

\* The browser's cookies are cleared by a definitive verdict and by nothing
\* else; a request gets through a guarded handler signed in, with the browser's
\* proof if it changes something, with a webhook's secret only to create a
\* workflow; and a token that was refreshed for it reaches the browser.
THEOREM SignedInAsDemanded == EndpointsSpec => []SignInHonest
<1>1. IInv => SignInHonest
  <2> SUFFICES ASSUME IInv, NEW c \in Client
               PROVE  LET r == req[c]
                          through == r.pc \in {"found", "asked"} \/ r.effect # "none" IN
                      /\ Answered(c) => (r.cookies = "cleared" <=> r.finding \in Definitive)
                      /\ Answered(c) /\ r.how = "cookie" /\ r.finding \in Temporary
                           => r.code = 503
                      /\ through /\ H(c).via # <<>> /\ H(c).via # <<"secret">> => r.admitted
                      /\ through /\ r.how = "cookie" /\ r.method \notin SafeMethod => r.csrf
                      /\ through /\ r.how = "gitlab" => r.name = "create_workflow"
                      /\ Answered(c) /\ r.admitted => (r.cookies = "renewed" <=> r.refreshed)
    BY DEF SignInHonest
  <2> DEFINE r == req[c]
  <2>1. /\ r \in Request /\ GuardsInv(r) /\ SignInInv(r) /\ GuardsSound(r.name, Of(r))
        /\ H(c) = Of(r) /\ (Answered(c) <=> r.pc = "answered")
    BY RequestNow DEF HandlerSound, RequestInv, Answered, Is
  <2>2. ASSUME r.pc \in {"found", "asked"} \/ r.effect # "none"
        PROVE  /\ Through(r) /\ r.stage = Len(Of(r).via) + 1
               /\ Len(Of(r).via) \in 0..4
    BY <2>1, <2>2 DEF GuardsInv, GuardsSound, Through
  <2>3. ASSUME r.pc \in {"found", "asked"} \/ r.effect # "none",
               H(c).via # <<>> /\ H(c).via # <<"secret">>
        PROVE  r.admitted
    BY <2>1, <2>2, <2>3 DEF GuardsInv, GuardsSound
  <2>4. ASSUME r.pc \in {"found", "asked"} \/ r.effect # "none"
        PROVE  /\ r.how = "cookie" /\ r.method \notin SafeMethod => r.csrf
               /\ r.how = "gitlab" => r.name = "create_workflow"
    BY <2>1, <2>2, <2>4 DEF SignInInv, GuardsSound
  <2>5. Answered(c) =>
          /\ r.cookies = "cleared" <=> r.finding \in Definitive
          /\ r.how = "cookie" /\ r.finding \in Temporary => r.code = 503
          /\ r.admitted => (r.cookies = "renewed" <=> r.refreshed)
    BY <2>1 DEF SignInInv
  <2> HIDE DEF r
  <2> QED BY <2>1, <2>3, <2>4, <2>5 DEF r
<1> QED BY <1>1, Invariance, PTL

\* Every handler answers what its specification lists; its success means that
\* what it changes has changed, its refusal that nothing has or will, the secret
\* of a webhook that GitLab refuses and the 403 of a ValueError in the work of
\* three handlers aside; secrets go to the owner.  With the type of the state.
THEOREM AnsweredHonestly == EndpointsSpec => []AnswersHonest
<1>1. IInv => EndpointsTypeOK
  BY DEF IInv, Request, EndpointsTypeOK, Method, Codes
<1>2. ASSUME IInv, NEW c \in Client, Answered(c)
      PROVE  LET h == H(c)  code == req[c].code IN
             /\ code \in h.declared \cup {Forwarded, 429}
                  \/ <<req[c].name, code>> \in Undeclared
             /\ Changing(c) /\ h.changes # "family" =>
                  /\ Success(code) => \/ req[c].effect = "done"
                                      \/ req[c].name = "gitlab_oauth" /\ code = 200
                  /\ Refusal(code) => \/ req[c].effect = "none" /\ ~req[c].late
                                      \/ ~req[c].clear /\ req[c].effect = "done"
                                      \/ RefusedTooLate(c)
             /\ h.finds # "nothing" /\ Success(code) =>
                  \/ req[c].who = "owner"
                  \/ req[c].who = "sharee" /\ h.gives = "data"
  <2>1. /\ AnswerInv(req[c]) /\ req[c].pc = "answered" /\ H(c) = Of(req[c])
        /\ Changing(c) <=> Changes(req[c])
    BY <1>2, RequestNow DEF RequestInv, Answered, Is, Changing, Changes
  <2>2. req[c].code \in Answerable(req[c].name, Of(req[c]))
    BY <2>1 DEF AnswerInv
  <2>3. \/ req[c].code \in H(c).declared \cup {Forwarded, 429}
        \/ <<req[c].name, req[c].code>> \in Undeclared
    BY <2>1, <2>2 DEF Answerable
  <2>4. TooLate(req[c]) <=> RefusedTooLate(c)
    BY DEF TooLate, RefusedTooLate
  <2> QED BY <2>1, <2>3, <2>4 DEF AnswerInv, Success, Refusal, Successes, Refusals
<1>3. IInv => AnswersHonest
  BY <1>1, <1>2 DEF AnswersHonest
<1> QED BY <1>3, Invariance, PTL

-----------------------------------------------------------------------------
(* The locks of the requests are those of WorkspaceMutex                   *)

held == [c \in Client |-> {req[c].key} \ {NoKey}]
Lock == INSTANCE WorkspaceMutex WITH Scope <- Client, Path <- Identifier,
                                     inside <- held

\* A request that has a key is past all its guards, the lock being the last, and
\* not answered yet.
LockedLast ==
  \A c \in Client : req[c].key # NoKey =>
    /\ req[c].stage = Len(H(c).via) + 1
    /\ req[c].pc \notin {"idle", "answered"}

\* Nobody but c takes a step.
Alone(c) ==
  /\ req \in [Client -> Request] /\ req' \in [Client -> Request]
  /\ \A d \in Client \ {c} : req'[d] = req[d]

LEMMA OnlyTheKey ==
  ASSUME NEW c \in Client, Alone(c)
  PROVE  held' = [held EXCEPT ![c] = {req'[c].key} \ {NoKey}]
BY DEF Alone, held

LEMMA Releases ==
  ASSUME LockedLast, NEW c \in Client, Alone(c), req'[c].key = NoKey
  PROVE  LockedLast' /\ [Lock!Next]_held
<1>1. LockedLast'
  BY DEF LockedLast, Alone, H
<1>2. held' = [held EXCEPT ![c] = {}]
  BY DEF Alone, held
<1>3. CASE held[c] = {}
  <2>1. held' = held
    BY <1>2, <1>3 DEF held
  <2> QED BY <1>1, <2>1
<1>4. CASE held[c] # {}
  <2>1. Lock!Leave(c)
    BY <1>2, <1>4 DEF Lock!Leave
  <2> QED BY <1>1, <2>1 DEF Lock!Next
<1> QED BY <1>3, <1>4

LEMMA Retains ==
  ASSUME LockedLast, NEW c \in Client, Alone(c),
         req'[c].key = req[c].key, req'[c].name = req[c].name,
         \/ req[c].key = NoKey
         \/ /\ req'[c].stage = req[c].stage
            /\ \/ req'[c].pc = req[c].pc
               \/ req'[c].pc \notin {"idle", "answered"}
  PROVE  LockedLast' /\ [Lock!Next]_held
<1>1. LockedLast'
  BY DEF LockedLast, Alone, H
<1>2. held' = held
  BY DEF Alone, held
<1> QED BY <1>1, <1>2

\* Before its lock a request has no key.
LEMMA Unlocked ==
  ASSUME IInv, LockedLast, NEW c \in Client, NEW guard, Faces(c, guard)
  PROVE  /\ req[c].key = NoKey
         /\ guard = "lock" => req[c].stage = Len(H(c).via)
<1>1. /\ req[c].stage \in 1..Len(H(c).via) /\ Len(H(c).via) \in 0..4
      /\ H(c).via[req[c].stage] = guard
      /\ guard = "lock" => req[c].stage = Len(H(c).via)
  BY RequestNow, Facing DEF GuardsSound
<1>2. req[c].stage # Len(H(c).via) + 1
  BY <1>1
<1> QED BY <1>1, <1>2 DEF LockedLast

LEMMA Takes ==
  ASSUME LockedLast, NEW c \in Client, Alone(c),
         req[c].key = NoKey, req[c].stage = Len(H(c).via),
         NEW key \in Identifier, key # NoKey, LockFree(key),
         req'[c].key = key, req'[c].name = req[c].name,
         req'[c].stage = req[c].stage + 1, req'[c].pc = "guard"
  PROVE  LockedLast' /\ [Lock!Next]_held
<1>1. LockedLast'
  BY DEF LockedLast, Alone, H
<1>2. held[c] = {} /\ held' = [held EXCEPT ![c] = {key}]
  <2>1. {req[c].key} \ {NoKey} = {} /\ {req'[c].key} \ {NoKey} = {key}
    OBVIOUS
  <2>2. held[c] = {req[c].key} \ {NoKey}
    BY DEF held
  <2> QED BY <2>1, <2>2, OnlyTheKey
<1>3. \A d \in Client : held[d] \cap {key} = {}
  BY DEF held, LockFree
<1>4. Lock!Enter(c, {key}) /\ {key} \in SUBSET Identifier
  BY <1>2, <1>3 DEF Lock!Enter
<1> QED BY <1>1, <1>4 DEF Lock!Next

\* An answer releases the lock; a rejected sign-in, what the work does and a
\* step from one guard to the next leave it alone.
LEMMA AnswersRelease ==
  ASSUME IInv, IInv', LockedLast, NEW c \in Client, NEW code, NEW clear, NEW late,
         AnswersWith(c, code, clear, late)
  PROVE  LockedLast' /\ [Lock!Next]_held
<1>1. req \in [Client -> Request] /\ req' \in [Client -> Request] /\ req[c] \in Request
  BY DEF IInv
<1> DEFINE old == req[c]
           jar == IF old.admitted /\ old.refreshed THEN "renewed" ELSE old.cookies
           new == Answer(old, code, clear, late, jar)
<1>2. req' = [req EXCEPT ![c] = new]
  BY <1>1 DEF AnswersWith, Answer
<1> HIDE DEF old, jar
<1>3. new.key = NoKey
  BY <1>1 DEF Answer, Request, old
<1> HIDE DEF new
<1>4. Alone(c) /\ req'[c].key = NoKey
  BY <1>1, <1>2, <1>3 DEF Alone
<1> QED BY <1>4, Releases

LEMMA RejectsRetain ==
  ASSUME IInv, IInv', LockedLast, NEW c \in Client, NEW how, NEW finding,
         Rejects(c, how, finding), req[c].key = NoKey
  PROVE  LockedLast' /\ [Lock!Next]_held
<1>1. req \in [Client -> Request] /\ req' \in [Client -> Request] /\ req[c] \in Request
  BY DEF IInv
<1> DEFINE old == req[c]
           num == CodeOf(how, finding)
           jar == IF Clears(finding) THEN "cleared"
                  ELSE IF finding = "noRole" /\ old.refreshed THEN "renewed"
                  ELSE old.cookies
           new == Rejected(old, num, how, finding, jar)
<1>2. req' = [req EXCEPT ![c] = new]
  BY <1>1 DEF Rejects, Rejected
<1> HIDE DEF old, num, jar
<1>3. new.key = old.key /\ new.name = old.name
  BY <1>1 DEF Rejected, Request, old
<1> HIDE DEF new
<1>4. Alone(c) /\ req'[c].key = req[c].key /\ req'[c].name = req[c].name
  BY <1>1, <1>2, <1>3 DEF Alone, old
<1> QED BY <1>4, Retains

LEMMA GuardSteps ==
  ASSUME IInv, IInv', LockedLast, NEW c \in Client,
         \/ handle_rate_limit_error(c) \/ ParseArguments(c) \/ check_quota(c)
         \/ check_quota_management_secret(c) \/ serialize_workspace_mutation(c)
  PROVE  LockedLast' /\ [Lock!Next]_held
<1>1. /\ req \in [Client -> Request] /\ req' \in [Client -> Request]
      /\ req[c] \in Request
  BY DEF IInv
<1>2. ASSUME NEW guard, Faces(c, guard), Passes(c)
      PROVE  LockedLast' /\ [Lock!Next]_held
  <2>1. /\ Alone(c) /\ req'[c].key = req[c].key /\ req'[c].name = req[c].name
    BY <1>1, <1>2 DEF Alone, Passes, Request
  <2>2. req[c].key = NoKey
    BY <1>2, Unlocked
  <2> QED BY <2>1, <2>2, Retains
<1>3. ASSUME NEW code, Answers(c, code)
      PROVE  LockedLast' /\ [Lock!Next]_held
  BY <1>3, AnswersRelease DEF Answers
<1>4. ASSUME Faces(c, "lock"), LockFree(LockKey(c)),
             req' = [req EXCEPT ![c].stage = @ + 1, ![c].key = LockKey(c)]
      PROVE  LockedLast' /\ [Lock!Next]_held
  <2> DEFINE key == LockKey(c)
  <2>1. /\ key \in Identifier /\ key # NoKey
        /\ req[c].key = NoKey /\ req[c].stage = Len(H(c).via)
    BY <1>4, Named, Unlocked
  <2> HIDE DEF key
  <2>2. /\ Alone(c) /\ req'[c].key = key /\ req'[c].name = req[c].name
        /\ req'[c].stage = req[c].stage + 1 /\ req'[c].pc = "guard"
    BY <1>1, <1>4 DEF Alone, Request, Faces, Is, key
  <2>3. LockFree(key)
    BY <1>4 DEF key
  <2> QED BY <2>1, <2>2, <2>3, Takes
<1> QED BY <1>2, <1>3, <1>4 DEF handle_rate_limit_error, ParseArguments,
           check_quota, check_quota_management_secret, serialize_workspace_mutation

LEMMA SignInSteps ==
  ASSUME IInv, IInv', LockedLast, NEW c \in Client,
         \/ BearerSignIn(c) \/ CookieSignIn(c) \/ RefreshToken(c)
         \/ GitLabSignIn(c) \/ NotSignedIn(c) \/ Authorize(c)
  PROVE  LockedLast' /\ [Lock!Next]_held
<1>1. /\ req \in [Client -> Request] /\ req' \in [Client -> Request]
      /\ req[c] \in Request /\ RequestInv(req[c]) /\ H(c) = Of(req[c])
  BY RequestNow DEF IInv
<1>0. req[c].key = NoKey
  <2>1. CASE Faces(c, "signin")
    BY <2>1, Unlocked
  <2>2. CASE req[c].pc \in {"refresh", "authorize"}
    <3>1. req[c].stage <= Len(Of(req[c]).via) /\ req[c].stage \in 1..4
      BY <2>2, SigningIn
    <3>2. Len(H(c).via) \in 0..4
      BY RequestNow DEF HandlerSound, GuardsSound
    <3>3. req[c].stage # Len(H(c).via) + 1
      BY <1>1, <3>1, <3>2
    <3> QED BY <3>3 DEF LockedLast
  <2> QED BY <2>1, <2>2 DEF BearerSignIn, CookieSignIn, RefreshToken, GitLabSignIn,
             NotSignedIn, Authorize, Is
<1>2. ASSUME NEW how, NEW finding, Rejects(c, how, finding)
      PROVE  LockedLast' /\ [Lock!Next]_held
  BY <1>0, <1>2, RejectsRetain
<1>3. ASSUME NEW how, NEW place, Continues(c, how, place)
      PROVE  LockedLast' /\ [Lock!Next]_held
  <2>1. Alone(c) /\ req'[c].key = req[c].key /\ req'[c].name = req[c].name
    BY <1>1, <1>3 DEF Alone, Continues, Request
  <2> QED BY <1>0, <2>1, Retains
<1>4. ASSUME NEW place \in {"authorize", "refresh"},
             req' = [req EXCEPT ![c].pc = place, ![c].how = "cookie",
                                ![c].csrf = TRUE]
      PROVE  LockedLast' /\ [Lock!Next]_held
  <2>1. Alone(c) /\ req'[c].key = req[c].key /\ req'[c].name = req[c].name
    BY <1>1, <1>4 DEF Alone, Request
  <2> QED BY <1>0, <2>1, Retains
<1>5. ASSUME req' = [req EXCEPT ![c].pc = "authorize", ![c].refreshed = TRUE]
      PROVE  LockedLast' /\ [Lock!Next]_held
  <2>1. Alone(c) /\ req'[c].key = req[c].key /\ req'[c].name = req[c].name
    BY <1>1, <1>5 DEF Alone, Request
  <2> QED BY <1>0, <2>1, Retains
<1>6. ASSUME req' = [req EXCEPT ![c].stage = @ + 1, ![c].how = "gitlab",
                                ![c].admitted = TRUE]
      PROVE  LockedLast' /\ [Lock!Next]_held
  <2>1. Alone(c) /\ req'[c].key = req[c].key /\ req'[c].name = req[c].name
    BY <1>1, <1>6 DEF Alone, Request
  <2> QED BY <1>0, <2>1, Retains
<1>7. ASSUME req' = [req EXCEPT ![c].pc = "guard", ![c].stage = @ + 1,
                                ![c].admitted = TRUE]
      PROVE  LockedLast' /\ [Lock!Next]_held
  <2>1. Alone(c) /\ req'[c].key = req[c].key /\ req'[c].name = req[c].name
    BY <1>1, <1>7 DEF Alone, Request
  <2> QED BY <1>0, <2>1, Retains
<1>8. CASE BearerSignIn(c) \/ NotSignedIn(c)
  BY <1>2, <1>3, <1>8 DEF BearerSignIn, NotSignedIn
<1>9. CASE CookieSignIn(c)
  BY <1>2, <1>3, <1>4, <1>9 DEF CookieSignIn
<1>10. CASE RefreshToken(c)
  BY <1>2, <1>5, <1>10 DEF RefreshToken
<1>11. CASE GitLabSignIn(c) \/ Authorize(c)
  BY <1>2, <1>6, <1>7, <1>11 DEF GitLabSignIn, Authorize
<1> QED BY <1>8, <1>9, <1>10, <1>11

LEMMA BreakHereReleases ==
  ASSUME IInv, IInv', LockedLast, NEW c \in Client, BreakHere(c)
  PROVE  LockedLast' /\ [Lock!Next]_held
<1> DEFINE old == req[c]
           effect == IF old.effect = "running" THEN "partial" ELSE old.effect
           jar == IF old.refreshed THEN "renewed" ELSE old.cookies
<1>1. old \in Request /\ req \in [Client -> Request] /\ H(c) = Of(old)
  BY RequestNow DEF IInv
<1>2. PICK code \in Of(old).lost :
        req' = [req EXCEPT ![c].pc = "answered", ![c].code = code,
                  ![c].key = NoKey,
                  ![c].effect = IF @ = "running" THEN "partial" ELSE @,
                  ![c].cookies = IF req[c].refreshed THEN "renewed" ELSE @]
  BY <1>1 DEF BreakHere
<1> DEFINE one == [old EXCEPT !.pc = "answered", !.code = code]
           two == [one EXCEPT !.key = NoKey]
           three == [two EXCEPT !.effect = effect]
           new == [three EXCEPT !.cookies = jar]
<1>3. req' = [req EXCEPT ![c] = new]
  BY <1>1, <1>2
<1> HIDE DEF old, effect, jar
<1>4. new.key = NoKey
  BY <1>1 DEF Request
<1> HIDE DEF one, two, three, new
<1>5. req' \in [Client -> Request]
  BY DEF IInv
<1>6. Alone(c) /\ req'[c].key = NoKey
  BY <1>1, <1>3, <1>4, <1>5 DEF Alone
<1> QED BY <1>6, Releases

LEMMA BodySteps ==
  ASSUME IInv, IInv', LockedLast, NEW c \in Client,
         \/ Refuse(c) \/ Find(c) \/ Lack(c) \/ Ask(c) \/ Begin(c) \/ Complete(c)
         \/ Succeed(c) \/ Garble(c) \/ BeRefused(c) \/ TimeOut(c) \/ Break(c)
         \/ BreakHere(c) \/ Leave(c)
  PROVE  LockedLast' /\ [Lock!Next]_held
<1>1. /\ req \in [Client -> Request] /\ req' \in [Client -> Request]
      /\ req[c] \in Request
  BY DEF IInv
<1>2. ASSUME NEW code, NEW clear, NEW late, AnswersWith(c, code, clear, late)
      PROVE  LockedLast' /\ [Lock!Next]_held
  BY <1>2, AnswersRelease
<1>3. CASE \/ Refuse(c) \/ Lack(c) \/ Succeed(c) \/ Garble(c) \/ BeRefused(c)
           \/ TimeOut(c) \/ Break(c)
  BY <1>2, <1>3 DEF Refuse, Lack, Succeed, Garble, BeRefused, TimeOut, Break, Answers
<1>4. ASSUME NEW target,
             req' = [req EXCEPT ![c].pc = "found", ![c].target = target]
      PROVE  LockedLast' /\ [Lock!Next]_held
  <2>1. /\ Alone(c) /\ req'[c].key = req[c].key /\ req'[c].name = req[c].name
        /\ req'[c].stage = req[c].stage /\ req'[c].pc = "found"
    BY <1>1, <1>4 DEF Alone, Request
  <2> QED BY <2>1, Retains
<1>5. CASE Find(c)
  BY <1>2, <1>4, <1>5 DEF Find, Answers
<1>6. CASE Ask(c) \/ Begin(c) \/ Complete(c)
  <2>1. /\ Alone(c) /\ req'[c].key = req[c].key /\ req'[c].name = req[c].name
        /\ req'[c].stage = req[c].stage
        /\ req'[c].pc \in {req[c].pc, "asked"}
    BY <1>1, <1>6 DEF Alone, Ask, Goes, Begin, Complete, Request
  <2> QED BY <2>1, Retains
<1>7. CASE BreakHere(c)
  BY <1>7, BreakHereReleases
<1>8. CASE Leave(c)
  <2>1. Alone(c) /\ req'[c].key = NoKey
    BY <1>1, <1>8 DEF Alone, Leave, Idle
  <2> QED BY <2>1, Releases
<1> QED BY <1>3, <1>5, <1>6, <1>7, <1>8

LEMMA LockingStep ==
  ASSUME IInv, IInv', LockedLast, [EndpointsNext]_endpointVars
  PROVE  LockedLast' /\ [Lock!Next]_held
<1>1. ASSUME NEW c \in Client, NEW name \in DOMAIN Handler, NEW who \in Person,
             NEW id \in Identifier, NEW method \in Handler[name].methods,
             Arrive(c, name, method, who, id)
      PROVE  LockedLast' /\ [Lock!Next]_held
  <2>1. req \in [Client -> Request] /\ req' \in [Client -> Request]
    BY DEF IInv
  <2>2. Alone(c) /\ req'[c].key = NoKey
    BY <1>1, <2>1 DEF Alone, Arrive, Idle
  <2> QED BY <2>2, Releases
<1>2. ASSUME NEW c \in Client, Step(c)
      PROVE  LockedLast' /\ [Lock!Next]_held
  BY <1>2, GuardSteps, SignInSteps, BodySteps DEF Step
<1>3. CASE req' = req
  BY <1>3 DEF LockedLast, H, held
<1> QED BY <1>1, <1>2, <1>3 DEF EndpointsNext, NewRun, endpointVars

\* The keys of the requests are taken and given back as workspace_mutations
\* promises: a key only when it is free and the request has none, behind all the
\* other guards of the handler; and whatever way a request ends, rejected,
\* refused, timed out or broken off, when it is answered it has none any more.
THEOREM EndpointsUseTheMutex == EndpointsSpec => Lock!Spec /\ []LockedLast
<1>1. EndpointsInit => LockedLast /\ Lock!Init
  BY DEF EndpointsInit, Idle, LockedLast, Lock!Init, held
<1>2. IInv /\ IInv' /\ LockedLast /\ [EndpointsNext]_endpointVars
        => LockedLast' /\ [Lock!Next]_held
  BY LockingStep
<1> QED BY <1>1, <1>2, Invariance, PTL DEF EndpointsSpec, Lock!Spec
=============================================================================
