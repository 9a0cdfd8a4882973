------------------------------ MODULE Handlers ------------------------------
(***************************************************************************)
(* rest/*: what each handler of the API is made of.  A handler is          *)
(*   methods   the HTTP methods of its route                               *)
(*   via       its guards, outermost first: the arguments it declares, the *)
(*             sign-in, the quota, the lock of the workspace, the secret   *)
(*             of the quota administrators                                 *)
(*   gitlab    it also takes the secret of a GitLab webhook                *)
(*   refuses   the codes its body answers before it does anything          *)
(*   finds     the workflows it looks up itself, and `missing` its answer  *)
(*             when there is none; `lacks` those it gives after that       *)
(*   asks      who does the work; "nobody" when it is done here            *)
(*   changes   what the work changes                                       *)
(*   prepares  the methods with which it commits a change of its own       *)
(*             before it asks                                              *)
(*   gives     what a success tells                                        *)
(*   refused, garbled, badError, timeout, lost                             *)
(*             its answer when the one it asks refuses, succeeds but       *)
(*             cannot be understood, refuses in a way it does not relay,   *)
(*             takes too long, or breaks the connection; `lost` is also    *)
(*             its answer when the work done here breaks in the middle     *)
(*   ok        its own codes of success                                    *)
(*   declared  the codes its OpenAPI specification lists.                  *)
(* The code Forwarded is whatever the one asked has answered.              *)
(***************************************************************************)
EXTENDS Integers

Forwarded == 0
SafeMethod == {"GET", "HEAD", "OPTIONS"}

\* The sign-in's own answers; every handler behind it declares them.
SignInCodes == {401, 403, 500, 503}

\* except HTTPError, ValueError, Exception around one call.
Reads(declared) ==
  [methods |-> {"GET"}, via |-> <<"signin">>, gitlab |-> FALSE,
   refuses |-> {}, finds |-> "nothing", missing |-> 403, lacks |-> {},
   asks |-> "controller", changes |-> "nothing", prepares |-> {},
   gives |-> "data",
   refused |-> Forwarded, garbled |-> {403}, badError |-> {500},
   timeout |-> {}, lost |-> {500}, ok |-> {200},
   declared |-> declared \cup SignInCodes]
Writes(method, what, declared) ==
  [Reads(declared) EXCEPT !.methods = {method}, !.changes = what,
                          !.gives = "nothing"]
\* Work done in the server: it ends, or an exception is answered with 500.
Here(handler) == [handler EXCEPT !.asks = "nobody", !.garbled = {},
                                 !.badError = {}]
\* Its except ValueError, meant for the name of a workflow or a token, encloses
\* the work as well.
Encloses(handler) == [Here(handler) EXCEPT !.lost = {403, 500}]
Open(handler, declared) == [handler EXCEPT !.via = <<>>, !.declared = declared]
With(handler, guards) == [handler EXCEPT !.via = guards]

-----------------------------------------------------------------------------
(* workflows.py                                                            *)

validate_workflow_specification ==
  [Here(Writes("POST", "nothing", {200, 400, 413, 429}))
     EXCEPT !.refuses = {400, 413}, !.gives = "data"]

\* A body that is not JSON is answered like an argument that is not: 400.
get_workflows ==
  [With(Reads({200, 400, 404}), <<"args", "signin">>)
     EXCEPT !.refuses = {400}, !.garbled = {400}, !.gives = "secrets"]

\* Also the URL of GitLab's webhooks.
create_workflow ==
  [Writes("POST", "family", {201, 200, 400, 404, 413, 409, 429, 501})
     EXCEPT !.gitlab = TRUE, !.refuses = {501, 400, 401, 403, 409, 413, 503},
            !.timeout = {503}, !.ok = {201, 200}]

get_workflow_specification ==
  [Encloses(Reads({200, 404})) EXCEPT !.finds = "shared"]

get_workflow_logs == With(Reads({200, 400, 404}), <<"args", "signin">>)

get_workflow_status == Reads({200, 400, 404})

\* What _submit_workflow and the two handlers of a start refuse.
restart_workflow ==
  [With(Writes("POST", "family", {200, 400, 404, 409, 413, 429}),
        <<"signin", "quota">>)
     EXCEPT !.refuses = {400, 403, 404, 409, 413, 500, 503},
            !.timeout = {503}]

start_workflow ==
  [With(Writes("POST", "family", {200, 400, 404, 409, 429, 501}),
        <<"signin", "args", "quota">>)
     EXCEPT !.refuses = {400, 403, 404, 409, 500, 503}, !.timeout = {503}]

set_workflow_status ==
  [With(Writes("PUT", "family", {200, 400, 404, 409, 429, 501}),
        <<"signin", "args", "args">>)
     EXCEPT !.refuses = {400, 403, 404, 409, 500, 503}, !.timeout = {503}]

\* Sent with requests, which raises for a timeout, a broken connection and an
\* answer that is not JSON, refusal or not; the ValueError of that is caught
\* first.
upload_file ==
  [With(Writes("POST", "workspace", {200, 400, 404, 409, 411}),
        <<"signin", "quota", "lock">>)
     EXCEPT !.refuses = {400, 411, 403}, !.badError = {403},
            !.timeout = {503}, !.lost = {503}]

\* Streamed as it comes.
download_file ==
  [Reads({200, 400, 404}) EXCEPT !.garbled = {}, !.badError = {}]

delete_file ==
  [With(Writes("DELETE", "workspace", {200, 404, 409}), <<"signin", "lock">>)
     EXCEPT !.timeout = {503}]

get_files == With(Reads({200, 400, 404}), <<"args", "signin">>)

get_workflow_parameters == Reads({200, 400, 404})

get_workflow_diff ==
  [Reads({200, 400, 404}) EXCEPT !.refuses = {400}, !.garbled = {400}]

open_interactive_session ==
  [With(Writes("POST", "session", {200, 400, 404}), <<"signin", "quota">>)
     EXCEPT !.refuses = {404}, !.badError = {404}]

close_interactive_session == Writes("POST", "session", {200, 400, 404})

get_interactive_session_secret ==
  [Encloses(Reads({200, 404}))
     EXCEPT !.finds = "owned", !.lacks = {404}, !.gives = "secrets"]

move_files ==
  [With(Writes("PUT", "workspace", {200, 400, 404, 409}), <<"signin", "lock">>)
     EXCEPT !.timeout = {503}]

get_workflow_disk_usage ==
  [Encloses(Reads({200, 400, 404}))
     EXCEPT !.finds = "shared", !.missing = 404, !.lacks = {404}]

\* No except ValueError.
get_workflow_retention_rules ==
  [Reads({200, 404}) EXCEPT !.garbled = {500}]

\* Deletes file after file.
prune_workspace ==
  [Encloses(With(Writes("POST", "workspace", {200, 400, 404, 409}),
                 <<"args", "signin", "lock">>)) EXCEPT !.finds = "owned"]

share_workflow ==
  [With(Writes("POST", "sharing", {200, 400, 404, 409}), <<"signin", "args">>)
     EXCEPT !.garbled = {500}]

unshare_workflow ==
  With(Writes("POST", "sharing", {200, 400, 404, 409}), <<"args", "signin">>)

get_workflow_share_status == [Reads({200, 404}) EXCEPT !.garbled = {500}]

-----------------------------------------------------------------------------
(* launch.py, info.py, status.py, config.py, ping.py, users.py             *)

launch ==
  [With(Writes("POST", "family", {200, 400, 409, 429}),
        <<"args", "signin", "quota">>)
     EXCEPT !.refuses = {400, 403, 409, 500, 503}, !.garbled = {400},
            !.timeout = {503}]

info == Here(Reads({200}))
status == Here(Reads({200}))
get_config == Open(Here(Reads({})), {200, 500})

\* An answer of constants.
ping == [Open(Here(Reads({})), {200}) EXCEPT !.lost = {}]
\* Readiness is Redis's alone.
health == [Open(Here(Reads({})), {200, 503}) EXCEPT !.ok = {200, 503},
                                                     !.lost = {}]

get_you == Encloses(Reads({200}))
get_users_shared_with_you == Encloses(Reads({200}))
get_users_you_shared_with == Encloses(Reads({200}))

-----------------------------------------------------------------------------
(* quota.py: behind a secret of its own                                    *)

Administers(method, what) ==
  [Here(Writes(method, what, {}))
     EXCEPT !.via = <<"secret">>, !.refuses = {400, 404},
            !.declared = {200, 400, 401, 403, 404, 500}]

get_quota_usage == [Administers("GET", "nothing") EXCEPT !.gives = "data"]
set_quota_limit == Administers("POST", "quota")
patch_quota == Administers("PATCH", "quota")

-----------------------------------------------------------------------------
(* secrets.py: the secrets of a user are in Kubernetes                     *)

\* request.json itself answers 400 or 415.
add_secrets ==
  [With(Encloses(Writes("POST", "secrets", {201, 400, 409})),
        <<"signin", "args">>)
     EXCEPT !.refuses = {400, 415}, !.lacks = {409}, !.ok = {201}]

\* Names and types, never values.
get_secrets == Encloses(Reads({200}))

delete_secrets ==
  [Encloses(Writes("DELETE", "secrets", {200, 404}))
     EXCEPT !.refuses = {400, 415}, !.lacks = {404}]

-----------------------------------------------------------------------------
(* gitlab.py                                                               *)

gitlab_webhook_token ==
  [Here(Writes("PUT", "webhook", {200, 404}))
     EXCEPT !.methods = {"GET", "PUT"}, !.refuses = {404}]

gitlab_connect == [Here(Reads({302})) EXCEPT !.ok = {302}]

\* The state cookie is checked first; only then is the code exchanged and the
\* token stored.  An answer 200 exchanges nothing.
gitlab_oauth ==
  [Writes("GET", "secrets", {200, 302})
     EXCEPT !.asks = "gitlab", !.refuses = {403, 200}, !.refused = 500,
            !.ok = {302}]

\* No token stored, or GitLab does not take it: 401; GitLab's other refusals are
\* relayed.
gitlab_projects ==
  [With(Reads({200}), <<"args", "signin">>)
     EXCEPT !.asks = "gitlab", !.refuses = {401}, !.badError = {401}]

\* To enable a webhook, a secret that has expired is refused and a missing one
\* created and committed with its expiry before GitLab is asked.
gitlab_webhook ==
  [Writes("POST", "webhook", {201, 204, 404, 409})
     EXCEPT !.methods = {"POST", "DELETE"}, !.asks = "gitlab",
            !.prepares = {"POST"}, !.refuses = {401, 409}, !.badError = {401},
            !.ok = {201, 204}]

\* auth.py: relayed from the cache of the issuer's document.
openid_configuration ==
  [Open(Reads({}), {200, 500, 502})
     EXCEPT !.asks = "issuer", !.refused = 502, !.garbled = {500},
            !.badError = {500}, !.lost = {502}]

-----------------------------------------------------------------------------
Handler ==
  [validate_workflow_specification |-> validate_workflow_specification,
   get_workflows |-> get_workflows, create_workflow |-> create_workflow,
   get_workflow_specification |-> get_workflow_specification,
   get_workflow_logs |-> get_workflow_logs,
   get_workflow_status |-> get_workflow_status,
   restart_workflow |-> restart_workflow, start_workflow |-> start_workflow,
   set_workflow_status |-> set_workflow_status, upload_file |-> upload_file,
   download_file |-> download_file, delete_file |-> delete_file,
   get_files |-> get_files, get_workflow_parameters |-> get_workflow_parameters,
   get_workflow_diff |-> get_workflow_diff,
   open_interactive_session |-> open_interactive_session,
   close_interactive_session |-> close_interactive_session,
   get_interactive_session_secret |-> get_interactive_session_secret,
   move_files |-> move_files, prune_workspace |-> prune_workspace,
   get_workflow_disk_usage |-> get_workflow_disk_usage,
   get_workflow_retention_rules |-> get_workflow_retention_rules,
   share_workflow |-> share_workflow, unshare_workflow |-> unshare_workflow,
   get_workflow_share_status |-> get_workflow_share_status,
   launch |-> launch, info |-> info, status |-> status, ping |-> ping,
   get_config |-> get_config, health |-> health, get_you |-> get_you,
   get_users_shared_with_you |-> get_users_shared_with_you,
   get_users_you_shared_with |-> get_users_you_shared_with,
   get_quota_usage |-> get_quota_usage, set_quota_limit |-> set_quota_limit,
   patch_quota |-> patch_quota, add_secrets |-> add_secrets,
   get_secrets |-> get_secrets, delete_secrets |-> delete_secrets,
   gitlab_webhook_token |-> gitlab_webhook_token,
   gitlab_connect |-> gitlab_connect, gitlab_oauth |-> gitlab_oauth,
   gitlab_projects |-> gitlab_projects, gitlab_webhook |-> gitlab_webhook,
   openid_configuration |-> openid_configuration]
=============================================================================
