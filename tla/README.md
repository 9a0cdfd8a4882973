# Formal model of reana-server

TLA+ modules, TLC runs and TLAPS proofs for the concurrent and failure-prone
parts of `reana-server`. Paths below are relative to `src/reana_server/`.

    tlc -config Scheduler_live.cfg MCScheduler      # one run
    tlapm SchedulerProofs.tla                       # one proof module

`PROJECT.json` lists the runs, the source lines behind every definition, the
hazards, and for each property a plausible bug (a mutated definition, kept next
to the correct one in the module) under which TLC finds the property violated.

## 1. Inventory

reana-server is a Flask application run by several uWSGI workers, plus a
scheduler process and an administrator's command line. It keeps no state of its
own between requests except caches. Durable state is in PostgreSQL (users,
workflows, quotas), Redis (browser sessions), RabbitMQ (submissions and status
events), Kubernetes secrets and the workspaces on a shared file system. The
workflow controller (RWC), the OpenID issuer and GitLab are remote services.

| Component | Source | State | Operations | What is hard |
|---|---|---|---|---|
| Submission and scheduling | `utils.py`, `scheduler.py` | `Workflow.status`; the queue; the unacknowledged message | publish; on_message; retry; give up; queue tools | commit and publication are not atomic; reject and republish are not atomic; redelivery; lost RWC answers; caps checked before the start |
| Browser sessions | `auth/sessions.py`, `rest/auth.py`, `decorators.py`, `oauth_state.py` | Redis session and lock per sid; cookies; the issuer's grant | login, callback, refresh, poll, logout, revoke-identity | deletion does not take the refresh lock; lock expiry; token rotation with reuse detection; absolute lifetime; answers that overtake each other in the browser |
| Workspace and family locks | `workspace_mutations.py` | advisory locks, or a table of counted locks | enter and leave a scope over a set of keys | non-waiting, several keys, table entries shared and removed, lost connections |
| Creation, submission, restart, deletion | `workflow_creation.py`, `rest/workflows.py`, `rest/launch.py` | workflow rows, workspaces, staged specifications, retention rules | create, launch, start, restart, delete | controller calls that time out and commit later; compensation; nested locks |
| The API's handlers | `rest/*`, `decorators.py` | a request and its lock | guards, sign-in, body, call, answer | an answer that does not say what happened; the work outlives the request; a name looked up twice |
| Issuer keys and discovery | `auth/tokens.py`, `auth/discovery.py` | cached keys or document, refresh mark, last failure, unknown key ids | get keys, get endpoint, refresh | single flight among threads, stale grace, backoff, permanent errors, trusted endpoints |
| Provisioning | `auth/provision.py` | user rows and identity links | first login, link, create | unique constraints decide races |
| GitLab webhook | `rest/gitlab.py` | webhook secret and its expiry | enable, renew, revoke, authenticate | read-modify-write of columns by concurrent requests |
| Quotas | `utils.py`, `rest/quota.py`, `reana_admin/cli.py` | rows of limit, use and period | set limits and periods, defaults, check uploads | rows decided on without a lock; a check long before the charge |
| Bundles, validation, reports | `specification_bundles.py`, `fetcher.py`, `validation.py` | a temporary directory | check, extract, select, unwrap; judge; bound | boundaries, half-written archives, an outage taken for a verdict |
| Complexity | `complexity.py` | none | estimate, backends | two traversals of one specification that must agree |
| Admin commands, consumers | `reana_admin/`, `deleter.py` | queues, retention rules, links, sessions, quotas | inspect and remove messages, apply rules, link, revoke | failure between taking and returning messages |
| The rest | `factory.py`, `status.py`, `config.py` | counters | wiring, reports, settings | mostly I/O |

How they interact. A *start* request takes the workspace lock, marks the
workflow queued and publishes a message; the scheduler consumes it, asks RWC
over HTTP to start the workflow, and publishes *failed* events that RWC
consumes. Every authenticated request goes through the session refresh when its
access cookie has expired, which uses the cached issuer keys, the discovery
document and provisioning. Creation, submission, restart, deletion, upload,
move and prune run inside the scopes of `workspace_mutations`. The complexity
of a specification decides whether a submission is ready and which cap counts
it. Administrators delete sessions, change links and quotas and inspect the
submission queue while all of this goes on.

What makes each correct:

* scheduling: no queued workflow silently loses its submission; none is
  multiplied; caps hold; every submission settles;
* sessions: ended sessions stay ended; no session outlives its window; a
  refresh token is used twice only after a fault; nobody gets another
  identity's token; every request is answered; only logins of this browser
  store a session here and nobody else's is ended by it;
* locks: mutual exclusion per key, nothing left behind, someone succeeds;
* creation, restart and deletion: a request that is reported as failed leaves
  things as they were; a run is submitted once; deleted runs and superseded
  retention rules stay so; a deletion reaches only workspaces it has locked;
* handlers: success means done and refusal means not done, now and later (with
  exceptions that the code makes, see Observations); nobody gets past the
  guards; workspace changes exclude each other;
* issuer keys and discovery: one fetch at a time, nothing beyond its grace,
  permanent errors never hidden by stale data, no token refused on account of a
  refresh that did not happen, no endpoint outside the trusted origins;
* provisioning: one account per identity and no account taken over;
* webhook: hooks carry the account's secret, revocation is final until another
  authorization;
* quotas: a change happens to all its rows or to none;
* bundles and reports: no entry of what passes the checks is in the way of
  another, what is refused leaves nothing; an outage is not a verdict; a report is within its bound and
  says when something is missing;
* estimates: a workflow is not refused for memory that it does not ask for.

## 2. Modules

| Module | Contents |
|---|---|
| `Scheduler`, `MCScheduler` | submission, broker, scheduler, queue tools, RWC as seen by the scheduler |
| `SchedulerProofs` | theorems about `Scheduler` |
| `BffSession`, `MCBffSession` | browser sessions in Redis and at the issuer |
| `BffSessionProofs` | theorems about `BffSession` |
| `WorkspaceMutex` | what a lock scope promises (abstract) |
| `WorkspaceLocks`, `MCWorkspaceLocks` | both lock implementations; refine `WorkspaceMutex` |
| `WorkspaceLocksProofs` | theorems about `WorkspaceLocks` |
| `WorkflowFamily`, `MCWorkflowFamily` | creation, start, restart, deletion and retention of the runs of one name, over `WorkspaceMutex` |
| `WorkflowFamilyProofs` | theorems about `WorkflowFamily` |
| `KeyCache`, `MCKeyCache` | the issuer's signing keys, cached and shared by threads |
| `Discovery` | the issuer's discovery document, cached and shared by threads |
| `Accounts` | identity links and webhook secrets of the user rows |
| `MCIdentity` | `KeyCache`, `Discovery` and `Accounts` on a small instance |
| `IdentityProofs` | theorems about these three and their composition |
| `Handlers` | what each handler of the API is made of |
| `Endpoints` | a request through a handler, step by step |
| `EndpointsProofs` | theorems about `Endpoints` and the table of handlers |
| `LoginFlow` | the browser: cookies, tabs, login, callback, logout |
| `Quota` | limits, periods, defaults, the check of uploads |
| `Bundles` | archives of specifications |
| `Reports` | the verdict of a validation and its bounded report |
| `ApiProofs` | theorems about `LoginFlow` and `Quota` |
| `Estimates` | the complexity estimators |
| `MCApi` | the modules from `Handlers` to `Estimates` on a small instance |
| `SpecificationProofs` | theorems about `Bundles`, `Reports`, `Estimates` and the composition of the API |

### Scheduler

`status` is the database column, `request` the progress of
`publish_workflow_submission` (the commit of *queued* and the publication are
separate steps), `queue` and `inflight` the ready and the unacknowledged
message, `pc` the place in `on_message`. Each outcome of the call to RWC that
the `except` clauses tell apart is an action: started, conflict or not found,
bad request, error. Two more are what the clauses cannot see: RWC started the
workflow but the answer was lost, and RWC still works on a request whose caller
has given up (`limbo`). `Crash` may happen anywhere: before `ack`/`reject` the
broker redelivers, after `reject` and before the republication the submission
is lost. Messages carry the retry count and, only in the model, a copy number.
The queue is a set: priorities order deliveries, so all orders are allowed.
`ToolTakes`, `ToolKeeps` and `ToolDeletes` are `queue-consume` and the message
collector of `check-workflows`: a message taken is put back or, by the
administrator's word, removed. `stranded` and `late` are history: they record
the losses and late starts that the code admits, so that the properties can say
that there are no others.

### BffSession

`sess[s]` and `lock[s]` are the two Redis keys of a session, `grant[s]` the
issuer's view, `req[r]` the local variables of a request, with one step for
each call to Redis or to the issuer. Tokens are generation numbers. The issuer
rotates refresh tokens and revokes the grant when an old one is presented.
`WATCH`/`MULTI`/`DEL` of the lock release is one atomic step: that is what the
transaction gives. The pair of a read and a delete in logout and in the
revocation scan is one step, because the identity of a session never changes
and a deletion of an absent key does nothing. A session stored by another
client or in a broken format, deleted on sight, is left out. A login whose token
response has no refresh token stores a session that cannot be refreshed
(`NoToken`). Time is a clock
whose ticks let keys expire first; the times to live are the code's minimum of
the full lifetime and the rest of the window. `AbsoluteCap` includes the type
of the state.

### WorkspaceMutex, WorkspaceLocks

The abstract mutex says that a scope enters with a non-empty set of keys
disjoint from those of all scopes inside. `WorkspaceLocks` has the steps of
both implementations: one try-lock per step in sorted order, release in reverse
order, table changes under their guard as single steps, and for PostgreSQL the
failures of the connection. A lock object is a path and a generation, so that
two objects for one path can be told apart. Advisory keys are hashes of paths
and may collide. If the server drops a connection, the locks are gone while the
body still runs; the refinement counts that scope as having left.

### WorkflowFamily

The requests of one user on one workflow name: `bundle` and `submit` (GitLab
and launch) create, `start`, `restart` and `replace` submit, `delete` and
`delete_all` delete, `retention` is `retention-rules-apply` for one workspace.
`req[r]` holds the local variables of a request and its place in the code; a
step is one database transaction, one call or one change of the file system.
Locks are those of `WorkspaceMutex` (INSTANCE with `held` for `inside`), which
`WorkspaceLocks` implements; a request has an outer and an inner scope because
an all-runs deletion nests them. A lock may also be refused without need, as
hash collisions and database errors do.

`status`, `home`, `rule` are the rows of `workflow` and of its retention rules
(one per run); `file[h]` is the `reana.yaml` of a workspace: the seeded one, or
the replacement of a restart. The controller is external: once called it
commits a creation or a deletion, or refuses, at any time, also after the
caller has given up, and it resolves a bare name (`latest`) by itself. The
scheduler and the controller start and end runs without any lock; the details
are in `Scheduler`. Quota amounts are left out, but their updates may fail.
Expiry dates are left out: every active rule may be due. *Failed* counts as
*finished*. The removal of the rollback copy belongs to the publication step.

History records what the code admits, so that the properties say there is
nothing else: `late` (rows committed after their request gave up), `stray`
(workspaces deleted without their lock), `spoiled` (failures that the code
does not or could not compensate). `ClosedDeletion` includes the type of the
state.

### KeyCache, Discovery

`JWKSCache` of `auth/tokens.py`. `cache` holds `_key_set`, `_known_kids` and
`_fetched_at`; `refreshing`, `failedAt`, `permanent`, `unknown` and
`lastUnknown` are the other attributes. `req[t]` is the local state of the
validation that thread `t` runs. Each section under the mutex is one step; the
fetch is two (the issuer answers with what it publishes at that moment, then
the answer is stored) or ends in one of three kinds of failure, which the
`except` clauses tell apart. A key set is the set of its key ids: keys without
an id, and the contents of a key, are left out, and an issuer adds keys and
keeps the old ones. `_refresh_generation` is left out because only the single
fetching thread changes it, which is what `SingleFlight` says.
`unknown[kid]` is the time when the entry expires, 0 without an entry. The
ties of the eviction by expiry are broken any way. `expired`, `barred`, `legit`
and `renewed` are history: what was true when the validation began, and
whether a fetch has succeeded since.

`Discovery` is `auth/discovery.py`, built alike: `document`, `discovering`,
`failed` and `rejected` are the module's state dictionary, `call[t]` a call of
`get_endpoint`. A URL is a record of what the trust rules ask of it (scheme,
whose origin, beneath the backchannel base or not, internal or not), so that
`Valid`, `ConfiguredOK` and `DiscoveredOK` are the code's rules and not their
string handling. The clock begins at 1 because the code takes the time 0 for
never. The health report is the operator `Unavailable`.

### Accounts

A row is an email, which never changes; `row[e]` has its identity, its webhook
secret and that secret's expiry. `task[r]` is a login, a linking command or
`create-user` (`Links`), or a request for the webhook, its deletion, a renewal
or a revocation (`Webhooks`). A task keeps the row as it has read it (`mine`)
and its commit changes only the columns it has assigned, as the ORM does; the
database refuses a second row of one email or identity (`Conflict`), and the
loser of a first login reads the winner's row. The webhook secret is the one
column written under a row lock. Names of users are left out.

### Handlers, Endpoints

`Handlers` has one record per handler: its guards from the outermost to the
innermost, what it looks up, whom it asks, what it changes and with which code
it answers each way this can go (a `try` with `except HTTPError`, `ValueError`,
`BravadoTimeoutError` and `Exception` in the code). `prepares` says with which
methods it first commits a change of its own (the webhook's secret, before
GitLab is asked). `Encloses` is a handler whose `except ValueError` is around its
own work too, so that what breaks off there may be answered with 403. `declared` are the codes of
its OpenAPI docstring. `Endpoints` interprets these records: `Arrive`, then the
guards in the order of the decorators, the sign-in (`_authenticate` with its
three credentials and `_authorize_and_provision`), the body, the call and the
answer. Its actions are named after what the code does there. The work at the
other end is a step to begin and one to complete, and a call whose caller has
given up may still begin. Who asks is the owner, somebody the workflow is
shared with or a stranger; a workflow is named by a run or by its bare name,
which a new run takes over at any time (`NewRun`). The internals of start,
creation and deletion (`changes = "family"`) are in `WorkflowFamily`; here they
have only their guards and answers.

### LoginFlow

`jar` is the browser's cookie jar and `tab[t]` what a tab does: a request keeps
the cookies with which it was sent (`sent`), and its answer changes the jar
when it arrives. The state, the verifier and the nonce of a login are one
number. A link prepared elsewhere brings a state that this jar does not have.
A request of the browser is answered without a change of cookies, with a
refreshed access cookie (`ReceiveRenewed`), or with both cookies void: because
the session is gone or another's, because it ends now (`EndSession`), or because
the access cookie is definitively invalid or the session has no refresh token
(`RequestUnusable`; for a logout `LogoutUnusable`). In the last case the session
stays in Redis and is `orphaned`. `RedisAnswerLost` is a deletion or a storage
that happens although the server sees an error. `calm` is history: whether no
two requests have overlapped and no answer or deletion has failed. The refresh
of `BffSession` is one step here.

### Quota

`quota[u][r]` is a row of `user_resource`, `change[a]` a request over the API
or from the command line. Reading the rows and committing are two steps, and
the commit writes the columns that differ from what was read. `upload[c]` is
let in by `prevent_disk_quota_excess` and charged when it has been done.
`defaults` is `quota-set-default-limits`, one user and resource at a time. The
period's start is the user's creation or an explicit date, as a number.

### Bundles, Reports, Estimates

`Bundles`: an entry of an archive is its path (a sequence of components), its
kind, its size and a flaw; checks and extraction are those of the code for an
uploaded and a fetched archive. A fetched archive lies in the directory that its
entries are written to, under `ArchivePath`, until they are (`MeetsArchive`).
What a specification selects is any small set.
`Reports`: `_authoritative_report` as a function of what the sandbox returned,
and the bounding of a report in numbers of findings and environments.
`Estimates`: the four estimators as functions of a specification reduced to
steps with what they declare, memory and scatter; memory in small integers. The
steps of a workflow and of those inside it are one sequence, in the order in
which they are met: `within` names the enclosing step, which comes before. So a
traversal of the nested specification is a recursive function on the numbers of
steps, and the hints that a CWL step inherits are gathered from the outside in
(`AllHints`). A CWL document may be packed, a single tool, or have steps that
are no job. A complexity is a set: how often an item occurs in the code's list
decides nothing. A hint that declares no backend is `NoBackend`.

These three are functions, checked on all inputs of a small size, except that an
archive is written step by step. `ChangeRequests`, `Member`, `Report` and
`Workflow` are all inputs that the theorems are about; TLC checks that those of
the runs are among them (`MCInputs`).

`MCApi` and `MCIdentity` put unrelated parts into one run: `focus` says which
of them moves in a behaviour, `input` is what a function is applied to. In
`MCApi` two requests overlap only when both change a workspace; the action
constraint `Paired` leaves out that a guard refuses one of two, which a single
request shows.

## 3. Runs

All passing runs exhaust their state space. Deadlock checking is off in all of
them: the inputs are finite (each workflow is submitted once, each scope entered
once, the clock is bounded), so every behaviour may end.

| Run | Shows | Bounds and why they suffice |
|---|---|---|
| `scheduler_live` | `TypeOK`, `NoSilentLoss`, `NoAmplification`, `CapRespected`, `GaveUpAfterAllRetries`, `SubmissionSettles` | two workflows that compete for Kubernetes, one also for Dask and with a job that may not fit on a node; apart from them, one above its user's memory and one of a backend that is not enabled; caps of one, two retries, all checks, one fault and two copies of a message, a queue tool |
| `scheduler_memory` | `QueuedWorkflowHasSubmission` is violated | no fault at all |
| `sessions_races` | `NoResurrection`, `AbsoluteCap`, `HolderOwnsLock`, `ReuseOnlyAfterFault`, `TerminalMeansGone` | two racing requests, one session stored with a refresh token or without, lifetime and clock of two ticks (so a refresh can be early, late or past the window), two rotations, one fault |
| `sessions_cookies` | `OwnIdentityOnly`, `MismatchLeavesSession`, `RequestAnswered` | two identities and two sessions; either one request with every pair of cookies and replacing logins, or two requests that compete for one session, with one crash |
| `workspace_locks` | `Exclusive`, `NothingLeaks`, `SomebodyWins`, `ImplementsMutex`, `TypeOK` | three scopes (holder, waiter, newcomer is what a wrong reference count needs), three paths of which two collide in the hash, two database failures, both dialects |
| `workflow_family` | `SubmittedOnce`, `FailedCreationIsGone`, `RestartAllOrNothing`, `ClosedDeletion`, `DeletedIsFinal`, `InactiveStaysInactive` | two requests of any kinds on one or two runs (sharing a workspace or not) and a third to be created; two faults, so that a late commit or a failed publication can meet a failed compensation |
| `workflow_family_paths` | `ResolvesEveryWorkspace` is violated | the same without any fault |
| `identity` | `SingleFlight`, `StaleWithinGrace`, `PermanentWins`, `ForcedRefreshIsReal`, `DiscoverySound`, `SignedInAsOwner`, `WebhookSecrets`, `LinkMovesOnlyInRace`, `IdentityTypeOK` | keys: two threads (one that fetches and one that joins, waits or backs off), three keys of which two get published (`MaxPublished`), a table of one unknown key, each duration one tick and a clock of three, so that keys can be fresh, stale and expired; discovery: two threads, a good, an internal and a bad document, one configured endpoint, the same durations; accounts: two requests, two emails (one in an allowed domain) and two identities (one of an attested issuer), two webhook secrets |
| `identity_links` | `LinkNeverMoves` is violated | the same |
| `issuer_keys_generations` | `OneGeneration` is violated | two keys, a backoff of two ticks |
| `api` | `AnswersHonest`, `SignInHonest`, `MutationsExclusive`, `LoginSound`, `QuotaChangesWhole`, `SpecificationsSound` | every handler with every outcome of each of its steps; two workspace changes at a time on two runs of one name, of which a new one may take over the name; two tabs, two logins, two stored sessions, two identities; two administrators on two users, somebody who is not one and three resources, two of them of one type; limits and periods; two uploads of one or two bytes under limits of up to three, or none; archives of up to three entries with paths of up to three components, also of the name of the downloaded archive and below it; all outcomes of the sandbox; reports of up to four entries; specifications of up to three steps, beside or inside each other to a depth of three, with two backends, scatters over none and two and the hints of step, tool and workflow; four Snakemake jobs of three steps |
| `quota_defaults` | `DefaultsReachEveryone` is violated | the same, the command alone |

Bounds named in the modules: `MaxFaults` (faults in a behaviour), `MaxCopies`
(copies the broker makes), `MaxTime`, `MaxClock` and `LastDay` (clocks),
`MaxToken` (rotations of a token), `PollRounds` (the polling deadline in
rounds), `MaxPublished` (keys the issuer publishes), `MaxSecret` (webhook
secrets), `MaxLogin` and `MaxSid` (logins begun and sessions stored), `MaxUsed`
(bytes). `MaxFiles`, `MaxDirectories`, `MaxDepth`, `MaxBytes`, `MaxEntries`,
`MaxUnknown` are limits of the code itself, made small.

Fairness. In `Scheduler`: the server completes requests it began (a request
thread is not preempted for ever), the scheduler process is restarted by its
deployment and kombu keeps consuming, RWC consumes events, and an administrator
does not leave a queue tool at its prompt for ever. A fault is never
fair. In `BffSession`: each step of a request has a timeout (Redis socket
timeouts, the issuer's HTTP timeout, the polling deadline), so a request's
thread runs on. Nothing is assumed about users, administrators or lock expiry.
Weak fairness suffices in both because a step stays enabled until it is taken.

No liveness is claimed of `KeyCache` and `Discovery`: a thread that waits has a
deadline (`WaitTimesOut`, `CallerTimesOut`), and what could keep the others
waiting, a mark that stays, is the safety property `SingleFlight`
(`OneDiscovery`). The requests of `Endpoints` wait for nobody but the one they
ask, with a timeout.

### Findings

`scheduler_memory`: `publish_workflow_submission` commits *queued*
(`utils.py:268`) before `validate_job_memory_limits` (`utils.py:282`) may
raise. The start request fails with 500, no message exists, and the workflow is
*queued* for ever, because a later start is refused as already queued. The
comment at `rest/workflows.py:2471` says that an invalid workspace fails the
start and *nothing is queued*, and `reana-admin check-workflows` reports such a
workflow as broken (`reana_admin/check_workflows.py:102`).

`workflow_family_paths`: `set_workflow_status` locks the workspace of the run
that the identifier stands for (`rest/workflows.py:3243`) and passes the
identifier on (`rest/workflows.py:3210`); the controller resolves it again. If
the identifier is the bare name and a creation commits in between, the
controller deletes a run and a workspace whose lock the creation holds and the
deletion does not. The docstring at `rest/workflows.py:2622` says that every
workspace the operation can mutate is resolved. The creation goes on: seeding
makes the directory again and a submission sets the deleted row to *queued*.
This needs the controller to take a bare name for the latest run, as
`_get_workflow_with_uuid_or_name` does. For an all-runs deletion the same
happens only with a creation that the controller commits after the server has
given up, which the comment at `rest/workflows.py:3233` (*closed set*) leaves
out; `ClosedDeletion` says that this is the only way.

`issuer_keys_generations`: `get_key_set_for_kid` takes the key set in one
locked section (`auth/tokens.py:329`) and looks the key id up in
`_known_kids` in a later one (`auth/tokens.py:337`). A refresh between the two
makes a key count as known that the key set in hand does not have, and a valid
token is refused as invalid. The docstring of the sibling
`get_cached_key_set_for_local_kid` (`auth/tokens.py:283`) describes this very
hazard and avoids it.

`identity_links`: `link_user_identity` tests the link of the row as it has read
it (`auth/provision.py:188`) and its commit is an UPDATE without a condition.
Two requests that have both read the account without a link both link it, and
the later one moves the link, which the docstring (`auth/provision.py:181`)
says is refused. `LinkMovesOnlyInRace` says that this is the only way.

`quota_defaults`: `quota-set-default-limits` passes both the name and the type
of a resource to `quota-set` (`reana_admin/cli.py:815`), which
`_set_quota_limit` refuses (`utils.py:703`); the command ends there and nobody
gets a default limit. Its docstring (`reana_admin/cli.py:784`) and the changelog
say what it is for; the only test has a user with a custom limit.

### Observations

What the properties except by name, because the code is so:

* A file operation on a bare name locks the run that the name means at that
  moment and is carried out on the run that it means when the controller or the
  handler looks it up (`Mislocked` in `MutationsExclusive`).
* A call that the server no longer waits for may still take effect, after the
  lock has been given back (`late` there).
* A session stored without a refresh token (`rest/auth.py:481` stores an empty
  string when the issuer gives none) is answered as terminal and stays in Redis
  until it expires (`auth/sessions.py:398`), which the docstring of
  `refresh_session` (`auth/sessions.py:546`) does not say (`Over` in
  `TerminalMeansGone`).
* Cookies are also cleared when the access cookie is definitively invalid, as
  after a rotation of the issuer's keys, or its session has no refresh token
  (`decorators.py:226`). The session stays, and the next login comes without its
  cookie and cannot delete it: one person has two sessions without any overlap or
  failure (`orphaned` in `LoginSound`).
* Enabling a webhook commits its secret before GitLab is asked
  (`rest/gitlab.py:708`). If GitLab refuses, the answer is a refusal and the
  secret stays. Three handlers answer 403 to a `ValueError` also from the midst of
  their work (`rest/workflows.py:5198` for a prune, and the changes of secrets),
  when part or all of it may be done (`RefusedTooLate` in `AnswersHonest`).
* The downloaded archive lies in the directory that its entries are written to
  (`fetcher.py:501`). An entry of its own name, or below it, passes the checks and
  cannot be written; the archive is refused then (`MeetsArchive` in
  `ArchiveSound`).
* A creation that fails after its workspace was seeded, in the quota update or
  the publication, is not compensated (`spoiled` in `FailedCreationIsGone`).
* Two handlers of secrets and the list of GitLab projects answer 400 or 415,
  which their OpenAPI specifications do not list (`Undeclared`).
* The estimate of a CWL specification looks only at a step's own hints, the
  backends also at those of the enclosing workflows and of the tool, which the
  docstring at `complexity.py:47` does not distinguish. A job on an external
  backend declared there counts as a Kubernetes job with its memory (`Hidden`
  in `EstimatesSound`). The same holds for a CWL step that is no job
  (`ExpressionTool`), for one that holds a workflow and is itself taken for a
  job (packed, or scattered over nothing) and for a
  Yadage stage none of whose inner stages can start.
* The memory of a group of Snakemake jobs is a mean: one job above the limit
  passes among smaller ones.
* A fetched archive whose only top directory holds an entry of the directory's
  own name cannot be unwrapped and is refused (`UnwrapFails`).
* Of two changes of a CPU period one may leave a start without a length in
  months, if the other commits between its reading and its own commit.
* An upload is checked against what is used when it begins; two at once may
  exceed the limit together.
* A webhook request that was authorized before a revocation may commit after
  it; `AuthorizedByGrant` counts that as a later authorization.

## 4. Proofs

TLC checks small instances; the theorems hold for all values of the constants
that satisfy the modules' named assumptions (`SchedulerAssumption`,
`BffAssumption`, `LocksAssumption`, `FamilyAssumption`, `KeyCacheAssumption`,
`DiscoveryAssumption`, `AccountsAssumption`, `EndpointsAssumption`,
`LoginAssumption`, `QuotaAssumption`, `BundlesAssumption`,
`ReportsAssumption`, `EstimatesAssumption`, and `MCInputs` for the composition
of the API). These say that special values are not ordinary ones, that bounds are numbers, and what
the configuration maps to what; TLC evaluates them on every run. A bound
(`MaxTime`, `MaxFaults`, `MaxToken`, `MaxSecret`, ...) is a constant like any
other, so that a theorem holds under every bound.

Every module is proved along the same lines. An inductive invariant is a
conjunction of named parts, most of them a statement about one request (thread,
caller, scope); TLC has checked it on an instance before the proof was begun.
There is one lemma for each step, and one (`Invariance`, `KeyCacheInvariance`,
`BundleInvariance`, ...) that puts them together; the theorems follow from it. What changes from module to module is
what must be added to the property so that it is inductive:

`SchedulerProofs`: `TypeCorrect`, `NoLossTheorem`, `NoAmplificationTheorem`,
`GaveUpTheorem`, `CapTheorem`. Type correctness is needed by every other proof,
because retry counts bound the messages. `NoSilentLoss` is not inductive: the
proof adds what the scheduler's hand may hold in each place, and that a
workflow which is still in state created has no message. Amplification is
excluded by the copy numbers handed out so far. Giving up needs that a
message's retry count is smaller than the deliveries counted for its workflow.
The caps need that nothing but the single scheduler makes a workflow active
between the check and the start, except late starts. The queue tools are steps
like the others: they hold one message, which is in no queue meanwhile.

`BffSessionProofs`: `Capped`, `EndedForGood`, `LockIsHeld`, `RefreshesExclude`,
`TokensUsedOnce`, `TerminalIsFinal`, `NoForeignToken`, `MismatchIsHarmless`.
What a request has read before the lock, before the issuer's answer and before
the store is old when it is used; the invariant says what of it is still true.
`SessionInv`: whatever is stored is what the login put there, and what was
ended had been created (so that no later login creates it again, and the
compare-and-set of a store fails). `RequestInv`: the identity and the age of
the session that the request holds are still those of the session. `LockInv`:
of two requests in the critical section of one session one has outlived its
lock. `TokenInv` and `StoredInv`: unless a fault or an expired lock has
intervened, the stored refresh token, or the one in the hand of the request
that owns the lock, is the issuer's current one; from this follows that the
issuer sees no token twice. `ScanInv`: every session that a revocation answers
for is in front of it or gone. `OneRefreshAtATime`, which no run checks, is the
consequence of `HolderOwnsLock` that a reader of the code expects.

`WorkspaceLocksProofs`: `LocksTypeCorrect`, `ExclusiveTheorem`, `MutexTheorem`,
`NothingLeaksTheorem`, `SomebodyWinsTheorem`. The inductive invariant says: the
references of a table entry are the number of scopes registered for it (a
cardinality, which is why the set of scopes is finite); a scope that is
registered for a path has the entry of the table, so that two of them have the
same lock object; the owner of a lock object has it among its acquired keys; an
advisory lock on a key is held by whoever acquired a path with that hash and is
still connected. Exclusion follows, and from it that entering the body is a
step of the abstract mutex; every other step stutters or leaves. `LeakInv` adds
what a scope has in each place of its way out, also of the way out after a
failure. `SomebodyWins` (colliding scopes do not all give up) needs the order
of locking: `Ahead` says that, as long as nobody has won and nothing
has failed, a scope that still acquires holds a greater key than those which
have given up. For advisory locks the theorem has a hypothesis, `Contiguous`:
paths of one hash are neighbours in the order in which paths are locked. It
holds when the 64-bit hash does not collide, and it is needed: TLC finds two
scopes that both give up when the order of two hashes is reversed by a
collision. Local locks need no hypothesis.

`WorkflowFamilyProofs`: `SubmittedOnceTheorem`, `FailureLeavesNothing`,
`RestartIsAtomic`, `DeletionIsClosed`, `DeletionIsFinal`, `InactiveRulesStay`.
The runs of a name share workspace, specification and retention rules, and eight
kinds of request change them. A step is therefore seen from two sides: what it
does to the request that takes it (a lemma for each step), and what every other
request may rely on (`Rely`: no row disappears, no workspace moves, and of the
runs whose key it does not hold it changes nothing but what late commits and
listed exceptions may). `RelyKeeps` concludes once, for all steps, that the
others keep their part. That two requests hold no common key (`Apart`) gives
the rest. The parts for a request: the places its kind goes through, its locks,
and what each kind has done so far in each place (a creation, a submission, a
start, the promotion of a restart's specification, a restart, a retention run,
a deletion of all runs). A restart needs the origin of every specification file
(`TraceInv`), because undoing it must not touch the file of another request.
The locks are those of the abstract `WorkspaceMutex`, which the code's locks
implement by `MutexTheorem`; `FamilyUsesTheMutex` closes the argument from the
other side: no step of a request, of the controller or of the scheduler takes or
gives a key in any other way than the abstract specification allows.

`IdentityProofs`, the caches: `KeyCacheTypeCorrect`, `OneFetchAtATime`,
`StaleKeysExpire`, `MisconfigurationIsNotMasked`, `ForcedRefreshHappens`;
`DiscoveryTypeCorrect`, `EndpointsAreSound`. The properties of an answer are
not inductive. `ThreadInv` says of each thread what must hold before the
answer: a validation that found the keys expired, with no fetch since, has been
given no keys and the cache is still not usable (keys only age until one is
stored); one that began under a permanent misconfiguration has been given none
while that verdict stands; a forced refresh that waits does so while a fetch
runs or after one has failed. One lemma says that a step which only moves a
thread keeps all of this if the thread's new state does (`LocalValidationStep`); the end
of a fetch has a lemma of its own for each outcome, because it changes the
cache under all threads. The limit of the table of unknown keys is part of the
type invariant and uses the library's facts about cardinality. `CallInv` does
the same for the callers of the discovery cache, whose trust rules are lemmas
about the operators that check a URL (`ConfiguredIsTrusted` and the ones after
it); `CacheInv` adds that a verdict or a running discovery means that the
document is not fresh.

`IdentityProofs`, the accounts: `AccountsTypeCorrect`, `LoginActsForItsOwner`,
`SecretsKeepTheirPromise`, `LinksMoveInRacesOnly`. Links and webhooks write
different columns of the same rows and are proved together, so that the
theorems cover their interleavings, which the runs check one at a time.
`LinkInv` says what a login or a command knows of the account when it goes on
with what it has read: that the row was not linked, that the claim was good,
and that a finished login owns its account unless the link was overwritten
since. `HookInv`: the row is there, the secret about to be installed is the
account's or deleted, and a revocation that read no authorization, and was not
overtaken by one, still has none in front of it; without this an authorization
that a revocation does not write over would survive it. `SecretInv` counts the
secrets, so that a new one is new and a deleted one nobody's.

`IdentityProofs`, the composition: `IdentityImplements`, `IdentityTypeCorrect`.
What the run checks is the conjunction of the three with all but one standing
still; it is shown to implement each of them, so that every theorem above holds
of the run's own specification.

`EndpointsProofs`: `ChangesExclude`, `SignedInAsDemanded`, `AnsweredHonestly`,
`EndpointsUseTheMutex`.
`HandlersSound` is a lemma about the table of handlers, proved one handler
after the other: what guards and body answer is declared or a listed exception,
a handler is signed in to once, the lock comes last, no success stands among what
it answers to a failure, only the webhook prepares a change, and only the
handlers of `Enclosing` answer 403 to a change that breaks off. The invariant says of a request which
guards it has passed (`GuardsInv`), who it is signed in as (`SignInInv`), what
has been done in its name (`WorkInv`) and what has been answered (`AnswerInv`);
`OneHolder` is the exclusion of the lock. Whatever is true of a handler reaches
the behaviours through the table alone, so that a handler added to the table
needs one more step in that lemma. The last theorem is a refinement: the keys of
the requests, as a state function (`held`), behave as `WorkspaceMutex`. It rests
on `LockedLast`, proved with it: a request with a key is past all its guards, so
that no guard can take a second key, and is not answered, so that no way to end
a request, rejected, refused, timed out or broken off, keeps one.

`ApiProofs`: `LoginIsSound`, `QuotaIsWhole`.

For the browser, `StoreInv` types the state and says that a stored session ends
for its owner only. `TabInv` is about a single tab: a callback that goes on
belongs to a login this browser began, and what it has stored is its identity's.
`CalmInv` says that as long as no two requests have overlapped and none has
failed, one at a time is served, it came with the cookies the browser still has,
and these belong together. `LiveInv` counts the live sessions of one person
under the same condition: that of the cookie; from the storage of a new one
until the old one is deleted, both; from then on until the answer, the new one;
none once the cookies are void. Orphaned sessions do not count: no cookie leads
to them any more. The last two follow the tabs through the callback, because
the property can only be kept by what holds between its steps.

For the quotas, a request that has read the rows knows that they are still
there, though not what they hold (`There`): rows come to be and never go. With
what its checks have established before reading (`ChangeInv`: the users exist,
a period that will start has a length) each row can be followed through the
commit (`CommittedRow`): it keeps its use, and gets the columns asked for unless
another commit came between. `UploadInv` says what an upload was let in by.
`QuotaIsWhole` covers all requests (`ChangeRequests`), of which the run takes
some. The command that sets defaults takes part by its failure: its request is
always refused, so that it changes no row.

`SpecificationProofs`: `ArchivesAreSound`, `ReportsAreBounded`, `LoadsAreSound`,
`EstimatesAreSound`; `ApiImplements`, `SpecificationsAreSound`.

For the archives, `CheckedArchive` says what the checks of the metadata come
to: paths are different (their set has as many members as there are entries)
and no file is above another entry. While an archive is written, what is there
are the files before the next entry (`ExtractionInv`), so that nothing can be in
the way of the next but the downloaded archive itself, and what is there at the
end are all. That unwrapping a
common directory loses none is `UnwrappedApart`.

For the reports, `KeptIsShort` bounds the environments that are taken by the
room there is, from the greatest of them; the rest is arithmetic over the order
in which entries are given up. The theorem assumes, as `Report` does, that what
`reana_commons` found is within the bound.

For the estimates, what holds of one item of a complexity is `Fitting`: its
memory lies between what two steps ask for, and if no step runs on Kubernetes
and nothing is hidden from the estimate it counts no job. `CalmLeaf` and
`FromInside` relate the two traversals: the backends look at all steps that hold
no others, the estimate at those that may start, from the outside in. A step
that holds others is judged by these, which come after it; `StagesFit` and
`CwlFits` take the last step of which it would fail. `NoHintsFromOutside` goes
the other way: hints are inherited from steps that come before. For Snakemake
`TogetherBetween` bounds a sum by the number of its terms, `MeanWithOneMore` a
mean, and `FirstGreatest` finds the group that counts. The theorem is about
every workflow (`Workflow`), nested to any depth; its only hypothesis is that a
step is numbered after the one it is within.

The composition: the specification of the run implements those of the endpoints,
the browser, the quotas and the archives (`ApiImplements`, with `MCInputs` as its
assumption), and what its functions are applied to is among what the theorems
are about. Hence `SpecificationsSound` as the run checks it.

The library's induction theorems take an operator, which the provers cannot
instantiate. Where a proof needs induction over numbers it uses the least-number
principle for a set instead (`LeastMember`, from the library's `WFMin`, and
`NumbersInductive`). With it `RecursiveFunctionExists` says once that a function
is defined by recursion when each value is determined by those of smaller rank
(`Determines`): stages and CWL steps by the steps inside them, hints by those
outside, sums by the terms before (`StageComplexityIs`, `CwlStepComplexityIs`,
`AllHintsAre`). The bytes of an archive are a recursive function as well, and
`SumsExist`, `BytesOf` and `BytesAppended` say what it computes for archives of
every length.

Every invariant and every step property that a passing run checks is proved.
Only model-checked is liveness (`SubmissionSettles`, `RequestAnswered`), because
the prover has no rules for fairness and ENABLED. The runs that expect a
violation are counterexamples, with nothing to prove.

## 5. Plan

1. Done: `Scheduler` with the queue tools, `BffSession`, `WorkspaceLocks` over
   `WorkspaceMutex`, `WorkflowFamily` over `WorkspaceMutex`.
2. Done: `KeyCache`, `Discovery`, `Accounts`.
3. Done: `Handlers`, `Endpoints`, `LoginFlow`, `Quota`, `Bundles`, `Reports`,
   `Estimates`.
4. Done: proofs about all of these and of the two compositions.
5. Left to model: the git and YAML fetchers' limits, the quota recalculation of
   the command line, the closing of inactive sessions.

### Not modelled, and why

* Configuration (`config.py`, `auth/config.py`) and error classes are
  declarations; the values that matter are CONSTANTS.
* The contents of reports and listings (`status.py`, `rest/status.py`,
  `rest/info.py`, `check_workflows.py` other than its queue tool) are read-only
  queries. Their handlers are in `Handlers`.
* The wiring of the application and its startup checks (`factory.py`) run once,
  alone. Rate limiting itself is a library's; its answer is in `Endpoints`.
* The HTTP clients (`gitlab_client.py`, `api_client.py`), git and YAML loading
  in `fetcher.py` are calls to libraries.
* The engines' sandbox is an external call; what comes back is in `Reports`.
* Three hazards have no property: the compensation of a restart writes back
  rule states that may have changed meanwhile (`rest/workflows.py:2240`), a
  publication that raises although the message is out (`:2558`, admitted by the
  model), and the uncompensated failures after seeding (`:1403`, excepted by
  name).
