------------------------------- MODULE Quota --------------------------------
(***************************************************************************)
(* Quotas: the limit, the use and the period of each user and resource, as *)
(* the administrators change them over the API and on the command line     *)
(* (_set_quota_limit, _set_quota_period), and the disk check of uploads.   *)
(*                                                                         *)
(* A change reads the rows, decides and commits what differs from what it  *)
(* has read; nothing locks the rows in between.                            *)
(***************************************************************************)
EXTENDS Integers, FiniteSets

CONSTANTS
  Admin, Uploader,      \* who changes quotas and who uploads, at a time
  User, Absentee,       \* the users, and somebody who is not one
  Resource, Type,       \* Type[r]: "cpu" or "disk"
  DefaultLimit,         \* DefaultLimit[t]: of the resources of a type
  None, Unset,          \* no value, and a value that a request leaves out
  MaxUsed               \* bound: bytes a user may come to

ASSUME QuotaAssumption ==
  /\ Absentee \notin User
  /\ Type \in [Resource -> {"cpu", "disk"}]
  /\ \A t \in {"cpu", "disk"} : \E r \in Resource : Type[r] = t
  /\ DefaultLimit \in [{"cpu", "disk"} -> Nat]
  /\ MaxUsed \in Nat
  /\ None # Unset /\ {None, Unset} \cap Int = {}

VARIABLES
  quota,        \* quota[u][r]: a row of user_resource
  change,       \* change[a]: what an administrator asks for
  upload,       \* upload[c]: one upload
  defaults      \* the command that sets default limits

quotaVars == <<quota, change, upload, defaults>>

Row(limit, used, months, start) ==
  [limit |-> limit, used |-> used, months |-> months, start |-> start]
NoRow == Row(-1, 0, None, None)

\* A request: the limit of `users` for a resource by name or by type, or the
\* period of one of them.  `by` says how the users are given.
NoChange == [pc |-> "idle", kind |-> "limit", by |-> "email", users |-> {},
             named |-> "name", resource |-> None, limit |-> 0,
             months |-> Unset, start |-> Unset,
             read |-> [u \in User |-> [r \in Resource |-> NoRow]], code |-> 0]
NoUpload == [pc |-> "idle", user |-> Absentee, bytes |-> 0, read |-> NoRow]

QuotaInit ==
  /\ quota \in [User -> [Resource -> {NoRow, Row(0, 0, None, None)}]]
  /\ change = [a \in Admin |-> NoChange]
  /\ upload = [c \in Uploader |-> NoUpload]
  /\ defaults = [pc |-> "idle", left |-> {}, asked |-> {}]

\* The resources of a type, and the one whose periods and uploads count.
OfType(t) == {r \in Resource : Type[r] = t}
get_default_quota_resource(t) == CHOOSE r \in OfType(t) : TRUE

-----------------------------------------------------------------------------
(* The changes                                                             *)

\* The resources that a change means.
Named(q) == IF q.named = "type" THEN OfType(q.resource)
            ELSE {q.resource} \cap Resource
Malformed(q) ==
  \/ q.by \notin {"email", "id"}         \* none, both, or an email for an id
  \/ q.users = {} \/ q.named \notin {"name", "type"}
  \/ q.limit < 0

LimitRefusal(q) ==
  IF Malformed(q) THEN 400
  ELSE IF ~(q.users \subseteq User) THEN 404
  ELSE IF Cardinality(Named(q)) # 1 THEN 400 ELSE 200

\* The months that are in force after the change, and the code of a refusal.
EffectiveMonths(q, row) == IF q.months = Unset THEN row.months ELSE q.months
PeriodRow(q) == IF q.users \subseteq User
                THEN quota[CHOOSE u \in q.users : TRUE]
                          [get_default_quota_resource("cpu")]
                ELSE NoRow
PeriodRefusalLax(q) ==
  IF q.resource # "cpu" \/ q.by \notin {"email", "id"} THEN 400
  ELSE IF PeriodRow(q) = NoRow THEN 404
  ELSE IF q.months \in Int /\ q.months <= 0 THEN 400 ELSE 200
PeriodRefusal(q) ==
  IF q.resource # "cpu" \/ q.by \notin {"email", "id"} THEN 400
  ELSE IF PeriodRow(q) = NoRow THEN 404
  ELSE IF q.months \in Int /\ q.months <= 0 THEN 400
  ELSE IF q.start # Unset /\ EffectiveMonths(q, PeriodRow(q)) = None THEN 400
  ELSE 200

\* The start of the current period, counted from the user's creation.
get_current_quota_period_start_at(months) == IF months = None THEN None ELSE 0

\* The row after the change, from the row before it.
Limited(q, row) == IF row = NoRow THEN Row(q.limit, 0, None, None)
                   ELSE [row EXCEPT !.limit = q.limit]
Started(q, row) ==
  IF q.start # Unset THEN q.start
  ELSE IF q.months # None /\ row.start # None THEN row.start
  ELSE get_current_quota_period_start_at(EffectiveMonths(q, row))
Periodic(q, row) ==
  [row EXCEPT !.months = EffectiveMonths(q, row), !.start = Started(q, row)]
Wanted(q, row) == IF q.kind = "limit" THEN Limited(q, row) ELSE Periodic(q, row)

\* A commit updates the columns that differ from what was read.
Updated(now, read, new) ==
  [column \in DOMAIN now |->
     IF new[column] = read[column] THEN now[column] ELSE new[column]]

Touched(q) == q.users \X (IF q.kind = "limit" THEN Named(q)
                           ELSE {get_default_quota_resource("cpu")})
AnsweredWith(q, code) == [q EXCEPT !.pc = "answered", !.code = code]

RequestChange(a, q) ==
  /\ change[a].pc = "idle"
  /\ change' = [change EXCEPT ![a] = [q EXCEPT !.pc = "asked"]]
  /\ UNCHANGED <<quota, upload, defaults>>

ChangeRefusal(q) == IF q.kind = "limit" THEN LimitRefusal(q) ELSE PeriodRefusal(q)

ReadRows(a) ==
  /\ change[a].pc = "asked" /\ ChangeRefusal(change[a]) = 200
  /\ change' = [change EXCEPT ![a].pc = "read", ![a].read = quota]
  /\ UNCHANGED <<quota, upload, defaults>>

RefuseChange(a) ==
  /\ change[a].pc = "asked" /\ ChangeRefusal(change[a]) # 200
  /\ change' = [change EXCEPT ![a] = AnsweredWith(@, ChangeRefusal(@))]
  /\ UNCHANGED <<quota, upload, defaults>>

\* Two that have read no row both create it: the key is unique.
Collides(q) == \E p \in Touched(q) :
  q.read[p[1]][p[2]] = NoRow /\ quota[p[1]][p[2]] # NoRow

CommitChange(a) ==
  LET q == change[a] IN
    /\ q.pc = "read" /\ ~Collides(q)
    /\ quota' = [u \in User |-> [r \in Resource |->
         IF <<u, r>> \in Touched(q)
         THEN Updated(quota[u][r], q.read[u][r], Wanted(q, q.read[u][r]))
         ELSE quota[u][r]]]
    /\ change' = [change EXCEPT ![a] = AnsweredWith(@, 200)]
    /\ UNCHANGED <<upload, defaults>>

\* The database fails, or the new row is there already.
ChangeFails(a) ==
  /\ change[a].pc = "read"
  /\ change' = [change EXCEPT ![a] = AnsweredWith(@, 500)]
  /\ UNCHANGED <<quota, upload, defaults>>

ChangeEnds(a) ==
  /\ change[a].pc = "answered"
  /\ change' = [change EXCEPT ![a] = NoChange]
  /\ UNCHANGED <<quota, upload, defaults>>

ChangeSteps(a, requests) ==
  \/ \E q \in requests : RequestChange(a, q)
  \/ ReadRows(a) \/ RefuseChange(a) \/ CommitChange(a) \/ ChangeFails(a)
  \/ ChangeEnds(a)

\* All that can be asked for; a period is of one user.
ChangeRequests ==
  LET any == [pc : {"idle"}, kind : {"limit", "period"},
              by : {"email", "id", "both", "neither"},
              users : SUBSET (User \cup {Absentee}),
              named : {"name", "type", "both", "neither"},
              resource : Resource \cup {"cpu", "disk", None}, limit : Int,
              months : Int \cup {None, Unset}, start : Int \cup {None, Unset},
              read : {NoChange.read}, code : {0}]
  IN {q \in any : q.kind = "period" =>
                    \E u \in User \cup {Absentee} : q.users = {u}}

-----------------------------------------------------------------------------
(* Uploads                                                                 *)

DiskOf(u) == quota[u][get_default_quota_resource("disk")]

ExcessAlone(row, bytes) == 0 < row.limit /\ row.limit < bytes
\* No limit is no bound.
Excess(row, bytes) == 0 < row.limit /\ row.limit < row.used + bytes

\* prevent_disk_quota_excess, and the upload that it lets through.
StartUpload(c, u, bytes) ==
  /\ upload[c].pc = "idle" /\ DiskOf(u) # NoRow
  /\ ~Excess(DiskOf(u), bytes)
  /\ upload' = [upload EXCEPT ![c] =
       [pc |-> "sent", user |-> u, bytes |-> bytes, read |-> DiskOf(u)]]
  /\ UNCHANGED <<quota, change, defaults>>

\* The bytes are counted once they are there, by the workflow-controller.
Charge(c) ==
  LET u == upload[c].user
      r == get_default_quota_resource("disk") IN
    /\ upload[c].pc = "sent" /\ DiskOf(u).used + upload[c].bytes <= MaxUsed
    /\ quota' = [quota EXCEPT ![u][r].used = @ + upload[c].bytes]
    /\ upload' = [upload EXCEPT ![c] = NoUpload]
    /\ UNCHANGED <<change, defaults>>

UploadFails(c) ==
  /\ upload[c].pc = "sent"
  /\ upload' = [upload EXCEPT ![c] = NoUpload]
  /\ UNCHANGED <<quota, change, defaults>>

UploadSteps(c, users, sizes) ==
  \/ \E u \in users, bytes \in sizes : StartUpload(c, u, bytes)
  \/ Charge(c) \/ UploadFails(c)

-----------------------------------------------------------------------------
(* quota-set-default-limits                                                *)

Unlimited == {p \in User \X Resource : quota[p[1]][p[2]].limit = 0}

StartDefaults ==
  /\ defaults.pc = "idle"
  /\ defaults' = IF Unlimited = {} THEN [defaults EXCEPT !.pc = "ended"]
                 ELSE LET due == {p \in Unlimited : DefaultLimit[Type[p[2]]] # 0}
                      IN [pc |-> "setting", left |-> due, asked |-> due]
  /\ UNCHANGED <<quota, change, upload>>

\* It gives the name and the type of the resource.
DefaultRequest(p) ==
  [NoChange EXCEPT !.users = {p[1]}, !.named = "both", !.resource = p[2],
                   !.limit = DefaultLimit[Type[p[2]]]]

\* A refusal ends the command.
SetDefault(p) ==
  LET q == DefaultRequest(p) IN
    /\ defaults.pc = "setting" /\ p \in defaults.left
    /\ IF LimitRefusal(q) = 200
       THEN /\ quota' = [quota EXCEPT ![p[1]][p[2]] = Limited(q, @)]
            /\ defaults' = [defaults EXCEPT !.left = @ \ {p}]
       ELSE /\ defaults' = [defaults EXCEPT !.pc = "ended"]
            /\ UNCHANGED quota
    /\ UNCHANGED <<change, upload>>

EndDefaults ==
  /\ defaults.pc = "setting" /\ defaults.left = {}
  /\ defaults' = [defaults EXCEPT !.pc = "ended"]
  /\ UNCHANGED <<quota, change, upload>>

DefaultSteps ==
  StartDefaults \/ (\E p \in defaults.left : SetDefault(p)) \/ EndDefaults

QuotaNext ==
  \/ \E a \in Admin : ChangeSteps(a, ChangeRequests)
  \/ \E c \in Uploader : UploadSteps(c, User, Nat)
  \/ DefaultSteps

QuotaSpec == QuotaInit /\ [][QuotaNext]_quotaVars

-----------------------------------------------------------------------------
QuotaTypeOK ==
  \A u \in User : \A r \in Resource :
    /\ quota[u][r].limit \in Nat \cup {-1} /\ quota[u][r].used \in 0..MaxUsed
    /\ quota[u][r] # NoRow => quota[u][r].limit >= 0

\* A period that starts has a length.
Periodical(row) == row.start # None => row.months # None

\* How a successful change may leave a row.
ChangedAsAsked(q, p) ==
  LET old == quota[p[1]][p[2]]
      new == quota'[p[1]][p[2]] IN
    /\ new.used = old.used
    /\ old = q.read[p[1]][p[2]] =>
         /\ q.kind = "limit" => new.limit = q.limit
         /\ Periodical(old) => Periodical(new)

(* A change that is refused or that fails leaves every row alone, and one  *)
(* that succeeds sets the limit of all its users; only when another commit *)
(* has come between its reading and its own does it leave a period that    *)
(* starts without a length.  An upload exceeds the limit only when the row *)
(* has changed since it was let in.                                        *)
(* utils.py 144-173, 673-799, 805-884.                                     *)
QuotaChangesWhole ==
  /\ []QuotaTypeOK
  /\ [][/\ \A a \in Admin : change'[a].code # change[a].code =>
            IF change'[a].code = 200
            THEN \A p \in Touched(change[a]) : ChangedAsAsked(change[a], p)
            ELSE quota' = quota
       /\ \A c \in Uploader : \A u \in User :
            (upload'[c] # upload[c] /\ quota' # quota
               /\ upload[c].user = u /\ upload[c].read = DiskOf(u))
              => DiskOf(u)'.limit = 0 \/ DiskOf(u)'.used <= DiskOf(u)'.limit
     ]_quotaVars

(* The command that sets default limits leaves nobody without the default  *)
(* limit who had none when it began.                                       *)
(* reana_admin/cli.py 774-822.                                             *)
DefaultsReachEveryone ==
  defaults.pc = "ended" =>
    \A p \in defaults.asked : quota[p[1]][p[2]].limit # 0
=============================================================================
