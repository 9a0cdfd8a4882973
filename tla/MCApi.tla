------------------------------- MODULE MCApi --------------------------------
(* The API on small instances: its requests, a browser that logs in, the   *)
(* quotas, archives of specifications, and the functions of reports and    *)
(* estimates on all inputs of a small size.  They share nothing, so that   *)
(* in one behaviour only one of them moves.                                *)
EXTENDS Endpoints, LoginFlow, Quota, Bundles, Reports, Estimates,
        FiniteSets, TLC

CONSTANTS c1, c2, w1, w2, a1, a2, u1, u2, cpu, disk, tape

VARIABLES focus, input

apiVars == <<focus, input, endpointVars, loginVars, quotaVars, bundle>>

-----------------------------------------------------------------------------
(* Requests.  Handlers that change a workspace run against each other, the *)
(* others alone; who asks and for which workflow matters where one is      *)
(* looked up.                                                              *)

MCWorkspace == w1 :> w1 @@ w2 :> w2
Locking == {name \in DOMAIN Handler : Handler[name].changes = "workspace"}
Finding == {name \in DOMAIN Handler : Handler[name].finds # "nothing"}
Busy(c) == req[c].pc # "idle"

Arrivals(c) ==
  IF \A d \in Client : ~Busy(d)
  THEN IF c = c1 THEN
         [name : Locking \cup Finding, who : Person, id : {Bare, w1}]
           \cup [name : DOMAIN Handler, who : {"owner"}, id : {w1}]
       ELSE {}
  ELSE IF \A d \in Client : Busy(d) => /\ req[d].name \in Locking
                                       /\ req[d].who = "owner"
                                       /\ req[d].pc \in {"found", "asked"}
                                       /\ req[d].how = "bearer"
       THEN [name : Locking, who : {"owner"}, id : {Bare, w1}] ELSE {}

Requests ==
  \/ \E c \in Client : \E a \in Arrivals(c) :
       \E method \in Handler[a.name].methods :
         Arrive(c, a.name, method, a.who, a.id)
  \/ \E c \in Client : Step(c)
  \/ NewRun

\* While two are under way they get through the guards that only answer.
Paired ==
  (\A c \in Client : Busy(c)) =>
    \A c \in Client : /\ req'[c].how \in {"nothing", "bearer"}
                      /\ req'[c].pc = "answered" =>
                           req[c].pc # "guard" \/ req'[c].code = 409
                      /\ req'[c].finding = "good"

-----------------------------------------------------------------------------
(* Quotas: limits of two users, one of whom may have no row; periods of    *)
(* one; uploads of one under a limit that is set, also by default.         *)

MCType == cpu :> "cpu" @@ disk :> "disk" @@ tape :> "disk"
MCDefault == [cpu |-> 0, disk |-> 2]

Limit(by, users, named, resource, limit) ==
  [NoChange EXCEPT !.by = by, !.users = users, !.named = named,
                   !.resource = resource, !.limit = limit]
LimitRequests ==
  {Limit("email", users, "name", disk, limit) :
     users \in {{u1}, {u1, u2}, {u1, Absentee}}, limit \in {1, 2}}
  \cup {Limit(by, {u1}, "type", type, limit) :
          by \in {"email", "both"}, type \in {"cpu", "disk"}, limit \in {-1, 1}}
PeriodRequests ==
  {[NoChange EXCEPT !.kind = "period", !.by = "id", !.users = {user},
                    !.resource = type, !.months = months, !.start = start] :
     user \in {u1, Absentee}, type \in {"cpu", "disk"},
     months \in {Unset, None, 0, 2}, start \in {Unset, None, 1}}
LoweredLimits == {Limit("email", {u1}, "name", disk, limit) : limit \in {0, 1, 3}}

QuotaStarts ==
  /\ \A u \in User : quota[u][tape] = NoRow /\ quota[u][cpu] # NoRow
  /\ quota[u1][disk] # NoRow \/ (focus = "limits" /\ quota[u2][disk] # NoRow)
  /\ focus = "uploads" <=> quota[u2][disk] = NoRow

Changes(requests) == \E a \in Admin : ChangeSteps(a, requests)
Uploads == \E c \in Uploader : UploadSteps(c, {u1}, 1..2)

-----------------------------------------------------------------------------
(* Archives of up to two good entries, of an odd one or of too many, or    *)
(* with one named like the archive.                                        *)

File(path, kind, flaw, size) ==
  [path |-> path, kind |-> kind, flaw |-> flaw, size |-> size]
MCName == {"spec", "a", "b", "zip"}
MCSpecFile == <<"spec">>
MCArchivePath == <<"zip">>
MCPath == {<<"spec">>, <<"a">>, <<"a", "spec">>, <<"a", "a">>, <<"spec", "a">>}
Good == {File(path, kind, "none", size) :
           path \in MCPath, kind \in {"file", "directory"}, size \in 1..2}
Odd == {File(<<"a">>, "link", "none", 1), File(<<"a", "a", "a">>, "file", "none", 1)}
         \cup {File(<<"a">>, kind, flaw, 1) : kind \in {"file", "directory"},
                 flaw \in {"unsafe", "encrypted", "compressed"}}
LikeArchive == {File(<<"zip">>, "file", "none", 1), File(<<"zip">>, "directory", "none", 1),
          File(<<"zip", "a">>, "file", "none", 1)}
Archives == {<<e>> : e \in Odd} \cup UNION {[1..n -> Good] : n \in 0..2}
              \cup {<<File(<<"spec">>, "file", "none", 1),
                      File(<<"a">>, "file", "none", 1),
                      File(<<"b">>, "file", "none", 1)>>}
              \cup {<<File(<<"spec">>, "file", "none", 1), e>> : e \in LikeArchive}
Selections == {{}, {<<"spec">>}, {<<"spec">>, <<"a">>}, {<<"spec">>, <<"a", "spec">>}}

Archiving == BundleSteps(Archives, 0..2, Selections)

-----------------------------------------------------------------------------
(* Inputs of the functions.  Memory comes in multiples of six, so that the *)
(* mean of up to three jobs is exact.                                      *)

ReportInputs ==
  {r \in [errors : 0..4, warnings : 0..4, marked : BOOLEAN,
          overlong : UNION {[1..n -> BOOLEAN] : n \in 0..3},
          tagged : [1..3 -> BOOLEAN]] : r.errors + r.warnings <= MaxEntries}

Declared == {<<>>, <<"htcondor">>, <<"kubernetes", "htcondor">>,
             <<NoBackend, "kubernetes">>}
External == {<<>>, <<"htcondor">>}
Plain == [within |-> 0, initial |-> TRUE, declared |-> <<>>, tool |-> <<>>,
          memory |-> 6, scatter |-> -1, job |-> TRUE]
Stages(within, tools, jobs) ==
  [within : {within}, initial : BOOLEAN, declared : Declared, tool : tools,
   memory : {0, 18}, scatter : {-1, 0, 2}, job : jobs]
Another(within) == {[Plain EXCEPT !.within = within, !.initial = i, !.declared = d] :
                      i \in BOOLEAN, d \in External}
Outer == {[Plain EXCEPT !.declared = d, !.scatter = n] :
            d \in External, n \in {-1, 0, 2}}

\* One, two beside or inside each other, and three of which the first holds one.
Trees(tools, jobs) ==
  {<<s>> : s \in Stages(0, tools, jobs)}
    \cup {<<s, t>> : s \in Stages(0, tools, jobs), t \in Another(0) \cup Another(1)}
    \cup {<<o, s, t>> : o \in Outer, s \in Stages(1, tools, jobs),
                        t \in Another(0) \cup Another(1) \cup Another(2)}

FlatSteps == {[Plain EXCEPT !.declared = d, !.memory = m] :
                d \in External \cup {<<"kubernetes">>}, m \in {0, 18}}
Needs == {<<{2, 3}, {3}, {}>>, <<{2, 3}, {}, {}>>, <<{}, {1}, {2}>>, <<{}, {}, {}>>,
          <<{}, {}, {2}, {1, 2, 3}>>}

Specified(type, steps) ==
  [type |-> type, steps |-> steps, hints |-> <<>>, packed |-> FALSE, needs |-> <<>>]
Workflows ==
  {Specified("serial", s) : s \in UNION {[1..n -> FlatSteps] : n \in 0..2}}
  \cup {Specified("yadage", s) : s \in {<<>>} \cup Trees({<<>>}, {TRUE})}
  \cup {[Specified("cwl", s) EXCEPT !.packed = packed] :
           s \in {<<>>} \cup Trees(External, {TRUE}), packed \in BOOLEAN}
  \cup {[Specified("cwl", <<s, t>>) EXCEPT !.hints = h] : h \in External,
           s \in Stages(0, External, BOOLEAN), t \in Another(0)}
  \cup {[Specified("tool", <<>>) EXCEPT !.hints = h] : h \in Declared}
  \cup {[Specified("snakemake", s) EXCEPT !.needs = needs] :
           s \in [1..3 -> FlatSteps], needs \in Needs}

\* All of these are among the inputs that the theorems are about.
ASSUME MCInputs ==
  /\ w1 \in Run /\ a1 \in Admin /\ u1 \in User
  /\ LimitRequests \cup PeriodRequests \cup LoweredLimits \subseteq ChangeRequests
  /\ Archives \subseteq Seq(Member) /\ Selections \subseteq SUBSET Seq(Name)
  /\ ReportInputs \subseteq Report /\ Workflows \subseteq Workflow

-----------------------------------------------------------------------------
ApiInit ==
  /\ EndpointsInit /\ LoginInit /\ QuotaInit /\ BundleInit
  /\ focus \in {"requests", "login", "limits", "periods", "uploads", "archive",
                "load", "report", "estimate"}
  /\ focus # "requests" => latest = w1
  /\ QuotaStarts
  /\ CASE focus = "load" -> input \in Load
       [] focus = "report" -> input \in ReportInputs
       [] focus = "estimate" -> input \in Workflows
       [] OTHER -> input = "none"

ApiNext ==
  /\ UNCHANGED <<focus, input>>
  /\ \/ /\ focus = "requests" /\ Requests
        /\ UNCHANGED <<loginVars, quotaVars, bundle>>
     \/ /\ focus = "login" /\ LoginNext
        /\ UNCHANGED <<endpointVars, quotaVars, bundle>>
     \/ /\ \/ focus = "limits" /\ Changes(LimitRequests)
           \/ focus = "periods" /\ Changes(PeriodRequests)
           \/ focus = "uploads" /\
                (ChangeSteps(a1, LoweredLimits) \/ Uploads \/ DefaultSteps)
        /\ UNCHANGED <<endpointVars, loginVars, bundle>>
     \/ /\ focus = "archive" /\ Archiving
        /\ UNCHANGED <<endpointVars, loginVars, quotaVars>>

ApiSpec == ApiInit /\ [][ApiNext]_apiVars

\* The command alone.
DefaultsSpec ==
  /\ ApiInit /\ focus = "uploads"
  /\ [][/\ DefaultSteps
        /\ UNCHANGED <<focus, input, endpointVars, loginVars, bundle>>]_apiVars

\* Everything that is derived from a specification: its archive, how it is
\* loaded, the report on it and the estimate of what it needs.
SpecificationsSound ==
  /\ ArchiveSound
  /\ focus = "load" => LoadSound(input)
  /\ focus = "report" => ReportSound(input)
  /\ focus = "estimate" => EstimatesSound(input)
=============================================================================
