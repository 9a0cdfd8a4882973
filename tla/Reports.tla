------------------------------ MODULE Reports -------------------------------
(***************************************************************************)
(* Reports of a validation.  Whoever loads a specification, the server     *)
(* itself or a sandbox that runs its code, only loads it; whether it is    *)
(* valid the server decides (validation.py).  The report that a client     *)
(* gets is bounded: findings and environments that have no room are left   *)
(* out, errors never, and a marker says so (workflows.py).                 *)
(*                                                                         *)
(* Findings and environments are only counted.                             *)
(***************************************************************************)
EXTENDS Integers, FiniteSets, Sequences

CONSTANT MaxEntries       \* MAX_VALIDATION_REPORT_ENTRIES
ASSUME ReportsAssumption == MaxEntries \in Nat \ {0}

-----------------------------------------------------------------------------
(* Loading                                                                 *)

\* What comes back from the sandbox: `reached` the answer of the controller,
\* the exit code, whether its error is internal and whether it has loaded a
\* candidate, which is then valid or not.
Load == [reached : {"no", "refused", "malformed", "yes"},
         exit : {"loaded", "loadError", "internal", "other"},
         internal : BOOLEAN, candidate : BOOLEAN, valid : BOOLEAN]

AuthoritativeReportTrusting(l) ==
  IF l.internal \/ l.exit \notin {"loaded", "loadError"} THEN "outage"
  ELSE IF ~l.candidate THEN "unloadable"
  ELSE IF l.valid THEN "valid" ELSE "invalid"
\* _call_rwc_validate and _authoritative_report: an outage, a specification that
\* does not load, or the verdict of validate_serialized_spec.
_authoritative_report(l) ==
  IF l.internal \/ l.exit \notin {"loaded", "loadError"} THEN "outage"
  ELSE IF l.exit = "loadError" THEN IF l.candidate THEN "outage" ELSE "unloadable"
  ELSE IF ~l.candidate THEN "outage"
  ELSE IF l.valid THEN "valid" ELSE "invalid"
ValidateInSandbox(l) ==
  IF l.reached # "yes" THEN "outage" ELSE _authoritative_report(l)

\* Serial specifications are loaded in the server.
ValidateSerial(l) == IF ~l.candidate THEN "unloadable"
                     ELSE IF l.valid THEN "valid" ELSE "invalid"

\* The code that the endpoint answers, and the one of a creation.
CodeOfReport(verdict) == IF verdict = "outage" THEN 500 ELSE 200
CodeOfLoad(verdict) ==
  CASE verdict = "outage" -> 500 [] verdict = "valid" -> 201 [] OTHER -> 400

-----------------------------------------------------------------------------
(* Bounding                                                                *)

Least(m, n) == IF m < n THEN m ELSE n
Room(used) == IF used < MaxEntries THEN MaxEntries - used ELSE 0

\* Up to two warnings of a deprecated scope are added while there is room.
_add_legacy_scope_warnings(errors, warnings, legacy) ==
  warnings + Least(legacy, Room(errors + warnings))

\* What a report is made from: findings, no more than there is room for; whether
\* it is marked already; the environments, `overlong[k]` if the image of the k-th
\* has too long a name and `tagged[k]` if its tag deserves a warning.
Report ==
  {r \in [errors : Nat, warnings : Nat, marked : BOOLEAN,
          overlong : Seq(BOOLEAN), tagged : Seq(BOOLEAN)] :
     /\ r.errors + r.warnings <= MaxEntries
     /\ Len(r.overlong) <= Len(r.tagged)}

\* The environments are taken in turn until there is no room.
Short(r) == {k \in DOMAIN r.overlong : ~r.overlong[k]}
Kept(r) == {k \in Short(r) :
              Cardinality({j \in Short(r) : j <= k})
                <= Room(r.errors + r.warnings)}
Stopped(r) == Kept(r) # Short(r)
Omits(r) ==
  \E k \in DOMAIN r.overlong :
    r.overlong[k] /\ \A j \in Short(r) \ Kept(r) : k < j

\* Then a warning of what was omitted, then those of the tags.
Added(r) ==
  LET wanted == (IF Omits(r) THEN 1 ELSE 0)
                  + Cardinality({k \in Kept(r) : r.tagged[k]})
  IN [wanted |-> wanted,
      fits |-> Least(wanted, Room(r.errors + r.warnings + Cardinality(Kept(r))))]

Truncated(r) == r.marked \/ Stopped(r) \/ Omits(r) \/ Added(r).fits < Added(r).wanted

NoPlaceForMarker(r) ==
  [errors |-> r.errors, warnings |-> r.warnings, added |-> Added(r).fits,
   environments |-> Cardinality(Kept(r)), marked |-> Truncated(r),
   environmentsTruncated |-> Stopped(r) \/ Omits(r)]
\* The marker needs a place: the new warnings go first, then environments, then
\* the other warnings.
_add_bounded_environments(r) ==
  LET kept == Cardinality(Kept(r))
      new == Added(r).fits
      total == r.errors + r.warnings + kept + new
      over == IF Truncated(r) /\ total >= MaxEntries
              THEN total - MaxEntries + 1 ELSE 0
      fromNew == Least(over, new)
      fromKept == Least(over - fromNew, kept)
      fromOld == Least(over - fromNew - fromKept, r.warnings)
  IN [errors |-> r.errors, warnings |-> r.warnings - fromOld,
      added |-> new - fromNew, environments |-> kept - fromKept,
      marked |-> Truncated(r),
      environmentsTruncated |-> Stopped(r) \/ Omits(r) \/ fromKept > 0]

-----------------------------------------------------------------------------
(* A specification is reported valid, and a workflow created from it, only *)
(* when the server has found a candidate valid; an outage is never told as *)
(* a fault of the specification, nor the reverse.                          *)
(* validation.py 231-290, 340-400, 438-517.                                *)
LoadSound(l) ==
  LET verdict == ValidateInSandbox(l) IN
  /\ verdict = "valid" => l.exit = "loaded" /\ l.candidate /\ l.valid
  /\ CodeOfLoad(verdict) = 400 =>
       /\ l.reached = "yes" /\ ~l.internal
       /\ IF l.exit = "loaded" THEN l.candidate /\ ~l.valid
          ELSE l.exit = "loadError" /\ ~l.candidate
  /\ CodeOfReport(verdict) = 500 => CodeOfLoad(verdict) = 500

(* A report keeps all its errors and is within the bound, which only errors *)
(* exceed, by the marker; it is marked exactly if something is missing from *)
(* it or was before, and tells exactly if environments are.                *)
(* rest/workflows.py 284-376.                                              *)
ReportSound(r) ==
  LET out == _add_bounded_environments(r)
      entries == out.errors + out.warnings + out.added + out.environments
                   + IF out.marked THEN 1 ELSE 0
      missing == Len(r.overlong) - out.environments
  IN
  /\ out.errors = r.errors
  /\ entries <= MaxEntries \/ entries <= r.errors + 1
  /\ out.marked <=> \/ r.marked \/ missing > 0 \/ out.warnings < r.warnings
                    \/ out.added < Cardinality({k \in Short(r) : r.tagged[k]})
  /\ out.environmentsTruncated <=> missing > 0
  /\ out.warnings < r.warnings => out.added = 0 /\ out.environments = 0
=============================================================================
