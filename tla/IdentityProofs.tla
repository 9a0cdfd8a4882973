--------------------------- MODULE IdentityProofs ---------------------------
(* Who is calling: what the workers cache of the issuer, its signing keys   *)
(* and its discovery document, and the accounts.  Each cache fetches once   *)
(* at a time and serves nothing that it should not; links and webhook       *)
(* secrets are what their owners made them; for every number of threads,    *)
(* keys, documents, requests, accounts and identities, every configuration  *)
(* and all durations.  At the end the specification that the runs check is  *)
(* shown to implement each of the three.                                    *)
EXTENDS MCIdentity, FiniteSetTheorems, TLAPS

-----------------------------------------------------------------------------
(* The keys                                                                *)

USE KeyCacheAssumption

\* A validation whose keys would be wrong has not been given any.
Served(v) ==
  \/ v.pc \in {"inspect", "note"}
  \/ v.pc = "done" /\ v.result = "keys"

ExpiredInv(v) == v.expired /\ ~v.renewed => ~Usable /\ ~Served(v)
BarredInv(v) == v.barred => misconfigured /\ ~Fresh /\ ~Served(v)

\* While a forced refresh waits, the fetch it waits for runs or has failed.
ForcedInv(v) ==
  v.forced =>
    /\ v.pc \notin {"lookup", "inspect"}
    /\ ~v.renewed => /\ ~Served(v)
                     /\ v.pc = "waiting" => refreshing \/ failedAt # 0

ThreadInv(v) == ExpiredInv(v) /\ BarredInv(v) /\ ForcedInv(v)

IInv ==
  /\ TypeOK
  /\ SingleFlight
  /\ permanent = misconfigured
  /\ \A t \in Thread : ThreadInv(req[t])

-----------------------------------------------------------------------------
(* Where a validation goes                                                 *)

LEMMA IdleFacts ==
  /\ Idle \in Validation
  /\ Idle.pc = "idle" /\ Idle.result = "none"
  /\ Idle.forced = FALSE /\ Idle.expired = FALSE
  /\ Idle.barred = FALSE /\ Idle.renewed = FALSE
BY DEF Idle, Validation, Place, Result

LEMMA RaiseFacts ==
  ASSUME NEW v, NEW why \in Result
  PROVE  /\ Raise(v, why) \in Validation
         /\ Raise(v, why).pc = "done" /\ Raise(v, why).result = why
         /\ Raise(v, why).forced = FALSE /\ Raise(v, why).expired = FALSE
         /\ Raise(v, why).barred = FALSE /\ Raise(v, why).renewed = FALSE
BY IdleFacts DEF Raise, Validation, Place

LEMMA AnswerFacts ==
  ASSUME NEW v \in Validation
  PROVE  /\ Answer(v) \in Validation
         /\ Answer(v).pc = "done" /\ Answer(v).result = "keys"
         /\ Answer(v).forced = v.forced /\ Answer(v).expired = v.expired
         /\ Answer(v).barred = v.barred /\ Answer(v).renewed = v.renewed
<1>1. Raise(v, "keys") \in Validation /\ Raise(v, "keys").pc = "done"
      /\ Raise(v, "keys").result = "keys"
  BY RaiseFacts DEF Result
<1> QED BY <1>1 DEF Answer, Validation

LEMMA ReturnedFacts ==
  ASSUME NEW v \in Validation, NEW keys \in KeySet
  PROVE  /\ Returned(v, keys) \in Validation
         /\ Returned(v, keys).pc = IF v.forced THEN "note" ELSE "inspect"
         /\ Returned(v, keys).forced = v.forced
         /\ Returned(v, keys).expired = v.expired
         /\ Returned(v, keys).barred = v.barred
         /\ Returned(v, keys).renewed = v.renewed
<1> DEFINE pl == IF v.forced THEN "note" ELSE "inspect"
<1>1. /\ pl \in Place
      /\ keys.kids \in SUBSET Kid
      /\ 0 \in 0..(MaxTime + WaitTimeout)
  BY DEF Place, KeySet
<1>2. Returned(v, keys) = [v EXCEPT !.pc = pl, !.got = keys.kids,
                                   !.response = {}, !.deadline = 0]
  BY DEF Returned
<1> HIDE DEF pl
<1> QED BY <1>1, <1>2 DEF Validation, pl

LEMMA ServeStaleFacts ==
  ASSUME NEW v \in Validation, TypeOK
  PROVE  /\ ServeStale(v) \in Validation
         /\ \/ ServeStale(v) = Raise(v, "unavailable")
            \/ Usable /\ ServeStale(v) = Returned(v, cache)
BY RaiseFacts, ReturnedFacts DEF ServeStale, TypeOK, Result

LEMMA ArrivalFacts ==
  ASSUME NEW kid \in Kid \cup {NoKid}, TypeOK
  PROVE  /\ Arrival(kid) \in Validation
         /\ Arrival(kid).kid = kid
         /\ Arrival(kid).forced = FALSE /\ Arrival(kid).renewed = FALSE
         /\ Arrival(kid).expired = ~Usable
         /\ Arrival(kid).barred = (misconfigured /\ ~Fresh)
<1> DEFINE s == HasKeys /\ ~Fresh
           l == HasKeys /\ ~Fresh /\ kid \in published \ cache.kids
           e == ~(HasKeys /\ now < cache.at + TTL + StaleGrace)
           b == misconfigured /\ ~Fresh
<1>1. s \in BOOLEAN /\ l \in BOOLEAN /\ e \in BOOLEAN /\ b \in BOOLEAN
  OBVIOUS
<1>2. e = ~Usable
  BY DEF Usable, TypeOK, KeySet, Time, TimeOrNever
<1>3. Arrival(kid) = [Idle EXCEPT !.kid = kid, !.wasStale = s, !.legit = l,
                                  !.expired = e, !.barred = b]
  BY DEF Arrival
<1>4. /\ Arrival(kid) \in Validation /\ Arrival(kid).kid = kid
      /\ Arrival(kid).forced = FALSE /\ Arrival(kid).renewed = FALSE
      /\ Arrival(kid).expired = e /\ Arrival(kid).barred = b
  <2> HIDE DEF s, l, e, b
  <2> QED BY <1>1, <1>3, IdleFacts DEF Validation
<1> QED BY <1>2, <1>4

LEMMA Clock ==
  /\ 0 \in TimeOrNever /\ 1 \in Time
  /\ TypeOK => now \in TimeOrNever /\ now # 0
BY DEF TypeOK, Time, TimeOrNever

LEMMA FreshIsUsable == ASSUME TypeOK, Fresh PROVE Usable
BY DEF Fresh, Usable, TypeOK, KeySet, Time, TimeOrNever

-----------------------------------------------------------------------------
(* The table of unknown key ids stays small                                *)

Table == [Kid -> 0..(MaxTime + UnknownTTL)]

LEMMA EntriesAreFinite ==
  ASSUME NEW u
  PROVE  /\ IsFiniteSet(Entries(u)) /\ Cardinality(Entries(u)) \in Nat
         /\ Entries(u) \subseteq Kid
BY FS_Subset, FS_CardinalityType DEF Entries

LEMMA OneMore ==
  ASSUME NEW S, NEW x, IsFiniteSet(S)
  PROVE  Cardinality(S \cup {x}) <= Cardinality(S) + 1
<1>1. Cardinality(S) \in Nat
  BY FS_CardinalityType
<1>2. Cardinality(S \cup {x}) = IF x \in S THEN Cardinality(S)
                                           ELSE Cardinality(S) + 1
  BY FS_AddElement
<1> QED BY <1>1, <1>2

LEMMA PrunedFacts ==
  ASSUME TypeOK
  PROVE  Pruned \in Table /\ Cardinality(Entries(Pruned)) <= MaxUnknown
<1>1. Pruned \in Table
  BY DEF Pruned, Table, TypeOK
<1>2. Entries(Pruned) \subseteq Entries(unknown)
  BY DEF Entries, Pruned, TypeOK, Time
<1> QED BY <1>1, <1>2, EntriesAreFinite, FS_Subset DEF TypeOK

LEMMA RemembersFacts ==
  ASSUME TypeOK, NEW kid \in Kid, NEW u \in Table, Remembers(u, kid),
         Cardinality(Entries(u)) <= MaxUnknown
  PROVE  unknown' \in Table /\ Cardinality(Entries(unknown')) <= MaxUnknown
<1> DEFINE full == [u EXCEPT ![kid] = now + UnknownTTL]
<1>1. now + UnknownTTL \in 0..(MaxTime + UnknownTTL) /\ now + UnknownTTL # 0
      /\ 0 \in 0..(MaxTime + UnknownTTL)
  BY DEF TypeOK, Time
<1>2. full \in Table /\ Entries(full) = Entries(u) \cup {kid}
  BY <1>1 DEF Table, Entries
<1>3. Cardinality(Entries(full)) <= Cardinality(Entries(u)) + 1
  <2>1. /\ IsFiniteSet(Entries(u)) /\ Cardinality(Entries(u)) \in Nat
        /\ Entries(full) = Entries(u) \cup {kid}
    BY <1>2, EntriesAreFinite
  <2>2. Cardinality(Entries(u) \cup {kid}) <= Cardinality(Entries(u)) + 1
    BY <2>1, OneMore
  <2> QED BY <2>1, <2>2
<1>4. CASE Cardinality(Entries(full)) <= MaxUnknown /\ unknown' = full
  BY <1>2, <1>4
<1>5. ASSUME NEW first \in Entries(full),
             unknown' = [full EXCEPT ![first] = 0]
      PROVE  unknown' \in Table /\ Cardinality(Entries(unknown')) <= MaxUnknown
  <2>1. first \in Kid
    BY DEF Entries
  <2>2. unknown' \in Table /\ Entries(unknown') = Entries(full) \ {first}
    <3> HIDE DEF full
    <3> QED BY <1>1, <1>2, <1>5, <2>1 DEF Table, Entries
  <2>3. Cardinality(Entries(unknown')) = Cardinality(Entries(full)) - 1
    <3>1. /\ IsFiniteSet(Entries(full)) /\ first \in Entries(full)
          /\ Entries(unknown') = Entries(full) \ {first}
      BY <1>5, <2>2, EntriesAreFinite
    <3> HIDE DEF full
    <3> QED BY <3>1, FS_RemoveElement
  <2> QED BY <1>3, <2>2, <2>3, EntriesAreFinite
<1> QED BY <1>4, <1>5 DEF Remembers

-----------------------------------------------------------------------------
(* What a validation may become                                            *)

LEMMA RaisedIsSafe ==
  ASSUME NEW v, NEW why \in Result \ {"keys"}
  PROVE  ThreadInv(Raise(v, why))
BY RaiseFacts DEF ThreadInv, ExpiredInv, BarredInv, ForcedInv, Served

LEMMA AnswerIsSafe ==
  ASSUME NEW v \in Validation, ThreadInv(v), v.pc \in {"inspect", "note"}
  PROVE  ThreadInv(Answer(v))
<1>1. /\ v.forced \in BOOLEAN /\ v.expired \in BOOLEAN
      /\ v.barred \in BOOLEAN /\ v.renewed \in BOOLEAN
  BY DEF Validation
<1>2. Served(v) /\ v.pc # "waiting"
  BY DEF Served
<1>3. v.barred = FALSE
  BY <1>1, <1>2 DEF ThreadInv, BarredInv
<1>4. v.expired => v.renewed
  BY <1>1, <1>2 DEF ThreadInv, ExpiredInv
<1>5. v.forced => v.renewed
  BY <1>1, <1>2 DEF ThreadInv, ForcedInv
<1> DEFINE w == Answer(v)
<1>6. /\ w.pc = "done" /\ w.barred = FALSE
      /\ w.expired => w.renewed
      /\ w.forced => w.renewed
  BY <1>3, <1>4, <1>5, AnswerFacts
<1> HIDE DEF w
<1> QED BY <1>6 DEF ThreadInv, ExpiredInv, BarredInv, ForcedInv, w

LEMMA ReturnIsSafe ==
  ASSUME TypeOK, NEW v \in Validation, ThreadInv(v), Usable, ~v.barred,
         v.forced => v.renewed
  PROVE  ThreadInv(Returned(v, cache))
<1>1. cache \in KeySet
  BY DEF TypeOK
<1> QED BY <1>1, ReturnedFacts
     DEF ThreadInv, ExpiredInv, BarredInv, ForcedInv, Validation

\* Nothing that the invariant says of the cache changes.
TableOnly ==
  /\ UNCHANGED <<now, published, cache, refreshing, failedAt, permanent,
                 misconfigured>>
  /\ lastUnknown' \in TimeOrNever
  /\ unknown' \in Table /\ Cardinality(Entries(unknown')) <= MaxUnknown

Quiet == UNCHANGED <<now, published, cacheVars>>

LEMMA QuietFacts == ASSUME TypeOK, Quiet PROVE TableOnly
BY DEF TypeOK, Table, cacheVars, Quiet, TableOnly

LEMMA LocalValidationStep ==
  ASSUME IInv, NEW t \in Thread, NEW w \in Validation, Goes(t, w), TableOnly,
         w.pc \in {"fetching", "storing"}
           <=> req[t].pc \in {"fetching", "storing"},
         ThreadInv(w)
  PROVE  IInv'
<1> USE DEF IInv, TableOnly
<1>1. req' = [req EXCEPT ![t] = w] /\ req \in [Thread -> Validation]
  BY DEF Goes, TypeOK
<1>2. req' \in [Thread -> Validation]
  BY <1>1
<1>3. TypeOK'
  BY <1>2 DEF TypeOK, Table
<1>4. Fetching' = Fetching
  BY <1>1 DEF Fetching
<1>5. SingleFlight'
  BY <1>4 DEF SingleFlight
<1>6. Usable' = Usable /\ Fresh' = Fresh
  BY DEF Usable, Fresh, HasKeys
<1>7. ASSUME NEW u \in Thread PROVE ThreadInv(req[u])'
  <2>1. ThreadInv(req'[u])
    BY <1>1
  <2> QED BY <2>1, <1>6 DEF ThreadInv, ExpiredInv, BarredInv, ForcedInv, Served
<1> QED BY <1>3, <1>5, <1>7

LEMMA RaiseStep ==
  ASSUME IInv, NEW t \in Thread, NEW why \in Result \ {"keys"}, TableOnly,
         Goes(t, Raise(req[t], why)),
         req[t].pc \notin {"fetching", "storing"}
  PROVE  IInv'
<1> DEFINE w == Raise(req[t], why)
<1>1. w \in Validation /\ w.pc = "done" /\ ThreadInv(w) /\ Goes(t, w)
  BY RaiseFacts, RaisedIsSafe
<1> HIDE DEF w
<1> QED BY <1>1, LocalValidationStep

LEMMA AnswerStep ==
  ASSUME IInv, NEW t \in Thread, TableOnly, Goes(t, Answer(req[t])),
         req[t].pc \in {"inspect", "note"}
  PROVE  IInv'
<1> DEFINE w == Answer(req[t])
<1>1. req[t] \in Validation /\ ThreadInv(req[t])
  BY DEF IInv, TypeOK
<1>2. w \in Validation /\ w.pc = "done" /\ ThreadInv(w) /\ Goes(t, w)
  BY <1>1, AnswerFacts, AnswerIsSafe
<1> HIDE DEF w
<1> QED BY <1>2, LocalValidationStep

LEMMA ReturnStep ==
  ASSUME IInv, NEW t \in Thread, TableOnly, Goes(t, Returned(req[t], cache)),
         req[t].pc \notin {"fetching", "storing"}, Usable, ~req[t].barred,
         req[t].forced => req[t].renewed
  PROVE  IInv'
<1> DEFINE w == Returned(req[t], cache)
<1>1. req[t] \in Validation /\ ThreadInv(req[t]) /\ cache \in KeySet /\ TypeOK
  BY DEF IInv, TypeOK
<1>2. /\ w \in Validation /\ w.pc \in {"inspect", "note"} /\ ThreadInv(w)
      /\ Goes(t, w)
  BY <1>1, ReturnedFacts, ReturnIsSafe
<1> HIDE DEF w
<1> QED BY <1>2, LocalValidationStep

-----------------------------------------------------------------------------
(* Each step preserves the invariant                                       *)

LEMMA ArrivalSteps ==
  ASSUME IInv, NEW t \in Thread, NEW kid \in Kid \cup {NoKid},
         Begin(t, kid) \/ ValidateLocally(t, kid)
  PROVE  IInv'
<1> USE DEF IInv
<1> DEFINE v == Arrival(kid)
<1>1. /\ v \in Validation /\ v.forced = FALSE /\ v.renewed = FALSE
      /\ v.expired = ~Usable /\ v.barred = (misconfigured /\ ~Fresh)
  BY ArrivalFacts
<1>2. Fresh => Usable
  BY FreshIsUsable
<1>3. req[t].pc \notin {"fetching", "storing"}
  BY DEF Begin, ValidateLocally
<1>4. CASE Begin(t, kid)
  <2> DEFINE w == [v EXCEPT !.pc = "lookup"]
  <2>1. Goes(t, w) /\ Quiet
    BY <1>4 DEF Begin, Quiet
  <2>2. /\ w \in Validation /\ w.pc = "lookup" /\ w.forced = FALSE
        /\ w.expired = ~Usable /\ w.barred = (misconfigured /\ ~Fresh)
    <3> HIDE DEF v
    <3> QED BY <1>1 DEF Validation, Place
  <2>3. ThreadInv(w)
    BY <2>2 DEF ThreadInv, ExpiredInv, BarredInv, ForcedInv, Served
  <2> HIDE DEF w
  <2> QED BY <1>3, <2>1, <2>2, <2>3, QuietFacts, LocalValidationStep
<1>5. CASE ValidateLocally(t, kid)
  <2>1. PICK w : /\ Goes(t, w)
                 /\ \/ w = Raise(v, "invalid")
                    \/ Fresh /\ w = Answer(v)
    BY <1>5 DEF ValidateLocally
  <2>2. Quiet
    BY <1>5 DEF ValidateLocally, Quiet
  <2>3. CASE w = Raise(v, "invalid")
    <3>1. w \in Validation /\ w.pc = "done" /\ ThreadInv(w)
      BY <2>3, RaiseFacts, RaisedIsSafe DEF Result
    <3> QED BY <1>3, <2>1, <2>2, <3>1, QuietFacts, LocalValidationStep
  <2>4. CASE Fresh /\ w = Answer(v)
    <3>1. /\ w \in Validation /\ w.pc = "done" /\ w.forced = FALSE
          /\ w.expired = FALSE /\ w.barred = FALSE
      BY <1>1, <1>2, <2>4, AnswerFacts
    <3>2. ThreadInv(w)
      BY <3>1 DEF ThreadInv, ExpiredInv, BarredInv, ForcedInv
    <3> QED BY <1>3, <2>1, <2>2, <3>1, <3>2, QuietFacts, LocalValidationStep
  <2> QED BY <2>1, <2>3, <2>4
<1> QED BY <1>4, <1>5

LEMMA LookupStep ==
  ASSUME IInv, NEW t \in Thread, Lookup(t)
  PROVE  IInv'
<1> USE DEF IInv
<1> DEFINE v == req[t]
<1>1. /\ v \in Validation /\ v.pc = "lookup" /\ ThreadInv(v)
      /\ cache \in KeySet /\ v.forced \in BOOLEAN
  BY DEF Lookup, TypeOK, Validation
<1>2. Quiet
  BY DEF Lookup, Quiet
<1>3. CASE Fresh
  <2>1. Goes(t, Returned(v, cache))
    BY <1>3 DEF Lookup
  <2>2. Usable /\ ~v.barred /\ ~v.forced
    BY <1>1, <1>3, FreshIsUsable DEF ThreadInv, BarredInv, ForcedInv
  <2>3. /\ ThreadInv(Returned(v, cache)) /\ Returned(v, cache) \in Validation
        /\ Returned(v, cache).pc \in {"inspect", "note"}
    BY <1>1, <2>2, ReturnIsSafe, ReturnedFacts
  <2> QED BY <1>1, <1>2, <2>1, <2>3, QuietFacts, LocalValidationStep
<1>4. CASE ~Fresh
  <2> DEFINE w == [v EXCEPT !.pc = "refresh"]
  <2>1. Goes(t, w)
    BY <1>4 DEF Lookup
  <2>2. /\ w \in Validation /\ w.pc = "refresh" /\ w.forced = v.forced
        /\ w.expired = v.expired /\ w.barred = v.barred
        /\ w.renewed = v.renewed
    <3> HIDE DEF v
    <3> QED BY <1>1 DEF Validation, Place
  <2>3. ThreadInv(w)
    BY <1>1, <2>2 DEF ThreadInv, ExpiredInv, BarredInv, ForcedInv, Served
  <2> HIDE DEF w
  <2> QED BY <1>1, <1>2, <2>1, <2>2, <2>3, QuietFacts, LocalValidationStep
<1> QED BY <1>3, <1>4

LEMMA JoinStep ==
  ASSUME IInv, NEW t \in Thread, JoinRefresh(t)
  PROVE  IInv'
<1> USE DEF IInv
<1>1. /\ req[t] \in Validation /\ req[t].pc = "refresh" /\ refreshing
      /\ ThreadInv(req[t]) /\ now \in Time
  BY DEF JoinRefresh, TypeOK
<1>2. TableOnly
  BY QuietFacts DEF JoinRefresh, Quiet
<1>3. CASE permanent
  <2>1. Goes(t, Raise(req[t], "error"))
    BY <1>3 DEF JoinRefresh
  <2> QED BY <1>1, <1>2, <2>1, RaiseStep DEF Result
<1>4. CASE ~permanent /\ MayReuse(req[t])
  <2>1. Goes(t, Returned(req[t], cache))
    BY <1>4 DEF JoinRefresh
  <2>2. Usable /\ ~req[t].barred /\ ~req[t].forced
    BY <1>1, <1>4 DEF MayReuse, ThreadInv, BarredInv
  <2> QED BY <1>1, <1>2, <2>1, <2>2, ReturnStep
<1>5. CASE ~permanent /\ ~MayReuse(req[t])
  <2> DEFINE w == [req[t] EXCEPT !.pc = "waiting",
                                 !.deadline = now + WaitTimeout]
  <2>1. Goes(t, w)
    BY <1>5 DEF JoinRefresh
  <2>2. now + WaitTimeout \in 0..(MaxTime + WaitTimeout)
    BY <1>1 DEF Time
  <2>3. /\ w \in Validation /\ w.pc = "waiting" /\ w.forced = req[t].forced
        /\ w.expired = req[t].expired /\ w.barred = req[t].barred
        /\ w.renewed = req[t].renewed
    BY <1>1, <2>2 DEF Validation, Place
  <2>4. ThreadInv(w)
    BY <1>1, <2>3 DEF ThreadInv, ExpiredInv, BarredInv, ForcedInv, Served
  <2> HIDE DEF w
  <2> QED BY <1>1, <1>2, <2>1, <2>3, <2>4, LocalValidationStep
<1> QED BY <1>3, <1>4, <1>5

\* Serving the cached keys, from a wait or a backoff.
LEMMA ServeStep ==
  ASSUME IInv, NEW t \in Thread, TableOnly, Goes(t, ServeStale(req[t])),
         ~permanent, req[t].pc \notin {"fetching", "storing"},
         req[t].forced => req[t].renewed
  PROVE  IInv'
<1> USE DEF IInv
<1>1. req[t] \in Validation /\ ThreadInv(req[t])
  BY DEF TypeOK
<1>2. CASE ~Usable
  <2>1. Goes(t, Raise(req[t], "unavailable"))
    BY <1>2 DEF ServeStale
  <2> QED BY <2>1, RaiseStep DEF Result
<1>3. CASE Usable
  <2>1. Goes(t, Returned(req[t], cache)) /\ ~req[t].barred
    BY <1>1, <1>3 DEF ServeStale, ThreadInv, BarredInv
  <2> QED BY <1>3, <2>1, ReturnStep
<1> QED BY <1>2, <1>3

LEMMA BackoffStep ==
  ASSUME IInv, NEW t \in Thread, RefreshBackoff(t)
  PROVE  IInv'
<1>1. /\ req[t].pc \notin {"fetching", "storing"}
      /\ Goes(t, IF permanent THEN Raise(req[t], "error")
                 ELSE IF req[t].forced \/ ~HasKeys
                      THEN Raise(req[t], "unavailable")
                 ELSE ServeStale(req[t]))
  BY DEF RefreshBackoff
<1>2. TableOnly
  BY QuietFacts DEF RefreshBackoff, Quiet, IInv
<1> QED BY <1>1, <1>2, RaiseStep, ServeStep DEF Result

LEMMA WaitEndsStep ==
  ASSUME IInv, NEW t \in Thread, WaitEnds(t)
  PROVE  IInv'
<1>1. /\ req[t].pc = "waiting" /\ ~refreshing
      /\ Goes(t, IF permanent THEN Raise(req[t], "error")
                 ELSE IF ~HasKeys \/ (req[t].forced /\ failedAt # 0)
                      THEN Raise(req[t], "unavailable")
                 ELSE ServeStale(req[t]))
  BY DEF WaitEnds
<1>2. TableOnly
  BY QuietFacts DEF WaitEnds, Quiet, IInv
<1>3. req[t].forced => req[t].renewed \/ failedAt # 0
  BY <1>1 DEF IInv, ThreadInv, ForcedInv
<1> QED BY <1>1, <1>2, <1>3, RaiseStep, ServeStep DEF Result

LEMMA TimeoutStep ==
  ASSUME IInv, NEW t \in Thread, WaitTimesOut(t)
  PROVE  IInv'
<1>1. /\ req[t].pc = "waiting"
      /\ Goes(t, Raise(req[t], "unavailable"))
  BY DEF WaitTimesOut
<1>2. TableOnly
  BY QuietFacts DEF WaitTimesOut, Quiet, IInv
<1> QED BY <1>1, <1>2, RaiseStep DEF Result

LEMMA IssuerAnswersStep ==
  ASSUME IInv, NEW t \in Thread, IssuerAnswers(t)
  PROVE  IInv'
<1> USE DEF IInv
<1> DEFINE w == [req[t] EXCEPT !.pc = "storing", !.response = published]
<1>1. /\ req[t] \in Validation /\ req[t].pc = "fetching"
      /\ ThreadInv(req[t]) /\ published \in SUBSET Kid /\ Goes(t, w)
  BY DEF IssuerAnswers, TypeOK
<1>2. TableOnly
  BY QuietFacts DEF IssuerAnswers, Quiet
<1>3. /\ w \in Validation /\ w.pc = "storing" /\ w.forced = req[t].forced
      /\ w.expired = req[t].expired /\ w.barred = req[t].barred
      /\ w.renewed = req[t].renewed
  BY <1>1 DEF Validation, Place
<1>4. ThreadInv(w)
  BY <1>1, <1>3 DEF ThreadInv, ExpiredInv, BarredInv, ForcedInv, Served
<1> HIDE DEF w
<1> QED BY <1>1, <1>2, <1>3, <1>4, LocalValidationStep

LEMMA InspectSteps ==
  ASSUME IInv, NEW t \in Thread, Inspects(t)
  PROVE  IInv'
<1> USE DEF IInv
<1>1. /\ req[t] \in Validation /\ req[t].pc \in {"inspect", "note"}
      /\ req[t].kid \in Kid \cup {NoKid} /\ ThreadInv(req[t])
  BY DEF Inspects, AcceptKnown, RefuseRemembered, Throttle, RefuseAfterStale,
         StaleMiss, ForceRefresh, Note, TypeOK, Validation
<1>2. /\ Pruned \in Table /\ Cardinality(Entries(Pruned)) <= MaxUnknown
      /\ unknown \in Table /\ Cardinality(Entries(unknown)) <= MaxUnknown
      /\ now \in TimeOrNever /\ lastUnknown \in TimeOrNever
  BY PrunedFacts DEF TypeOK, Table, Time, TimeOrNever
<1>3. CASE AcceptKnown(t)
  <2>1. TableOnly /\ Goes(t, Answer(req[t]))
    BY <1>2, <1>3 DEF AcceptKnown, TableOnly
  <2> QED BY <1>1, <2>1, AnswerStep
<1>4. CASE RefuseRemembered(t)
  <2>1. TableOnly
    BY <1>2, <1>4 DEF RefuseRemembered, TableOnly
  <2>2. \/ Goes(t, Raise(req[t], "unavailable"))
        \/ Goes(t, Answer(req[t]))
    BY <1>4 DEF RefuseRemembered
  <2> QED BY <1>1, <2>1, <2>2, AnswerStep, RaiseStep DEF Result
<1>5. CASE Throttle(t)
  <2>1. TableOnly
    BY <1>2, <1>5 DEF Throttle, TableOnly
  <2>2. Goes(t, Raise(req[t], "unavailable"))
    BY <1>5 DEF Throttle
  <2> QED BY <1>1, <2>1, <2>2, RaiseStep DEF Result
<1>6. CASE RefuseAfterStale(t)
  <2>1. Remembers(Pruned, req[t].kid) /\ req[t].kid \in Kid
    BY <1>1, <1>6 DEF RefuseAfterStale, StaleMiss, IsKnown
  <2>2. TableOnly
    BY <1>2, <1>6, <2>1, RemembersFacts DEF RefuseAfterStale, TableOnly
  <2>3. \/ Goes(t, Raise(req[t], "unavailable"))
        \/ Goes(t, Answer(req[t]))
    BY <1>6 DEF RefuseAfterStale
  <2> QED BY <1>1, <2>2, <2>3, AnswerStep, RaiseStep DEF Result
<1>7. CASE ForceRefresh(t)
  <2> DEFINE w == [req[t] EXCEPT !.pc = "refresh", !.forced = TRUE,
                                 !.got = {}]
  <2>1. TableOnly /\ Goes(t, w)
    BY <1>2, <1>7 DEF ForceRefresh, TableOnly
  <2>2. /\ w \in Validation /\ w.pc = "refresh"
        /\ w.expired = req[t].expired /\ w.barred = req[t].barred
        /\ w.renewed = req[t].renewed
    BY <1>1 DEF Validation, Place
  <2>3. ThreadInv(w)
    BY <1>1, <2>2 DEF ThreadInv, ExpiredInv, BarredInv, ForcedInv, Served
  <2> HIDE DEF w
  <2> QED BY <1>1, <2>1, <2>2, <2>3, LocalValidationStep
<1>8. CASE Note(t)
  <2>1. \/ unknown' = unknown
        \/ Remembers(unknown, req[t].kid) /\ req[t].kid \in Kid
    BY <1>1, <1>8 DEF Note, IsKnown
  <2>2. TableOnly /\ Goes(t, Answer(req[t]))
    BY <1>2, <1>8, <2>1, RemembersFacts DEF Note, TableOnly
  <2> QED BY <1>1, <2>2, AnswerStep
<1> QED BY <1>3, <1>4, <1>5, <1>6, <1>7, <1>8 DEF Inspects

LEMMA StartStep ==
  ASSUME IInv, NEW t \in Thread, StartRefresh(t)
  PROVE  IInv'
<1> USE DEF IInv
<1> DEFINE w == [req[t] EXCEPT !.pc = "fetching"]
<1>1. /\ req[t] \in Validation /\ req[t].pc = "refresh" /\ ThreadInv(req[t])
      /\ ~refreshing /\ req' = [req EXCEPT ![t] = w]
      /\ req \in [Thread -> Validation]
  BY DEF StartRefresh, TypeOK, Goes
<1>2. /\ UNCHANGED <<now, published, cache, failedAt, permanent, unknown,
                     lastUnknown, misconfigured>>
      /\ refreshing' = TRUE
  BY DEF StartRefresh
<1>3. /\ w \in Validation /\ w.pc = "fetching" /\ w.forced = req[t].forced
      /\ w.expired = req[t].expired /\ w.barred = req[t].barred
      /\ w.renewed = req[t].renewed
  BY <1>1 DEF Validation, Place
<1> HIDE DEF w
<1>4. req' \in [Thread -> Validation]
  BY <1>1, <1>3
<1>5. TypeOK'
  BY <1>2, <1>4 DEF TypeOK, Entries
<1>6. Fetching = {} /\ Fetching' = {t}
  BY <1>1, <1>3 DEF Fetching, SingleFlight
<1>7. SingleFlight'
  BY <1>2, <1>6 DEF SingleFlight
<1>8. Usable' = Usable /\ Fresh' = Fresh
  BY <1>2 DEF Usable, Fresh, HasKeys
<1>9. ThreadInv(req[t])'
  <2>1. req'[t] = w
    BY <1>1
  <2> QED BY <1>1, <1>2, <1>3, <1>8, <2>1
      DEF ThreadInv, ExpiredInv, BarredInv, ForcedInv, Served
<1>10. ASSUME NEW u \in Thread, u # t PROVE ThreadInv(req[u])'
  <2>1. req'[u] = req[u] /\ ThreadInv(req[u])
    BY <1>1, <1>10
  <2> QED BY <1>2, <1>8, <2>1
      DEF ThreadInv, ExpiredInv, BarredInv, ForcedInv, Served
<1> QED BY <1>2, <1>5, <1>7, <1>9, <1>10

\* The thread that fetches is the only one: when it leaves, nobody does.
LEMMA FlightEnds ==
  ASSUME SingleFlight, NEW t \in Thread, req[t].pc \in {"fetching", "storing"},
         req'[t].pc \notin {"fetching", "storing"}, refreshing' = FALSE,
         \A u \in Thread \ {t} : req'[u].pc = req[u].pc
  PROVE  SingleFlight'
<1>1. Fetching = {t}
  BY DEF SingleFlight, Fetching
<1>2. Fetching' = {}
  BY <1>1 DEF Fetching
<1> QED BY <1>2 DEF SingleFlight

LEMMA MisconfiguredStep ==
  ASSUME IInv, NEW t \in Thread, FetchMisconfigured(t)
  PROVE  IInv'
<1> USE DEF IInv
<1> DEFINE w == Raise(req[t], "error")
<1>1. /\ req[t].pc = "fetching" /\ req' = [req EXCEPT ![t] = w]
      /\ req \in [Thread -> Validation] /\ now \in Time
      /\ failedAt' = now /\ permanent' = TRUE /\ misconfigured' = TRUE
      /\ refreshing' = FALSE
      /\ UNCHANGED <<now, published, cache, unknown, lastUnknown>>
  BY DEF FetchMisconfigured, TypeOK, Goes
<1>2. /\ w \in Validation /\ w.pc = "done" /\ w.forced = FALSE
      /\ w.expired = FALSE /\ w.barred = FALSE
  BY RaiseFacts DEF Result
<1> HIDE DEF w
<1>3. req' \in [Thread -> Validation]
  BY <1>1, <1>2
<1>4. TypeOK'
  BY <1>1, <1>3, Clock DEF TypeOK, Entries
<1>5. SingleFlight'
  BY <1>1, <1>2, FlightEnds
<1>6. Usable' = Usable /\ Fresh' = Fresh /\ failedAt' # 0
  BY <1>1 DEF Usable, Fresh, HasKeys, Time
<1>7. ASSUME NEW u \in Thread PROVE ThreadInv(req[u])'
  <2>1. CASE u = t
    BY <1>1, <1>2, <2>1 DEF ThreadInv, ExpiredInv, BarredInv, ForcedInv
  <2>2. CASE u # t
    <3>1. req'[u] = req[u] /\ ThreadInv(req[u])
      BY <1>1, <2>2
    <3> QED BY <1>1, <1>6, <3>1
        DEF ThreadInv, ExpiredInv, BarredInv, ForcedInv, Served
  <2> QED BY <2>1, <2>2
<1> QED BY <1>1, <1>4, <1>5, <1>7

LEMMA UnbarFacts ==
  ASSUME NEW v \in Validation
  PROVE  LET w == [v EXCEPT !.barred = FALSE]
         IN  /\ w \in Validation /\ w.pc = v.pc /\ w.forced = v.forced
             /\ w.expired = v.expired /\ w.renewed = v.renewed
             /\ w.barred = FALSE /\ w.result = v.result
BY DEF Validation

\* An attempt that fails, but not permanently, and the thread that made it
\* becomes w.
LEMMA FailureStep ==
  ASSUME IInv, NEW t \in Thread, NEW w \in Validation,
         req[t].pc = "fetching", w.pc \notin {"fetching", "storing"},
         w.expired => w.renewed, w.forced = FALSE,
         req' = Unbarred([req EXCEPT ![t] = w]),
         failedAt' = now, permanent' = FALSE, misconfigured' = FALSE,
         refreshing' = FALSE,
         UNCHANGED <<now, published, cache, unknown, lastUnknown>>
  PROVE  IInv'
<1> USE DEF IInv
<1> DEFINE un(v) == [v EXCEPT !.barred = FALSE]
           r == [req EXCEPT ![t] = w]
<1>1. /\ req \in [Thread -> Validation] /\ now \in Time
      /\ r \in [Thread -> Validation] /\ r[t] = w
      /\ \A u \in Thread \ {t} : r[u] = req[u]
  BY DEF TypeOK
<1>2. req' = [u \in Thread |-> un(r[u])]
  BY DEF Unbarred
<1>3. ASSUME NEW u \in Thread
      PROVE  /\ req'[u] = un(r[u]) /\ un(r[u]) \in Validation
             /\ un(r[u]).pc = r[u].pc /\ un(r[u]).forced = r[u].forced
             /\ un(r[u]).expired = r[u].expired
             /\ un(r[u]).renewed = r[u].renewed /\ un(r[u]).barred = FALSE
             /\ un(r[u]).result = r[u].result
  <2> HIDE DEF r
  <2> QED BY <1>1, <1>2, UnbarFacts
<1> HIDE DEF un, r
<1>4. req' \in [Thread -> Validation]
  BY <1>2, <1>3
<1>5. TypeOK'
  BY <1>1, <1>4, Clock DEF TypeOK, Entries
<1>6. SingleFlight'
  <2>1. /\ req'[t].pc \notin {"fetching", "storing"}
        /\ \A u \in Thread \ {t} : req'[u].pc = req[u].pc
    BY <1>1, <1>3
  <2> QED BY <2>1, FlightEnds
<1>7. Usable' = Usable /\ failedAt' # 0
  BY <1>1 DEF Usable, HasKeys, Time
<1>8. ASSUME NEW u \in Thread PROVE ThreadInv(req[u])'
  <2>1. /\ req'[u].pc = r[u].pc /\ req'[u].forced = r[u].forced
        /\ req'[u].expired = r[u].expired /\ req'[u].renewed = r[u].renewed
        /\ req'[u].barred = FALSE /\ req'[u].result = r[u].result
    BY <1>3
  <2>2. CASE u = t
    <3>1. (req'[u].expired => req'[u].renewed) /\ req'[u].forced = FALSE
      BY <1>1, <2>1, <2>2
    <3> QED BY <2>1, <3>1 DEF ThreadInv, ExpiredInv, BarredInv, ForcedInv
  <2>3. CASE u # t
    <3>1. r[u] = req[u] /\ ThreadInv(req[u])
      BY <1>1, <2>3
    <3> QED BY <1>7, <2>1, <3>1
      DEF ThreadInv, ExpiredInv, BarredInv, ForcedInv, Served
  <2> QED BY <2>2, <2>3
<1> QED BY <1>5, <1>6, <1>8

LEMMA FetchFailsSteps ==
  ASSUME IInv, NEW t \in Thread, FetchFails(t) \/ FetchRaisesOther(t)
  PROVE  IInv'
<1>1. /\ req[t].pc = "fetching"
      /\ failedAt' = now /\ permanent' = FALSE /\ misconfigured' = FALSE
      /\ refreshing' = FALSE
      /\ UNCHANGED <<now, published, cache, unknown, lastUnknown>>
  BY DEF FetchFails, FetchRaisesOther
<1>2. /\ req[t] \in Validation /\ ThreadInv(req[t]) /\ cache \in KeySet
      /\ req[t].forced \in BOOLEAN
  BY DEF IInv, TypeOK, Validation
<1>3. ASSUME NEW why \in Result,
             req' = Unbarred([req EXCEPT ![t] = Raise(req[t], why)])
      PROVE  IInv'
  <2> DEFINE w == Raise(req[t], why)
  <2>1. /\ w \in Validation /\ w.pc = "done" /\ w.expired = FALSE
        /\ w.forced = FALSE /\ req' = Unbarred([req EXCEPT ![t] = w])
    BY <1>3, RaiseFacts
  <2> HIDE DEF w
  <2> QED BY <1>1, <2>1, FailureStep
<1>4. CASE FetchRaisesOther(t)
  BY <1>3, <1>4 DEF FetchRaisesOther, Result
<1>5. CASE FetchFails(t)
  <2>1. \/ \E why \in Result :
             req' = Unbarred([req EXCEPT ![t] = Raise(req[t], why)])
        \/ /\ ~req[t].forced /\ Usable
           /\ req' = Unbarred([req EXCEPT ![t] = Returned(req[t], cache)])
    BY <1>5 DEF FetchFails, ServeStale, Result
  <2>2. CASE /\ ~req[t].forced /\ Usable
             /\ req' = Unbarred([req EXCEPT ![t] = Returned(req[t], cache)])
    <3> DEFINE w == Returned(req[t], cache)
    <3>1. req[t].expired => req[t].renewed
      BY <1>2, <2>2 DEF ThreadInv, ExpiredInv
    <3>2. /\ w \in Validation /\ w.pc \in {"inspect", "note"}
          /\ w.expired => w.renewed
          /\ w.forced = FALSE /\ req' = Unbarred([req EXCEPT ![t] = w])
      BY <1>2, <2>2, <3>1, ReturnedFacts
    <3> HIDE DEF w
    <3> QED BY <1>1, <3>2, FailureStep
  <2> QED BY <1>3, <2>1, <2>2
<1> QED BY <1>4, <1>5

LEMMA StoreStep ==
  ASSUME IInv, NEW t \in Thread, StoreKeys(t)
  PROVE  IInv'
<1> USE DEF IInv
<1> DEFINE re(v) == [v EXCEPT !.barred = FALSE, !.renewed = TRUE]
           w == Returned(req[t], cache')
           r == [req EXCEPT ![t] = w]
<1>1. /\ req \in [Thread -> Validation] /\ now \in Time
      /\ req[t] \in Validation /\ req[t].pc = "storing"
      /\ req[t].response \in SUBSET Kid /\ req[t].forced \in BOOLEAN
      /\ ThreadInv(req[t])
  BY DEF StoreKeys, TypeOK, Validation
<1>2. /\ cache' = [kids |-> req[t].response, at |-> now]
      /\ failedAt' = 0 /\ permanent' = FALSE /\ misconfigured' = FALSE
      /\ refreshing' = FALSE
      /\ UNCHANGED <<now, published, unknown, lastUnknown>>
      /\ req' = [u \in Thread |-> re(r[u])]
  BY DEF StoreKeys
<1>3. cache' \in KeySet
  BY <1>1, <1>2, Clock DEF KeySet
<1>4. /\ w \in Validation /\ w.forced = req[t].forced
      /\ w.pc = IF w.forced THEN "note" ELSE "inspect"
  BY <1>1, <1>3, ReturnedFacts
<1> HIDE DEF w
<1>5. r \in [Thread -> Validation] /\ r[t] = w
      /\ \A u \in Thread \ {t} : r[u] = req[u]
  BY <1>1, <1>4
<1> HIDE DEF r
<1>6. ASSUME NEW u \in Thread
      PROVE  /\ req'[u] \in Validation /\ req'[u].pc = r[u].pc
             /\ req'[u].forced = r[u].forced /\ req'[u].renewed = TRUE
             /\ req'[u].barred = FALSE
  <2>1. r[u] \in Validation /\ req'[u] = re(r[u])
    BY <1>2, <1>5
  <2> QED BY <2>1 DEF Validation
<1>7. req' \in [Thread -> Validation]
  <2> HIDE DEF re
  <2> QED BY <1>2, <1>6
<1> HIDE DEF re
<1>8. TypeOK'
  BY <1>1, <1>2, <1>3, <1>7, Clock DEF TypeOK, Entries
<1>9. SingleFlight'
  <2>1. /\ req'[t].pc \notin {"fetching", "storing"}
        /\ \A u \in Thread \ {t} : req'[u].pc = req[u].pc
    BY <1>4, <1>5, <1>6
  <2> QED BY <1>1, <1>2, <2>1, FlightEnds
<1>10. ASSUME NEW u \in Thread PROVE ThreadInv(req[u])'
  <2>1. req'[u].forced => req'[u].pc \notin {"lookup", "inspect"}
    BY <1>4, <1>5, <1>6 DEF ThreadInv, ForcedInv
  <2>2. req'[u].renewed = TRUE /\ req'[u].barred = FALSE
    BY <1>6
  <2> QED BY <2>1, <2>2 DEF ThreadInv, ExpiredInv, BarredInv, ForcedInv
<1> QED BY <1>2, <1>8, <1>9, <1>10

\* Time passes, the issuer publishes a key, or nothing happens: keys only age.
LEMMA AgeStep ==
  ASSUME IInv, Publish \/ Tick \/ UNCHANGED vars
  PROVE  IInv'
<1> USE DEF IInv
<1>1. /\ UNCHANGED <<cache, refreshing, failedAt, permanent, unknown,
                     lastUnknown, misconfigured, req>>
      /\ now' \in Time /\ now' >= now /\ published' \in SUBSET Kid
  BY DEF Publish, Tick, vars, cacheVars, TypeOK, Time
<1>2. TypeOK'
  BY <1>1 DEF TypeOK, Entries
<1>3. SingleFlight'
  BY <1>1 DEF SingleFlight, Fetching
<1>4. (Usable' => Usable) /\ (Fresh' => Fresh)
  BY <1>1 DEF TypeOK, Usable, Fresh, HasKeys, KeySet, Time, TimeOrNever
<1>5. ASSUME NEW u \in Thread PROVE ThreadInv(req[u])'
  BY <1>1, <1>4 DEF ThreadInv, ExpiredInv, BarredInv, ForcedInv, Served
<1> QED BY <1>1, <1>2, <1>3, <1>5

LEMMA InitStep == Init => IInv
<1> SUFFICES ASSUME Init PROVE IInv
  OBVIOUS
<1>1. TypeOK
  <2>1. Entries(unknown) = {}
    BY DEF Init, Entries
  <2>2. Cardinality(Entries(unknown)) = 0
    BY <2>1, FS_EmptySet
  <2>3. cache \in KeySet
    BY Clock DEF Init, KeySet, NoKeys
  <2>4. unknown \in [Kid -> 0..(MaxTime + UnknownTTL)]
    BY DEF Init
  <2>5. req \in [Thread -> Validation]
    BY IdleFacts DEF Init
  <2>6. 0 <= MaxUnknown
    OBVIOUS
  <2> QED BY <2>2, <2>3, <2>4, <2>5, <2>6, Clock DEF Init, TypeOK
<1>2. SingleFlight
  BY IdleFacts DEF Init, SingleFlight, Fetching
<1>3. \A t \in Thread : ThreadInv(req[t])
  BY IdleFacts DEF Init, ThreadInv, ExpiredInv, BarredInv, ForcedInv
<1> QED BY <1>1, <1>2, <1>3 DEF IInv, Init

LEMMA NextStep == IInv /\ [Next]_vars => IInv'
BY ArrivalSteps, LookupStep, JoinStep, BackoffStep, StartStep,
   IssuerAnswersStep, MisconfiguredStep, FetchFailsSteps, StoreStep,
   WaitEndsStep, TimeoutStep, InspectSteps, AgeStep DEF Next, Refreshes

LEMMA KeyCacheInvariance == Spec => []IInv
BY InitStep, NextStep, PTL DEF Spec

-----------------------------------------------------------------------------
(* The theorems                                                            *)

\* The cache stays well formed, and the table of unknown key ids within its
\* limit, whatever the number of keys the issuer has and tokens name.
THEOREM KeyCacheTypeCorrect == Spec => []TypeOK
<1>1. IInv => TypeOK
  BY DEF IInv
<1> QED BY <1>1, KeyCacheInvariance, PTL

\* At most one thread fetches, and the mark of _refresh stands while it does.
THEOREM OneFetchAtATime == Spec => []SingleFlight
<1>1. IInv => SingleFlight
  BY DEF IInv
<1> QED BY <1>1, KeyCacheInvariance, PTL

\* What a validation was answered it was served: the invariant of its thread
\* says of an answer what the three properties ask.
LEMMA AnswersAreSafe ==
  ASSUME IInv, NEW t \in Thread, Accepted(t)
  PROVE  /\ ~req[t].barred
         /\ req[t].expired => req[t].renewed
         /\ req[t].forced => req[t].renewed
<1>1. ThreadInv(req[t]) /\ Served(req[t]) /\ req[t].pc = "done"
  BY DEF IInv, Accepted, Served
<1>2. ~req[t].barred
  BY <1>1 DEF ThreadInv, BarredInv
<1>3. req[t].expired => req[t].renewed
  BY <1>1 DEF ThreadInv, ExpiredInv
<1>4. req[t].forced => req[t].renewed
  BY <1>1 DEF ThreadInv, ForcedInv
<1> QED BY <1>2, <1>3, <1>4

\* No validation is answered with keys beyond jwks_ttl and jwks_stale_grace.
THEOREM StaleKeysExpire == Spec => []StaleWithinGrace
<1>1. IInv => StaleWithinGrace
  BY AnswersAreSafe DEF StaleWithinGrace
<1> QED BY <1>1, KeyCacheInvariance, PTL

\* Stale keys never mask a permanent misconfiguration.
THEOREM MisconfigurationIsNotMasked == Spec => []PermanentWins
<1>1. IInv => PermanentWins
  BY AnswersAreSafe DEF PermanentWins
<1> QED BY <1>1, KeyCacheInvariance, PTL

\* A token with a key that may be new is not refused on account of a refresh
\* that did not happen.
THEOREM ForcedRefreshHappens == Spec => []ForcedRefreshIsReal
<1>1. IInv => ForcedRefreshIsReal
  BY AnswersAreSafe DEF ForcedRefreshIsReal
<1> QED BY <1>1, KeyCacheInvariance, PTL

-----------------------------------------------------------------------------
(* The discovery document                                                  *)

HIDE KeyCacheAssumption
USE DiscoveryAssumption

\* A call that must not be answered from the cache has not been given anything
\* and still would not be: nobody has stored a document since it began.
CallInv(c) ==
  /\ c.result = "endpoint" => c.pc = "done" /\ Trusted(c.name, c.url)
  /\ c.pc \in {"fetching", "waiting"} => Explicit[c.name] = NoURL
  /\ c.expired /\ ~c.renewed => ~DocUsable /\ c.result # "endpoint"
  /\ c.barred => verdict /\ ~DocFresh /\ c.result # "endpoint"

\* What has led to a fetch, or came of one, still holds of the cached document.
CacheInv ==
  /\ rejected = verdict
  /\ discovering \/ rejected => ~DocFresh

DiscoveryInv ==
  /\ DiscoveryTypeOK
  /\ OneDiscovery
  /\ CacheInv
  /\ \A t \in Caller : CallInv(call[t])

-----------------------------------------------------------------------------
(* The trust rules                                                         *)

\* A configured endpoint that passes its check keeps plain HTTP beneath the
\* backchannel base.
LEMMA ConfiguredIsTrusted ==
  ASSUME NEW name, Explicit[name] # NoURL, ConfiguredOK(Explicit[name])
  PROVE  Trusted(name, Explicit[name])
BY DEF ConfiguredOK, Trusted

\* What a valid document advertises may be handed out.
LEMMA ValidIsTrusted ==
  ASSUME NEW doc, Valid(doc), NEW name \in Endpoint, Explicit[name] = NoURL,
         doc[name] # NoURL
  PROVE  Trusted(name, doc[name])
<1>1. DiscoveredOK(name, doc[name])
  BY DEF Valid
<1> QED BY <1>1 DEF DiscoveredOK, ConfiguredOK, IsBeneathBase, Trusted

-----------------------------------------------------------------------------
(* Where a call goes                                                       *)

LEMMA NoCallFacts ==
  /\ NoCall \in Call /\ NoCall.pc = "idle" /\ NoCall.result = "none"
  /\ NoCall.expired = FALSE /\ NoCall.barred = FALSE /\ NoCall.renewed = FALSE
<1>1. 0 \in 0..(MaxClock + DocWait)
  OBVIOUS
<1>2. /\ "idle" \in {"idle", "fetching", "waiting", "done"}
      /\ "jwks" \in Endpoint /\ "none" \in Outcome
      /\ NoURL \in URL \cup {NoURL} /\ FALSE \in BOOLEAN
  BY DEF Endpoint, Outcome
<1>3. NoCall \in Call
  <2> HIDE DiscoveryAssumption
  <2> QED BY <1>1, <1>2 DEF NoCall, Call
<1> QED BY <1>3 DEF NoCall

LEMMA FailFacts ==
  ASSUME NEW c \in Call, NEW why \in Outcome
  PROVE  /\ Fail(c, why) \in Call
         /\ Fail(c, why).pc = "done" /\ Fail(c, why).result = why
         /\ Fail(c, why).name = c.name /\ Fail(c, why).url = c.url
         /\ Fail(c, why).expired = c.expired
         /\ Fail(c, why).barred = c.barred
         /\ Fail(c, why).renewed = c.renewed
<1> DEFINE one == [c EXCEPT !.pc = "done"]
           two == [one EXCEPT !.result = why]
           three == [two EXCEPT !.deadline = 0]
<1>1. 0 \in 0..(MaxClock + DocWait)
  OBVIOUS
<1>2. Fail(c, why) = three
  BY DEF Fail
<1>3. /\ one \in Call /\ one.pc = "done" /\ one.name = c.name
      /\ one.url = c.url /\ one.expired = c.expired
      /\ one.barred = c.barred /\ one.renewed = c.renewed
  BY DEF Call
<1> HIDE DEF one
<1>4. /\ two \in Call /\ two.pc = "done" /\ two.result = why
      /\ two.name = c.name /\ two.url = c.url /\ two.expired = c.expired
      /\ two.barred = c.barred /\ two.renewed = c.renewed
  BY <1>3 DEF Call
<1> HIDE DEF two
<1>5. /\ three \in Call /\ three.pc = "done" /\ three.result = why
      /\ three.name = c.name /\ three.url = c.url
      /\ three.expired = c.expired /\ three.barred = c.barred
      /\ three.renewed = c.renewed
  BY <1>1, <1>4 DEF Call
<1> HIDE DEF three
<1> QED BY <1>2, <1>5

LEMMA FailIsSafe ==
  ASSUME NEW c \in Call, CallInv(c), NEW why \in Outcome \ {"endpoint"}
  PROVE  CallInv(Fail(c, why))
<1> DEFINE w == Fail(c, why)
<1>1. /\ w.pc = "done" /\ w.result = why /\ w.expired = c.expired
      /\ w.barred = c.barred /\ w.renewed = c.renewed
  BY FailFacts
<1> HIDE DEF w
<1> QED BY <1>1 DEF CallInv, w

LEMMA WithURL ==
  ASSUME NEW c \in Call, NEW u \in URL \cup {NoURL}
  PROVE  LET w == [Fail(c, "endpoint") EXCEPT !.url = u]
         IN  /\ w \in Call /\ w.pc = "done" /\ w.result = "endpoint"
             /\ w.name = c.name /\ w.url = u
             /\ w.expired = c.expired /\ w.barred = c.barred
             /\ w.renewed = c.renewed
<1> DEFINE f == Fail(c, "endpoint")
<1>1. /\ f \in Call /\ f.pc = "done" /\ f.result = "endpoint"
      /\ f.name = c.name /\ f.expired = c.expired /\ f.barred = c.barred
      /\ f.renewed = c.renewed
  BY FailFacts DEF Outcome
<1> HIDE DEF f
<1>2. LET w == [f EXCEPT !.url = u]
      IN  /\ w \in Call /\ w.pc = f.pc /\ w.result = f.result
          /\ w.name = f.name /\ w.url = u
          /\ w.expired = f.expired /\ w.barred = f.barred
          /\ w.renewed = f.renewed
  BY <1>1 DEF Call
<1> QED BY <1>1, <1>2 DEF f

\* A call that is given what a valid document says.
LEMMA TakenFacts ==
  ASSUME NEW c \in Call, NEW doc \in Document, Valid(doc),
         Explicit[c.name] = NoURL
  PROVE  /\ Taken(c, doc) \in Call
         /\ Taken(c, doc).pc = "done"
         /\ Taken(c, doc).expired = c.expired
         /\ Taken(c, doc).barred = c.barred
         /\ Taken(c, doc).renewed = c.renewed
         /\ Taken(c, doc).result = "endpoint"
              => Trusted(Taken(c, doc).name, Taken(c, doc).url)
<1>1. c.name \in Endpoint /\ doc[c.name] \in URL \cup {NoURL}
  BY DEF Call
<1>2. CASE doc[c.name] = NoURL
  <2>1. Taken(c, doc) = Fail(c, "misconfigured")
    BY <1>2 DEF Taken
  <2> QED BY <2>1, FailFacts DEF Outcome
<1>3. CASE doc[c.name] # NoURL
  <2> DEFINE w == [Fail(c, "endpoint") EXCEPT !.url = doc[c.name]]
  <2>1. Taken(c, doc) = w
    BY <1>3 DEF Taken
  <2>2. /\ w \in Call /\ w.pc = "done" /\ w.name = c.name
        /\ w.url = doc[c.name] /\ w.expired = c.expired
        /\ w.barred = c.barred /\ w.renewed = c.renewed
    BY <1>1, WithURL
  <2>3. Trusted(c.name, doc[c.name])
    BY <1>1, <1>3, ValidIsTrusted
  <2> HIDE DEF w
  <2> QED BY <2>1, <2>2, <2>3
<1> QED BY <1>2, <1>3

LEMMA TakenIsSafe ==
  ASSUME NEW c \in Call, NEW doc \in Document, Valid(doc),
         Explicit[c.name] = NoURL, c.expired => c.renewed, ~c.barred
  PROVE  Taken(c, doc) \in Call /\ CallInv(Taken(c, doc))
<1> DEFINE w == Taken(c, doc)
<1>1. /\ w \in Call /\ w.pc = "done" /\ w.expired = c.expired
      /\ w.barred = c.barred /\ w.renewed = c.renewed
      /\ w.result = "endpoint" => Trusted(w.name, w.url)
  BY TakenFacts
<1> HIDE DEF w
<1> QED BY <1>1 DEF CallInv, w

LEMMA ArrivingFacts ==
  ASSUME DiscoveryTypeOK, NEW name \in Endpoint
  PROVE  /\ Arriving(name) \in Call /\ Arriving(name).name = name
         /\ Arriving(name).pc = "idle" /\ Arriving(name).result = "none"
         /\ Arriving(name).renewed = FALSE
         /\ Arriving(name).expired = ~DocUsable
         /\ Arriving(name).barred = (verdict /\ ~DocFresh)
<1> DEFINE e == ~(HasDocument /\ clock < document.at + DocTTL + DocGrace)
           b == verdict /\ ~DocFresh
           one == [NoCall EXCEPT !.name = name]
           two == [one EXCEPT !.expired = e]
           three == [two EXCEPT !.barred = b]
<1>1. e = ~DocUsable
  BY DEF DocUsable, HasDocument, DiscoveryTypeOK
<1>2. Arriving(name) = three
  BY DEF Arriving
<1>3. e \in BOOLEAN /\ b \in BOOLEAN
  OBVIOUS
<1> HIDE DEF e, b
<1>4. /\ one \in Call /\ one.name = name /\ one.pc = "idle"
      /\ one.result = "none" /\ one.renewed = FALSE
  BY NoCallFacts DEF Call
<1> HIDE DEF one
<1>5. /\ two \in Call /\ two.name = name /\ two.pc = "idle"
      /\ two.result = "none" /\ two.renewed = FALSE /\ two.expired = e
  BY <1>3, <1>4 DEF Call
<1> HIDE DEF two
<1>6. /\ three \in Call /\ three.name = name /\ three.pc = "idle"
      /\ three.result = "none" /\ three.renewed = FALSE
      /\ three.expired = e /\ three.barred = b
  BY <1>3, <1>5 DEF Call
<1> QED BY <1>1, <1>2, <1>6 DEF b

LEMMA ArrivingIsSafe ==
  ASSUME DiscoveryTypeOK, NEW name \in Endpoint
  PROVE  CallInv(Arriving(name))
BY ArrivingFacts DEF CallInv

\* A call with another place in it is as safe as it was.
LEMMA MovedIsSafe ==
  ASSUME NEW c \in Call, NEW w \in Call, CallInv(c), Explicit[c.name] = NoURL,
         w.name = c.name, w.result = "none", w.expired = c.expired,
         w.barred = c.barred, w.renewed = c.renewed
  PROVE  CallInv(w)
BY DEF CallInv

\* A fresh document may be used, and so may one that a fetch left behind.
LEMMA FreshDocIsUsable == ASSUME DiscoveryTypeOK, DocFresh PROVE DocUsable
BY DEF DocFresh, DocUsable, DiscoveryTypeOK

LEMMA CachedIsValid ==
  ASSUME DiscoveryTypeOK, HasDocument
  PROVE  document.doc \in Document /\ Valid(document.doc)
BY DEF DiscoveryTypeOK, HasDocument

LEMMA ServeIsSafe ==
  ASSUME DiscoveryInv, NEW c \in Call, CallInv(c), Explicit[c.name] = NoURL
  PROVE  /\ ServeStaleOrRaise(c) \in Call
         /\ ServeStaleOrRaise(c).pc = "done"
         /\ CallInv(ServeStaleOrRaise(c))
<1>1. CASE rejected
  BY <1>1, FailFacts, FailIsSafe DEF ServeStaleOrRaise, Outcome
<1>2. CASE ~rejected /\ DocUsable
  <2>1. document.doc \in Document /\ Valid(document.doc)
    BY <1>2, CachedIsValid DEF DiscoveryInv, DocUsable
  <2>2. ~c.barred /\ (c.expired => c.renewed)
    BY <1>2 DEF DiscoveryInv, CacheInv, CallInv
  <2> QED BY <1>2, <2>1, <2>2, TakenFacts, TakenIsSafe DEF ServeStaleOrRaise
<1>3. CASE ~rejected /\ ~DocUsable
  BY <1>3, FailFacts, FailIsSafe DEF ServeStaleOrRaise, Outcome
<1> QED BY <1>1, <1>2, <1>3

-----------------------------------------------------------------------------
(* Steps that move one call and leave the cache as it is                   *)

LEMMA CallStep ==
  ASSUME DiscoveryInv, NEW t \in Caller, NEW w \in Call, CallInv(w),
         Returns(t, w),
         UNCHANGED <<clock, discoveryVars>>,
         w.pc = "fetching" <=> call[t].pc = "fetching"
  PROVE  DiscoveryInv'
<1>1. call' = [call EXCEPT ![t] = w] /\ call \in [Caller -> Call]
  BY DEF Returns, DiscoveryInv, DiscoveryTypeOK
<1>2. call' \in [Caller -> Call]
  BY <1>1
<1>3. UNCHANGED <<clock, document, discovering, failed, rejected, verdict>>
  BY DEF discoveryVars
<1>4. DiscoveryTypeOK'
  BY <1>2, <1>3 DEF DiscoveryInv, DiscoveryTypeOK, HasDocument
<1>5. Fetchers' = Fetchers
  BY <1>1 DEF Fetchers
<1>6. OneDiscovery'
  BY <1>3, <1>5 DEF DiscoveryInv, OneDiscovery
<1>7. DocFresh' = DocFresh /\ DocUsable' = DocUsable
  BY <1>3 DEF DocFresh, DocUsable, HasDocument
<1>8. CacheInv'
  BY <1>3, <1>7 DEF DiscoveryInv, CacheInv
<1>9. ASSUME NEW u \in Caller PROVE CallInv(call[u])'
  <2>1. CallInv(call'[u])
    BY <1>1 DEF DiscoveryInv
  <2> QED BY <2>1, <1>3, <1>7 DEF CallInv
<1> QED BY <1>4, <1>6, <1>8, <1>9 DEF DiscoveryInv

LEMMA ExplicitStep ==
  ASSUME DiscoveryInv, NEW t \in Caller, NEW name \in Endpoint,
         TakeExplicit(t, name)
  PROVE  DiscoveryInv'
<1>1. /\ call[t].pc # "fetching" /\ Explicit[name] # NoURL
      /\ UNCHANGED <<clock, discoveryVars>>
      /\ Returns(t, IF ConfiguredOK(Explicit[name])
             THEN [Fail(NoCall, "endpoint") EXCEPT !.name = name,
                                                  !.url = Explicit[name]]
             ELSE Fail(NoCall, "misconfigured"))
  BY DEF TakeExplicit
<1>2. CASE ConfiguredOK(Explicit[name])
  <2> DEFINE f == Fail(NoCall, "endpoint")
             one == [f EXCEPT !.name = name]
             w == [one EXCEPT !.url = Explicit[name]]
  <2>1. Returns(t, w)
    BY <1>1, <1>2
  <2>2. /\ f \in Call /\ f.pc = "done" /\ f.result = "endpoint"
        /\ f.expired = FALSE /\ f.barred = FALSE
    BY NoCallFacts, FailFacts DEF Outcome
  <2> HIDE DEF f
  <2>3. /\ one \in Call /\ one.pc = "done" /\ one.result = "endpoint"
        /\ one.name = name /\ one.expired = FALSE /\ one.barred = FALSE
    BY <2>2 DEF Call
  <2> HIDE DEF one
  <2>4. Explicit[name] \in URL \cup {NoURL}
    OBVIOUS
  <2>5. /\ w \in Call /\ w.pc = "done" /\ w.result = "endpoint"
        /\ w.name = name /\ w.url = Explicit[name]
        /\ w.expired = FALSE /\ w.barred = FALSE
    BY <2>3, <2>4 DEF Call
  <2> HIDE DEF w
  <2>6. CallInv(w)
    BY <1>1, <1>2, <2>5, ConfiguredIsTrusted DEF CallInv
  <2> QED BY <1>1, <2>1, <2>5, <2>6, CallStep
<1>3. CASE ~ConfiguredOK(Explicit[name])
  <2> DEFINE w == Fail(NoCall, "misconfigured")
  <2>1. Returns(t, w)
    BY <1>1, <1>3
  <2>2. /\ w \in Call /\ w.pc = "done" /\ w.result = "misconfigured"
        /\ w.expired = FALSE /\ w.barred = FALSE
    BY NoCallFacts, FailFacts DEF Outcome
  <2> HIDE DEF w
  <2>3. CallInv(w)
    BY <2>2 DEF CallInv
  <2> QED BY <1>1, <2>1, <2>2, <2>3, CallStep
<1> QED BY <1>2, <1>3

LEMMA FreshStep ==
  ASSUME DiscoveryInv, NEW t \in Caller, NEW name \in Endpoint, UseFresh(t,
         name)
  PROVE  DiscoveryInv'
<1> DEFINE c == Arriving(name)
           w == Taken(c, document.doc)
<1>1. /\ call[t].pc # "fetching" /\ Explicit[name] = NoURL /\ DocFresh
      /\ Returns(t, w) /\ UNCHANGED <<clock, discoveryVars>>
  BY DEF UseFresh, Asks
<1>2. DiscoveryTypeOK /\ DocUsable /\ HasDocument
  BY <1>1, FreshDocIsUsable DEF DiscoveryInv, DocFresh
<1>3. document.doc \in Document /\ Valid(document.doc)
  BY <1>2, CachedIsValid
<1>4. /\ c \in Call /\ c.name = name /\ ~c.expired /\ ~c.barred
  BY <1>1, <1>2, ArrivingFacts
<1> HIDE DEF c
<1>5. w \in Call /\ w.pc = "done" /\ CallInv(w)
  BY <1>1, <1>3, <1>4, TakenFacts, TakenIsSafe
<1> HIDE DEF w
<1> QED BY <1>1, <1>5, CallStep

LEMMA JoinDiscoveryStep ==
  ASSUME DiscoveryInv, NEW t \in Caller, NEW name \in Endpoint,
         JoinDiscovery(t, name)
  PROVE  DiscoveryInv'
<1> DEFINE c == Arriving(name)
           waits == [c EXCEPT !.pc = "waiting", !.deadline = clock + DocWait]
<1>1. /\ call[t].pc # "fetching" /\ Explicit[name] = NoURL
      /\ UNCHANGED <<clock, discoveryVars>>
      /\ Returns(t, IF rejected THEN Fail(c, "misconfigured")
                ELSE IF DocUsable THEN Taken(c, document.doc)
                ELSE waits)
  BY DEF JoinDiscovery, Asks
<1>2. c \in Call /\ c.name = name /\ c.result = "none" /\ CallInv(c)
  BY ArrivingFacts, ArrivingIsSafe DEF DiscoveryInv
<1>3. clock + DocWait \in 0..(MaxClock + DocWait)
  BY DEF DiscoveryInv, DiscoveryTypeOK
<1> HIDE DEF c
<1>4. CASE rejected \/ DocUsable
  <2> DEFINE w == ServeStaleOrRaise(c)
  <2>1. Returns(t, w)
    BY <1>1, <1>4 DEF ServeStaleOrRaise
  <2>2. w \in Call /\ w.pc = "done" /\ CallInv(w)
    BY <1>1, <1>2, ServeIsSafe
  <2> HIDE DEF w
  <2> QED BY <1>1, <2>1, <2>2, CallStep
<1>5. CASE ~rejected /\ ~DocUsable
  <2> DEFINE one == [c EXCEPT !.pc = "waiting"]
             w == [one EXCEPT !.deadline = clock + DocWait]
  <2>1. Returns(t, w)
    BY <1>1, <1>5
  <2>2. /\ one \in Call /\ one.pc = "waiting" /\ one.name = c.name
        /\ one.result = "none" /\ one.expired = c.expired
        /\ one.barred = c.barred /\ one.renewed = c.renewed
    BY <1>2 DEF Call
  <2> HIDE DEF one
  <2>3. /\ w \in Call /\ w.pc = "waiting" /\ w.name = c.name
        /\ w.result = "none" /\ w.expired = c.expired
        /\ w.barred = c.barred /\ w.renewed = c.renewed
    BY <1>3, <2>2 DEF Call
  <2> HIDE DEF w
  <2>4. CallInv(w)
    BY <1>1, <1>2, <2>3, MovedIsSafe
  <2> QED BY <1>1, <2>1, <2>3, <2>4, CallStep
<1> QED BY <1>4, <1>5

LEMMA BackOffStep ==
  ASSUME DiscoveryInv, NEW t \in Caller, NEW name \in Endpoint,
         BackOffDiscovery(t, name)
  PROVE  DiscoveryInv'
<1> DEFINE c == Arriving(name)
           w == ServeStaleOrRaise(c)
<1>1. /\ call[t].pc # "fetching" /\ Explicit[name] = NoURL /\ Returns(t, w)
      /\ UNCHANGED <<clock, discoveryVars>>
  BY DEF BackOffDiscovery, Asks
<1>2. c \in Call /\ c.name = name /\ CallInv(c)
  BY ArrivingFacts, ArrivingIsSafe DEF DiscoveryInv
<1> HIDE DEF c
<1>3. w \in Call /\ w.pc = "done" /\ CallInv(w)
  BY <1>1, <1>2, ServeIsSafe
<1> HIDE DEF w
<1> QED BY <1>1, <1>3, CallStep

LEMMA ResumesStep ==
  ASSUME DiscoveryInv, NEW t \in Caller, CallerResumes(t)
  PROVE  DiscoveryInv'
<1> DEFINE w == ServeStaleOrRaise(call[t])
<1>1. /\ call[t].pc = "waiting" /\ Returns(t, w)
      /\ UNCHANGED <<clock, discoveryVars>>
  BY DEF CallerResumes
<1>2. call[t] \in Call /\ CallInv(call[t]) /\ Explicit[call[t].name] = NoURL
  BY <1>1 DEF DiscoveryInv, DiscoveryTypeOK, CallInv
<1>3. w \in Call /\ w.pc = "done" /\ CallInv(w)
  BY <1>2, ServeIsSafe
<1> HIDE DEF w
<1> QED BY <1>1, <1>3, CallStep

LEMMA TimesOutStep ==
  ASSUME DiscoveryInv, NEW t \in Caller, CallerTimesOut(t)
  PROVE  DiscoveryInv'
<1> DEFINE w == Fail(call[t], "unavailable")
<1>1. /\ call[t].pc = "waiting" /\ Returns(t, w)
      /\ UNCHANGED <<clock, discoveryVars>>
  BY DEF CallerTimesOut
<1>2. call[t] \in Call /\ CallInv(call[t])
  BY DEF DiscoveryInv, DiscoveryTypeOK
<1>3. w \in Call /\ w.pc = "done" /\ CallInv(w)
  BY <1>2, FailFacts, FailIsSafe DEF Outcome
<1> HIDE DEF w
<1> QED BY <1>1, <1>3, CallStep

-----------------------------------------------------------------------------
(* Steps that change the cache                                             *)

LEMMA StartDiscoveryStep ==
  ASSUME DiscoveryInv, NEW t \in Caller, NEW name \in Endpoint,
         StartDiscovery(t, name)
  PROVE  DiscoveryInv'
<1> DEFINE c == Arriving(name)
           w == [c EXCEPT !.pc = "fetching"]
<1>1. /\ Explicit[name] = NoURL /\ ~DocFresh /\ ~discovering
      /\ discovering' = TRUE /\ call' = [call EXCEPT ![t] = w]
      /\ UNCHANGED <<clock, document, failed, rejected, verdict>>
      /\ call \in [Caller -> Call]
  BY DEF StartDiscovery, Asks, Returns, DiscoveryInv, DiscoveryTypeOK
<1>2. c \in Call /\ c.name = name /\ c.result = "none" /\ CallInv(c)
  BY ArrivingFacts, ArrivingIsSafe DEF DiscoveryInv
<1> HIDE DEF c
<1>3. /\ w \in Call /\ w.pc = "fetching" /\ w.name = c.name
      /\ w.result = "none" /\ w.expired = c.expired
      /\ w.barred = c.barred /\ w.renewed = c.renewed
  BY <1>2 DEF Call
<1> HIDE DEF w
<1>4. CallInv(w)
  BY <1>1, <1>2, <1>3, MovedIsSafe
<1>5. call' \in [Caller -> Call]
  BY <1>1, <1>3
<1>6. DiscoveryTypeOK'
  BY <1>1, <1>5 DEF DiscoveryInv, DiscoveryTypeOK, HasDocument
<1>7. Fetchers = {} /\ Fetchers' = {t}
  BY <1>1, <1>3 DEF Fetchers, DiscoveryInv, OneDiscovery
<1>8. OneDiscovery'
  BY <1>1, <1>7 DEF OneDiscovery
<1>9. DocFresh' = DocFresh /\ DocUsable' = DocUsable
  BY <1>1 DEF DocFresh, DocUsable, HasDocument
<1>10. CacheInv'
  BY <1>1, <1>9 DEF DiscoveryInv, CacheInv
<1>11. ASSUME NEW u \in Caller PROVE CallInv(call[u])'
  <2>1. CallInv(call'[u])
    BY <1>1, <1>4 DEF DiscoveryInv
  <2> QED BY <2>1, <1>1, <1>9 DEF CallInv
<1> QED BY <1>6, <1>8, <1>10, <1>11 DEF DiscoveryInv

\* A fetch that ends may leave a document stored now, or a failure of now.
LEMMA DiscoveryTypeStep ==
  ASSUME DiscoveryTypeOK, clock' = clock, call' \in [Caller -> Call],
         discovering' \in BOOLEAN, rejected' \in BOOLEAN, verdict' \in BOOLEAN,
         failed' \in {0, clock},
         \/ document' = document
         \/ \E doc \in Document :
              Valid(doc) /\ document' = [doc |-> doc, at |-> clock]
  PROVE  DiscoveryTypeOK'
<1>1. clock \in 1..MaxClock /\ failed' \in 0..clock
  BY DEF DiscoveryTypeOK
<1>2. document' \in [doc : Document \cup {NoDocument}, at : 0..MaxClock]
  BY <1>1 DEF DiscoveryTypeOK
<1>3. document'.doc # NoDocument
        => Valid(document'.doc) /\ document'.at \in 1..clock
  BY <1>1 DEF DiscoveryTypeOK, HasDocument
<1> QED BY <1>1, <1>2, <1>3 DEF DiscoveryTypeOK, HasDocument

\* The thread that fetches is the only one: when it leaves, nobody does.
LEMMA FetchEnds ==
  ASSUME OneDiscovery, NEW t \in Caller, call[t].pc = "fetching",
         call'[t].pc = "done", discovering' = FALSE,
         \A u \in Caller \ {t} : call'[u].pc = call[u].pc
  PROVE  discovering /\ OneDiscovery'
<1>1. Fetchers = {t} /\ discovering
  BY DEF OneDiscovery, Fetchers
<1>2. Fetchers' = {}
  BY <1>1 DEF Fetchers
<1> QED BY <1>1, <1>2 DEF OneDiscovery

LEMMA DiscoveryMisconfiguredStep ==
  ASSUME DiscoveryInv, NEW t \in Caller, DiscoveryMisconfigured(t)
  PROVE  DiscoveryInv'
<1> DEFINE w == Fail(call[t], "misconfigured")
<1>1. /\ call[t].pc = "fetching" /\ failed' = clock /\ rejected' = TRUE
      /\ verdict' = TRUE /\ discovering' = FALSE
      /\ call' = [call EXCEPT ![t] = w] /\ call \in [Caller -> Call]
      /\ UNCHANGED <<clock, document>>
  BY DEF DiscoveryMisconfigured, Returns, DiscoveryInv, DiscoveryTypeOK
<1>2. w \in Call /\ w.pc = "done" /\ CallInv(w)
  BY <1>1, FailFacts, FailIsSafe DEF DiscoveryInv, Outcome
<1> HIDE DEF w
<1>3. call' \in [Caller -> Call]
  BY <1>1, <1>2
<1>4. DiscoveryTypeOK'
  BY <1>1, <1>3, DiscoveryTypeStep DEF DiscoveryInv
<1>5. discovering /\ OneDiscovery'
  BY <1>1, <1>2, FetchEnds DEF DiscoveryInv
<1>6. DocFresh' = DocFresh /\ DocUsable' = DocUsable
  BY <1>1 DEF DocFresh, DocUsable, HasDocument
<1>7. CacheInv'
  BY <1>1, <1>5, <1>6 DEF DiscoveryInv, CacheInv
<1>8. ASSUME NEW u \in Caller PROVE CallInv(call[u])'
  <2>1. CallInv(call'[u])
    BY <1>1, <1>2 DEF DiscoveryInv
  <2> QED BY <2>1, <1>1, <1>6 DEF CallInv
<1> QED BY <1>4, <1>5, <1>7, <1>8 DEF DiscoveryInv

\* A failed attempt that is no verdict: everybody is pardoned.
LEMMA PardonStep ==
  ASSUME DiscoveryInv, NEW t \in Caller, call[t].pc = "fetching",
         NEW w \in Call, w.pc = "done", w.result = "endpoint" =>
           Trusted(w.name, w.url) /\ (w.expired => w.renewed),
         w.expired = call[t].expired, w.renewed = call[t].renewed,
         failed' = clock, discovering' = FALSE, rejected' = FALSE,
         verdict' = FALSE,
         call' = Pardoned([call EXCEPT ![t] = w]),
         UNCHANGED <<clock, document>>
  PROVE  DiscoveryInv'
<1>1. call \in [Caller -> Call] /\ CallInv(call[t])
  BY DEF DiscoveryInv, DiscoveryTypeOK
<1> DEFINE c == [call EXCEPT ![t] = w]
<1>2. /\ c \in [Caller -> Call]
      /\ c[t] = w
      /\ \A u \in Caller \ {t} : c[u] = call[u]
  BY <1>1
<1> HIDE DEF c
<1>3. ASSUME NEW u \in Caller
      PROVE  /\ call'[u] \in Call /\ call'[u].pc = c[u].pc
             /\ call'[u].result = c[u].result /\ call'[u].name = c[u].name
             /\ call'[u].url = c[u].url /\ call'[u].expired = c[u].expired
             /\ call'[u].renewed = c[u].renewed /\ call'[u].barred = FALSE
  <2>1. c[u] \in Call /\ call'[u] = [c[u] EXCEPT !.barred = FALSE]
    BY <1>2 DEF Pardoned, c
  <2> QED BY <2>1 DEF Call
<1>4. call' \in [Caller -> Call]
  <2>1. call' = [u \in Caller |-> [c[u] EXCEPT !.barred = FALSE]]
    BY DEF Pardoned, c
  <2> QED BY <1>3, <2>1
<1>5. DiscoveryTypeOK'
  BY <1>4, DiscoveryTypeStep DEF DiscoveryInv
<1>6. discovering /\ OneDiscovery'
  <2>1. call'[t].pc = "done"
    BY <1>2, <1>3
  <2>2. ASSUME NEW u \in Caller \ {t} PROVE call'[u].pc = call[u].pc
    <3>1. c[u] = call[u] /\ u \in Caller
      BY <1>2
    <3>2. call'[u].pc = c[u].pc
      BY <1>3, <3>1
    <3> QED BY <3>1, <3>2
  <2>3. OneDiscovery /\ discovering' = FALSE
    BY DEF DiscoveryInv
  <2> QED BY <2>1, <2>2, <2>3, FetchEnds
<1>7. DocFresh' = DocFresh /\ DocUsable' = DocUsable
  BY DEF DocFresh, DocUsable, HasDocument
<1>8. CacheInv'
  BY <1>6, <1>7 DEF DiscoveryInv, CacheInv
<1>9. ASSUME NEW u \in Caller PROVE CallInv(call[u])'
  <2>1. CASE u = t
    BY <1>1, <1>2, <1>3, <1>7, <2>1 DEF CallInv
  <2>2. CASE u # t
    <3>1. CallInv(call[u]) /\ c[u] = call[u]
      BY <1>2, <2>2 DEF DiscoveryInv
    <3>2. /\ call'[u].pc = call[u].pc /\ call'[u].result = call[u].result
          /\ call'[u].name = call[u].name /\ call'[u].url = call[u].url
          /\ call'[u].expired = call[u].expired
          /\ call'[u].renewed = call[u].renewed /\ call'[u].barred = FALSE
      BY <1>3, <3>1
    <3> QED BY <1>7, <3>1, <3>2 DEF CallInv
  <2> QED BY <2>1, <2>2
<1> QED BY <1>5, <1>6, <1>8, <1>9 DEF DiscoveryInv

LEMMA FailsStep ==
  ASSUME DiscoveryInv, NEW t \in Caller, DiscoveryFails(t)
  PROVE  DiscoveryInv'
<1> DEFINE w == IF DocUsable THEN Taken(call[t], document.doc)
                             ELSE Fail(call[t], "unavailable")
<1>1. /\ call[t].pc = "fetching" /\ failed' = clock /\ rejected' = FALSE
      /\ verdict' = FALSE /\ discovering' = FALSE
      /\ call' = Pardoned([call EXCEPT ![t] = w])
      /\ UNCHANGED <<clock, document>>
  BY DEF DiscoveryFails
<1>2. call[t] \in Call /\ CallInv(call[t]) /\ Explicit[call[t].name] = NoURL
  BY <1>1 DEF DiscoveryInv, DiscoveryTypeOK, CallInv
<1>3. /\ w \in Call /\ w.pc = "done" /\ w.expired = call[t].expired
      /\ w.renewed = call[t].renewed
      /\ w.result = "endpoint" =>
           Trusted(w.name, w.url) /\ (w.expired => w.renewed)
  <2>1. CASE DocUsable
    <3>1. document.doc \in Document /\ Valid(document.doc)
      BY <2>1, CachedIsValid DEF DiscoveryInv, DocUsable
    <3>2. call[t].expired => call[t].renewed
      BY <1>2, <2>1 DEF CallInv
    <3> QED BY <1>2, <2>1, <3>1, <3>2, TakenFacts
  <2>2. CASE ~DocUsable
    BY <1>2, <2>2, FailFacts DEF Outcome
  <2> QED BY <2>1, <2>2
<1> HIDE DEF w
<1> QED BY <1>1, <1>3, PardonStep

LEMMA RaisesOtherStep ==
  ASSUME DiscoveryInv, NEW t \in Caller, DiscoveryRaisesOther(t)
  PROVE  DiscoveryInv'
<1> DEFINE w == Fail(call[t], "error")
<1>1. /\ call[t].pc = "fetching" /\ failed' = clock /\ rejected' = FALSE
      /\ verdict' = FALSE /\ discovering' = FALSE
      /\ call' = Pardoned([call EXCEPT ![t] = w])
      /\ UNCHANGED <<clock, document>>
  BY DEF DiscoveryRaisesOther
<1>2. call[t] \in Call
  BY DEF DiscoveryInv, DiscoveryTypeOK
<1>3. /\ w \in Call /\ w.pc = "done" /\ w.expired = call[t].expired
      /\ w.renewed = call[t].renewed /\ w.result = "error"
  BY <1>2, FailFacts DEF Outcome
<1> HIDE DEF w
<1> QED BY <1>1, <1>3, PardonStep

\* A document is stored only when it is valid; nobody else has fetched.
LEMMA StoreDocumentStep ==
  ASSUME DiscoveryInv, NEW t \in Caller, NEW doc \in Document,
         StoreDocument(t, doc)
  PROVE  DiscoveryInv'
<1> DEFINE w == Taken(call[t], doc)
           c == [call EXCEPT ![t] = w]
<1>1. /\ call[t].pc = "fetching" /\ Valid(doc)
      /\ document' = [doc |-> doc, at |-> clock] /\ clock' = clock
      /\ failed' = 0 /\ rejected' = FALSE /\ verdict' = FALSE
      /\ discovering' = FALSE
      /\ call' = [u \in Caller |->
                    [c[u] EXCEPT !.barred = FALSE, !.renewed = TRUE]]
  BY DEF StoreDocument
<1>2. /\ call \in [Caller -> Call] /\ CallInv(call[t])
      /\ Explicit[call[t].name] = NoURL
  BY <1>1 DEF DiscoveryInv, DiscoveryTypeOK, CallInv
<1>3. /\ w \in Call /\ w.pc = "done"
      /\ w.result = "endpoint" => Trusted(w.name, w.url)
  BY <1>1, <1>2, TakenFacts
<1> HIDE DEF w
<1>4. /\ c \in [Caller -> Call] /\ c[t] = w
      /\ \A u \in Caller \ {t} : c[u] = call[u]
  BY <1>2, <1>3
<1> HIDE DEF c
<1>5. ASSUME NEW u \in Caller
      PROVE  /\ call'[u] \in Call /\ call'[u].pc = c[u].pc
             /\ call'[u].result = c[u].result /\ call'[u].name = c[u].name
             /\ call'[u].url = c[u].url /\ call'[u].barred = FALSE
             /\ call'[u].renewed = TRUE
  <2> DEFINE one == [c[u] EXCEPT !.barred = FALSE]
  <2>1. c[u] \in Call /\ call'[u] = [one EXCEPT !.renewed = TRUE]
    BY <1>1, <1>4
  <2>2. /\ one \in Call /\ one.pc = c[u].pc /\ one.result = c[u].result
        /\ one.name = c[u].name /\ one.url = c[u].url /\ one.barred = FALSE
    BY <2>1 DEF Call
  <2> HIDE DEF one
  <2> QED BY <2>1, <2>2 DEF Call
<1>6. call' \in [Caller -> Call]
  BY <1>1, <1>5
<1>7. DiscoveryTypeOK'
  BY <1>1, <1>6, DiscoveryTypeStep DEF DiscoveryInv
<1>8. OneDiscovery'
  <2>1. call'[t].pc = "done"
    BY <1>3, <1>4, <1>5
  <2>2. \A u \in Caller \ {t} : call'[u].pc = call[u].pc
    BY <1>4, <1>5
  <2> QED BY <1>1, <2>1, <2>2, FetchEnds DEF DiscoveryInv
<1>9. CacheInv'
  BY <1>1 DEF CacheInv
<1>10. ASSUME NEW u \in Caller PROVE CallInv(call[u])'
  <2>1. CASE u = t
    BY <1>3, <1>4, <1>5, <2>1 DEF CallInv
  <2>2. CASE u # t
    <3>1. CallInv(call[u]) /\ c[u] = call[u]
      BY <1>4, <2>2 DEF DiscoveryInv
    <3> QED BY <1>5, <3>1 DEF CallInv
  <2> QED BY <2>1, <2>2
<1> QED BY <1>7, <1>8, <1>9, <1>10 DEF DiscoveryInv

\* Documents only age.
LEMMA DiscoveryTicks == ASSUME DiscoveryInv, ClockTicks PROVE DiscoveryInv'
<1>1. /\ clock < MaxClock /\ clock' = clock + 1
      /\ UNCHANGED <<document, discovering, failed, rejected, verdict, call>>
  BY DEF ClockTicks, discoveryVars
<1>2. /\ clock \in 1..MaxClock /\ document.at \in 0..MaxClock
      /\ failed \in 0..clock /\ HasDocument => document.at \in 1..clock
  BY DEF DiscoveryInv, DiscoveryTypeOK
<1>3. DiscoveryTypeOK'
  BY <1>1, <1>2 DEF DiscoveryInv, DiscoveryTypeOK, HasDocument
<1>4. OneDiscovery'
  BY <1>1 DEF DiscoveryInv, OneDiscovery, Fetchers
<1>5. (DocFresh' => DocFresh) /\ (DocUsable' => DocUsable)
  BY <1>1, <1>2 DEF DocFresh, DocUsable, HasDocument
<1>6. CacheInv'
  BY <1>1, <1>5 DEF DiscoveryInv, CacheInv
<1>7. ASSUME NEW u \in Caller PROVE CallInv(call[u])'
  <2>1. CallInv(call[u])
    BY DEF DiscoveryInv
  <2> QED BY <1>1, <1>5, <2>1 DEF CallInv
<1> QED BY <1>3, <1>4, <1>6, <1>7 DEF DiscoveryInv

-----------------------------------------------------------------------------
LEMMA DiscoveryStarts == DiscoveryInit => DiscoveryInv
<1> SUFFICES ASSUME DiscoveryInit PROVE DiscoveryInv
  OBVIOUS
<1> USE DEF DiscoveryInit
<1>1. ~HasDocument /\ ~DocFresh
  BY DEF HasDocument, NoCache, DocFresh
<1>2. call \in [Caller -> Call] /\ \A t \in Caller : call[t] = NoCall
  BY NoCallFacts
<1>3. DiscoveryTypeOK
  <2>1. clock \in 1..MaxClock /\ failed \in 0..clock /\ 0 \in 0..MaxClock
    OBVIOUS
  <2>2. document \in [doc : Document \cup {NoDocument}, at : 0..MaxClock]
    BY <2>1 DEF NoCache
  <2> QED BY <1>1, <1>2, <2>1, <2>2 DEF DiscoveryTypeOK
<1>4. OneDiscovery
  BY <1>2, NoCallFacts DEF OneDiscovery, Fetchers
<1>5. CacheInv
  BY <1>1 DEF CacheInv
<1>6. CallInv(NoCall)
  BY NoCallFacts DEF CallInv
<1> QED BY <1>2, <1>3, <1>4, <1>5, <1>6 DEF DiscoveryInv

LEMMA DiscoveryStutters ==
  ASSUME DiscoveryInv, UNCHANGED callVars
  PROVE  DiscoveryInv'
<1>1. UNCHANGED <<clock, document, discovering, failed, rejected, verdict,
                 call>>
  BY DEF callVars, discoveryVars
<1>2. /\ DocFresh' = DocFresh
      /\ DocUsable' = DocUsable
      /\ HasDocument' = HasDocument
  BY <1>1 DEF DocFresh, DocUsable, HasDocument
<1>3. DiscoveryTypeOK'
  BY <1>1, <1>2 DEF DiscoveryInv, DiscoveryTypeOK
<1>4. OneDiscovery'
  BY <1>1 DEF DiscoveryInv, OneDiscovery, Fetchers
<1>5. CacheInv'
  BY <1>1, <1>2 DEF DiscoveryInv, CacheInv
<1>6. ASSUME NEW u \in Caller PROVE CallInv(call[u])'
  <2>1. CallInv(call[u])
    BY DEF DiscoveryInv
  <2> QED BY <1>1, <1>2, <2>1 DEF CallInv
<1> QED BY <1>3, <1>4, <1>5, <1>6 DEF DiscoveryInv

LEMMA DiscoveryInvariance == DiscoverySpec => []DiscoveryInv
<1>1. ASSUME DiscoveryInv, [DiscoveryNext]_callVars PROVE DiscoveryInv'
  <2>1. CASE UNCHANGED callVars
    BY <1>1, <2>1, DiscoveryStutters
  <2>2. CASE ClockTicks
    BY <1>1, <2>2, DiscoveryTicks
  <2>3. ASSUME NEW t \in Caller, NEW name \in Endpoint, GetEndpoint(t, name)
        PROVE  DiscoveryInv'
    BY <1>1, <2>3, ExplicitStep, FreshStep, JoinDiscoveryStep, BackOffStep,
       StartDiscoveryStep
       DEF GetEndpoint
  <2>4. ASSUME NEW t \in Caller, Continue(t) PROVE DiscoveryInv'
    BY <1>1, <2>4, DiscoveryMisconfiguredStep, FailsStep, RaisesOtherStep,
       StoreDocumentStep,
       ResumesStep, TimesOutStep DEF Continue
  <2> QED BY <1>1, <2>1, <2>2, <2>3, <2>4 DEF DiscoveryNext
<1> QED BY <1>1, DiscoveryStarts, PTL DEF DiscoverySpec

\* The cache is well formed and holds nothing but valid documents.
THEOREM DiscoveryTypeCorrect == DiscoverySpec => []DiscoveryTypeOK
<1>1. DiscoveryInv => DiscoveryTypeOK
  BY DEF DiscoveryInv
<1> QED BY <1>1, DiscoveryInvariance, PTL

\* What get_endpoint promises: one fetch at a time, no document beyond its
\* grace, no misconfiguration hidden by a stale document, a health report that
\* is right, and only endpoints that the deployment trusts.
THEOREM EndpointsAreSound == DiscoverySpec => []DiscoverySound
<1>1. ASSUME DiscoveryInv PROVE DiscoverySound
  <2>1. OneDiscovery
    BY <1>1 DEF DiscoveryInv
  <2>2. WithinGrace /\ MisconfigurationWins /\ EndpointsTrusted
    BY <1>1 DEF DiscoveryInv, CallInv, WithinGrace, MisconfigurationWins,
       Answered,
                EndpointsTrusted
  <2>3. UnavailableIsTrue
    BY <1>1, FreshDocIsUsable DEF DiscoveryInv, CacheInv, UnavailableIsTrue,
       Unavailable
  <2> QED BY <2>1, <2>2, <2>3 DEF DiscoverySound
<1> QED BY <1>1, DiscoveryInvariance, PTL

-----------------------------------------------------------------------------
(* The accounts                                                            *)

HIDE DiscoveryAssumption
USE AccountsAssumption


\* What a request that links, or has signed in, knows of the account.
MayTake(q) == LinkingEnabled /\ Attested(q)
LinkInv(q) ==
  /\ q.pc # "done" => q.how = "none"
  /\ q.by = "login" => q.who \in Identity
  /\ q.pc \in {"userinfo", "resolve"} => q.by = "login"
  /\ q.pc \in {"owner", "commit", "winner"} =>
       q.by \in {"login", "command"} /\ q.who \in Identity
  /\ q.pc \in {"resolve", "owner", "commit", "winner"} => q.email \in Email
  /\ q.pc = "owner" /\ q.by = "login" => q.mine.idp = NoOne /\ MayTake(q)
  /\ q.pc = "commit" =>
       /\ q.mine.idp = NoOne
       /\ q.by = "login" /\ q.mine.exists => MayTake(q)
  /\ q.by = "login" /\ q.how \in {"known", "linked", "created"} =>
       /\ q.email \in Email
       /\ Owns(q.who, q.email) \/ q.email \in moved
       /\ q.how = "linked" => MayTake(q)

\* What a request for a webhook knows of the account: it is there, its secret
\* is the one to be installed, and a revocation that found no authorization
\* and was not overtaken has still none before it.
HookInv(q) ==
  /\ q.pc \in {"renew", "connect", "install", "revoke"} =>
       q.by = "none" /\ q.email \in Email /\ row[q.email].exists
  /\ q.pc = "install" =>
       /\ q.secret \in Secret
       /\ q.secret = row[q.email].secret \/ q.secret \in deleted
  /\ q.pc = "revoke" /\ ~q.overtaken /\ q.mine.until = 0 =>
       row[q.email].until = 0

\* Secrets are counted, so that a new one is new and a deleted one nobody's.
SecretInv ==
  /\ deleted \subseteq 1..secrets
  /\ \A e \in Email : row[e].secret <= secrets
  /\ \A d, e \in Email :
       row[d].secret = row[e].secret => d = e \/ row[e].secret = 0

AccountsInv ==
  /\ AccountsTypeOK
  /\ SecretInv
  /\ WebhookSecrets
  /\ \A r \in Request : LinkInv(task[r]) /\ HookInv(task[r])

-----------------------------------------------------------------------------
(* Rows                                                                    *)

LEMMA NewRows ==
  /\ NoRow \in Row /\ NoRow.idp = NoOne /\ NoRow.secret = 0
  /\ NoRow.until = 0 /\ NoRow.exists = FALSE
  /\ NewRow(NoOne) \in Row /\ NewRow(NoOne).idp = NoOne
  /\ NewRow(NoOne).secret = 0 /\ NewRow(NoOne).until = 0
  /\ NewRow(NoOne).exists = TRUE
<1>1. 0 \in 0..MaxSecret /\ 0 \in Until
  BY DEF Until
<1>2. NoRow \in Row
  BY <1>1 DEF NoRow, Row
<1> DEFINE one == [NoRow EXCEPT !.exists = TRUE]
<1>3. /\ one \in Row /\ one.exists = TRUE /\ one.secret = 0
      /\ one.until = 0
  BY <1>2 DEF Row, NoRow
<1>4. NewRow(NoOne) = [one EXCEPT !.idp = NoOne]
  BY DEF NewRow
<1> HIDE DEF one
<1>5. /\ NewRow(NoOne) \in Row /\ NewRow(NoOne).idp = NoOne
      /\ NewRow(NoOne).secret = 0 /\ NewRow(NoOne).until = 0
      /\ NewRow(NoOne).exists = TRUE
  BY <1>3, <1>4 DEF Row
<1> QED BY <1>2, <1>5 DEF NoRow

LEMMA RowFacts ==
  ASSUME AccountsTypeOK, NEW e \in Email
  PROVE  /\ row[e] \in Row /\ row[e].exists \in BOOLEAN
         /\ row[e].idp \in Identity \cup {NoOne}
         /\ row[e].secret \in Nat /\ row[e].secret <= MaxSecret
         /\ row[e].secret # 0 => row[e].secret \in Secret
         /\ row[e].until \in Until
         /\ ~row[e].exists =>
              row[e].idp = NoOne /\ row[e].secret = 0 /\ row[e].until = 0
<1>1. row[e] \in Row /\ (~row[e].exists => row[e] = NoRow)
  BY DEF AccountsTypeOK
<1> QED BY <1>1, NewRows DEF Row, Secret

\* The new columns of one row.
LEMMA OneRow ==
  ASSUME row \in [Email -> Row], NEW e \in Email, NEW new \in Row,
         row' = [row EXCEPT ![e] = new]
  PROVE  /\ row' \in [Email -> Row] /\ row'[e] = new
         /\ \A d \in Email : d # e => row'[d] = row[d]
OBVIOUS

-----------------------------------------------------------------------------
(* Where a request goes                                                    *)

Ending == {"none", "known", "linked", "created", "refused"}

LEMMA NoTaskFacts ==
  /\ NoTask \in Task /\ NoTask.pc = "idle" /\ NoTask.by = "none"
  /\ NoTask.how = "none" /\ NoTask.overtaken = FALSE
  /\ NoTask.mine = NoRow
<1>1. 0 \in 0..MaxSecret /\ NoRow \in Row
  BY NewRows
<1> QED BY <1>1 DEF NoTask, Task, Stage, Claim

LEMMA PlaceFacts ==
  ASSUME NEW q \in Task, NEW p \in Stage
  PROVE  LET w == [q EXCEPT !.pc = p]
         IN  /\ w \in Task /\ w.pc = p /\ w.by = q.by /\ w.who = q.who
             /\ w.email = q.email /\ w.claim = q.claim /\ w.mine = q.mine
             /\ w.secret = q.secret /\ w.how = q.how
             /\ w.overtaken = q.overtaken
BY DEF Task

LEMMA WhoFacts ==
  ASSUME NEW q \in Task, NEW i \in Identity \cup {NoOne}
  PROVE  LET w == [q EXCEPT !.who = i]
         IN  /\ w \in Task /\ w.pc = q.pc /\ w.by = q.by /\ w.who = i
             /\ w.email = q.email /\ w.claim = q.claim /\ w.mine = q.mine
             /\ w.secret = q.secret /\ w.how = q.how
             /\ w.overtaken = q.overtaken
BY DEF Task

LEMMA EmailFacts ==
  ASSUME NEW q \in Task, NEW e \in Email \cup {NoOne}
  PROVE  LET w == [q EXCEPT !.email = e]
         IN  /\ w \in Task /\ w.pc = q.pc /\ w.by = q.by /\ w.who = q.who
             /\ w.email = e /\ w.claim = q.claim /\ w.mine = q.mine
             /\ w.secret = q.secret /\ w.how = q.how
             /\ w.overtaken = q.overtaken
BY DEF Task

LEMMA ClaimFacts ==
  ASSUME NEW q \in Task, NEW c \in Claim
  PROVE  LET w == [q EXCEPT !.claim = c]
         IN  /\ w \in Task /\ w.pc = q.pc /\ w.by = q.by /\ w.who = q.who
             /\ w.email = q.email /\ w.claim = c /\ w.mine = q.mine
             /\ w.secret = q.secret /\ w.how = q.how
             /\ w.overtaken = q.overtaken
BY DEF Task

LEMMA ByFacts ==
  ASSUME NEW q \in Task, NEW b \in {"login", "command", "none"}
  PROVE  LET w == [q EXCEPT !.by = b]
         IN  /\ w \in Task /\ w.pc = q.pc /\ w.by = b /\ w.who = q.who
             /\ w.email = q.email /\ w.claim = q.claim /\ w.mine = q.mine
             /\ w.secret = q.secret /\ w.how = q.how
             /\ w.overtaken = q.overtaken
BY DEF Task

LEMMA MineFacts ==
  ASSUME NEW q \in Task, NEW m \in Row
  PROVE  LET w == [q EXCEPT !.mine = m]
         IN  /\ w \in Task /\ w.pc = q.pc /\ w.by = q.by /\ w.who = q.who
             /\ w.email = q.email /\ w.claim = q.claim /\ w.mine = m
             /\ w.secret = q.secret /\ w.how = q.how
             /\ w.overtaken = q.overtaken
BY DEF Task

LEMMA SecretFacts ==
  ASSUME NEW q \in Task, NEW s \in 0..MaxSecret
  PROVE  LET w == [q EXCEPT !.secret = s]
         IN  /\ w \in Task /\ w.pc = q.pc /\ w.by = q.by /\ w.who = q.who
             /\ w.email = q.email /\ w.claim = q.claim /\ w.mine = q.mine
             /\ w.secret = s /\ w.how = q.how /\ w.overtaken = q.overtaken
BY DEF Task

LEMMA HowFacts ==
  ASSUME NEW q \in Task, NEW h \in Ending
  PROVE  LET w == [q EXCEPT !.how = h]
         IN  /\ w \in Task /\ w.pc = q.pc /\ w.by = q.by /\ w.who = q.who
             /\ w.email = q.email /\ w.claim = q.claim /\ w.mine = q.mine
             /\ w.secret = q.secret /\ w.how = h /\ w.overtaken = q.overtaken
BY DEF Task, Ending

LEMMA OvertakenFacts ==
  ASSUME NEW q \in Task, NEW o \in BOOLEAN
  PROVE  LET w == [q EXCEPT !.overtaken = o]
         IN  /\ w \in Task /\ w.pc = q.pc /\ w.by = q.by /\ w.who = q.who
             /\ w.email = q.email /\ w.claim = q.claim /\ w.mine = q.mine
             /\ w.secret = q.secret /\ w.how = q.how /\ w.overtaken = o
BY DEF Task

LEMMA DoneFacts ==
  ASSUME NEW q \in Task, NEW how \in Ending
  PROVE  /\ Done(q, how) \in Task /\ Done(q, how).pc = "done"
         /\ Done(q, how).by = q.by /\ Done(q, how).who = q.who
         /\ Done(q, how).email = q.email /\ Done(q, how).claim = q.claim
         /\ Done(q, how).how = how
<1> DEFINE one == [NoTask EXCEPT !.pc = "done"]
           two == [one EXCEPT !.by = q.by]
           three == [two EXCEPT !.who = q.who]
           four == [three EXCEPT !.email = q.email]
           five == [four EXCEPT !.claim = q.claim]
           six == [five EXCEPT !.how = how]
<1>1. Done(q, how) = six
  BY DEF Done
<1>2. /\ q.by \in {"login", "command", "none"}
      /\ q.who \in Identity \cup {NoOne}
      /\ q.email \in Email \cup {NoOne} /\ q.claim \in Claim
  BY DEF Task
<1>3. one \in Task /\ one.pc = "done"
  BY NoTaskFacts, PlaceFacts DEF Stage
<1> HIDE DEF one
<1>4. two \in Task /\ two.pc = "done" /\ two.by = q.by
  BY <1>2, <1>3, ByFacts
<1> HIDE DEF two
<1>5. /\ three \in Task /\ three.pc = "done" /\ three.by = q.by
      /\ three.who = q.who
  BY <1>2, <1>4, WhoFacts
<1> HIDE DEF three
<1>6. /\ four \in Task /\ four.pc = "done" /\ four.by = q.by
      /\ four.who = q.who /\ four.email = q.email
  BY <1>2, <1>5, EmailFacts
<1> HIDE DEF four
<1>7. /\ five \in Task /\ five.pc = "done" /\ five.by = q.by
      /\ five.who = q.who /\ five.email = q.email /\ five.claim = q.claim
  BY <1>2, <1>6, ClaimFacts
<1> HIDE DEF five
<1>8. /\ six \in Task /\ six.pc = "done" /\ six.by = q.by
      /\ six.who = q.who /\ six.email = q.email /\ six.claim = q.claim
      /\ six.how = how
  BY <1>7, HowFacts
<1> HIDE DEF six
<1> QED BY <1>1, <1>8

\* A new request for identity i, a login or a command.
LEMMA NewTask ==
  ASSUME NEW by \in {"login", "command"}, NEW i \in Identity
  PROVE  LET w == [NoTask EXCEPT !.by = by, !.who = i]
         IN  /\ w \in Task /\ w.pc = "idle" /\ w.by = by /\ w.who = i
             /\ w.how = "none"
<1> DEFINE one == [NoTask EXCEPT !.by = by]
           two == [one EXCEPT !.who = i]
<1>1. one \in Task /\ one.by = by /\ one.pc = "idle" /\ one.how = "none"
  BY NoTaskFacts DEF Task
<1> HIDE DEF one
<1>2. /\ two \in Task /\ two.pc = "idle" /\ two.by = by /\ two.who = i
      /\ two.how = "none"
  BY <1>1 DEF Task
<1> QED BY <1>2 DEF one

\* A request that is over and has signed nobody in asks nothing of the rows,
\* now or later.
LEMMA RestIsSafe ==
  ASSUME NEW w \in Task, w.pc = "done",
         w.by = "login" =>
           w.who \in Identity /\ w.how \notin {"known", "linked", "created"}
  PROVE  LinkInv(w) /\ HookInv(w) /\ LinkInv(w)' /\ HookInv(w)'
BY DEF LinkInv, HookInv

-----------------------------------------------------------------------------
(* What a step may do to the rows under the other requests                 *)

Rely ==
  /\ \A e \in Email : row[e].exists => row'[e].exists
  /\ \A e \in Email, i \in Identity :
       Owns(i, e) => (row'[e].exists /\ row'[e].idp = i) \/ e \in moved'
  /\ \A e \in Email :
       row[e].secret \in Secret =>
         row'[e].secret = row[e].secret \/ row[e].secret \in deleted'
  /\ moved \subseteq moved' /\ deleted \subseteq deleted'

LEMMA RelyKeeps ==
  ASSUME Rely, NEW q \in Task, LinkInv(q), HookInv(q), NEW w \in Task,
         w = q \/ w = [q EXCEPT !.overtaken = TRUE],
         w.pc = "revoke" /\ ~w.overtaken /\ row[w.email].until = 0 =>
           row'[w.email].until = 0
  PROVE  LinkInv(w)' /\ HookInv(w)'
<1>1. /\ w.pc = q.pc /\ w.by = q.by /\ w.who = q.who /\ w.email = q.email
      /\ w.claim = q.claim /\ w.mine = q.mine /\ w.secret = q.secret
      /\ w.how = q.how /\ (~w.overtaken => ~q.overtaken)
  BY DEF Task
<1>2. LinkInv(w)'
  <2>1. MayTake(q) => MayTake(w)
    BY <1>1 DEF MayTake, Attested
  <2>2. w.by = "login" /\ w.how \in {"known", "linked", "created"} =>
          /\ w.email \in Email
          /\ (row'[w.email].exists /\ row'[w.email].idp = w.who)
               \/ w.email \in moved'
          /\ w.how = "linked" => MayTake(w)
    BY <1>1, <2>1 DEF LinkInv, Rely
  <2> QED BY <1>1, <2>1, <2>2 DEF LinkInv, Owns, MayTake, Attested
<1>3. HookInv(w)'
  <2>1. w.pc \in {"renew", "connect", "install", "revoke"} =>
          w.by = "none" /\ w.email \in Email /\ row'[w.email].exists
    BY <1>1 DEF HookInv, Rely
  <2>2. w.pc = "install" =>
          /\ w.secret \in Secret
          /\ w.secret = row'[w.email].secret \/ w.secret \in deleted'
    BY <1>1 DEF HookInv, Rely
  <2>3. w.pc = "revoke" /\ ~w.overtaken /\ w.mine.until = 0 =>
          row'[w.email].until = 0
    BY <1>1 DEF HookInv
  <2> QED BY <2>1, <2>2, <2>3 DEF HookInv
<1> QED BY <1>2, <1>3

\* Steps that leave the columns of the webhook alone.
LEMMA ColumnsKept ==
  ASSUME AccountsInv, UNCHANGED webhookVars,
         \A e \in Email : /\ row'[e].secret = row[e].secret
                          /\ row'[e].until = row[e].until
  PROVE  SecretInv' /\ WebhookSecrets'
<1>1. UNCHANGED <<today, hooks, secrets, deleted, standing>>
  BY DEF webhookVars
<1>2. \A h \in hooks : h[1] \in Email
  BY DEF AccountsInv, AccountsTypeOK
<1>3. SecretInv'
  BY <1>1 DEF AccountsInv, SecretInv
<1>4. HooksCarryTheSecret'
  BY <1>1, <1>2 DEF AccountsInv, WebhookSecrets, HooksCarryTheSecret
<1>5. DeletedStaysDeleted'
  BY <1>1 DEF AccountsInv, WebhookSecrets, DeletedStaysDeleted
<1>6. AuthorizedByGrant'
  BY <1>1 DEF AccountsInv, WebhookSecrets, AuthorizedByGrant, Expired
<1> QED BY <1>3, <1>4, <1>5, <1>6 DEF WebhookSecrets

-----------------------------------------------------------------------------
(* Steps of one request that change no row                                 *)

LEMMA LocalTaskStep ==
  ASSUME AccountsInv, NEW r \in Request, NEW w \in Task, Sets(r, w),
         LinkInv(w), HookInv(w), UNCHANGED <<row, moved, webhookVars>>
  PROVE  AccountsInv'
<1>1. UNCHANGED <<row, moved, today, hooks, secrets, deleted, standing>>
  BY DEF webhookVars
<1>2. task \in [Request -> Task] /\ task' = [task EXCEPT ![r] = w]
  BY DEF AccountsInv, AccountsTypeOK, Sets
<1>3. AccountsTypeOK'
  <2>1. task' \in [Request -> Task]
    BY <1>2
  <2> QED BY <1>1, <2>1 DEF AccountsInv, AccountsTypeOK
<1>4. SecretInv' /\ WebhookSecrets'
  BY ColumnsKept
<1>5. ASSUME NEW u \in Request
      PROVE  (LinkInv(task[u]) /\ HookInv(task[u]))'
  <2>1. LinkInv(task'[u]) /\ HookInv(task'[u])
    BY <1>2 DEF AccountsInv
  <2> QED BY <1>1, <2>1 DEF LinkInv, HookInv, Owns, MayTake, Attested
<1> QED BY <1>3, <1>4, <1>5 DEF AccountsInv

\* The request ends, with nobody signed in.
LEMMA EndStep ==
  ASSUME AccountsInv, NEW r \in Request, NEW q \in Task, NEW how \in Ending,
         Sets(r, Done(q, how)), UNCHANGED <<row, moved, webhookVars>>,
         q.by = "login" =>
           q.who \in Identity /\ how \notin {"known", "linked", "created"}
  PROVE  AccountsInv'
<1> DEFINE w == Done(q, how)
<1>1. /\ w \in Task /\ w.pc = "done" /\ w.by = q.by /\ w.who = q.who
      /\ w.how = how
  BY DoneFacts
<1>2. Sets(r, w)
  OBVIOUS
<1> HIDE DEF w
<1>3. LinkInv(w) /\ HookInv(w)
  BY <1>1, RestIsSafe
<1> QED BY <1>1, <1>2, <1>3, LocalTaskStep

\* A login finds the account of its identity.
LEMMA KnownStep ==
  ASSUME AccountsInv, NEW r \in Request, NEW q \in Task,
         q.who \in Identity, q.email \in Email, Owns(q.who, q.email),
         Sets(r, Done(q, "known")), UNCHANGED <<row, moved, webhookVars>>
  PROVE  AccountsInv'
<1> DEFINE w == Done(q, "known")
<1>1. /\ w \in Task /\ w.pc = "done" /\ w.by = q.by /\ w.who = q.who
      /\ w.email = q.email /\ w.how = "known"
  BY DoneFacts DEF Ending
<1>2. Sets(r, w)
  OBVIOUS
<1> HIDE DEF w
<1>3. LinkInv(w) /\ HookInv(w)
  BY <1>1 DEF LinkInv, HookInv
<1> QED BY <1>1, <1>2, <1>3, LocalTaskStep

\* The request goes on with a link.
LEMMA LinkStep ==
  ASSUME AccountsInv, NEW r \in Request, NEW w \in Task, Sets(r, w),
         w.pc \in {"userinfo", "resolve", "owner", "commit", "winner"},
         LinkInv(w), UNCHANGED <<row, moved, webhookVars>>
  PROVE  AccountsInv'
<1>1. HookInv(w)
  BY DEF HookInv
<1> QED BY <1>1, LocalTaskStep

\* The request goes on with a webhook.
LEMMA HookStep ==
  ASSUME AccountsInv, NEW r \in Request, NEW w \in Task, Sets(r, w),
         w.pc \in {"renew", "connect", "install", "revoke"},
         w.by = "none", w.how = "none",
         HookInv(w), UNCHANGED <<row, moved, webhookVars>>
  PROVE  AccountsInv'
<1>1. LinkInv(w)
  BY DEF LinkInv
<1> QED BY <1>1, LocalTaskStep

LEMMA SignInStep ==
  ASSUME AccountsInv, NEW r \in Request, NEW i \in Identity, SignIn(r, i)
  PROVE  AccountsInv'
<1> DEFINE q == [NoTask EXCEPT !.by = "login", !.who = i]
<1>1. /\ UNCHANGED <<row, moved, webhookVars>>
      /\ \/ Sets(r, [q EXCEPT !.pc = "userinfo"])
         \/ \E e \in Email : /\ Owns(i, e)
                             /\ Sets(r, Done([q EXCEPT !.email = e], "known"))
  BY DEF SignIn
<1>2. /\ q \in Task /\ q.pc = "idle" /\ q.by = "login" /\ q.who = i
      /\ q.how = "none"
  BY NewTask
<1> HIDE DEF q
<1>3. ASSUME Sets(r, [q EXCEPT !.pc = "userinfo"]) PROVE AccountsInv'
  <2> DEFINE w == [q EXCEPT !.pc = "userinfo"]
  <2>1. /\ w \in Task /\ w.pc = "userinfo" /\ w.by = "login" /\ w.who = i
        /\ w.how = "none"
    BY <1>2, PlaceFacts DEF Stage
  <2>2. Sets(r, w)
    BY <1>3
  <2> HIDE DEF w
  <2>3. LinkInv(w)
    BY <2>1 DEF LinkInv
  <2> QED BY <1>1, <2>1, <2>2, <2>3, LinkStep
<1>4. ASSUME NEW e \in Email, Owns(i, e),
             Sets(r, Done([q EXCEPT !.email = e], "known"))
      PROVE  AccountsInv'
  <2> DEFINE v == [q EXCEPT !.email = e]
  <2>1. v \in Task /\ v.who = i /\ v.email = e
    BY <1>2, EmailFacts
  <2>2. Sets(r, Done(v, "known"))
    BY <1>4
  <2> HIDE DEF v
  <2> QED BY <1>1, <1>4, <2>1, <2>2, KnownStep
<1> QED BY <1>1, <1>3, <1>4

LEMMA UserinfoSteps ==
  ASSUME AccountsInv, NEW r \in Request,
         FetchUserinfo(r) \/ UserinfoFails(r)
  PROVE  AccountsInv'
<1> DEFINE q == task[r]
<1>1. /\ q \in Task /\ q.pc = "userinfo" /\ q.by = "login"
      /\ q.who \in Identity /\ q.how = "none"
      /\ UNCHANGED <<row, moved, webhookVars>>
  BY DEF AccountsInv, AccountsTypeOK, LinkInv, FetchUserinfo, UserinfoFails
<1>2. CASE UserinfoFails(r)
  <2>1. Sets(r, Done(q, "refused"))
    BY <1>2 DEF UserinfoFails
  <2> HIDE DEF q
  <2> QED BY <1>1, <2>1, EndStep DEF Ending
<1>3. CASE FetchUserinfo(r)
  <2>1. PICK e \in Asserted[q.who], c \in Claim :
          Sets(r, [q EXCEPT !.pc = "resolve", !.email = e, !.claim = c])
    BY <1>3 DEF FetchUserinfo
  <2>2. e \in Email
    BY <1>1
  <2> DEFINE one == [q EXCEPT !.pc = "resolve"]
             two == [one EXCEPT !.email = e]
             w == [two EXCEPT !.claim = c]
  <2>3. Sets(r, w)
    BY <2>1
  <2> HIDE DEF q
  <2>4. /\ one \in Task /\ one.pc = "resolve" /\ one.by = "login"
        /\ one.who \in Identity /\ one.how = "none"
    <3>1. "resolve" \in Stage
      BY DEF Stage
    <3> HIDE DEF two, w
    <3> QED BY <1>1, <3>1, PlaceFacts
  <2> HIDE DEF one
  <2>5. /\ two \in Task /\ two.pc = "resolve" /\ two.by = "login"
        /\ two.who \in Identity /\ two.how = "none" /\ two.email = e
    BY <2>2, <2>4, EmailFacts
  <2> HIDE DEF two
  <2>6. /\ w \in Task /\ w.pc = "resolve" /\ w.by = "login"
        /\ w.who \in Identity /\ w.how = "none" /\ w.email = e
    BY <2>5, ClaimFacts
  <2> HIDE DEF w
  <2>7. LinkInv(w)
    BY <2>2, <2>6 DEF LinkInv
  <2> QED BY <1>1, <2>3, <2>6, <2>7, LinkStep
<1> QED BY <1>2, <1>3

LEMMA ResolveStep ==
  ASSUME AccountsInv, NEW r \in Request, Resolve(r)
  PROVE  AccountsInv'
<1> DEFINE q == task[r]
           found == row[q.email]
<1>1. /\ q \in Task /\ q.pc = "resolve" /\ q.by = "login"
      /\ q.who \in Identity /\ q.how = "none" /\ q.email \in Email
      /\ UNCHANGED <<row, moved, webhookVars>>
  BY DEF AccountsInv, AccountsTypeOK, LinkInv, Resolve
<1>2. Sets(r, IF ~found.exists
              THEN [q EXCEPT !.pc = "commit", !.mine = found]
              ELSE IF found.idp = q.who THEN Done(q, "known")
              ELSE IF MayLink(q, found)
                   THEN [q EXCEPT !.pc = "owner", !.mine = found]
              ELSE Done(q, "refused"))
  BY DEF Resolve
<1>3. /\ found \in Row
      /\ ~found.exists => found.idp = NoOne
  BY <1>1, RowFacts DEF AccountsInv
<1>4. Owns(q.who, q.email) <=> (found.exists /\ found.idp = q.who)
  BY DEF Owns
<1> HIDE DEF q, found
<1>5. CASE ~found.exists
  <2> DEFINE one == [q EXCEPT !.pc = "commit"]
             w == [one EXCEPT !.mine = found]
  <2>1. Sets(r, w)
    BY <1>2, <1>5
  <2>2. /\ one \in Task /\ one.pc = "commit" /\ one.by = "login"
        /\ one.who = q.who /\ one.email = q.email /\ one.claim = q.claim
        /\ one.how = "none"
    <3>1. "commit" \in Stage
      BY DEF Stage
    <3> HIDE DEF w
    <3> QED BY <1>1, <3>1, PlaceFacts
  <2> HIDE DEF one
  <2>3. /\ w \in Task /\ w.pc = "commit" /\ w.by = "login"
        /\ w.who = q.who /\ w.email = q.email /\ w.mine = found
        /\ w.how = "none"
    BY <1>3, <2>2, MineFacts
  <2> HIDE DEF w
  <2>4. LinkInv(w)
    BY <1>1, <1>3, <1>5, <2>3 DEF LinkInv
  <2> QED BY <1>1, <2>1, <2>3, <2>4, LinkStep
<1>6. CASE found.exists /\ found.idp = q.who
  <2>1. Sets(r, Done(q, "known"))
    BY <1>2, <1>6
  <2> QED BY <1>1, <1>4, <1>6, <2>1, KnownStep
<1>7. CASE found.exists /\ found.idp # q.who /\ MayLink(q, found)
  <2> DEFINE one == [q EXCEPT !.pc = "owner"]
             w == [one EXCEPT !.mine = found]
  <2>1. Sets(r, w)
    BY <1>2, <1>7
  <2>2. /\ one \in Task /\ one.pc = "owner" /\ one.by = "login"
        /\ one.who = q.who /\ one.email = q.email /\ one.claim = q.claim
        /\ one.how = "none"
    <3>1. "owner" \in Stage
      BY DEF Stage
    <3> HIDE DEF w
    <3> QED BY <1>1, <3>1, PlaceFacts
  <2> HIDE DEF one
  <2>3. /\ w \in Task /\ w.pc = "owner" /\ w.by = "login"
        /\ w.who = q.who /\ w.email = q.email /\ w.claim = q.claim
        /\ w.mine = found /\ w.how = "none"
    BY <1>3, <2>2, MineFacts
  <2> HIDE DEF w
  <2>4. MayTake(w) /\ found.idp = NoOne
    BY <1>7, <2>3 DEF MayLink, email_linking_allowed, MayTake, Attested
  <2>5. LinkInv(w)
    BY <1>1, <2>3, <2>4 DEF LinkInv
  <2> QED BY <1>1, <2>1, <2>3, <2>5, LinkStep
<1>8. CASE found.exists /\ found.idp # q.who /\ ~MayLink(q, found)
  <2>1. Sets(r, Done(q, "refused"))
    BY <1>2, <1>8
  <2> QED BY <1>1, <2>1, EndStep DEF Ending
<1> QED BY <1>5, <1>6, <1>7, <1>8

LEMMA LinkCommandStep ==
  ASSUME AccountsInv, NEW r \in Request, NEW i \in Identity, NEW e \in Email,
         NEW dry \in BOOLEAN, LinkCommand(r, i, e, dry)
  PROVE  AccountsInv'
<1>1. /\ UNCHANGED <<row, moved, webhookVars>>
      /\ Sets(r, [NoTask EXCEPT !.pc = "owner", !.by = "command",
                                !.dry = dry, !.who = i, !.email = e,
                                !.mine = row[e]])
  BY DEF LinkCommand
<1> DEFINE one == [NoTask EXCEPT !.pc = "owner"]
           two == [one EXCEPT !.by = "command"]
           three == [two EXCEPT !.dry = dry]
           four == [three EXCEPT !.who = i]
           five == [four EXCEPT !.email = e]
           w == [five EXCEPT !.mine = row[e]]
<1>2. Sets(r, w)
  BY <1>1
<1>3. row[e] \in Row
  BY RowFacts DEF AccountsInv
<1>4. one \in Task /\ one.pc = "owner" /\ one.how = "none"
  BY NoTaskFacts, PlaceFacts DEF Stage
<1> HIDE DEF one
<1>5. /\ two \in Task /\ two.pc = "owner"
      /\ two.by = "command" /\ two.how = "none"
  BY <1>4, ByFacts
<1> HIDE DEF two
<1>6. /\ three \in Task /\ three.pc = "owner" /\ three.by = "command"
      /\ three.how = "none"
  BY <1>5 DEF Task
<1> HIDE DEF three
<1>7. /\ four \in Task /\ four.pc = "owner" /\ four.by = "command"
      /\ four.how = "none" /\ four.who = i
  BY <1>6, WhoFacts
<1> HIDE DEF four
<1>8. /\ five \in Task /\ five.pc = "owner" /\ five.by = "command"
      /\ five.how = "none" /\ five.who = i /\ five.email = e
  BY <1>7, EmailFacts
<1> HIDE DEF five
<1>9. /\ w \in Task /\ w.pc = "owner" /\ w.by = "command"
      /\ w.how = "none" /\ w.who = i /\ w.email = e
  BY <1>3, <1>8, MineFacts
<1> HIDE DEF w
<1>10. LinkInv(w)
  BY <1>9 DEF LinkInv
<1> QED BY <1>1, <1>2, <1>9, <1>10, LinkStep

LEMMA CheckOwnerStep ==
  ASSUME AccountsInv, NEW r \in Request, CheckOwner(r)
  PROVE  AccountsInv'
<1> DEFINE q == task[r]
           elsewhere == \E e \in Email \ {q.email} : Owns(q.who, e)
<1>1. /\ q \in Task /\ q.pc = "owner" /\ q.by \in {"login", "command"}
      /\ q.who \in Identity /\ q.email \in Email /\ q.how = "none"
      /\ q.by = "login" => q.mine.idp = NoOne /\ MayTake(q)
      /\ UNCHANGED <<row, moved, webhookVars>>
  BY DEF AccountsInv, AccountsTypeOK, LinkInv, CheckOwner
<1>2. Sets(r, IF elsewhere THEN Done(q, "refused")
              ELSE IF q.mine.idp = q.who THEN Done(q, "known")
              ELSE IF ~UnlinkedAsRead(q) \/ q.dry THEN Done(q, "refused")
              ELSE [q EXCEPT !.pc = "commit"])
  BY DEF CheckOwner
<1> HIDE DEF q, elsewhere
<1>3. CASE Sets(r, Done(q, "refused"))
  BY <1>1, <1>3, EndStep DEF Ending
<1>4. CASE q.mine.idp = q.who /\ Sets(r, Done(q, "known"))
  <2>1. q.by # "login"
    BY <1>1, <1>4
  <2> QED BY <1>1, <1>4, <2>1, EndStep DEF Ending
<1>5. CASE UnlinkedAsRead(q) /\ Sets(r, [q EXCEPT !.pc = "commit"])
  <2> DEFINE w == [q EXCEPT !.pc = "commit"]
  <2>0. "commit" \in Stage
    BY DEF Stage
  <2>1. /\ w \in Task /\ w.pc = "commit" /\ w.by = q.by /\ w.who = q.who
        /\ w.email = q.email /\ w.claim = q.claim /\ w.mine = q.mine
        /\ w.how = "none"
    BY <1>1, <2>0, PlaceFacts
  <2>2. Sets(r, w)
    BY <1>5
  <2> HIDE DEF w
  <2>3. MayTake(q) => MayTake(w)
    BY <2>1 DEF MayTake, Attested
  <2>4. LinkInv(w)
    BY <1>1, <1>5, <2>1, <2>3 DEF LinkInv, UnlinkedAsRead
  <2> QED BY <1>1, <2>1, <2>2, <2>4, LinkStep
<1> QED BY <1>2, <1>3, <1>4, <1>5

LEMMA ConflictSteps ==
  ASSUME AccountsInv, NEW r \in Request, CommitConflicts(r) \/ ReuseWinner(r)
  PROVE  AccountsInv'
<1> DEFINE q == task[r]
<1>1. /\ q \in Task /\ q.by \in {"login", "command"}
      /\ q.who \in Identity /\ q.email \in Email /\ q.how = "none"
      /\ UNCHANGED <<row, moved, webhookVars>>
  BY DEF AccountsInv, AccountsTypeOK, LinkInv, CommitConflicts, ReuseWinner
<1>2. \/ Sets(r, [q EXCEPT !.pc = "winner"])
      \/ Sets(r, Done(q, "refused")) /\ q.by = "command"
      \/ \E e \in Winner(q) : Sets(r, Done([q EXCEPT !.email = e], "known"))
      \/ Sets(r, Done(q, "refused"))
  BY <1>1 DEF CommitConflicts, ReuseWinner
<1> HIDE DEF q
<1>3. CASE Sets(r, Done(q, "refused"))
  BY <1>1, <1>3, EndStep DEF Ending
<1>4. CASE Sets(r, [q EXCEPT !.pc = "winner"])
  <2> DEFINE w == [q EXCEPT !.pc = "winner"]
  <2>1. /\ w \in Task /\ w.pc = "winner" /\ w.by = q.by /\ w.who = q.who
        /\ w.email = q.email /\ w.how = "none"
    BY <1>1, PlaceFacts DEF Stage
  <2>2. Sets(r, w)
    BY <1>4
  <2> HIDE DEF w
  <2>3. LinkInv(w)
    BY <1>1, <2>1 DEF LinkInv
  <2> QED BY <1>1, <2>1, <2>2, <2>3, LinkStep
<1>5. ASSUME NEW e \in Winner(q),
             Sets(r, Done([q EXCEPT !.email = e], "known"))
      PROVE  AccountsInv'
  <2> DEFINE v == [q EXCEPT !.email = e]
  <2>1. e \in Email /\ Owns(q.who, e)
    BY DEF Winner
  <2>2. v \in Task /\ v.who = q.who /\ v.email = e
    BY <1>1, <2>1, EmailFacts
  <2>3. Sets(r, Done(v, "known"))
    BY <1>5
  <2> HIDE DEF v
  <2> QED BY <1>1, <2>1, <2>2, <2>3, KnownStep
<1> QED BY <1>2, <1>3, <1>4, <1>5

\* Requests for a webhook that only read.
LEMMA PutTokenStep ==
  ASSUME AccountsInv, NEW r \in Request, NEW e \in Email, PutToken(r, e)
  PROVE  AccountsInv'
<1> DEFINE q == [NoTask EXCEPT !.email = e]
<1>1. /\ row[e].exists /\ UNCHANGED <<row, moved, webhookVars>>
      /\ \/ Sets(r, Done(q, "refused"))
         \/ Sets(r, [q EXCEPT !.pc = "renew"])
  BY DEF PutToken
<1>2. q \in Task /\ q.by = "none" /\ q.email = e /\ q.how = "none"
  BY NoTaskFacts, EmailFacts
<1> HIDE DEF q
<1>3. CASE Sets(r, Done(q, "refused"))
  BY <1>1, <1>2, <1>3, EndStep DEF Ending
<1>4. CASE Sets(r, [q EXCEPT !.pc = "renew"])
  <2> DEFINE w == [q EXCEPT !.pc = "renew"]
  <2>1. /\ w \in Task /\ w.pc = "renew" /\ w.by = "none" /\ w.email = e
        /\ w.how = "none"
    BY <1>2, PlaceFacts DEF Stage
  <2>2. Sets(r, w)
    BY <1>4
  <2> HIDE DEF w
  <2>3. HookInv(w)
    BY <1>1, <2>1 DEF HookInv
  <2> QED BY <1>1, <2>1, <2>2, <2>3, HookStep
<1> QED BY <1>1, <1>3, <1>4

LEMMA ReadRowSteps ==
  ASSUME AccountsInv, NEW r \in Request, NEW e \in Email,
         PostWebhook(r, e) \/ RevokeCommand(r, e)
  PROVE  AccountsInv'
<1>1. PICK p \in {"connect", "revoke"} :
        Sets(r, [NoTask EXCEPT !.pc = p, !.email = e, !.mine = row[e]])
  BY DEF PostWebhook, RevokeCommand
<1>2. row[e].exists /\ UNCHANGED <<row, moved, webhookVars>>
  BY DEF PostWebhook, RevokeCommand
<1> DEFINE one == [NoTask EXCEPT !.pc = p]
           two == [one EXCEPT !.email = e]
           w == [two EXCEPT !.mine = row[e]]
<1>3. Sets(r, w)
  BY <1>1
<1>4. row[e] \in Row /\ p \in Stage
  BY RowFacts DEF AccountsInv, Stage
<1>5. one \in Task /\ one.pc = p /\ one.by = "none" /\ one.how = "none"
  BY <1>4, NoTaskFacts, PlaceFacts
<1> HIDE DEF one
<1>6. /\ two \in Task /\ two.pc = p /\ two.by = "none" /\ two.how = "none"
      /\ two.email = e
  BY <1>5, EmailFacts
<1> HIDE DEF two
<1>7. /\ w \in Task /\ w.pc = p /\ w.by = "none" /\ w.how = "none"
      /\ w.email = e /\ w.mine = row[e]
  BY <1>4, <1>6, MineFacts
<1> HIDE DEF w
<1>8. HookInv(w)
  BY <1>2, <1>7 DEF HookInv
<1> QED BY <1>2, <1>3, <1>7, <1>8, HookStep

LEMMA ReuseSecretStep ==
  ASSUME AccountsInv, NEW r \in Request, ReuseSecret(r)
  PROVE  AccountsInv'
<1> DEFINE q == task[r]
           s == row[q.email].secret
<1>1. /\ q \in Task /\ q.pc = "connect" /\ q.by = "none"
      /\ q.email \in Email /\ row[q.email].exists /\ q.how = "none"
      /\ UNCHANGED <<row, moved, webhookVars>>
  BY DEF AccountsInv, AccountsTypeOK, LinkInv, HookInv, ReuseSecret
<1>2. \/ Sets(r, Done(q, "refused"))
      \/ Sets(r, [q EXCEPT !.pc = "install", !.secret = s, !.mine = NoRow])
  BY DEF ReuseSecret
<1>3. s \in Secret /\ s \in 0..MaxSecret
  BY <1>1, RowFacts DEF AccountsInv, ReuseSecret, NoSecret, Secret
<1>4. s = row[q.email].secret
  OBVIOUS
<1> HIDE DEF q, s
<1>5. CASE Sets(r, Done(q, "refused"))
  BY <1>1, <1>5, EndStep DEF Ending
<1>6. CASE Sets(r, [q EXCEPT !.pc = "install", !.secret = s, !.mine = NoRow])
  <2> DEFINE one == [q EXCEPT !.pc = "install"]
             two == [one EXCEPT !.secret = s]
             w == [two EXCEPT !.mine = NoRow]
  <2>1. Sets(r, w)
    BY <1>6
  <2>2. /\ one \in Task /\ one.pc = "install" /\ one.by = "none"
        /\ one.email = q.email /\ one.how = "none"
    BY <1>1, PlaceFacts DEF Stage
  <2> HIDE DEF one
  <2>3. /\ two \in Task /\ two.pc = "install" /\ two.by = "none"
        /\ two.email = q.email /\ two.how = "none" /\ two.secret = s
    BY <1>3, <2>2, SecretFacts
  <2> HIDE DEF two
  <2>4. /\ w \in Task /\ w.pc = "install" /\ w.by = "none"
        /\ w.email = q.email /\ w.how = "none" /\ w.secret = s
    BY <2>3, NewRows, MineFacts
  <2> HIDE DEF w
  <2>5. HookInv(w)
    BY <1>1, <1>3, <1>4, <2>4 DEF HookInv
  <2> QED BY <1>1, <2>1, <2>4, <2>5, HookStep
<1> QED BY <1>2, <1>5, <1>6

LEMMA RevokeFailsStep ==
  ASSUME AccountsInv, NEW r \in Request, RevokeFails(r)
  PROVE  AccountsInv'
<1>1. /\ task[r] \in Task /\ task[r].by = "none"
      /\ Sets(r, Done(task[r], "none"))
      /\ UNCHANGED <<row, moved, webhookVars>>
  BY DEF AccountsInv, AccountsTypeOK, HookInv, RevokeFails
<1> QED BY <1>1, EndStep DEF Ending

-----------------------------------------------------------------------------
(* Steps that change a row                                                 *)

\* The request that makes the step.
LEMMA OwnKeep ==
  ASSUME NEW r \in Request, NEW w \in Task, task'[r] = w,
         LinkInv(w)', HookInv(w)'
  PROVE  (LinkInv(task[r]) /\ HookInv(task[r]))'
<1>1. LinkInv(task[r])'
  BY DEF LinkInv, Owns, MayTake, Attested
<1>2. HookInv(task[r])'
  BY DEF HookInv
<1> QED BY <1>1, <1>2

\* The others.
LEMMA OthersKeep ==
  ASSUME AccountsInv, Rely, NEW u \in Request,
         \/ /\ task'[u] = task[u]
            /\ task[u].pc # "revoke" \/ task[u].overtaken
                 \/ \A e \in Email : e = task[u].email /\ row[e].until = 0
                                    => row'[e].until = 0
         \/ task'[u] = [task[u] EXCEPT !.overtaken = TRUE]
  PROVE  (LinkInv(task[u]) /\ HookInv(task[u]))'
<1>1. task[u] \in Task /\ LinkInv(task[u]) /\ HookInv(task[u])
  BY DEF AccountsInv, AccountsTypeOK
<1>2. PICK q \in Task : q = task[u] /\ LinkInv(q) /\ HookInv(q)
  BY <1>1
<1>3. PICK w \in Task : /\ w = task'[u]
                        /\ w = q \/ w = [q EXCEPT !.overtaken = TRUE]
  BY <1>2, OvertakenFacts
<1>4. w.pc = "revoke" /\ ~w.overtaken /\ row[w.email].until = 0 =>
        row'[w.email].until = 0
  <2>1. CASE task'[u] = [task[u] EXCEPT !.overtaken = TRUE]
    <3>1. w.overtaken = TRUE
      BY <1>2, <1>3, <2>1 DEF Task
    <3> QED BY <3>1
  <2>2. CASE task'[u] = task[u]
             /\ (task[u].pc # "revoke" \/ task[u].overtaken
                   \/ \A e \in Email : e = task[u].email /\ row[e].until = 0
                                      => row'[e].until = 0)
    <3>1. q.pc = "revoke" => q.email \in Email
      BY <1>2 DEF HookInv
    <3> QED BY <1>2, <1>3, <2>2, <3>1
  <2> QED BY <2>1, <2>2
<1>5. LinkInv(w)' /\ HookInv(w)'
  BY <1>2, <1>3, <1>4, RelyKeeps
<1> QED BY <1>3, <1>5, OwnKeep

LEMMA CommitStep ==
  ASSUME AccountsInv, NEW r \in Request, Commit(r)
  PROVE  AccountsInv'
<1> DEFINE q == task[r]
           e == q.email
           how == IF q.mine.exists THEN "linked" ELSE "created"
<1>1. /\ q \in Task /\ q.pc = "commit" /\ q.by \in {"login", "command"}
      /\ q.who \in Identity /\ e \in Email
      /\ q.by = "login" /\ q.mine.exists => MayTake(q)
  BY DEF AccountsInv, AccountsTypeOK, LinkInv, Commit
<1>2. /\ ~Conflict(q) /\ Sets(r, Done(q, how)) /\ UNCHANGED webhookVars
      /\ row' = [row EXCEPT ![e].exists = TRUE, ![e].idp = q.who]
      /\ moved' = moved \cup {d \in {e} : row[d].idp \notin {NoOne, q.who}}
  BY DEF Commit
<1>3. AccountsTypeOK /\ row \in [Email -> Row] /\ task \in [Request -> Task]
      /\ moved \in SUBSET Email
  BY DEF AccountsInv, AccountsTypeOK
<1>4. row[e] \in Row
  BY <1>1, <1>3
<1>5. \A d \in Email : d # e => ~(row[d].exists /\ row[d].idp = q.who)
  BY <1>2 DEF Conflict, Owns
<1>6. PICK w \in Task :
        /\ w = Done(q, how)
        /\ w.pc = "done" /\ w.by = q.by /\ w.who = q.who
        /\ w.email = e /\ w.claim = q.claim /\ w.how = how
  BY <1>1, DoneFacts DEF Ending
<1>7. task' = [task EXCEPT ![r] = w]
  BY <1>2, <1>6 DEF Sets
<1>8. (how = "linked" => q.mine.exists) /\ how # "none"
  OBVIOUS
<1> HIDE DEF how, q, e
<1>9. /\ row' \in [Email -> Row]
      /\ row'[e].exists = TRUE /\ row'[e].idp = q.who
      /\ row'[e].secret = row[e].secret /\ row'[e].until = row[e].until
      /\ \A d \in Email : d # e => row'[d] = row[d]
  <2> DEFINE one == [row[e] EXCEPT !.exists = TRUE]
             new == [one EXCEPT !.idp = q.who]
  <2>1. /\ one \in Row /\ one.exists = TRUE /\ one.secret = row[e].secret
        /\ one.until = row[e].until
    BY <1>4 DEF Row
  <2>2. row' = [row EXCEPT ![e] = new]
    BY <1>1, <1>2, <1>3
  <2> HIDE DEF one
  <2>3. /\ new \in Row /\ new.exists = TRUE /\ new.idp = q.who
        /\ new.secret = row[e].secret /\ new.until = row[e].until
    BY <1>1, <2>1 DEF Row
  <2> HIDE DEF new
  <2> QED BY <1>1, <1>3, <2>2, <2>3, OneRow
<1>10. UNCHANGED <<today, hooks, secrets, deleted, standing>>
  BY <1>2 DEF webhookVars
<1>11. AccountsTypeOK'
  <2>1. \A d \in Email : ~row'[d].exists => row'[d] = NoRow
    BY <1>3, <1>9 DEF AccountsTypeOK
  <2>2. \A d \in Email : d # e => row[d].idp # q.who
    BY <1>1, <1>3, <1>5, RowFacts
  <2>3. \A c, d \in Email :
          row'[c].idp = row'[d].idp => c = d \/ row'[d].idp = NoOne
    BY <1>3, <1>9, <2>2 DEF AccountsTypeOK
  <2>4. task' \in [Request -> Task]
    BY <1>3, <1>6, <1>7
  <2>5. moved' \in SUBSET Email
    BY <1>1, <1>2, <1>3
  <2> QED BY <1>3, <1>9, <1>10, <2>1, <2>3, <2>4, <2>5 DEF AccountsTypeOK
<1>12. SecretInv' /\ WebhookSecrets'
  <2>1. \A d \in Email : /\ row'[d].secret = row[d].secret
                         /\ row'[d].until = row[d].until
    BY <1>9
  <2> QED BY <1>2, <2>1, ColumnsKept
<1>13. Rely
  <2>1. \A d \in Email : row[d].exists => row'[d].exists
    BY <1>9
  <2>2. ASSUME NEW d \in Email, NEW i \in Identity, Owns(i, d)
        PROVE  (row'[d].exists /\ row'[d].idp = i) \/ d \in moved'
    <3>1. CASE d # e
      BY <1>9, <2>2, <3>1 DEF Owns
    <3>2. CASE d = e /\ i = q.who
      BY <1>9, <3>2
    <3>3. CASE d = e /\ i # q.who
      BY <1>2, <2>2, <3>3 DEF Owns
    <3> QED BY <3>1, <3>2, <3>3
  <2>3. \A d \in Email : row'[d].secret = row[d].secret
    BY <1>9
  <2> QED BY <1>2, <1>10, <2>1, <2>2, <2>3 DEF Rely
<1>14. (LinkInv(task[r]) /\ HookInv(task[r]))'
  <2>1. task'[r] = w
    BY <1>3, <1>7
  <2>2. MayTake(q) => MayTake(w)
    BY <1>6 DEF MayTake, Attested
  <2>3. LinkInv(w)'
    BY <1>1, <1>6, <1>8, <1>9, <2>2 DEF LinkInv, Owns, MayTake, Attested
  <2>4. HookInv(w)'
    BY <1>6 DEF HookInv
  <2> QED BY <2>1, <2>3, <2>4, OwnKeep
<1>15. ASSUME NEW u \in Request, u # r
       PROVE  (LinkInv(task[u]) /\ HookInv(task[u]))'
  <2>1. task'[u] = task[u] /\ (\A d \in Email : row'[d].until = row[d].until)
    BY <1>3, <1>7, <1>9, <1>15
  <2> QED BY <1>13, <2>1, OthersKeep
<1> QED BY <1>11, <1>12, <1>14, <1>15 DEF AccountsInv

LEMMA CreateUserStep ==
  ASSUME AccountsInv, NEW e \in Email, CreateUser(e)
  PROVE  AccountsInv'
<1>1. /\ ~row[e].exists /\ row' = [row EXCEPT ![e] = NewRow(NoOne)]
      /\ UNCHANGED <<task, moved, today, hooks, secrets, deleted, standing>>
      /\ UNCHANGED webhookVars
  BY DEF CreateUser, webhookVars
<1>2. AccountsTypeOK /\ row \in [Email -> Row]
  BY DEF AccountsInv, AccountsTypeOK
<1>3. /\ row' \in [Email -> Row] /\ row'[e] = NewRow(NoOne)
      /\ \A d \in Email : d # e => row'[d] = row[d]
  BY <1>1, <1>2, NewRows, OneRow
<1>4. /\ row'[e].exists = TRUE /\ row'[e].idp = NoOne
      /\ row'[e].secret = 0 /\ row'[e].until = 0
  BY <1>3, NewRows
<1>5. row[e].idp = NoOne /\ row[e].secret = 0 /\ row[e].until = 0
  BY <1>1, <1>2, RowFacts
<1>6. AccountsTypeOK'
  <2>1. \A d \in Email : ~row'[d].exists => row'[d] = NoRow
    BY <1>2, <1>3, <1>4 DEF AccountsTypeOK
  <2>2. \A c, d \in Email :
          row'[c].idp = row'[d].idp => c = d \/ row'[d].idp = NoOne
    BY <1>2, <1>3, <1>4, <1>5 DEF AccountsTypeOK
  <2> QED BY <1>1, <1>2, <1>3, <2>1, <2>2 DEF AccountsTypeOK
<1>7. \A d \in Email : /\ row'[d].secret = row[d].secret
                       /\ row'[d].until = row[d].until
  BY <1>3, <1>4, <1>5
<1>8. SecretInv' /\ WebhookSecrets'
  BY <1>1, <1>7, ColumnsKept
<1>9. Rely
  <2>1. \A d \in Email : row[d].exists => row'[d].exists
    BY <1>3, <1>4
  <2>2. \A d \in Email, i \in Identity :
          Owns(i, d) => row'[d].exists /\ row'[d].idp = i
    BY <1>1, <1>3 DEF Owns
  <2> QED BY <1>1, <1>7, <2>1, <2>2 DEF Rely
<1>10. ASSUME NEW u \in Request
       PROVE  (LinkInv(task[u]) /\ HookInv(task[u]))'
  <2>1. task'[u] = task[u]
    BY <1>1
  <2> QED BY <1>7, <1>9, <2>1, OthersKeep
<1> QED BY <1>6, <1>8, <1>10 DEF AccountsInv

\* An authorization gives a row an expiry, and perhaps a new secret.
LEMMA GrantStep ==
  ASSUME AccountsInv, NEW r \in Request, NEW w \in Task, NEW e \in Email,
         NEW s \in 0..MaxSecret,
         w.pc \in {"done", "install"}, w.by = "none", w.how = "none",
         w.pc = "install" => w.email = e /\ w.secret = s /\ s \in Secret,
         row[e].exists,
         \/ s = row[e].secret /\ secrets' = secrets
         \/ /\ row[e].secret = 0 /\ s = secrets + 1
            /\ secrets' = s /\ secrets < MaxSecret,
         row' \in [Email -> Row], row'[e].exists, row'[e].idp = row[e].idp,
         row'[e].secret = s, row'[e].until \in Until,
         \A d \in Email : d # e => row'[d] = row[d],
         task' = Granted(e, [task EXCEPT ![r] = w]),
         standing' = [standing EXCEPT ![e] = "granted"],
         UNCHANGED <<today, hooks, deleted, moved>>
  PROVE  AccountsInv'
<1>1. AccountsTypeOK /\ SecretInv /\ WebhookSecrets
  BY DEF AccountsInv
<1>2. /\ secrets \in Nat /\ secrets <= MaxSecret /\ secrets' \in 0..MaxSecret
      /\ secrets <= secrets' /\ s <= secrets' /\ s \in Nat
  BY <1>1 DEF AccountsTypeOK, SecretInv
<1>3. /\ task' \in [Request -> Task] /\ task'[r] = w
      /\ \A u \in Request \ {r} :
           \/ task'[u] = [task[u] EXCEPT !.overtaken = TRUE]
           \/ /\ task'[u] = task[u]
              /\ task[u].pc # "revoke" \/ task[u].email # e
  <2> DEFINE c == [task EXCEPT ![r] = w]
  <2>1. /\ c \in [Request -> Task] /\ c[r] = w
        /\ \A u \in Request \ {r} : c[u] = task[u]
    BY <1>1 DEF AccountsTypeOK
  <2>2. task' = [u \in Request |-> IF c[u].email = e /\ c[u].pc = "revoke"
                                   THEN [c[u] EXCEPT !.overtaken = TRUE]
                                   ELSE c[u]]
    BY DEF Granted
  <2> HIDE DEF c
  <2>3. \A u \in Request : [c[u] EXCEPT !.overtaken = TRUE] \in Task
    BY <2>1, OvertakenFacts
  <2>4. w.pc # "revoke"
    OBVIOUS
  <2>5. task' \in [Request -> Task]
    BY <2>1, <2>2, <2>3
  <2>6. task'[r] = w
    BY <2>1, <2>2, <2>4
  <2>7. ASSUME NEW u \in Request \ {r}
        PROVE  \/ task'[u] = [task[u] EXCEPT !.overtaken = TRUE]
               \/ /\ task'[u] = task[u]
                  /\ task[u].pc # "revoke" \/ task[u].email # e
    <3>1. task'[u] = IF task[u].email = e /\ task[u].pc = "revoke"
                     THEN [task[u] EXCEPT !.overtaken = TRUE] ELSE task[u]
      <4>1. c[u] = task[u] /\ u \in Request
        BY <2>1
      <4>2. task'[u] = IF c[u].email = e /\ c[u].pc = "revoke"
                       THEN [c[u] EXCEPT !.overtaken = TRUE] ELSE c[u]
        BY <4>1, <2>2, Zenon
      <4> QED BY <4>1, <4>2, Zenon
    <3> QED BY <3>1, Zenon
  <2> QED BY <2>5, <2>6, <2>7, Zenon
<1>4. standing' \in [Email -> {"none", "granted", "revoked"}]
      /\ standing'[e] = "granted"
      /\ \A d \in Email : d # e => standing'[d] = standing[d]
  BY <1>1 DEF AccountsTypeOK
<1>5. AccountsTypeOK'
  <2>1. \A d \in Email : ~row'[d].exists => row'[d] = NoRow
    BY <1>1 DEF AccountsTypeOK
  <2>2. \A c, d \in Email :
          row'[c].idp = row'[d].idp => c = d \/ row'[d].idp = NoOne
    BY <1>1 DEF AccountsTypeOK
  <2> QED BY <1>1, <1>2, <1>3, <1>4, <2>1, <2>2 DEF AccountsTypeOK
<1>6. \A d \in Email : /\ row[d].secret \in Nat /\ row[d].secret <= secrets
                       /\ row[d].secret # 0 => row[d].secret \in Secret
  BY <1>1, RowFacts DEF SecretInv
<1>7. s = row[e].secret \/ (row[e].secret = 0 /\ s = secrets + 1)
  OBVIOUS
<1>8. SecretInv'
  <2>1. deleted' \subseteq 1..secrets'
    BY <1>1, <1>2 DEF SecretInv
  <2>2. \A d \in Email : row'[d].secret <= secrets'
    BY <1>2, <1>6
  <2>3. \A d \in Email : d # e => row[d].secret # s \/ s = 0
    BY <1>1, <1>2, <1>6, <1>7 DEF SecretInv
  <2>4. \A c, d \in Email :
          row'[c].secret = row'[d].secret => c = d \/ row'[d].secret = 0
    <3> SUFFICES ASSUME NEW c \in Email, NEW d \in Email, c # d,
                        row'[c].secret = row'[d].secret
                 PROVE  row'[d].secret = 0
      OBVIOUS
    <3>1. CASE c = e
      BY <2>3, <3>1
    <3>2. CASE d = e
      BY <2>3, <3>2
    <3>3. CASE c # e /\ d # e
      BY <1>1, <3>3 DEF SecretInv
    <3> QED BY <3>1, <3>2, <3>3
  <2> QED BY <2>1, <2>2, <2>4 DEF SecretInv
<1>9. \A d \in Email : row[d].secret # 0 => row'[d].secret = row[d].secret
  BY <1>7
<1>10. WebhookSecrets'
  <2>1. ASSUME NEW h \in hooks
        PROVE  h[2] = row'[h[1]].secret \/ h[2] \in deleted
    <3>1. h[1] \in Email /\ h[2] \in Secret
      BY <1>1 DEF AccountsTypeOK
    <3>2. h[2] # 0
      BY <3>1 DEF Secret
    <3>3. h[2] = row[h[1]].secret \/ h[2] \in deleted
      BY <1>1 DEF WebhookSecrets, HooksCarryTheSecret
    <3> QED BY <1>9, <3>1, <3>2, <3>3
  <2>2. HooksCarryTheSecret'
    BY <2>1 DEF HooksCarryTheSecret
  <2>3. ASSUME NEW d \in Email PROVE row'[d].secret \notin deleted
    <3>1. row[d].secret \notin deleted /\ secrets + 1 \notin deleted
      BY <1>1, <1>2 DEF WebhookSecrets, DeletedStaysDeleted, SecretInv
    <3> QED BY <1>7, <3>1
  <2>4. DeletedStaysDeleted'
    BY <2>3 DEF DeletedStaysDeleted
  <2>5. AuthorizedByGrant'
    BY <1>1, <1>4 DEF WebhookSecrets, AuthorizedByGrant, Expired
  <2> QED BY <2>2, <2>4, <2>5 DEF WebhookSecrets
<1>11. Rely
  <2>1. \A d \in Email, i \in Identity :
          Owns(i, d) => row'[d].exists /\ row'[d].idp = i
    BY DEF Owns
  <2>2. \A d \in Email : row[d].exists => row'[d].exists
    OBVIOUS
  <2>3. \A d \in Email :
          row[d].secret \in Secret => row'[d].secret = row[d].secret
    BY <1>9 DEF Secret
  <2> QED BY <2>1, <2>2, <2>3 DEF Rely
<1>12. (LinkInv(task[r]) /\ HookInv(task[r]))'
  <2>1. LinkInv(w)' /\ HookInv(w)'
    BY DEF LinkInv, HookInv
  <2> QED BY <1>3, <2>1, OwnKeep
<1>13. ASSUME NEW u \in Request, u # r
       PROVE  (LinkInv(task[u]) /\ HookInv(task[u]))'
  <2>1. CASE task'[u] = [task[u] EXCEPT !.overtaken = TRUE]
    BY <1>11, <2>1, OthersKeep
  <2>2. CASE task'[u] = task[u] /\ task[u].pc # "revoke"
    BY <1>11, <2>2, OthersKeep
  <2>3. CASE task'[u] = task[u] /\ task[u].email # e
    <3>1. \A d \in Email : d = task[u].email /\ row[d].until = 0
                             => row'[d].until = 0
      BY <2>3
    <3> QED BY <1>11, <2>3, <3>1, OthersKeep
  <2> QED BY <1>3, <1>13, <2>1, <2>2, <2>3
<1> QED BY <1>5, <1>8, <1>10, <1>12, <1>13 DEF AccountsInv

LEMMA ExpiryType == AccountsTypeOK => Expiry \in Until
BY DEF AccountsTypeOK, Expiry, Until

LEMMA RenewStep ==
  ASSUME AccountsInv, NEW r \in Request, Renew(r)
  PROVE  AccountsInv'
<1> DEFINE e == task[r].email
<1>1. /\ task[r] \in Task /\ task[r].by = "none" /\ e \in Email
      /\ row[e].exists /\ AccountsTypeOK /\ row \in [Email -> Row]
  BY DEF AccountsInv, AccountsTypeOK, HookInv, Renew
<1>2. /\ row' = [row EXCEPT ![e].until = Expiry]
      /\ standing' = [standing EXCEPT ![e] = "granted"]
      /\ task' = Granted(e, [task EXCEPT ![r] = Done(task[r], "none")])
      /\ UNCHANGED <<today, hooks, secrets, deleted, moved>>
  BY DEF Renew
<1>3. PICK w \in Task : /\ w = Done(task[r], "none") /\ w.pc = "done"
                        /\ w.by = "none" /\ w.how = "none"
  BY <1>1, DoneFacts DEF Ending
<1>4. PICK s \in 0..MaxSecret : s = row[e].secret
  BY <1>1, RowFacts
<1>5. PICK d \in Email : d = e
  BY <1>1
<1> HIDE DEF e
<1> DEFINE new == [row[d] EXCEPT !.until = Expiry]
<1>6. row' = [row EXCEPT ![d] = new]
  BY <1>1, <1>2, <1>5
<1>7. /\ new \in Row /\ new.exists = row[d].exists
      /\ new.idp = row[d].idp /\ new.secret = row[d].secret
      /\ new.until = Expiry /\ Expiry \in Until
  BY <1>1, ExpiryType DEF Row
<1> HIDE DEF new
<1>8. /\ row' \in [Email -> Row] /\ row'[d] = new
      /\ \A c \in Email : c # d => row'[c] = row[c]
  BY <1>1, <1>6, <1>7, OneRow
<1>9. task' = Granted(d, [task EXCEPT ![r] = w])
      /\ standing' = [standing EXCEPT ![d] = "granted"]
  BY <1>2, <1>3, <1>5
<1>10. /\ row[d].exists /\ s = row[d].secret /\ secrets' = secrets
       /\ row'[d].exists /\ row'[d].idp = row[d].idp
       /\ row'[d].secret = s /\ row'[d].until \in Until
       /\ UNCHANGED <<today, hooks, deleted, moved>>
  BY <1>1, <1>2, <1>4, <1>5, <1>7, <1>8
<1> QED BY <1>3, <1>8, <1>9, <1>10, GrantStep

LEMMA CreateSecretStep ==
  ASSUME AccountsInv, NEW r \in Request, CreateSecret(r)
  PROVE  AccountsInv'
<1> DEFINE q == task[r]
           e == q.email
<1>1. /\ q \in Task /\ q.by = "none" /\ q.how = "none" /\ e \in Email
      /\ row[e].exists /\ AccountsTypeOK /\ row \in [Email -> Row]
      /\ row[e].secret = 0 /\ secrets < MaxSecret
  BY DEF AccountsInv, AccountsTypeOK, LinkInv, HookInv, CreateSecret, NoSecret
<1>2. /\ secrets' = secrets + 1
      /\ row' = [row EXCEPT ![e].secret = secrets', ![e].until = Expiry]
      /\ standing' = [standing EXCEPT ![e] = "granted"]
      /\ task' = Granted(e, [task EXCEPT ![r] =
                   [q EXCEPT !.pc = "install", !.secret = secrets',
                             !.mine = NoRow]])
      /\ UNCHANGED <<today, hooks, deleted, moved>>
  BY DEF CreateSecret
<1>3. PICK s \in 0..MaxSecret : s = secrets + 1 /\ s \in Secret
  BY <1>1 DEF AccountsTypeOK, Secret
<1>4. PICK d \in Email : d = e
  BY <1>1
<1>5. PICK w \in Task : /\ w = [q EXCEPT !.pc = "install", !.secret = secrets',
                                         !.mine = NoRow]
                        /\ w.pc = "install" /\ w.by = "none"
                        /\ w.how = "none" /\ w.email = e /\ w.secret = s
  <2> DEFINE one == [q EXCEPT !.pc = "install"]
             two == [one EXCEPT !.secret = secrets']
             w == [two EXCEPT !.mine = NoRow]
  <2>1. w = [q EXCEPT !.pc = "install", !.secret = secrets', !.mine = NoRow]
    OBVIOUS
  <2>2. secrets' = s
    BY <1>2, <1>3
  <2> HIDE DEF q, w
  <2>3. /\ one \in Task /\ one.pc = "install" /\ one.by = "none"
        /\ one.how = "none" /\ one.email = q.email
    <3>1. "install" \in Stage
      BY DEF Stage
    <3> QED BY <1>1, <3>1, PlaceFacts
  <2> HIDE DEF one
  <2>4. /\ two \in Task /\ two.pc = "install" /\ two.by = "none"
        /\ two.how = "none" /\ two.email = q.email /\ two.secret = s
    BY <2>2, <2>3, SecretFacts
  <2> HIDE DEF two
  <2>5. /\ w \in Task /\ w.pc = "install" /\ w.by = "none"
        /\ w.how = "none" /\ w.email = q.email /\ w.secret = s
    BY <2>4, NewRows, MineFacts DEF w
  <2> QED BY <2>1, <2>5
<1> HIDE DEF e, q
<1> DEFINE one == [row[d] EXCEPT !.secret = s]
           new == [one EXCEPT !.until = Expiry]
<1>6. row' = [row EXCEPT ![d] = new]
  BY <1>1, <1>2, <1>3, <1>4
<1>7. /\ one \in Row /\ one.exists = row[d].exists /\ one.secret = s
      /\ one.idp = row[d].idp
  BY <1>1 DEF Row
<1> HIDE DEF one
<1>8. /\ new \in Row /\ new.exists = row[d].exists
      /\ new.idp = row[d].idp /\ new.secret = s
      /\ new.until = Expiry /\ Expiry \in Until
  BY <1>1, <1>7, ExpiryType DEF Row
<1> HIDE DEF new
<1>9. /\ row' \in [Email -> Row] /\ row'[d] = new
      /\ \A c \in Email : c # d => row'[c] = row[c]
  BY <1>1, <1>6, <1>8, OneRow
<1>10. task' = Granted(d, [task EXCEPT ![r] = w])
       /\ standing' = [standing EXCEPT ![d] = "granted"]
  BY <1>2, <1>4, <1>5
<1>11. /\ row[d].exists /\ row[d].secret = 0 /\ s = secrets + 1
       /\ secrets' = s /\ secrets < MaxSecret /\ s \in Secret
       /\ row'[d].exists /\ row'[d].idp = row[d].idp
       /\ row'[d].secret = s /\ row'[d].until \in Until
       /\ UNCHANGED <<today, hooks, deleted, moved>>
  BY <1>1, <1>2, <1>3, <1>4, <1>8, <1>9
<1>12. w.pc = "install" /\ w.by = "none" /\ w.how = "none"
       /\ w.email = d /\ w.secret = s
  BY <1>4, <1>5
<1> QED BY <1>3, <1>9, <1>10, <1>11, <1>12, GrantStep

LEMMA InstallStep ==
  ASSUME AccountsInv, NEW r \in Request, Install(r)
  PROVE  AccountsInv'
<1>1. /\ task[r] \in Task /\ task[r].pc = "install" /\ task[r].by = "none"
      /\ task[r].email \in Email /\ task[r].secret \in Secret
      /\ task[r].secret = row[task[r].email].secret
           \/ task[r].secret \in deleted
      /\ task \in [Request -> Task] /\ AccountsTypeOK
  BY DEF AccountsInv, AccountsTypeOK, HookInv, Install
<1>2. /\ hooks' = hooks \cup {<<task[r].email, task[r].secret>>}
           \/ hooks' = hooks
      /\ Sets(r, Done(task[r], "none"))
      /\ UNCHANGED <<today, row, secrets, deleted, moved, standing>>
  BY DEF Install
<1>3. PICK w \in Task : /\ w = Done(task[r], "none") /\ w.pc = "done"
                        /\ w.by = "none"
  BY <1>1, DoneFacts DEF Ending
<1>4. /\ task' = [task EXCEPT ![r] = w] /\ task' \in [Request -> Task]
      /\ task'[r] = w
  BY <1>1, <1>2, <1>3 DEF Sets
<1>5. AccountsTypeOK'
  <2>1. hooks' \in SUBSET (Email \X Secret)
    BY <1>1, <1>2 DEF AccountsTypeOK
  <2> QED BY <1>1, <1>2, <1>4, <2>1 DEF AccountsTypeOK
<1>6. SecretInv'
  BY <1>2 DEF AccountsInv, SecretInv
<1>7. WebhookSecrets'
  <2>1. HooksCarryTheSecret'
    BY <1>1, <1>2 DEF AccountsInv, WebhookSecrets, HooksCarryTheSecret
  <2>2. DeletedStaysDeleted' /\ AuthorizedByGrant'
    BY <1>2 DEF AccountsInv, WebhookSecrets, DeletedStaysDeleted,
                AuthorizedByGrant, Expired
  <2> QED BY <2>1, <2>2 DEF WebhookSecrets
<1>8. Rely
  BY <1>2 DEF Rely, Owns
<1>9. (LinkInv(task[r]) /\ HookInv(task[r]))'
  <2>1. LinkInv(w)' /\ HookInv(w)'
    BY <1>3 DEF LinkInv, HookInv
  <2> QED BY <1>4, <2>1, OwnKeep
<1>10. ASSUME NEW u \in Request, u # r
       PROVE  (LinkInv(task[u]) /\ HookInv(task[u]))'
  <2>1. task'[u] = task[u] /\ \A e \in Email : row'[e].until = row[e].until
    BY <1>1, <1>2, <1>4, <1>10
  <2> QED BY <1>8, <2>1, OthersKeep
<1> QED BY <1>5, <1>6, <1>7, <1>9, <1>10 DEF AccountsInv

\* Columns that the command found empty stay as they are, which without an
\* authorization in between is empty.
LEMMA RevokeStep ==
  ASSUME AccountsInv, NEW r \in Request, NEW delete \in BOOLEAN,
         Revoke(r, delete)
  PROVE  AccountsInv'
<1> DEFINE q == task[r]
           e == q.email
<1>1. /\ q \in Task /\ q.pc = "revoke" /\ q.by = "none" /\ e \in Email
      /\ row[e].exists /\ AccountsTypeOK /\ row \in [Email -> Row]
      /\ (~q.overtaken /\ q.mine.until = 0 => row[e].until = 0)
      /\ task \in [Request -> Task]
  BY DEF AccountsInv, AccountsTypeOK, HookInv, Revoke
<1>2. /\ row' = [row EXCEPT ![e] = Revoked(row[e], q.mine, delete)]
      /\ standing' = [standing EXCEPT ![e] = IF q.overtaken THEN standing[e]
                                             ELSE "revoked"]
      /\ deleted' = IF delete THEN deleted \cup ({row[e].secret} \ {0})
                              ELSE deleted
      /\ Sets(r, Done(q, "none"))
      /\ UNCHANGED <<today, hooks, secrets, moved>>
  BY <1>1 DEF Revoke
<1>3. PICK w \in Task : /\ w = Done(q, "none") /\ w.pc = "done"
                        /\ w.by = "none"
  BY <1>1, DoneFacts DEF Ending
<1>4. /\ task' = [task EXCEPT ![r] = w] /\ task' \in [Request -> Task]
      /\ task'[r] = w
  BY <1>1, <1>2, <1>3 DEF Sets
<1>5. q.mine \in Row /\ row[e] \in Row /\ 0 \in Until /\ 0 \in 0..MaxSecret
  BY <1>1 DEF Task, Until
<1> HIDE DEF q, e
<1>6. /\ row' \in [Email -> Row]
      /\ row'[e].exists = row[e].exists /\ row'[e].idp = row[e].idp
      /\ row'[e].secret = (IF delete THEN 0 ELSE row[e].secret)
      /\ row'[e].until = (IF q.mine.until = 0 THEN row[e].until ELSE 0)
      /\ \A d \in Email : d # e => row'[d] = row[d]
  <2> DEFINE until == IF q.mine.until = 0 THEN row[e].until ELSE 0
             one == [row[e] EXCEPT !.until = until]
             new == [one EXCEPT !.secret = IF delete THEN 0 ELSE row[e].secret]
  <2>1. until \in Until
    BY <1>5 DEF Row
  <2>2. one.secret = row[e].secret
    BY <1>5 DEF Row
  <2>3. Revoked(row[e], q.mine, delete) = new
    BY <2>2 DEF Revoked
  <2> HIDE DEF until
  <2>4. /\ one \in Row /\ one.exists = row[e].exists /\ one.idp = row[e].idp
        /\ one.until = until
    BY <1>5, <2>1 DEF Row
  <2> HIDE DEF one
  <2>5. /\ new \in Row /\ new.exists = row[e].exists /\ new.idp = row[e].idp
        /\ new.secret = (IF delete THEN 0 ELSE row[e].secret)
        /\ new.until = until
    BY <1>5, <2>4 DEF Row
  <2> HIDE DEF new
  <2> QED BY <1>1, <1>2, <2>3, <2>5, OneRow DEF until
<1>7. /\ standing' \in [Email -> {"none", "granted", "revoked"}]
      /\ (q.overtaken => standing'[e] = standing[e])
      /\ \A d \in Email : d # e => standing'[d] = standing[d]
  BY <1>1, <1>2 DEF AccountsTypeOK
<1>8. \A d \in Email : /\ row[d].secret \in Nat
                       /\ row[d].secret # 0 => row[d].secret \in Secret
  BY <1>1, RowFacts
<1>9. SecretInv /\ WebhookSecrets
  BY DEF AccountsInv
<1>10. /\ deleted \subseteq deleted' /\ deleted' \in SUBSET Secret
       /\ deleted' \subseteq deleted \cup ({row[e].secret} \ {0})
       /\ (delete /\ row[e].secret # 0 => row[e].secret \in deleted')
       /\ (~delete => deleted' = deleted)
  BY <1>1, <1>2, <1>8 DEF AccountsTypeOK
<1>11. AccountsTypeOK'
  <2>1. \A d \in Email : ~row'[d].exists => row'[d] = NoRow
    BY <1>1, <1>6 DEF AccountsTypeOK
  <2>2. \A c, d \in Email :
          row'[c].idp = row'[d].idp => c = d \/ row'[d].idp = NoOne
    BY <1>1, <1>6 DEF AccountsTypeOK
  <2> QED BY <1>1, <1>2, <1>4, <1>6, <1>7, <1>10, <2>1, <2>2
          DEF AccountsTypeOK
<1>12. SecretInv'
  <2>1. deleted' \subseteq 1..secrets'
    <3>1. row[e].secret # 0 => row[e].secret \in 1..secrets
      BY <1>1, <1>8, <1>9 DEF SecretInv, AccountsTypeOK
    <3> QED BY <1>2, <1>9, <1>10, <3>1 DEF SecretInv
  <2>2. \A d \in Email : row'[d].secret <= secrets'
    BY <1>1, <1>2, <1>6, <1>9 DEF SecretInv, AccountsTypeOK
  <2>3. \A c, d \in Email :
          row'[c].secret = row'[d].secret => c = d \/ row'[d].secret = 0
    BY <1>1, <1>6, <1>9 DEF SecretInv
  <2> QED BY <2>1, <2>2, <2>3 DEF SecretInv
<1>13. WebhookSecrets'
  <2>1. ASSUME NEW h \in hooks
        PROVE  h[2] = row'[h[1]].secret \/ h[2] \in deleted'
    <3>1. h[1] \in Email /\ h[2] \in Secret /\ h[2] # 0
      BY <1>1 DEF AccountsTypeOK, Secret
    <3>2. h[2] = row[h[1]].secret \/ h[2] \in deleted
      BY <1>9 DEF WebhookSecrets, HooksCarryTheSecret
    <3>3. CASE h[1] = e
      BY <1>6, <1>10, <3>1, <3>2, <3>3
    <3>4. CASE h[1] # e
      BY <1>6, <1>10, <3>1, <3>2, <3>4
    <3> QED BY <3>3, <3>4
  <2>2. HooksCarryTheSecret'
    BY <1>2, <2>1 DEF HooksCarryTheSecret
  <2>3. ASSUME NEW d \in Email PROVE row'[d].secret \notin deleted'
    <3>1. row[d].secret \notin deleted /\ 0 \notin deleted
      BY <1>1, <1>9 DEF WebhookSecrets, DeletedStaysDeleted, AccountsTypeOK,
                        Secret
    <3>2. CASE d = e
      BY <1>6, <1>10, <3>1, <3>2
    <3>3. CASE d # e
      <4>1. row'[d].secret = row[d].secret
        BY <1>6, <3>3
      <4>2. row[d].secret = row[e].secret => row[e].secret = 0
        BY <1>1, <1>9, <3>3 DEF SecretInv
      <4> QED BY <1>10, <3>1, <4>1, <4>2
    <3> QED BY <3>2, <3>3
  <2>4. DeletedStaysDeleted'
    BY <2>3 DEF DeletedStaysDeleted
  <2>5. ASSUME NEW d \in Email, row'[d].secret # 0,
               ~(row'[d].until <= today)
        PROVE  standing'[d] = "granted"
    <3>1. row[d].secret # 0 /\ ~(row[d].until <= today) =>
            standing[d] = "granted"
      BY <1>9 DEF WebhookSecrets, AuthorizedByGrant, Expired
    <3>2. CASE d # e
      BY <1>6, <1>7, <2>5, <3>1, <3>2
    <3>3. CASE d = e
      <4>1. 0 <= today
        BY <1>1 DEF AccountsTypeOK
      <4>2. q.mine.until = 0 /\ row'[e].until = row[e].until
            /\ row[e].secret # 0
        BY <1>6, <2>5, <3>3, <4>1
      <4>3. row[e].until # 0
        BY <2>5, <3>3, <4>1, <4>2
      <4>4. q.overtaken
        BY <1>1, <4>2, <4>3
      <4> QED BY <1>7, <2>5, <3>1, <3>3, <4>2, <4>4
    <3> QED BY <3>2, <3>3
  <2>6. AuthorizedByGrant'
    BY <1>2, <2>5 DEF AuthorizedByGrant, Expired
  <2> QED BY <2>2, <2>4, <2>6 DEF WebhookSecrets
<1>14. Rely
  <2>1. \A d \in Email, i \in Identity :
          Owns(i, d) => row'[d].exists /\ row'[d].idp = i
    BY <1>6 DEF Owns
  <2>2. \A d \in Email : row[d].exists => row'[d].exists
    BY <1>6
  <2>3. \A d \in Email :
          row[d].secret \in Secret =>
            row'[d].secret = row[d].secret \/ row[d].secret \in deleted'
    BY <1>6, <1>10 DEF Secret
  <2> QED BY <1>2, <1>10, <2>1, <2>2, <2>3 DEF Rely
<1>15. (LinkInv(task[r]) /\ HookInv(task[r]))'
  <2>1. LinkInv(w)' /\ HookInv(w)'
    BY <1>3 DEF LinkInv, HookInv
  <2> QED BY <1>4, <2>1, OwnKeep
<1>16. ASSUME NEW u \in Request, u # r
       PROVE  (LinkInv(task[u]) /\ HookInv(task[u]))'
  <2>1. task'[u] = task[u]
    BY <1>1, <1>4, <1>16
  <2>2. \A d \in Email : row[d].until = 0 => row'[d].until = 0
    BY <1>6
  <2> QED BY <1>14, <2>1, <2>2, OthersKeep
<1> QED BY <1>11, <1>12, <1>13, <1>15, <1>16 DEF AccountsInv

\* Hooks disappear, and expiries pass.
LEMMA WorldSteps ==
  ASSUME AccountsInv, DeleteWebhook \/ DayPasses
  PROVE  AccountsInv'
<1>1. /\ UNCHANGED <<row, secrets, task, deleted, moved, standing>>
      /\ hooks' \subseteq hooks
      /\ \/ today' = today
         \/ today < LastDay /\ today' = today + 1
  BY DEF DeleteWebhook, DayPasses
<1>2. AccountsTypeOK /\ WebhookSecrets /\ SecretInv
  BY DEF AccountsInv
<1>3. /\ today' \in 1..LastDay /\ today \in Nat /\ today' \in Nat
      /\ today <= today'
  BY <1>1, <1>2 DEF AccountsTypeOK
<1>4. AccountsTypeOK'
  BY <1>1, <1>2, <1>3 DEF AccountsTypeOK
<1>5. SecretInv'
  BY <1>1, <1>2 DEF SecretInv
<1>6. \A e \in Email : row[e].until \in Nat
  BY <1>2, RowFacts DEF Until
<1>7. WebhookSecrets'
  <2>1. HooksCarryTheSecret' /\ DeletedStaysDeleted'
    BY <1>1, <1>2
       DEF WebhookSecrets, HooksCarryTheSecret, DeletedStaysDeleted
  <2>2. AuthorizedByGrant'
    BY <1>1, <1>2, <1>3, <1>6 DEF WebhookSecrets, AuthorizedByGrant, Expired
  <2> QED BY <2>1, <2>2 DEF WebhookSecrets
<1>8. Rely
  BY <1>1 DEF Rely, Owns
<1>9. ASSUME NEW u \in Request
      PROVE  (LinkInv(task[u]) /\ HookInv(task[u]))'
  BY <1>1, <1>8, OthersKeep
<1> QED BY <1>4, <1>5, <1>7, <1>9 DEF AccountsInv

-----------------------------------------------------------------------------
LEMMA Starts == AccountsInit => AccountsInv
<1> SUFFICES ASSUME AccountsInit PROVE AccountsInv
  OBVIOUS
<1> USE DEF AccountsInit
<1>1. ASSUME NEW e \in Email
      PROVE  /\ row[e] \in Row /\ row[e].idp = NoOne /\ row[e].secret = 0
             /\ row[e].until = 0 /\ ~row[e].exists => row[e] = NoRow
  BY NewRows
<1>2. row \in [Email -> Row]
  BY NewRows
<1>3. \A r \in Request : task[r] = NoTask
  OBVIOUS
<1>4. AccountsTypeOK
  <2>1. task \in [Request -> Task]
    BY NoTaskFacts
  <2>2. 1 \in 1..LastDay /\ 0 \in 0..MaxSecret
    OBVIOUS
  <2>3. \A e \in Email : ~row[e].exists => row[e] = NoRow
    BY NewRows
  <2>4. \A d, e \in Email :
          row[d].idp = row[e].idp => d = e \/ row[e].idp = NoOne
    BY <1>1
  <2>5. standing \in [Email -> {"none", "granted", "revoked"}]
    OBVIOUS
  <2> QED BY <1>2, <2>1, <2>2, <2>3, <2>4, <2>5 DEF AccountsTypeOK
<1>5. SecretInv
  BY <1>1 DEF SecretInv
<1>6. WebhookSecrets
  BY <1>1 DEF WebhookSecrets, HooksCarryTheSecret, DeletedStaysDeleted,
              AuthorizedByGrant
<1>7. LinkInv(NoTask) /\ HookInv(NoTask)
  BY NoTaskFacts DEF LinkInv, HookInv
<1> QED BY <1>3, <1>4, <1>5, <1>6, <1>7 DEF AccountsInv

LEMMA Stutters == ASSUME AccountsInv, UNCHANGED accountsVars PROVE AccountsInv'
<1>1. UNCHANGED <<today, row, hooks, secrets, task, deleted, moved, standing>>
  BY DEF accountsVars
<1>2. AccountsTypeOK'
  BY <1>1 DEF AccountsInv, AccountsTypeOK
<1>3. SecretInv' /\ WebhookSecrets'
  BY <1>1, ColumnsKept DEF webhookVars
<1>4. Rely
  BY <1>1 DEF Rely, Owns
<1>5. ASSUME NEW u \in Request
      PROVE  (LinkInv(task[u]) /\ HookInv(task[u]))'
  BY <1>1, <1>4, OthersKeep
<1> QED BY <1>2, <1>3, <1>5 DEF AccountsInv

LEMMA Steps ==
  ASSUME AccountsInv, [AccountsNext]_accountsVars PROVE AccountsInv'
<1>1. CASE UNCHANGED accountsVars
  BY <1>1, Stutters
<1>2. CASE Links
  <2>1. ASSUME NEW r \in Request, NEW i \in Identity, SignIn(r, i)
        PROVE  AccountsInv'
    BY <2>1, SignInStep
  <2>2. ASSUME NEW r \in Request, NEW i \in Identity, NEW e \in Email,
               NEW dry \in BOOLEAN, LinkCommand(r, i, e, dry)
        PROVE  AccountsInv'
    BY <2>2, LinkCommandStep
  <2>3. ASSUME NEW r \in Request,
               \/ FetchUserinfo(r) \/ UserinfoFails(r) \/ Resolve(r)
               \/ CheckOwner(r) \/ Commit(r) \/ CommitConflicts(r)
               \/ ReuseWinner(r)
        PROVE  AccountsInv'
    BY <2>3, UserinfoSteps, ResolveStep, CheckOwnerStep, CommitStep,
       ConflictSteps
  <2>4. ASSUME NEW e \in Email, CreateUser(e) PROVE AccountsInv'
    BY <2>4, CreateUserStep
  <2> QED BY <1>2, <2>1, <2>2, <2>3, <2>4 DEF Links
<1>3. CASE Webhooks
  <2>1. ASSUME NEW r \in Request, NEW e \in Email,
               PutToken(r, e) \/ PostWebhook(r, e) \/ RevokeCommand(r, e)
        PROVE  AccountsInv'
    BY <2>1, PutTokenStep, ReadRowSteps
  <2>2. ASSUME NEW r \in Request,
               \/ Renew(r) \/ CreateSecret(r) \/ ReuseSecret(r)
               \/ Install(r) \/ RevokeFails(r)
        PROVE  AccountsInv'
    BY <2>2, RenewStep, CreateSecretStep, ReuseSecretStep, InstallStep,
       RevokeFailsStep
  <2>3. ASSUME NEW r \in Request, NEW delete \in BOOLEAN, Revoke(r, delete)
        PROVE  AccountsInv'
    BY <2>3, RevokeStep
  <2>4. CASE DeleteWebhook \/ DayPasses
    BY <2>4, WorldSteps
  <2> QED BY <1>3, <2>1, <2>2, <2>3, <2>4 DEF Webhooks
<1> QED BY <1>1, <1>2, <1>3 DEF AccountsNext

LEMMA AccountsInvariance == AccountsSpec => []AccountsInv
<1>1. AccountsInv /\ [AccountsNext]_accountsVars => AccountsInv'
  BY Steps
<1> QED BY <1>1, Starts, PTL DEF AccountsSpec

-----------------------------------------------------------------------------
(* The theorems                                                            *)

\* Rows are well formed and no identity is linked to two accounts.
THEOREM AccountsTypeCorrect == AccountsSpec => []AccountsTypeOK
<1>1. AccountsInv => AccountsTypeOK
  BY DEF AccountsInv
<1> QED BY <1>1, AccountsInvariance, PTL

\* A login acts for the account of its identity, whoever has raced for it, and
\* takes an account over by its email only with a claim that is good for it.
THEOREM LoginActsForItsOwner == AccountsSpec => []SignedInAsOwner
<1>1. AccountsInv => SignedInAsOwner
  BY DEF AccountsInv, LinkInv, MayTake, SignedInAsOwner
<1> QED BY <1>1, AccountsInvariance, PTL

\* Enabling, renewal and revocation may interleave: hooks carry the secret of
\* their account, deleted secrets stay deleted, and only an authorization later
\* than the revocations that read the row lets GitLab's events in.
THEOREM SecretsKeepTheirPromise == AccountsSpec => []WebhookSecrets
<1>1. AccountsInv => WebhookSecrets
  BY DEF AccountsInv
<1> QED BY <1>1, AccountsInvariance, PTL

\* A link is only ever overwritten by a request that had read the account
\* while it was not linked (link_user_identity and _link_existing_user).
THEOREM LinksMoveInRacesOnly == AccountsSpec => LinkMovesOnlyInRace
<1>1. ASSUME AccountsInv, [AccountsNext]_accountsVars, NEW e \in Email,
             row[e].idp # NoOne, row'[e].idp # row[e].idp
      PROVE  \E r \in Request : /\ task[r].pc = "commit" /\ task[r].email = e
                                /\ task[r].mine.exists
                                /\ task[r].mine.idp = NoOne
  <2> USE <1>1
  <2>1. AccountsTypeOK /\ row \in [Email -> Row] /\ row[e].exists
    BY RowFacts DEF AccountsInv, AccountsTypeOK
  <2>2. ASSUME NEW d \in Email, NEW new,
               row' = [row EXCEPT ![d] = new], new.idp = row[d].idp
        PROVE  FALSE
    BY <2>1, <2>2
  <2>3. \E r \in Request : Commit(r)
    <3>1. row' # row
      OBVIOUS
    <3>2. ~\E d \in Email : CreateUser(d)
      BY <2>1, NewRows DEF CreateUser
    <3>3. ASSUME NEW r \in Request, Renew(r) PROVE FALSE
      <4> DEFINE d == task[r].email
                 new == [row[d] EXCEPT !.until = Expiry]
      <4>1. d \in Email /\ row' = [row EXCEPT ![d].until = Expiry]
        BY <3>3 DEF Renew, AccountsInv, HookInv
      <4>2. row' = [row EXCEPT ![d] = new] /\ new.idp = row[d].idp
        BY <2>1, <4>1 DEF Row
      <4> QED BY <2>2, <4>1, <4>2
    <3>4. ASSUME NEW r \in Request, CreateSecret(r) PROVE FALSE
      <4> DEFINE d == task[r].email
                 one == [row[d] EXCEPT !.secret = secrets']
                 two == [one EXCEPT !.until = Expiry]
      <4>1. /\ d \in Email
            /\ row' = [row EXCEPT ![d].secret = secrets', ![d].until = Expiry]
        BY <3>4 DEF CreateSecret, AccountsInv, HookInv
      <4>2. row' = [row EXCEPT ![d] = two] /\ two.idp = row[d].idp
        BY <2>1, <4>1 DEF Row
      <4> QED BY <2>2, <4>1, <4>2
    <3>5. ASSUME NEW r \in Request, NEW delete \in BOOLEAN, Revoke(r, delete)
          PROVE  FALSE
      <4> DEFINE d == task[r].email
                 new == Revoked(row[d], task[r].mine, delete)
      <4>1. d \in Email /\ row' = [row EXCEPT ![d] = new]
        BY <3>5 DEF Revoke, AccountsInv, HookInv
      <4>2. new.idp = row[d].idp
        BY <2>1, <4>1 DEF Row, Revoked
      <4> QED BY <2>2, <4>1, <4>2
    <3> QED BY <3>1, <3>2, <3>3, <3>4, <3>5
         DEF AccountsNext, accountsVars, Links, Webhooks, SignIn, LinkCommand,
             FetchUserinfo, UserinfoFails, Resolve, CheckOwner,
             CommitConflicts, ReuseWinner, PutToken, PostWebhook,
             RevokeCommand, ReuseSecret, Install, RevokeFails, DeleteWebhook,
             DayPasses
  <2>4. PICK r \in Request : Commit(r)
    BY <2>3
  <2>5. /\ task[r].pc = "commit" /\ ~Conflict(task[r])
        /\ row' = [row EXCEPT ![task[r].email].exists = TRUE,
                              ![task[r].email].idp = task[r].who]
    BY <2>4 DEF Commit
  <2>6. task[r].email = e
    BY <2>1, <2>5
  <2>7. task[r].mine.exists
    BY <2>1, <2>5, <2>6 DEF Conflict
  <2>8. task[r].mine.idp = NoOne
    BY <2>5 DEF AccountsInv, LinkInv
  <2> QED BY <2>5, <2>6, <2>7, <2>8
<1>2. ASSUME AccountsInv, [AccountsNext]_accountsVars
      PROVE  [\A e \in Email :
                row[e].idp # NoOne /\ row'[e].idp # row[e].idp =>
                  \E r \in Request :
                    /\ task[r].pc = "commit" /\ task[r].email = e
                    /\ task[r].mine.exists
                    /\ task[r].mine.idp = NoOne]_accountsVars
  BY <1>1, <1>2
<1> QED BY <1>2, AccountsInvariance, PTL DEF LinkMovesOnlyInRace, AccountsSpec

-----------------------------------------------------------------------------
(* The composition                                                         *)

HIDE AccountsAssumption

\* What is not in focus stands still, and what is takes steps of its own
\* specification.
LEMMA IdentitySteps ==
  ASSUME [IdentityNext]_allVars
  PROVE  [Next]_vars /\ [DiscoveryNext]_callVars /\ [AccountsNext]_accountsVars
<1>1. CASE UNCHANGED allVars
  BY <1>1 DEF allVars, keyVars
<1>2. CASE focus = "keys" /\ Next /\ UNCHANGED <<callVars, accountsVars>>
  BY <1>2
<1>3. CASE focus = "discovery" /\ DiscoveryNext
           /\ UNCHANGED <<keyVars, accountsVars>>
  BY <1>3 DEF keyVars
<1>4. CASE (Links \/ Webhooks) /\ UNCHANGED <<keyVars, callVars>>
  BY <1>4 DEF keyVars, AccountsNext
<1> QED BY <1>1, <1>2, <1>3, <1>4 DEF IdentityNext

\* Every behaviour that the run checks is one of the issuer's keys, one of its
\* discovery document and one of the accounts: what is proved above of each of
\* them holds of the run.
THEOREM IdentityImplements ==
  IdentitySpec => Spec /\ DiscoverySpec /\ AccountsSpec
<1>1. IdentityInit => Init /\ DiscoveryInit /\ AccountsInit
  BY DEF IdentityInit
<1>2. [IdentityNext]_allVars =>
        [Next]_vars /\ [DiscoveryNext]_callVars /\ [AccountsNext]_accountsVars
  BY IdentitySteps
<1> QED BY <1>1, <1>2, PTL DEF IdentitySpec, Spec, DiscoverySpec, AccountsSpec

\* The two caches and the accounts stay well formed: fetched documents are
\* valid, the table of unknown keys within its limit, and no identity is linked
\* to two accounts.
THEOREM IdentityTypeCorrect == IdentitySpec => []IdentityTypeOK
<1>1. TypeOK /\ DiscoveryTypeOK /\ AccountsTypeOK => IdentityTypeOK
  BY DEF IdentityTypeOK
<1> QED BY <1>1, IdentityImplements, KeyCacheTypeCorrect, DiscoveryTypeCorrect,
           AccountsTypeCorrect, PTL
=============================================================================
