------------------------------ MODULE KeyCache ------------------------------
(***************************************************************************)
(* JWKSCache of auth/tokens: the cached signing keys of the issuer, shared *)
(* by the threads of one worker.                                           *)
(*                                                                         *)
(* One thread at a time fetches the keys, outside of the mutex; the others *)
(* are served the cached set while that is within its grace, or wait.  A   *)
(* token whose key is not cached gets one guarded refresh; what remains    *)
(* unknown is remembered for a while.  Every section that holds the mutex  *)
(* is one step.                                                            *)
(*                                                                         *)
(* A set of keys is the set of their ids.  The issuer adds keys and keeps  *)
(* the old ones.  The clock starts at 1, because the code uses the time 0  *)
(* for never.                                                              *)
(***************************************************************************)
EXTENDS Integers, FiniteSets

CONSTANTS
  Thread,       \* threads that validate tokens, one after another
  Kid,          \* ids of the keys the issuer publishes sooner or later
  NoKid,        \* the key id of a token without one
  TTL,          \* jwks_ttl
  StaleGrace,   \* jwks_stale_grace
  Interval,     \* _MIN_UNKNOWN_KID_REFRESH_INTERVAL, also the failure backoff
  UnknownTTL,   \* _UNKNOWN_KID_TTL
  MaxUnknown,   \* _MAX_UNKNOWN_KIDS
  WaitTimeout,  \* refresh_wait_timeout
  MaxTime       \* bound on the clock

ASSUME KeyCacheAssumption ==
  /\ NoKid \notin Kid
  /\ IsFiniteSet(Kid)
  /\ TTL \in Nat \ {0} /\ StaleGrace \in Nat /\ Interval \in Nat \ {0}
  /\ UnknownTTL \in Nat \ {0} /\ MaxUnknown \in Nat \ {0}
  /\ WaitTimeout \in Nat \ {0} /\ MaxTime \in Nat \ {0}

VARIABLES
  now,           \* time.monotonic()
  published,     \* the ids of the keys the issuer serves
  cache,         \* _key_set, _known_kids and _fetched_at
  refreshing,    \* _refresh_in_progress
  failedAt,      \* _refresh_failed_at
  permanent,     \* _permanent_error is set
  unknown,       \* _unknown_kids: when the entry expires, 0 without one
  lastUnknown,   \* _last_unknown_kid_refresh
  req,           \* req[t]: the local state of the validation thread t runs
  \* history
  misconfigured  \* the last attempt found a permanent misconfiguration

cacheVars == <<cache, refreshing, failedAt, permanent, unknown, lastUnknown,
               misconfigured>>
vars == <<now, published, cache, refreshing, failedAt, permanent, unknown,
          lastUnknown, req, misconfigured>>

Time == 1..MaxTime
TimeOrNever == 0..MaxTime
KeySet == [kids : SUBSET Kid, at : TimeOrNever]
NoKeys == [kids |-> {}, at |-> 0]   \* an empty JWKS is refused, never stored

Place == {"idle", "lookup", "refresh", "fetching", "storing", "waiting",
          "inspect", "note", "done"}
\* Keys, 401, 503 and 500.  An unknown key in a healthy backoff counts as 503,
\* as browser sessions get it.
Result == {"none", "keys", "invalid", "unavailable", "error"}

\* Variables of the code: `wasStale` is was_stale and had_cached_keys, `forced`
\* is require_fresh, `got` is the key set in hand and `response` the one just
\* fetched.  The last four are history: when the validation began, was its key
\* published but not in stale keys (`legit`); were the cached keys beyond their grace
\* (`expired`), or not fresh after a permanent error (`barred`, until another
\* attempt ends); has a fetch succeeded since (`renewed`).
Validation ==
  [pc : Place, kid : Kid \cup {NoKid}, wasStale : BOOLEAN, forced : BOOLEAN,
   deadline : 0..(MaxTime + WaitTimeout), got : SUBSET Kid,
   response : SUBSET Kid, result : Result, legit : BOOLEAN,
   expired : BOOLEAN, barred : BOOLEAN, renewed : BOOLEAN]

Idle == [pc |-> "idle", kid |-> NoKid, wasStale |-> FALSE, forced |-> FALSE,
         deadline |-> 0, got |-> {}, response |-> {}, result |-> "none",
         legit |-> FALSE, expired |-> FALSE, barred |-> FALSE,
         renewed |-> FALSE]

Init ==
  /\ now = 1
  /\ published \in (SUBSET Kid) \ {{}}
  /\ cache = NoKeys
  /\ refreshing = FALSE /\ failedAt = 0 /\ permanent = FALSE
  /\ unknown = [k \in Kid |-> 0] /\ lastUnknown = 0
  /\ req = [t \in Thread |-> Idle]
  /\ misconfigured = FALSE

-----------------------------------------------------------------------------
(* What the mutex protects                                                 *)

HasKeys == cache # NoKeys
Fresh == HasKeys /\ now - cache.at < TTL

\* _cached_keys_are_usable: fails closed at the exact boundary.
UsableAtBoundary == HasKeys /\ now - cache.at <= TTL + StaleGrace
Usable == HasKeys /\ now - cache.at < TTL + StaleGrace

IsKnown(v) == v.kid \in cache.kids \cup {NoKid}

SmallerOf(a, b) == IF a <= b THEN a ELSE b
Backoff == failedAt # 0 /\ now - failedAt < SmallerOf(Interval, TTL)

\* How validation v continues: with an error, with a key set that _refresh or
\* get_key_set returned, or by answering the key set in hand.
Raise(v, why) == [Idle EXCEPT !.pc = "done", !.result = why]
Answer(v) ==
  [Raise(v, "keys") EXCEPT !.forced = v.forced, !.expired = v.expired,
                           !.barred = v.barred, !.renewed = v.renewed]
Returned(v, keys) ==
  [v EXCEPT !.pc = IF v.forced THEN "note" ELSE "inspect", !.got = keys.kids,
            !.response = {}, !.deadline = 0]

\* _serve_stale_or_raise, where no permanent error is remembered.
ServeStale(v) ==
  IF Usable THEN Returned(v, cache) ELSE Raise(v, "unavailable")

Goes(t, v) == req' = [req EXCEPT ![t] = v]

-----------------------------------------------------------------------------
(* A validation begins                                                     *)

Arrival(kid) ==
  [Idle EXCEPT !.kid = kid, !.wasStale = HasKeys /\ ~Fresh,
               !.legit = HasKeys /\ ~Fresh /\ kid \in published \ cache.kids,
               !.expired = ~(HasKeys /\ now < cache.at + TTL + StaleGrace),
               !.barred = misconfigured /\ ~Fresh]

\* get_key_set_for_kid, the first section.
Begin(t, kid) ==
  /\ req[t].pc \in {"idle", "done"}
  /\ Goes(t, [Arrival(kid) EXCEPT !.pc = "lookup"])
  /\ UNCHANGED <<now, published, cacheVars>>

\* get_cached_key_set_for_local_kid, for allow_remote=False: all in one section.
ValidateLocally(t, kid) ==
  /\ req[t].pc \in {"idle", "done"}
  /\ LET v == Arrival(kid)
     IN Goes(t, IF Fresh /\ IsKnown(v) THEN Answer(v)
                                       ELSE Raise(v, "invalid"))
  /\ UNCHANGED <<now, published, cacheVars>>

\* get_key_set.
Lookup(t) ==
  /\ req[t].pc = "lookup"
  /\ Goes(t, IF Fresh THEN Returned(req[t], cache)
                      ELSE [req[t] EXCEPT !.pc = "refresh"])
  /\ UNCHANGED <<now, published, cacheVars>>

-----------------------------------------------------------------------------
(* _refresh                                                                *)

\* _await_in_progress_refresh up to the wait: another thread is fetching.
MayReuseAnyway(v) == Usable
MayReuse(v) == ~v.forced /\ Usable
JoinRefreshStale(t) ==
  /\ req[t].pc = "refresh" /\ refreshing
  /\ LET v == req[t]
     IN Goes(t, IF MayReuse(v) THEN Returned(v, cache)
                ELSE IF permanent THEN Raise(v, "error")
                ELSE [v EXCEPT !.pc = "waiting",
                               !.deadline = now + WaitTimeout])
  /\ UNCHANGED <<now, published, cacheVars>>
JoinRefresh(t) ==
  /\ req[t].pc = "refresh" /\ refreshing
  /\ LET v == req[t]
     IN Goes(t, IF permanent THEN Raise(v, "error")
                ELSE IF MayReuse(v) THEN Returned(v, cache)
                ELSE [v EXCEPT !.pc = "waiting",
                               !.deadline = now + WaitTimeout])
  /\ UNCHANGED <<now, published, cacheVars>>

\* The last attempt failed a moment ago: no new one.
RefreshBackoff(t) ==
  /\ req[t].pc = "refresh" /\ ~refreshing /\ Backoff
  /\ LET v == req[t]
     IN Goes(t, IF permanent THEN Raise(v, "error")
                ELSE IF v.forced \/ ~HasKeys THEN Raise(v, "unavailable")
                ELSE ServeStale(v))
  /\ UNCHANGED <<now, published, cacheVars>>

StartRefresh(t) ==
  /\ req[t].pc = "refresh" /\ ~refreshing /\ ~Backoff
  /\ refreshing' = TRUE
  /\ Goes(t, [req[t] EXCEPT !.pc = "fetching"])
  /\ UNCHANGED <<now, published, cache, failedAt, permanent, unknown,
                 lastUnknown, misconfigured>>

\* _fetch: the issuer answers with the keys it has now.
IssuerAnswers(t) ==
  /\ req[t].pc = "fetching"
  /\ Goes(t, [req[t] EXCEPT !.pc = "storing", !.response = published])
  /\ UNCHANGED <<now, published, cacheVars>>

\* _fetch raises, and _refresh records it.  A permanent verdict is remembered
\* until the next attempt ends, whichever way.
Unbarred(r) == [u \in Thread |-> [r[u] EXCEPT !.barred = FALSE]]

FetchMisconfigured(t) ==
  /\ req[t].pc = "fetching"
  /\ failedAt' = now /\ permanent' = TRUE /\ misconfigured' = TRUE
  /\ refreshing' = FALSE
  /\ Goes(t, Raise(req[t], "error"))
  /\ UNCHANGED <<now, published, cache, unknown, lastUnknown>>

\* The issuer is unreachable, or its JWKS is malformed or empty.
FetchFails(t) ==
  /\ req[t].pc = "fetching"
  /\ failedAt' = now /\ permanent' = FALSE /\ misconfigured' = FALSE
  /\ refreshing' = FALSE
  /\ LET v == req[t]
         w == IF v.forced \/ ~HasKeys THEN Raise(v, "unavailable")
                                      ELSE ServeStale(v)
     IN req' = Unbarred([req EXCEPT ![t] = w])
  /\ UNCHANGED <<now, published, cache, unknown, lastUnknown>>

\* An exception of no expected family.
FetchRaisesOtherKeepsMark(t) ==
  /\ req[t].pc = "fetching"
  /\ req' = [req EXCEPT ![t] = Raise(req[t], "error")]
  /\ UNCHANGED <<now, published, cacheVars>>
FetchRaisesOther(t) ==
  /\ req[t].pc = "fetching"
  /\ failedAt' = now /\ permanent' = FALSE /\ misconfigured' = FALSE
  /\ refreshing' = FALSE
  /\ req' = Unbarred([req EXCEPT ![t] = Raise(req[t], "error")])
  /\ UNCHANGED <<now, published, cache, unknown, lastUnknown>>

\* The generation check always succeeds: nobody else has fetched meanwhile.
StoreKeys(t) ==
  /\ req[t].pc = "storing"
  /\ cache' = [kids |-> req[t].response, at |-> now]
  /\ failedAt' = 0 /\ permanent' = FALSE /\ misconfigured' = FALSE
  /\ refreshing' = FALSE
  /\ LET r == [req EXCEPT ![t] = Returned(req[t], cache')]
     IN req' = [u \in Thread |->
                  [r[u] EXCEPT !.barred = FALSE, !.renewed = TRUE]]
  /\ UNCHANGED <<now, published, unknown, lastUnknown>>

\* _await_in_progress_refresh after the wait, which ends when no fetch is in
\* progress (not always the one the thread joined) or at the deadline.
WaitEnds(t) ==
  /\ req[t].pc = "waiting" /\ ~refreshing
  /\ LET v == req[t]
     IN Goes(t, IF permanent THEN Raise(v, "error")
                ELSE IF ~HasKeys \/ (v.forced /\ failedAt # 0)
                     THEN Raise(v, "unavailable")
                ELSE ServeStale(v))
  /\ UNCHANGED <<now, published, cacheVars>>

WaitTimesOut(t) ==
  /\ req[t].pc = "waiting" /\ refreshing /\ now >= req[t].deadline
  /\ Goes(t, Raise(req[t], "unavailable"))
  /\ UNCHANGED <<now, published, cacheVars>>

-----------------------------------------------------------------------------
(* get_key_set_for_kid, after the lookup                                   *)

Pruned == [k \in Kid |-> IF unknown[k] > now THEN unknown[k] ELSE 0]

\* _remember_unknown_kid: beyond the limit, the entries that expire first go.
Entries(u) == {k \in Kid : u[k] # 0}
RemembersAll(u, kid) == unknown' = [u EXCEPT ![kid] = now + UnknownTTL]
Remembers(u, kid) ==
  LET full == [u EXCEPT ![kid] = now + UnknownTTL]
  IN \/ Cardinality(Entries(full)) <= MaxUnknown /\ unknown' = full
     \/ /\ Cardinality(Entries(full)) > MaxUnknown
        /\ \E first \in Entries(full) :
             /\ \A k \in Entries(full) : full[first] <= full[k]
             /\ unknown' = [full EXCEPT ![first] = 0]

Throttled == lastUnknown # 0 /\ now - lastUnknown < Interval

AcceptKnown(t) ==
  /\ req[t].pc = "inspect" /\ IsKnown(req[t])
  /\ Goes(t, Answer(req[t]))
  /\ unknown' = Pruned
  /\ UNCHANGED <<now, published, cache, refreshing, failedAt, permanent,
                 lastUnknown, misconfigured>>

\* A key known to be unknown: the signature is checked, and refused, with the
\* keys in hand.
RefuseRemembered(t) ==
  /\ req[t].pc = "inspect" /\ ~IsKnown(req[t]) /\ Pruned[req[t].kid] # 0
  /\ Goes(t, IF failedAt # 0 THEN Raise(req[t], "unavailable")
                             ELSE Answer(req[t]))
  /\ unknown' = Pruned
  /\ UNCHANGED <<now, published, cache, refreshing, failedAt, permanent,
                 lastUnknown, misconfigured>>

\* Another unknown key was looked for a moment ago.
Throttle(t) ==
  /\ req[t].pc = "inspect" /\ ~IsKnown(req[t]) /\ Pruned[req[t].kid] = 0
  /\ Throttled
  /\ Goes(t, Raise(req[t], "unavailable"))
  /\ unknown' = Pruned
  /\ UNCHANGED <<now, published, cache, refreshing, failedAt, permanent,
                 lastUnknown, misconfigured>>

\* The cache was stale when the validation began: that was the refresh.
StaleMiss(v) ==
  /\ v.pc = "inspect" /\ ~IsKnown(v) /\ Pruned[v.kid] = 0 /\ ~Throttled
  /\ v.wasStale
RefuseAfterStale(t) ==
  LET v == req[t]
  IN /\ StaleMiss(v)
     /\ lastUnknown' = now
     /\ Remembers(Pruned, v.kid)
     /\ Goes(t, IF failedAt # 0 THEN Raise(v, "unavailable")
                                ELSE Answer(v))
     /\ UNCHANGED <<now, published, cache, refreshing, failedAt, permanent,
                    misconfigured>>

\* One guarded refresh for a key that may be new.
ForceRefresh(t) ==
  LET v == req[t]
  IN /\ v.pc = "inspect" /\ ~IsKnown(v) /\ Pruned[v.kid] = 0 /\ ~Throttled
     /\ ~v.wasStale
     /\ lastUnknown' = now
     /\ unknown' = Pruned
     /\ Goes(t, [v EXCEPT !.pc = "refresh", !.forced = TRUE, !.got = {}])
     /\ UNCHANGED <<now, published, cache, refreshing, failedAt, permanent,
                    misconfigured>>

\* After the forced refresh.
Note(t) ==
  /\ req[t].pc = "note"
  /\ Goes(t, Answer(req[t]))
  /\ IF IsKnown(req[t]) THEN UNCHANGED unknown
                        ELSE Remembers(unknown, req[t].kid)
  /\ UNCHANGED <<now, published, cache, refreshing, failedAt, permanent,
                 lastUnknown, misconfigured>>

-----------------------------------------------------------------------------
(* The surroundings, and the specification                                 *)

Publish ==
  /\ \E k \in Kid \ published : published' = published \cup {k}
  /\ UNCHANGED <<now, req, cacheVars>>

Tick ==
  /\ now < MaxTime
  /\ now' = now + 1
  /\ UNCHANGED <<published, req, cacheVars>>

Refreshes(t) ==
  \/ Lookup(t) \/ JoinRefresh(t) \/ RefreshBackoff(t) \/ StartRefresh(t)
  \/ IssuerAnswers(t) \/ FetchMisconfigured(t) \/ FetchFails(t)
  \/ FetchRaisesOther(t) \/ StoreKeys(t) \/ WaitEnds(t) \/ WaitTimesOut(t)

Inspects(t) ==
  \/ AcceptKnown(t) \/ RefuseRemembered(t) \/ Throttle(t)
  \/ RefuseAfterStale(t) \/ ForceRefresh(t) \/ Note(t)

Next ==
  \/ \E t \in Thread :
       \/ \E kid \in Kid \cup {NoKid} : Begin(t, kid) \/ ValidateLocally(t, kid)
       \/ Refreshes(t)
       \/ Inspects(t)
  \/ Publish
  \/ Tick

Spec == Init /\ [][Next]_vars

-----------------------------------------------------------------------------
(* Properties                                                              *)

\* The cache and the validations are well formed, and the table of unknown key
\* ids stays within _MAX_UNKNOWN_KIDS.
TypeOK ==
  /\ now \in Time
  /\ published \in SUBSET Kid
  /\ cache \in KeySet
  /\ refreshing \in BOOLEAN /\ permanent \in BOOLEAN
  /\ misconfigured \in BOOLEAN
  /\ failedAt \in TimeOrNever /\ lastUnknown \in TimeOrNever
  /\ unknown \in [Kid -> 0..(MaxTime + UnknownTTL)]
  /\ req \in [Thread -> Validation]
  /\ Cardinality(Entries(unknown)) <= MaxUnknown

\* One fetch at a time, and the mark _refresh_in_progress stands exactly while
\* one runs: no outcome of a fetch leaves it set with nobody to clear it, which
\* would make every later caller wait for its deadline.
Fetching == {t \in Thread : req[t].pc \in {"fetching", "storing"}}
SingleFlight ==
  /\ refreshing <=> Fetching # {}
  /\ \A t, u \in Fetching : t = u

Accepted(t) == req[t].pc = "done" /\ req[t].result = "keys"

\* Keys beyond their grace are never used: a validation that found the cached
\* keys expired is answered only after a fetch has succeeded, however it joins,
\* waits for or backs off from the refreshes of other threads.
StaleWithinGrace ==
  \A t \in Thread : Accepted(t) /\ req[t].expired => req[t].renewed

\* A permanent misconfiguration is not masked by stale keys: a validation that
\* begins after it was found, without fresh keys, is not answered before
\* another attempt has ended.
PermanentWins == \A t \in Thread : Accepted(t) => ~req[t].barred

\* A token whose key is looked for with a forced refresh is checked only if a
\* fetch has succeeded meanwhile; an issuer that cannot be reached never makes
\* it a refusal.
ForcedRefreshIsReal ==
  \A t \in Thread : Accepted(t) /\ req[t].forced => req[t].renewed

\* get_key_set_for_kid reads the key set and the known ids in two sections.
\* What it finds to be known it answers with the key set in hand, which has to
\* have the key: the comment on the local path warns that two separately locked
\* reads "could otherwise observe different generations".
OneGeneration ==
  \A t \in Thread :
    req[t].pc = "inspect" /\ IsKnown(req[t]) =>
      req[t].kid \in req[t].got \cup {NoKid}

\* A validation of a published key that found the cache stale is refused only
\* when a fetch has succeeded since it began, or one is known to have failed:
\* the comment on that branch says that "the refresh above could not advance
\* the cache, so the issuer is unreachable".
StaleMissMeansUnreachable ==
  \A t \in Thread :
    StaleMiss(req[t]) /\ req[t].legit => req[t].renewed \/ failedAt # 0
=============================================================================
