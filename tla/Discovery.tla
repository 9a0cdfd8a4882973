----------------------------- MODULE Discovery ------------------------------
(***************************************************************************)
(* auth/discovery: the issuer's OIDC discovery document, cached and shared *)
(* by the threads of one worker, and the endpoints taken from it.          *)
(*                                                                         *)
(* One thread at a time fetches the document outside of the mutex; the     *)
(* others are served the cached one within its grace, or wait.  A document *)
(* that fails validation is a permanent misconfiguration, remembered until *)
(* the next attempt ends.  Every section that holds the mutex is one step. *)
(*                                                                         *)
(* A URL is what the trust rules ask of it: its scheme, whose origin it    *)
(* has, whether its path is beneath that of the backchannel base (escapes  *)
(* undone), and whether its host is internal.  The clock starts at 1: the  *)
(* code uses the time 0 for never.                                         *)
(***************************************************************************)
EXTENDS Integers, FiniteSets

CONSTANTS
  Caller,       \* threads that ask for endpoints, one after another
  Document,     \* what the issuer may serve: functions from endpoints to URLs
  NoDocument,
  NoURL,
  Explicit,     \* Explicit[name]: the endpoint as configured, or NoURL
  Backchannel,  \* scheme of the backchannel base URL, or "none"
  DocTTL,       \* _DISCOVERY_TTL
  DocGrace,     \* discovery_stale_grace
  FailureTTL,   \* _DISCOVERY_FAILURE_TTL
  DocWait,      \* _discovery_refresh_wait_timeout
  MaxClock      \* bound on the clock

\* _ENDPOINT_KEYS; the others are used and checked like these.
Endpoint == {"jwks", "userinfo", "authorization", "end_session"}
FrontChannel == {"authorization", "end_session"}
Required == {"jwks", "userinfo", "authorization"}

URL == [scheme : {"http", "https"},
        origin : {"issuer", "backchannel", "other"},
        beneath : BOOLEAN, internal : BOOLEAN]

ASSUME DiscoveryAssumption ==
  /\ Document \subseteq [Endpoint -> URL \cup {NoURL}]
  /\ NoDocument \notin Document /\ NoURL \notin URL
  /\ Explicit \in [Endpoint -> URL \cup {NoURL}]
  /\ Backchannel \in {"none", "http", "https"}
  /\ DocTTL \in Nat \ {0} /\ DocGrace \in Nat /\ FailureTTL \in Nat \ {0}
  /\ DocWait \in Nat \ {0} /\ MaxClock \in Nat \ {0}

VARIABLES
  clock,        \* time.monotonic()
  document,     \* doc and fetched_at
  discovering,  \* refresh_in_progress
  failed,       \* failed_at
  rejected,     \* permanent_error is set
  call,         \* call[t]: the local state of the call that thread t makes
  \* history
  verdict       \* the last attempt found a permanent misconfiguration

discoveryVars == <<document, discovering, failed, rejected, verdict>>
callVars == <<clock, discoveryVars, call>>

NoCache == [doc |-> NoDocument, at |-> 0]
Outcome == {"none", "endpoint", "unavailable", "misconfigured", "error"}

\* The last three fields are history: when the call began, was the cached
\* document beyond its grace (`expired`), or not fresh after a permanent error
\* (`barred`, until another attempt ends); has a fetch succeeded since
\* (`renewed`).
Call == [pc : {"idle", "fetching", "waiting", "done"}, name : Endpoint,
         deadline : 0..(MaxClock + DocWait), result : Outcome,
         url : URL \cup {NoURL},
         expired : BOOLEAN, barred : BOOLEAN, renewed : BOOLEAN]

NoCall ==
  [pc |-> "idle", name |-> "jwks", deadline |-> 0, result |-> "none",
   url |-> NoURL, expired |-> FALSE, barred |-> FALSE, renewed |-> FALSE]

DiscoveryInit ==
  /\ clock = 1
  /\ document = NoCache
  /\ discovering = FALSE /\ failed = 0 /\ rejected = FALSE
  /\ call = [t \in Caller |-> NoCall]
  /\ verdict = FALSE

-----------------------------------------------------------------------------
(* Which URLs are trusted                                                  *)

\* Exact scheme and origin of the backchannel base, and a path below its own.
IsBeneathBase(u) ==
  u.origin = "backchannel" /\ u.scheme = Backchannel /\ u.beneath

\* _validate_url with _validate_configured_endpoint: plain HTTP only to an
\* internal host beneath the backchannel base.
ConfiguredOK(u) ==
  u.scheme = "http" => u.internal /\ Backchannel # "none" /\ IsBeneathBase(u)

DiscoveredOKAnyHTTPS(name, u) == ConfiguredOK(u)
DiscoveredOK(name, u) ==
  /\ ConfiguredOK(u)
  /\ \/ u.scheme = "https" /\ u.origin = "issuer"
     \/ name \notin FrontChannel /\ Backchannel # "none" /\ IsBeneathBase(u)

\* _validate_discovery_document: explicit endpoints take the place of those
\* that the document advertises.
Valid(doc) ==
  /\ \A name \in Required : doc[name] # NoURL
  /\ \A name \in Endpoint :
       IF Explicit[name] # NoURL THEN ConfiguredOK(Explicit[name])
       ELSE doc[name] # NoURL => DiscoveredOK(name, doc[name])

-----------------------------------------------------------------------------
(* What the mutex protects                                                 *)

HasDocument == document.doc # NoDocument
DocFresh == HasDocument /\ clock - document.at < DocTTL

DocUsableAtBoundary == HasDocument /\ clock - document.at <= DocTTL + DocGrace
DocUsable == HasDocument /\ clock - document.at < DocTTL + DocGrace
DiscoveryBackoff == failed # 0 /\ clock - failed < FailureTTL

\* How a call ends: with an error, or with the endpoint that document `doc`
\* advertises, if it does.
Fail(c, why) == [c EXCEPT !.pc = "done", !.result = why, !.deadline = 0]
Taken(c, doc) ==
  IF doc[c.name] = NoURL THEN Fail(c, "misconfigured")
  ELSE [Fail(c, "endpoint") EXCEPT !.url = doc[c.name]]

\* _serve_stale_or_raise.
ServeStaleOrRaise(c) ==
  IF rejected THEN Fail(c, "misconfigured")
  ELSE IF DocUsable THEN Taken(c, document.doc)
  ELSE Fail(c, "unavailable")

\* discovery_is_unavailable, which the health report reads.
Unavailable == rejected \/ (failed # 0 /\ ~DocUsable)

Returns(t, c) == call' = [call EXCEPT ![t] = c]

-----------------------------------------------------------------------------
(* get_endpoint and get_openid_configuration                               *)

Arriving(name) ==
  [NoCall EXCEPT !.name = name,
               !.expired = ~(HasDocument
                             /\ clock < document.at + DocTTL + DocGrace),
               !.barred = verdict /\ ~DocFresh]

\* get_endpoint with an explicit configuration: no discovery.
TakeExplicit(t, name) ==
  /\ call[t].pc \in {"idle", "done"} /\ Explicit[name] # NoURL
  /\ Returns(t, IF ConfiguredOK(Explicit[name])
             THEN [Fail(NoCall, "endpoint") EXCEPT !.name = name,
                                                  !.url = Explicit[name]]
             ELSE Fail(NoCall, "misconfigured"))
  /\ UNCHANGED <<clock, discoveryVars>>

\* get_endpoint calls get_openid_configuration: its first section.
Asks(t, name) == call[t].pc \in {"idle", "done"} /\ Explicit[name] = NoURL

UseFresh(t, name) ==
  /\ Asks(t, name) /\ DocFresh
  /\ Returns(t, Taken(Arriving(name), document.doc))
  /\ UNCHANGED <<clock, discoveryVars>>

JoinDiscovery(t, name) ==
  /\ Asks(t, name) /\ ~DocFresh /\ discovering
  /\ LET c == Arriving(name)
     IN Returns(t, IF rejected THEN Fail(c, "misconfigured")
                ELSE IF DocUsable THEN Taken(c, document.doc)
                ELSE [c EXCEPT !.pc = "waiting",
                               !.deadline = clock + DocWait])
  /\ UNCHANGED <<clock, discoveryVars>>

BackOffDiscovery(t, name) ==
  /\ Asks(t, name) /\ ~DocFresh /\ ~discovering /\ DiscoveryBackoff
  /\ Returns(t, ServeStaleOrRaise(Arriving(name)))
  /\ UNCHANGED <<clock, discoveryVars>>

StartDiscovery(t, name) ==
  /\ Asks(t, name) /\ ~DocFresh /\ ~discovering /\ ~DiscoveryBackoff
  /\ discovering' = TRUE
  /\ Returns(t, [Arriving(name) EXCEPT !.pc = "fetching"])
  /\ UNCHANGED <<clock, document, failed, rejected, verdict>>

\* The fetch ends: a verdict replaces the one before, so no call is barred on
\* its account any more.
Pardoned(c) == [t \in Caller |-> [c[t] EXCEPT !.barred = FALSE]]

\* The document is not valid, or the discovery URL itself is not.
DiscoveryMisconfigured(t) ==
  /\ call[t].pc = "fetching"
  /\ failed' = clock /\ rejected' = TRUE /\ verdict' = TRUE
  /\ discovering' = FALSE
  /\ Returns(t, Fail(call[t], "misconfigured"))
  /\ UNCHANGED <<clock, document>>

\* IssuerUnavailableError: the stale document is served within its grace.
DiscoveryFails(t) ==
  /\ call[t].pc = "fetching"
  /\ failed' = clock /\ rejected' = FALSE /\ verdict' = FALSE
  /\ discovering' = FALSE
  /\ call' = Pardoned([call EXCEPT ![t] =
               IF DocUsable THEN Taken(call[t], document.doc)
                         ELSE Fail(call[t], "unavailable")])
  /\ UNCHANGED <<clock, document>>

\* An exception of no expected family is raised as it is.
DiscoveryRaisesOther(t) ==
  /\ call[t].pc = "fetching"
  /\ failed' = clock /\ rejected' = FALSE /\ verdict' = FALSE
  /\ discovering' = FALSE
  /\ call' = Pardoned([call EXCEPT ![t] = Fail(call[t], "error")])
  /\ UNCHANGED <<clock, document>>

\* The generation check always succeeds: nobody else has fetched meanwhile.
\* The stored document has the explicit endpoints in place, which nobody reads.
StoreUnchecked(t, doc) ==
  /\ call[t].pc = "fetching"
  /\ document' = [doc |-> doc, at |-> clock]
  /\ failed' = 0 /\ rejected' = FALSE /\ verdict' = FALSE
  /\ discovering' = FALSE
  /\ LET c == [call EXCEPT ![t] = Taken(call[t], doc)]
     IN call' = [u \in Caller |->
                   [c[u] EXCEPT !.barred = FALSE, !.renewed = TRUE]]
  /\ UNCHANGED clock
StoreDocument(t, doc) ==
  /\ call[t].pc = "fetching" /\ Valid(doc)
  /\ document' = [doc |-> doc, at |-> clock]
  /\ failed' = 0 /\ rejected' = FALSE /\ verdict' = FALSE
  /\ discovering' = FALSE
  /\ LET c == [call EXCEPT ![t] = Taken(call[t], doc)]
     IN call' = [u \in Caller |->
                   [c[u] EXCEPT !.barred = FALSE, !.renewed = TRUE]]
  /\ UNCHANGED clock

\* The wait ends once no fetch is in progress, or a document is usable.
CallerResumesStale(t) ==
  /\ call[t].pc = "waiting" /\ (~discovering \/ DocUsable)
  /\ Returns(t, IF HasDocument THEN Taken(call[t], document.doc)
                            ELSE Fail(call[t], "unavailable"))
  /\ UNCHANGED <<clock, discoveryVars>>
CallerResumes(t) ==
  /\ call[t].pc = "waiting" /\ (~discovering \/ DocUsable)
  /\ Returns(t, ServeStaleOrRaise(call[t]))
  /\ UNCHANGED <<clock, discoveryVars>>

CallerTimesOut(t) ==
  /\ call[t].pc = "waiting" /\ discovering /\ ~DocUsable
  /\ clock >= call[t].deadline
  /\ Returns(t, Fail(call[t], "unavailable"))
  /\ UNCHANGED <<clock, discoveryVars>>

-----------------------------------------------------------------------------
ClockTicks ==
  /\ clock < MaxClock
  /\ clock' = clock + 1
  /\ UNCHANGED <<discoveryVars, call>>

GetEndpoint(t, name) ==
  \/ TakeExplicit(t, name) \/ UseFresh(t, name) \/ JoinDiscovery(t, name)
  \/ BackOffDiscovery(t, name) \/ StartDiscovery(t, name)

Continue(t) ==
  \/ DiscoveryMisconfigured(t) \/ DiscoveryFails(t) \/ DiscoveryRaisesOther(t)
  \/ \E doc \in Document : StoreDocument(t, doc)
  \/ CallerResumes(t) \/ CallerTimesOut(t)

DiscoveryNext ==
  \/ \E t \in Caller :
       \/ \E name \in Endpoint : GetEndpoint(t, name)
       \/ Continue(t)
  \/ ClockTicks

DiscoverySpec == DiscoveryInit /\ [][DiscoveryNext]_callVars

-----------------------------------------------------------------------------
(* Properties                                                              *)

\* The cache and the calls are well formed, and what is cached is valid.
DiscoveryTypeOK ==
  /\ clock \in 1..MaxClock
  /\ document \in [doc : Document \cup {NoDocument}, at : 0..MaxClock]
  /\ HasDocument => Valid(document.doc) /\ document.at \in 1..clock
  /\ discovering \in BOOLEAN /\ rejected \in BOOLEAN
  /\ verdict \in BOOLEAN
  /\ failed \in 0..clock
  /\ call \in [Caller -> Call]

\* One thread fetches at a time and the mark refresh_in_progress stands exactly
\* while it does, so that nobody waits for a fetch that has died.
Fetchers == {t \in Caller : call[t].pc = "fetching"}
OneDiscovery ==
  /\ discovering <=> Fetchers # {}
  /\ \A t, u \in Fetchers : t = u

Answered(t) == call[t].result = "endpoint" /\ Explicit[call[t].name] = NoURL

\* A document beyond its grace is not used: a call that found it expired is
\* answered only after a fetch has succeeded.
WithinGrace ==
  \A t \in Caller : Answered(t) /\ call[t].expired => call[t].renewed

\* A remembered permanent misconfiguration wins over a usable stale document
\* for every call that begins after it was found, whichever way it goes.
MisconfigurationWins == \A t \in Caller : Answered(t) => ~call[t].barred

\* A health report that says the issuer is unavailable is right: the remembered
\* error and a fresh document exclude each other, so that a call which arrives
\* then is not answered from the cache.
UnavailableIsTrue == Unavailable => ~DocFresh

\* Every endpoint handed out is one the deployment trusts: plain HTTP stays
\* beneath the backchannel base, browsers are only sent to the issuer, and
\* what the issuer advertises for the server stays within both boundaries.
Trusted(name, u) ==
  /\ u.scheme = "http" => IsBeneathBase(u)
  /\ Explicit[name] = NoURL =>
       /\ u.origin \in {"issuer", "backchannel"}
       /\ name \in FrontChannel => u.scheme = "https" /\ u.origin = "issuer"
EndpointsTrusted ==
  \A t \in Caller :
    call[t].result = "endpoint" => Trusted(call[t].name, call[t].url)

\* What get_endpoint promises to the threads that share the cache: one fetch at
\* a time, no document beyond its grace, no misconfiguration hidden by a stale
\* document, a truthful health report, and only trusted endpoints.
DiscoverySound ==
  /\ OneDiscovery
  /\ WithinGrace
  /\ MisconfigurationWins
  /\ UnavailableIsTrue
  /\ EndpointsTrusted
=============================================================================
