-------------------------- MODULE BffSessionProofs --------------------------
(* A browser session stays with its identity, ends when it should and       *)
(* reuses no refresh token, for every number of requests and sessions, every *)
(* time to live and every number of faults.                                  *)
EXTENDS BffSession, TLAPS

USE BffAssumption

Local == [pc : Place, sid : Sid \cup {NoOne}, who : Identity \cup {NoOne},
          prev : Token, got : Session, polls : 0..PollRounds, result : Outcome]

\* Places after the session was read and found to be the request's own.
Settled == {"issuer", "store", "rejected", "unusable"}

\* What is in Redis is what the login put there; what was ended is gone, and
\* was there once, so that no login creates it again.
SessionInv(s) ==
  /\ Exists(s) => /\ born[s] >= 0
                  /\ sess[s].sub = Owner[s] /\ sess[s].created = born[s]
                  /\ sess[s].expires <= born[s] + SessionTTL
  /\ born[s] = -1 => grant[s].rt = 0
  /\ s \in ended => born[s] >= 0 /\ ~Exists(s)
  /\ s \in replaced => born[s] >= 0

\* What a request knows of its session is still true of it.
RequestInv(r) ==
  LET s == req[r].sid IN
  /\ req[r].pc # "idle" \/ req[r].result # "none" => s \in Sid /\ born[s] >= 0
  /\ req[r].pc \in Settled => req[r].who = Owner[s]
  /\ req[r].pc \in {"issuer", "store"} =>
       req[r].got.sub = Owner[s] /\ req[r].got.created = born[s]
  /\ req[r].pc \in {"issuer", "store"} =>
       req[r].got.rt \in Token /\ sess[s].rt # NoToken
  /\ req[r].pc = "store" => req[r].got.rt < MaxToken
  /\ req[r].pc = "rejected" => grant[s].revoked
  /\ req[r].result = "success" => req[r].who = Owner[s]
  /\ req[r].result = "terminal" /\ req[r].who = Owner[s] => Over(s)

\* Two requests in the critical section of one session mean that its lock
\* expired under one of them, and then its token counts as spent.
LockInv(r) ==
  /\ req[r].pc = "acquire" => r \notin stale
  /\ req[r].pc \in Critical =>
       IF r \in stale THEN req[r].sid \in spent ELSE lock[req[r].sid] = r

\* Until the token of a session is spent, the session has the issuer's current
\* one, except between the issuer's answer and the store; so has the request
\* that is about to present it.
TokenInv(r) ==
  req[r].sid \in Sid \ spent =>
    /\ req[r].pc = "issuer" => req[r].got.rt = grant[req[r].sid].rt
    /\ req[r].pc = "store" => req[r].got.rt + 1 = grant[req[r].sid].rt

StoredInv(s) ==
  /\ s \notin spent /\ Exists(s)
  /\ \A r \in Request : req[r].pc \in Losing => req[r].sid # s
  => sess[s].rt \in {grant[s].rt, NoToken}

\* The sessions a revocation answers for are in front of it or gone.
ScanInv ==
  /\ scan.sub = NoOne => scan.keys = {} /\ scan.due = {}
  /\ \A s \in scan.due : /\ born[s] >= 0 /\ Owner[s] = scan.sub
                         /\ s \notin scan.keys => ~Exists(s)

IInv ==
  /\ TypeOK
  /\ \A s \in Sid : SessionInv(s) /\ StoredInv(s)
  /\ \A r \in Request : RequestInv(r) /\ LockInv(r) /\ TokenInv(r)
  /\ ReuseOnlyAfterFault
  /\ ScanInv

-----------------------------------------------------------------------------
(* How a request moves                                                     *)

\* Request r goes to place p with outcome o and keeps the rest.
Change(r, p, o) ==
  /\ req' \in [Request -> Local]
  /\ \A x \in Request \ {r} : req'[x] = req[x]
  /\ req'[r].pc = p /\ req'[r].result = o
  /\ req'[r].sid = req[r].sid /\ req'[r].who = req[r].who
  /\ req'[r].got = req[r].got

LEMMA Names ==
  /\ NoSession \in Session /\ Idle \in Local
  /\ Idle.pc = "idle" /\ Idle.result = "none"
  /\ NoSession.sub = NoOne /\ NoOne \notin Identity
  /\ NoSession.rt # NoToken /\ NoToken \notin Token
BY DEF Idle, Local, Place, Critical, Waiting, Outcome, Session, NoSession, Token,
       NoToken

LEMMA Moved ==
  ASSUME TypeOK, NEW r \in Request, NEW p \in Place, NEW o \in Outcome,
         req' = [req EXCEPT ![r].pc = p, ![r].result = o]
  PROVE  Change(r, p, o)
<1> DEFINE new == [req[r] EXCEPT !.pc = p, !.result = o]
<1>1. req \in [Request -> Local]
  BY DEF TypeOK, Local
<1>2. /\ new \in Local /\ new.pc = p /\ new.result = o
      /\ new.sid = req[r].sid /\ new.who = req[r].who /\ new.got = req[r].got
  BY <1>1 DEF Local
<1>3. req' = [req EXCEPT ![r] = new]
  BY <1>1 DEF Local
<1> HIDE DEF new
<1> QED BY <1>1, <1>2, <1>3 DEF Change

LEMMA Went ==
  ASSUME TypeOK, NEW r \in Request, NEW p \in Place, Goes(r, p)
  PROVE  Change(r, p, req[r].result)
<1> DEFINE new == [req[r] EXCEPT !.pc = p]
<1>1. req \in [Request -> Local]
  BY DEF TypeOK, Local
<1>2. /\ new \in Local /\ new.pc = p /\ new.result = req[r].result
      /\ new.sid = req[r].sid /\ new.who = req[r].who /\ new.got = req[r].got
  BY <1>1 DEF Local
<1>3. req' = [req EXCEPT ![r] = new]
  BY <1>1 DEF Local, Goes
<1> HIDE DEF new
<1> QED BY <1>1, <1>2, <1>3 DEF Change

LEMMA Concluded ==
  ASSUME TypeOK, NEW r \in Request, NEW o \in Outcome, Conclude(r, o)
  PROVE  Change(r, "release", o)
BY Moved DEF Conclude, Place, Critical

LEMMA Returned ==
  ASSUME TypeOK, NEW r \in Request, NEW o \in Outcome, Return(r, o)
  PROVE  Change(r, IF o = "success" THEN "validate" ELSE "answer", o)
BY Moved DEF Return, Place

LEMMA Removed ==
  ASSUME TypeOK, NEW s \in Sid, sess' = Deleted(s)
  PROVE  /\ sess' \in [Sid -> Session]
         /\ ~Exists(s)' /\ Over(s)' /\ sess'[s].rt # NoToken
         /\ \A x \in Sid \ {s} : sess'[x] = sess[x]
BY Names DEF TypeOK, Deleted, Exists, Over

\* Nothing comes back: what a session, a grant and a creation may become.
NoneReturns ==
  /\ \A s \in Sid : born[s] >= 0 =>
       /\ born'[s] = born[s]
       /\ sess'[s].rt = NoToken => sess[s].rt = NoToken
       /\ Over(s) => Over(s)'
  /\ \A s \in Sid : grant[s].revoked => grant'[s].revoked

LEMMA RequestKept ==
  ASSUME NEW r \in Request, RequestInv(r), req'[r] = req[r], NoneReturns
  PROVE  RequestInv(r)'
BY DEF RequestInv, NoneReturns

-----------------------------------------------------------------------------
(* The three kinds of step that most actions are                           *)

\* A request moves to a place outside Settled and may delete its session.
LEMMA RequestMoves ==
  ASSUME IInv, NEW r \in Request, NEW s \in Sid, req[r].sid = s, NEW p \in Place \ Settled, p # "acquire", NEW o \in Outcome,
         Change(r, p, o), req[r].pc # "idle",
         p = "validate" => o = "success",
         sess' = sess \/ sess' = Deleted(s),
         UNCHANGED <<now, grant, replaced, scan, born, ended, reused, stale>>,
         faults' \in 0..MaxFaults,
         spent \subseteq spent', spent' \subseteq Sid,
         lock' \in [Sid -> Request \cup {NoOne}],
         \A x \in Request \ {r}, z \in Sid : lock[z] = x => lock'[z] = x,
         p \in Critical /\ r \notin stale => lock'[s] = r,
         p \in Critical /\ r \in stale => s \in spent',
         req[r].pc \in Losing => s \in spent' \/ ~Exists(s)',
         o = "success" => req[r].who = Owner[s],
         o = "terminal" /\ req[r].who = Owner[s]
           => Over(s)'
  PROVE  IInv'
<1>1. born[s] >= 0
  BY DEF IInv, RequestInv
<1>2. /\ sess' \in [Sid -> Session]
      /\ \A z \in Sid : Exists(z)' => Exists(z) /\ sess'[z] = sess[z]
  BY <1>1, Removed DEF IInv, TypeOK, Exists
<1>3. TypeOK'
  BY <1>2 DEF IInv, TypeOK, Change, Local
<1>4. \A z \in Sid : SessionInv(z)' /\ StoredInv(z)'
  <2> TAKE z \in Sid
  <2>1. SessionInv(z)'
    BY <1>2 DEF IInv, SessionInv
  <2>2. StoredInv(z)'
    BY <1>2 DEF IInv, StoredInv, Change
  <2> QED BY <2>1, <2>2
<1>5. NoneReturns
  BY <1>1, Removed DEF IInv, NoneReturns, Exists, Over
<1>6. \A x \in Request : RequestInv(x)' /\ LockInv(x)' /\ TokenInv(x)'
  <2> TAKE x \in Request
  <2>1. CASE x = r
    <3>1. RequestInv(r)'
      BY <1>1 DEF RequestInv, Change, Settled
    <3>2. LockInv(r)'
      BY DEF LockInv, Change
    <3>3. TokenInv(r)'
      BY DEF TokenInv, Change, Settled
    <3> QED BY <3>1, <3>2, <3>3, <2>1
  <2>2. CASE x # r
    <3>1. req'[x] = req[x]
      BY <2>2 DEF Change
    <3>2. RequestInv(x)'
      BY <3>1, <1>5, RequestKept DEF IInv
    <3>3. LockInv(x)'
      <4>1. req[x].pc # "idle" => req[x].sid \in Sid
        BY DEF IInv, RequestInv
      <4> QED BY <3>1, <4>1, <2>2 DEF IInv, LockInv, Critical
    <3>4. TokenInv(x)'
      BY <3>1 DEF IInv, TokenInv
    <3> QED BY <3>2, <3>3, <3>4
  <2> QED BY <2>1, <2>2
<1>7. ReuseOnlyAfterFault' /\ ScanInv'
  BY <1>2 DEF IInv, ReuseOnlyAfterFault, ScanInv, TypeOK
<1> QED BY <1>3, <1>4, <1>6, <1>7 DEF IInv

\* The same for an action that leaves the lock and the faults alone.
LEMMA RequestGoes ==
  ASSUME IInv, NEW r \in Request, NEW s \in Sid, req[r].sid = s, NEW p \in Place \ Settled, p # "acquire", NEW o \in Outcome,
         Change(r, p, o), req[r].pc # "idle",
         p \in Critical => req[r].pc \in Critical,
         p = "validate" => o = "success",
         sess' = sess \/ sess' = Deleted(s),
         UNCHANGED <<now, lock, grant, replaced, scan, faults, historyVars>>,
         req[r].pc \in Losing => ~Exists(s)',
         o = "success" => req[r].who = Owner[s],
         o = "terminal" /\ req[r].who = Owner[s]
           => Over(s)'
  PROVE  IInv'
<1>1. TypeOK /\ LockInv(r)
  BY DEF IInv
<1>2. /\ faults' \in 0..MaxFaults
      /\ spent \subseteq spent' /\ spent' \subseteq Sid
      /\ lock' \in [Sid -> Request \cup {NoOne}]
      /\ \A x \in Request \ {r}, z \in Sid : lock[z] = x => lock'[z] = x
  BY <1>1 DEF TypeOK, historyVars
<1>3. /\ p \in Critical /\ r \notin stale => lock'[s] = r
      /\ p \in Critical /\ r \in stale => s \in spent'
  BY <1>1 DEF LockInv, historyVars
<1>4. UNCHANGED <<now, grant, replaced, scan, born, ended, reused, stale>>
  BY DEF historyVars
<1> QED BY <1>2, <1>3, <1>4, RequestMoves

\* A session is deleted by somebody else.
LEMMA SessionGoes ==
  ASSUME IInv, NEW s \in Sid, born[s] >= 0, sess' = Deleted(s),
         UNCHANGED <<now, lock, grant, req, faults, born, reused, spent, stale>>,
         ended \subseteq ended', ended' \subseteq ended \cup {s},
         replaced' \subseteq replaced, scan' \in [keys : SUBSET Sid, due : SUBSET Sid,
                                           sub : Identity \cup {NoOne}],
         ScanInv'
  PROVE  IInv'
<1>1. /\ sess' \in [Sid -> Session] /\ ~Exists(s)'
      /\ \A x \in Sid : Exists(x)' => Exists(x) /\ sess'[x] = sess[x]
  BY Removed DEF IInv, Exists
<1>2. TypeOK'
  BY <1>1 DEF IInv, TypeOK
<1>3. \A x \in Sid : SessionInv(x)' /\ StoredInv(x)'
  BY <1>1 DEF IInv, SessionInv, StoredInv
<1>4. \A r \in Request : RequestInv(r)' /\ LockInv(r)' /\ TokenInv(r)'
  <2>1. NoneReturns
    BY Removed DEF IInv, NoneReturns, Exists, Over
  <2> QED BY <2>1, RequestKept DEF IInv, LockInv, TokenInv
<1> QED BY <1>2, <1>3, <1>4 DEF IInv, ReuseOnlyAfterFault

\* A request is over, one way or the other.
LEMMA RequestEnds ==
  ASSUME IInv, NEW r \in Request, req' = [req EXCEPT ![r] = Idle],
         UNCHANGED <<now, sess, lock, grant, replaced, scan, born, ended, reused>>,
         faults' \in 0..MaxFaults,
         stale' \subseteq stale, stale \subseteq stale' \cup {r},
         spent' = spent \cup SpentBy(r)
  PROVE  IInv'
<1>1. /\ req' \in [Request -> Local] /\ req'[r] = Idle
      /\ \A x \in Request \ {r} : req'[x] = req[x]
  BY Names DEF IInv, TypeOK, Local
<1>2. SpentBy(r) \subseteq Sid
  BY DEF IInv, RequestInv, SpentBy, Losing
<1>3. TypeOK'
  BY <1>1, <1>2, Names DEF IInv, TypeOK, Local
<1>4. \A s \in Sid : SessionInv(s)' /\ StoredInv(s)'
  <2> TAKE s \in Sid
  <2>1. SessionInv(s)'
    BY DEF IInv, SessionInv, Exists
  <2>2. StoredInv(s)'
    BY <1>1 DEF IInv, StoredInv, SpentBy, Exists
  <2> QED BY <2>1, <2>2
<1>5. \A x \in Request : RequestInv(x)' /\ LockInv(x)' /\ TokenInv(x)'
  <2> TAKE x \in Request
  <2>1. CASE x = r
    BY <1>1, <2>1, Names DEF RequestInv, LockInv, TokenInv, Critical, Settled
  <2>2. CASE x # r
    <3>1. NoneReturns
      BY DEF NoneReturns, Exists, Over
    <3> QED BY <1>1, <2>2, <3>1, RequestKept DEF IInv, LockInv, TokenInv
  <2> QED BY <2>1, <2>2
<1> QED BY <1>3, <1>4, <1>5 DEF IInv, ReuseOnlyAfterFault, ScanInv, Exists

-----------------------------------------------------------------------------
(* The actions                                                             *)

LEMMA Initially == Init => IInv
<1> SUFFICES ASSUME Init PROVE IInv
  OBVIOUS
<1>1. [rt |-> 0, revoked |-> FALSE] \in [rt : Token, revoked : BOOLEAN]
  BY DEF Token
<1>2. NoScan \in [keys : SUBSET Sid, due : SUBSET Sid, sub : Identity \cup {NoOne}]
  BY DEF NoScan
<1>3. TypeOK
  BY <1>1, <1>2, Names DEF Init, TypeOK, Local
<1>4. ScanInv
  BY DEF Init, ScanInv, NoScan
<1>5. \A s \in Sid : SessionInv(s) /\ StoredInv(s)
  BY DEF Init, SessionInv, StoredInv, Exists
<1>6. \A r \in Request : RequestInv(r) /\ LockInv(r) /\ TokenInv(r)
  BY Names DEF Init, RequestInv, LockInv, TokenInv, Settled, Critical
<1> QED BY <1>3, <1>4, <1>5, <1>6 DEF IInv, Init, ReuseOnlyAfterFault

LEMMA BeginRefreshStep ==
  ASSUME IInv, NEW r \in Request, NEW s \in Sid, NEW id \in Identity,
         NEW token \in Token, BeginRefresh(r, s, id, token)
  PROVE  IInv'
<1> DEFINE new == [Idle EXCEPT !.pc = "acquire", !.sid = s, !.who = id,
                               !.prev = token]
<1>1. /\ new \in Local /\ new.pc = "acquire" /\ new.sid = s
      /\ new.result = "none"
  BY Names DEF Local, Place
<1>2. req' = [req EXCEPT ![r] = new]
  BY DEF BeginRefresh
<1> HIDE DEF new
<1>3. /\ req' \in [Request -> Local] /\ req'[r] = new
      /\ \A x \in Request \ {r} : req'[x] = req[x]
  BY <1>1, <1>2 DEF IInv, TypeOK, Local
<1>4. TypeOK'
  BY <1>1, <1>3 DEF IInv, TypeOK, Local, BeginRefresh
<1>5. \A x \in Sid : SessionInv(x)' /\ StoredInv(x)'
  BY <1>1, <1>3 DEF IInv, SessionInv, StoredInv, Exists, BeginRefresh, Losing
<1>6. NoneReturns
  BY DEF NoneReturns, Exists, Over, BeginRefresh
<1>7. \A x \in Request : RequestInv(x)' /\ LockInv(x)' /\ TokenInv(x)'
  <2> TAKE x \in Request
  <2>1. CASE x = r
    BY <2>1, <1>1, <1>3 DEF RequestInv, LockInv, TokenInv, Settled, Critical,
                            BeginRefresh
  <2>2. CASE x # r
    BY <2>2, <1>3, <1>6, RequestKept DEF IInv, LockInv, TokenInv, BeginRefresh
  <2> QED BY <2>1, <2>2
<1> QED BY <1>4, <1>5, <1>7
        DEF IInv, ReuseOnlyAfterFault, ScanInv, Exists, BeginRefresh

LEMMA Somewhere ==
  ASSUME IInv, NEW r \in Request, req[r].pc # "idle"
  PROVE  \E s \in Sid :
           /\ s = req[r].sid /\ TypeOK /\ SessionInv(s)
           /\ RequestInv(r) /\ LockInv(r) /\ TokenInv(r)
           /\ req[r].result \in Outcome
           /\ req[r].result = "success" => req[r].who = Owner[s]
           /\ req[r].result = "terminal" /\ req[r].who = Owner[s]
                => Over(s)
BY DEF IInv, RequestInv, TypeOK

LEMMA Quiet ==
  ASSUME sess' = sess
  PROVE  /\ \A s \in Sid : Exists(s)' = Exists(s)
         /\ grant' = grant => \A s \in Sid : Over(s)' = Over(s)
BY DEF Exists, Over

LEMMA Outcomes == Outcome = {"none", "success", "terminal", "transient", "unavailable"}
BY DEF Outcome

LEMMA Places ==
  /\ Place \ (Settled \cup {"acquire", "validate"}) =
       {"idle", "read", "release", "poll", "probe", "final", "answer"}
  /\ Place \ Settled =
       {"idle", "acquire", "validate", "read", "release", "poll", "probe",
        "final", "answer"}
  /\ Critical = {"read", "issuer", "store", "rejected", "unusable", "release"}
  /\ Losing = {"store", "unusable"}
  /\ Settled = {"issuer", "store", "rejected", "unusable"} /\ Settled \subseteq Place
BY DEF Place, Settled, Critical, Waiting, Losing

LEMMA AcquireLockStep ==
  ASSUME IInv, NEW r \in Request, AcquireLock(r)
  PROVE  IInv'
<1>1. /\ req[r].pc = "acquire" /\ sess' = sess
      /\ UNCHANGED <<now, grant, replaced, scan, faults, historyVars>>
  BY DEF AcquireLock
<1>2. PICK s \in Sid :
        /\ s = req[r].sid /\ TypeOK /\ LockInv(r) /\ req[r].result \in Outcome
        /\ req[r].result = "success" => req[r].who = Owner[s]
        /\ req[r].result = "terminal" /\ req[r].who = Owner[s]
             => Over(s)
  BY <1>1, Somewhere
<1>3. CASE LockFree(s) /\ lock' = [lock EXCEPT ![s] = r] /\ Goes(r, "read")
  <2>1. Change(r, "read", req[r].result)
    BY <1>2, <1>3, Went, Places
  <2>2. /\ lock' \in [Sid -> Request \cup {NoOne}] /\ lock'[s] = r
        /\ \A x \in Request \ {r}, z \in Sid : lock[z] = x => lock'[z] = x
    BY <1>2, <1>3 DEF TypeOK, LockFree
  <2>3. r \notin stale
    BY <1>1, <1>2 DEF LockInv
  <2>4. /\ faults' \in 0..MaxFaults
        /\ spent \subseteq spent' /\ spent' \subseteq Sid
        /\ UNCHANGED <<now, grant, replaced, scan, born, ended, reused, stale>>
    BY <1>1, <1>2 DEF TypeOK, historyVars
  <2> QED BY <1>1, <1>2, <2>1, <2>2, <2>3, <2>4, Quiet, Places, RequestMoves
<1>4. CASE Goes(r, "poll") /\ UNCHANGED lock
  <2>1. Change(r, "poll", req[r].result)
    BY <1>2, <1>4, Went, Places
  <2>2. UNCHANGED <<now, lock, grant, replaced, scan, faults, historyVars>>
    BY <1>1, <1>4
  <2> QED BY <1>1, <1>2, <2>1, <2>2, Quiet, Places, RequestGoes
<1> QED BY <1>1, <1>2, <1>3, <1>4 DEF AcquireLock

LEMMA ReadSessionStep ==
  ASSUME IInv, NEW r \in Request, ReadSession(r)
  PROVE  IInv'
<1>1. /\ req[r].pc = "read"
      /\ UNCHANGED <<now, lock, grant, replaced, scan, faults, historyVars>>
  BY DEF ReadSession
<1>2. PICK s \in Sid : s = req[r].sid /\ TypeOK /\ SessionInv(s)
                       /\ RequestInv(r) /\ LockInv(r)
  BY <1>1, Somewhere
<1> DEFINE ours == Exists(s) /\ Refreshable(s) /\ SessionMatches(s, req[r].who)
<1>3. ours => req[r].who = Owner[s] /\ sess[s].rt \in Token /\ sess[s].rt # NoToken
  BY <1>2 DEF SessionInv, SessionMatches, Refreshable, TypeOK, Session
<1>4. ~ours => req[r].who # Owner[s] \/ Over(s)
  BY <1>2 DEF SessionInv, SessionMatches, Refreshable, Over
<1>5. CASE ~ours /\ Conclude(r, "terminal") /\ UNCHANGED sess
  <2>1. Change(r, "release", "terminal")
    BY <1>2, <1>5, Concluded, Outcomes
  <2>2. req[r].who # Owner[s] \/ Over(s)'
    BY <1>1, <1>4, <1>5, Quiet
  <2> QED BY <1>1, <1>2, <1>5, <2>1, <2>2, Places, Outcomes, RequestGoes
<1>6. CASE sess' = Deleted(s) /\ Conclude(r, "terminal")
  <2>1. Change(r, "release", "terminal")
    BY <1>2, <1>6, Concluded, Outcomes
  <2> QED BY <1>1, <1>2, <1>6, <2>1, Removed, Places, Outcomes, RequestGoes
<1>7. CASE /\ ours
           /\ req' = [req EXCEPT ![r].pc = "issuer", ![r].got = sess[s]]
           /\ UNCHANGED sess
  <2> DEFINE new == [req[r] EXCEPT !.pc = "issuer", !.got = sess[s]]
  <2>1. req[r] \in Local /\ sess[s] \in Session /\ "issuer" \in Place
    BY <1>2, Places DEF TypeOK, Local
  <2>2. /\ new \in Local /\ new.pc = "issuer" /\ new.sid = s
        /\ new.who = req[r].who /\ new.got = sess[s] /\ new.result = req[r].result
    BY <1>2, <2>1 DEF Local
  <2>3. req \in [Request -> Local] /\ req' = [req EXCEPT ![r] = new]
    BY <1>2, <1>7 DEF TypeOK, Local
  <2> HIDE DEF new
  <2>4. /\ req' \in [Request -> Local] /\ req'[r] = new
        /\ \A x \in Request \ {r} : req'[x] = req[x]
    BY <2>2, <2>3
  <2>5. TypeOK'
    BY <1>1, <1>2, <1>7, <2>2, <2>4 DEF TypeOK, Local, historyVars
  <2>6. \A x \in Sid : SessionInv(x)' /\ StoredInv(x)'
    BY <1>1, <1>7, <2>2, <2>4 DEF IInv, SessionInv, StoredInv, Exists, Losing,
                                  historyVars
  <2>7. NoneReturns
    BY <1>1, <1>7 DEF NoneReturns, Exists, Over, historyVars
  <2>8. \A x \in Request : RequestInv(x)' /\ LockInv(x)' /\ TokenInv(x)'
    <3> TAKE x \in Request
    <3>1. CASE x = r
      <4>1. RequestInv(r)'
        <5>1. Over(s)' = Over(s)
          BY <1>1, <1>7, Quiet
        <5>2. /\ sess'[s] = sess[s] /\ born' = born /\ grant' = grant
              /\ sess[s].sub = Owner[s] /\ sess[s].created = born[s]
          BY <1>1, <1>2, <1>7 DEF SessionInv, historyVars
        <5>3. req'[r].sid = s /\ req'[r].who = req[r].who /\ req'[r].pc = "issuer"
              /\ req'[r].got = sess[s] /\ req'[r].result = req[r].result
          BY <2>2, <2>4
        <5> QED BY <1>1, <1>2, <1>3, <1>7, <5>1, <5>2, <5>3
                DEF RequestInv, Settled
      <4>2. LockInv(r)'
        BY <1>1, <1>2, <2>2, <2>4, Places DEF LockInv, historyVars
      <4>3. TokenInv(r)'
        <5>1. s \notin spent =>
                \A z \in Request : req[z].pc \in Losing => req[z].sid # s
          BY <1>1, <1>2, Places DEF IInv, LockInv
        <5> QED BY <1>1, <1>2, <1>3, <1>7, <2>2, <2>4, <5>1
                DEF IInv, TokenInv, StoredInv, historyVars
      <4> QED BY <3>1, <4>1, <4>2, <4>3
    <3>2. CASE x # r
      BY <1>1, <2>4, <2>7, <3>2, RequestKept DEF IInv, LockInv, TokenInv, historyVars
    <3> QED BY <3>1, <3>2
  <2> QED BY <1>1, <1>7, <2>5, <2>6, <2>8
          DEF IInv, ReuseOnlyAfterFault, ScanInv, Exists, historyVars
<1> QED BY <1>1, <1>2, <1>5, <1>6, <1>7 DEF ReadSession

\* With its token unspent, a request at the issuer is alone in the critical
\* section of its session.
LEMMA Alone ==
  ASSUME IInv, NEW r \in Request, NEW x \in Request \ {r}, req[r].pc = "issuer",
         req[r].sid \notin spent, req[x].sid = req[r].sid
  PROVE  req[x].pc \notin Critical
BY Places DEF IInv, LockInv

LEMMA IssuerRotatesStep ==
  ASSUME IInv, NEW r \in Request, IssuerRotates(r)
  PROVE  IInv'
<1>1. /\ req[r].pc = "issuer" /\ Fresh(r) /\ req[r].got.rt < MaxToken
      /\ grant' = [grant EXCEPT ![req[r].sid].rt = @ + 1]
      /\ UNCHANGED <<now, sess, lock, replaced, scan, faults, historyVars>>
  BY DEF IssuerRotates
<1>2. PICK s \in Sid : s = req[r].sid /\ TypeOK /\ RequestInv(r) /\ LockInv(r)
  BY <1>1, Somewhere
<1>3. PICK place \in {"store", "unusable"} : Goes(r, place)
  BY DEF IssuerRotates
<1>4. Change(r, place, req[r].result)
  BY <1>2, <1>3, Went, Places
<1>5. /\ grant' \in [Sid -> [rt : Token, revoked : BOOLEAN]]
      /\ grant'[s].rt = req[r].got.rt + 1
      /\ \A z \in Sid : grant'[z].revoked = grant[z].revoked
      /\ \A z \in Sid \ {s} : grant'[z] = grant[z]
  BY <1>1, <1>2 DEF TypeOK, Fresh, Token
<1>6. TypeOK'
  BY <1>1, <1>2, <1>3, <1>4, <1>5 DEF TypeOK, Local, Change, historyVars
<1>7. \A z \in Sid : SessionInv(z)' /\ StoredInv(z)'
  <2> TAKE z \in Sid
  <2>1. SessionInv(z)'
    BY <1>1, <1>2, <1>5, Quiet DEF IInv, SessionInv, RequestInv, historyVars
  <2>2. StoredInv(z)'
    <3>1. CASE z = s
      BY <1>2, <1>4, <3>1, Places DEF StoredInv, Change
    <3>2. CASE z # s
      BY <1>1, <1>2, <1>4, <1>5, <3>2, Quiet, Places DEF IInv, StoredInv, Change, historyVars
    <3> QED BY <3>1, <3>2
  <2> QED BY <2>1, <2>2
<1>8. \A x \in Request : RequestInv(x)' /\ LockInv(x)' /\ TokenInv(x)'
  <2> TAKE x \in Request
  <2>1. CASE x = r
    <3>1. RequestInv(r)'
      <4>1. Over(s) => Over(s)'
        BY <1>1, <1>2, <1>5, Quiet DEF Over
      <4> QED BY <1>1, <1>2, <1>3, <1>4, <1>5, <4>1, Places
              DEF RequestInv, Change, historyVars
    <3>2. LockInv(r)' /\ TokenInv(r)'
      BY <1>1, <1>2, <1>3, <1>4, <1>5, Places DEF LockInv, TokenInv, Change, historyVars
    <3> QED BY <2>1, <3>1, <3>2
  <2>2. CASE x # r
    <3>1. req'[x] = req[x]
      BY <1>4, <2>2 DEF Change
    <3>2. NoneReturns
      BY <1>1, <1>5, Quiet DEF NoneReturns, Over, historyVars
    <3>3. RequestInv(x)' /\ LockInv(x)'
      BY <1>1, <3>1, <3>2, RequestKept DEF IInv, LockInv, historyVars
    <3>4. TokenInv(x)'
      BY <1>1, <1>2, <1>5, <2>2, <3>1, Alone, Places DEF IInv, TokenInv, historyVars
    <3> QED BY <3>3, <3>4
  <2> QED BY <2>1, <2>2
<1> QED BY <1>1, <1>6, <1>7, <1>8, Quiet
        DEF IInv, ReuseOnlyAfterFault, ScanInv, TypeOK, historyVars

LEMMA IssuerRejectsStep ==
  ASSUME IInv, NEW r \in Request, IssuerRejects(r)
  PROVE  IInv'
<1>1. PICK s \in Sid : s = req[r].sid /\ TypeOK /\ RequestInv(r) /\ LockInv(r)
                       /\ TokenInv(r)
  BY Somewhere DEF IssuerRejects
<1>2. /\ req[r].pc = "issuer" /\ sess' = sess
      /\ UNCHANGED <<now, lock, replaced, scan, faults, born, ended, spent, stale>>
  BY <1>1 DEF IssuerRejects
<1>3. /\ reused' \subseteq Sid
      /\ reused' \subseteq spent
  BY <1>1 DEF IInv, ReuseOnlyAfterFault, TokenInv, TypeOK, IssuerRejects
<1>4. Change(r, "rejected", req[r].result)
  BY <1>1, Went, Places DEF IssuerRejects
<1>5. /\ grant' \in [Sid -> [rt : Token, revoked : BOOLEAN]]
      /\ grant'[s].revoked = TRUE /\ grant'[s].rt = grant[s].rt
      /\ \A z \in Sid \ {s} : grant'[z] = grant[z]
  <2> DEFINE new == [grant[s] EXCEPT !.revoked = TRUE]
  <2>1. grant[s] \in [rt : Token, revoked : BOOLEAN]
    BY <1>1 DEF TypeOK
  <2>2. /\ new \in [rt : Token, revoked : BOOLEAN]
        /\ new.revoked = TRUE /\ new.rt = grant[s].rt
    BY <2>1
  <2>3. grant' = [grant EXCEPT ![s] = new]
    BY <1>1 DEF IssuerRejects
  <2> HIDE DEF new
  <2> QED BY <1>1, <2>2, <2>3 DEF TypeOK
<1>6. TypeOK'
  <2>1. grant' \in [Sid -> [rt : Token, revoked : BOOLEAN]]
    BY <1>5
  <2> QED BY <1>1, <1>2, <1>3, <1>4, <2>1 DEF TypeOK, Local, Change
<1>7. \A z \in Sid : SessionInv(z)' /\ StoredInv(z)'
  <2>1. \A z \in Sid : grant'[z].rt = grant[z].rt
    BY <1>5
  <2>2. \A x \in Request : req'[x].sid = req[x].sid
                           /\ (req'[x].pc \in Losing <=> req[x].pc \in Losing)
    BY <1>2, <1>4, Places DEF Change
  <2>3. \A z \in Sid : SessionInv(z)'
    BY <1>2, <2>1, Quiet DEF IInv, SessionInv
  <2> QED BY <1>2, <2>1, <2>2, <2>3, Quiet DEF IInv, StoredInv
<1>8. \A x \in Request : RequestInv(x)' /\ LockInv(x)' /\ TokenInv(x)'
  <2> TAKE x \in Request
  <2>1. CASE x = r
    <3>1. Over(s)'
      BY <1>1, <1>5 DEF Over
    <3> QED BY <1>1, <1>2, <1>4, <1>5, <2>1, <3>1, Places
            DEF RequestInv, LockInv, TokenInv, Change
  <2>2. CASE x # r
    <3>1. req'[x] = req[x]
      BY <1>4, <2>2 DEF Change
    <3>2. NoneReturns
      BY <1>2, <1>5, Quiet DEF NoneReturns, Over
    <3>3. RequestInv(x)' /\ LockInv(x)'
      BY <1>2, <3>1, <3>2, RequestKept DEF IInv, LockInv
    <3>4. TokenInv(x)'
      BY <1>2, <1>5, <3>1 DEF IInv, TokenInv
    <3> QED BY <3>3, <3>4
  <2> QED BY <2>1, <2>2
<1> QED BY <1>2, <1>3, <1>6, <1>7, <1>8, Quiet
        DEF IInv, ReuseOnlyAfterFault, ScanInv, TypeOK

LEMMA IssuerUnavailableStep ==
  ASSUME IInv, NEW r \in Request, IssuerUnavailable(r)
  PROVE  IInv'
<1>1. /\ req[r].pc = "issuer" /\ sess' = sess /\ Conclude(r, "transient")
      /\ UNCHANGED <<now, lock, grant, replaced, scan, faults, historyVars>>
  BY DEF IssuerUnavailable
<1>2. PICK s \in Sid : s = req[r].sid /\ TypeOK
  BY <1>1, Somewhere
<1>3. Change(r, "release", "transient")
  BY <1>1, <1>2, Concluded, Outcomes
<1> QED BY <1>1, <1>2, <1>3, Quiet, Places, Outcomes, RequestGoes

LEMMA IssuerAnswerLostStep ==
  ASSUME IInv, NEW r \in Request, IssuerAnswerLost(r)
  PROVE  IInv'
<1>1. PICK s \in Sid : s = req[r].sid /\ TypeOK /\ RequestInv(r) /\ LockInv(r)
  BY Somewhere DEF IssuerAnswerLost
<1>2. /\ req[r].pc = "issuer" /\ Fresh(r) /\ req[r].got.rt < MaxToken
      /\ faults' \in 0..MaxFaults /\ sess' = sess
      /\ grant' = [grant EXCEPT ![s].rt = @ + 1]
      /\ spent' = spent \cup {s}
      /\ UNCHANGED <<now, lock, replaced, scan, born, ended, reused, stale>>
  BY <1>1 DEF IssuerAnswerLost, TypeOK
<1>3. Change(r, "release", "transient")
  BY <1>1, Concluded, Outcomes DEF IssuerAnswerLost
<1>4. /\ grant' \in [Sid -> [rt : Token, revoked : BOOLEAN]]
      /\ \A z \in Sid : grant'[z].revoked = grant[z].revoked
      /\ \A z \in Sid \ {s} : grant'[z] = grant[z]
  BY <1>1, <1>2 DEF TypeOK, Fresh, Token
<1>5. TypeOK'
  BY <1>1, <1>2, <1>3, <1>4 DEF TypeOK, Local, Change
<1>6. \A z \in Sid : SessionInv(z)' /\ StoredInv(z)'
  <2> TAKE z \in Sid
  <2>1. SessionInv(z)'
    BY <1>1, <1>2, <1>4, Quiet DEF IInv, SessionInv, RequestInv
  <2>2. CASE z = s
    BY <1>2, <2>1, <2>2 DEF StoredInv
  <2>3. CASE z # s
    BY <1>1, <1>2, <1>3, <1>4, <2>1, <2>3, Quiet, Places DEF IInv, StoredInv, Change
  <2> QED BY <2>2, <2>3
<1>7. \A x \in Request : RequestInv(x)' /\ LockInv(x)' /\ TokenInv(x)'
  <2> TAKE x \in Request
  <2>1. CASE x = r
    BY <1>1, <1>2, <1>3, <1>4, <2>1, Quiet, Places
       DEF RequestInv, LockInv, TokenInv, Change
  <2>2. CASE x # r
    <3>1. req'[x] = req[x]
      BY <1>3, <2>2 DEF Change
    <3>2. NoneReturns
      BY <1>2, <1>4, Quiet DEF NoneReturns, Over
    <3>3. RequestInv(x)' /\ LockInv(x)'
      BY <1>2, <3>1, <3>2, RequestKept DEF IInv, LockInv
    <3>4. TokenInv(x)'
      BY <1>2, <1>4, <3>1 DEF IInv, TokenInv
    <3> QED BY <3>3, <3>4
  <2> QED BY <2>1, <2>2
<1> QED BY <1>2, <1>5, <1>6, <1>7, Quiet
        DEF IInv, ReuseOnlyAfterFault, ScanInv, TypeOK

LEMMA DeleteRejectedStep ==
  ASSUME IInv, NEW r \in Request, DeleteRejected(r)
  PROVE  IInv'
<1>1. PICK s \in Sid : s = req[r].sid /\ TypeOK
  BY Somewhere DEF DeleteRejected
<1>2. /\ req[r].pc \in Critical \ {"idle"} /\ sess' = Deleted(s)
      /\ UNCHANGED <<now, lock, grant, replaced, scan, faults, historyVars>>
  BY <1>1, Places DEF DeleteRejected
<1>3. Change(r, "release", "terminal")
  BY <1>1, Concluded, Outcomes DEF DeleteRejected
<1> QED BY <1>1, <1>2, <1>3, Removed, Places, Outcomes, RequestGoes

LEMMA StoredFacts ==
  ASSUME TypeOK, NEW sub \in Identity, NEW rt \in Token \cup {NoToken},
         NEW at \in Token, NEW created \in 0..MaxTime, WindowOpen(created)
  PROVE  /\ Stored(sub, rt, at, created) \in Session \ {NoSession}
         /\ Stored(sub, rt, at, created).sub = sub
         /\ Stored(sub, rt, at, created).rt = rt
         /\ Stored(sub, rt, at, created).created = created
         /\ Stored(sub, rt, at, created).expires <= created + SessionTTL
<1> DEFINE until == now + SmallerOf(SessionTTL, created + SessionTTL - now)
<1>1. until \in 0..(MaxTime + SessionTTL) /\ until <= created + SessionTTL
  BY DEF TypeOK, WindowOpen, SmallerOf
<1>2. Stored(sub, rt, at, created) =
        [sub |-> sub, rt |-> rt, at |-> at, created |-> created,
         expires |-> until]
  BY DEF Stored
<1> HIDE DEF until
<1> QED BY <1>1, <1>2, Names DEF Session

LEMMA StoreRefreshedStep ==
  ASSUME IInv, NEW r \in Request, StoreRefreshed(r)
  PROVE  IInv'
<1>1. PICK s \in Sid : s = req[r].sid /\ TypeOK /\ RequestInv(r) /\ LockInv(r)
                       /\ TokenInv(r) /\ SessionInv(s)
  BY Somewhere DEF StoreRefreshed
<1>2. /\ req[r].pc = "store"
      /\ UNCHANGED <<now, lock, grant, replaced, scan, faults, historyVars>>
  BY DEF StoreRefreshed
<1>3. CASE ~MayReplace(s) /\ Conclude(r, "terminal") /\ UNCHANGED sess
  <2>1. Change(r, "release", "terminal")
    BY <1>1, <1>3, Concluded, Outcomes
  <2>2. ~Exists(s)' /\ Over(s)'
    <3>1. ~Exists(s)'
      BY <1>1, <1>3, Quiet DEF MayReplace
    <3> QED BY <3>1 DEF Over
  <2> QED BY <1>1, <1>2, <1>3, <2>1, <2>2, Places, Outcomes, RequestGoes
<1>4. CASE sess' = Deleted(s) /\ Conclude(r, "terminal")
  <2>1. Change(r, "release", "terminal")
    BY <1>1, <1>4, Concluded, Outcomes
  <2> QED BY <1>1, <1>2, <1>4, <2>1, Removed, Places, Outcomes, RequestGoes
<1>5. CASE /\ WindowOpen(req[r].got.created) /\ MayReplace(s)
           /\ sess' = [sess EXCEPT ![s] = Stored(req[r].got.sub, req[r].got.rt + 1,
                              req[r].got.rt + 1, req[r].got.created)]
           /\ Conclude(r, "success")
  <2>1. /\ req[r].who = Owner[s] /\ req[r].got.sub = Owner[s]
        /\ req[r].got.created = born[s] /\ req[r].got.rt + 1 \in Token
        /\ born[s] \in 0..MaxTime /\ Owner[s] \in Identity
    BY <1>1, <1>2, Places DEF RequestInv, TypeOK, Local, Session, Token
  <2>2. PICK new \in Session \ {NoSession} :
          /\ sess' = [sess EXCEPT ![s] = new]
          /\ new.sub = Owner[s] /\ new.created = born[s]
          /\ new.rt = req[r].got.rt + 1
          /\ new.expires <= born[s] + SessionTTL
    <3> DEFINE n == req[r].got.rt + 1
               new == Stored(req[r].got.sub, n, n, req[r].got.created)
    <3>1. /\ new \in Session \ {NoSession} /\ new.sub = Owner[s] /\ new.rt = n
          /\ new.created = born[s] /\ new.expires <= born[s] + SessionTTL
      <4>1. n \in Token /\ n \in Token \cup {NoToken}
        BY <2>1
      <4> HIDE DEF n
      <4> QED BY <1>1, <1>5, <2>1, <4>1, StoredFacts
    <3> QED BY <1>5, <3>1
  <2>3. /\ sess' \in [Sid -> Session] /\ sess'[s] = new
        /\ \A z \in Sid \ {s} : sess'[z] = sess[z]
        /\ \A z \in Sid : Exists(z)' = Exists(z)
    BY <1>1, <1>5, <2>2 DEF TypeOK, Exists, MayReplace
  <2>4. Change(r, "release", "success")
    BY <1>1, <1>5, Concluded, Outcomes
  <2>5. TypeOK'
    BY <1>1, <1>2, <2>3, <2>4 DEF TypeOK, Local, Change, historyVars
  <2>6. \A z \in Sid : SessionInv(z)' /\ StoredInv(z)'
    <3> TAKE z \in Sid
    <3>1. CASE z = s
      <4>1. SessionInv(s)'
        BY <1>1, <1>2, <1>5, <2>2, <2>3 DEF SessionInv, MayReplace, historyVars
      <4>2. StoredInv(s)'
        BY <1>1, <1>2, <2>2, <2>3 DEF StoredInv, TokenInv, historyVars
      <4> QED BY <3>1, <4>1, <4>2
    <3>2. CASE z # s
      BY <1>1, <1>2, <2>3, <2>4, <3>2, Places
         DEF IInv, SessionInv, StoredInv, Change, historyVars
    <3> QED BY <3>1, <3>2
  <2>7. \A x \in Request : RequestInv(x)' /\ LockInv(x)' /\ TokenInv(x)'
    <3> TAKE x \in Request
    <3>1. CASE x = r
      BY <1>1, <1>2, <2>1, <2>4, <3>1, Places
         DEF RequestInv, LockInv, TokenInv, Change, historyVars
    <3>2. CASE x # r
      <4>1. req'[x] = req[x]
        BY <2>4, <3>2 DEF Change
      <4>2. NoneReturns
        BY <1>1, <1>2, <2>1, <2>2, <2>3, Names
           DEF NoneReturns, RequestInv, MayReplace, Over, historyVars
      <4> QED BY <1>2, <4>1, <4>2, RequestKept
              DEF IInv, LockInv, TokenInv, historyVars
    <3> QED BY <3>1, <3>2
  <2> QED BY <1>2, <2>3, <2>5, <2>6, <2>7
          DEF IInv, ReuseOnlyAfterFault, ScanInv, TypeOK, historyVars
<1> QED BY <1>1, <1>3, <1>4, <1>5 DEF StoreRefreshed

LEMMA ReleaseLockStep ==
  ASSUME IInv, NEW r \in Request, ReleaseLock(r)
  PROVE  IInv'
<1>1. PICK s \in Sid :
        /\ s = req[r].sid /\ TypeOK /\ req[r].result \in Outcome
        /\ req[r].result = "success" => req[r].who = Owner[s]
        /\ req[r].result = "terminal" /\ req[r].who = Owner[s]
             => Over(s)
  BY Somewhere DEF ReleaseLock
<1>2. /\ req[r].pc = "release" /\ sess' = sess
      /\ faults' \in 0..MaxFaults
      /\ spent \subseteq spent' /\ spent' \subseteq Sid
      /\ UNCHANGED <<now, grant, replaced, scan, born, ended, reused, stale>>
  BY <1>1 DEF ReleaseLock, historyVars, TypeOK
<1>3. /\ lock' \in [Sid -> Request \cup {NoOne}]
      /\ \A x \in Request \ {r}, z \in Sid : lock[z] = x => lock'[z] = x
  BY <1>1 DEF ReleaseLock, MayRelease, TypeOK
<1> DEFINE p == IF req[r].result = "success" THEN "validate" ELSE "answer"
<1>4. Change(r, p, req[r].result)
  BY <1>1, Returned DEF ReleaseLock
<1>5. /\ p \in Place \ Settled /\ p # "acquire" /\ p \notin Critical
      /\ p = "validate" => req[r].result = "success"
  BY Places
<1> HIDE DEF p
<1> QED BY <1>1, <1>2, <1>3, <1>4, <1>5, Quiet, Places, RequestMoves

\* A request that returns leaves everything else as it is.
LEMMA ReturnStep ==
  ASSUME IInv, NEW r \in Request, NEW s \in Sid, s = req[r].sid,
         NEW o \in Outcome, Return(r, o),
         req[r].pc \notin Losing \cup {"idle"},
         sess' = sess \/ sess' = Deleted(s),
         UNCHANGED <<now, lock, grant, replaced, scan, faults, historyVars>>,
         o = "success" => req[r].who = Owner[s],
         o = "terminal" /\ req[r].who = Owner[s]
           => Over(s)'
  PROVE  IInv'
<1> DEFINE p == IF o = "success" THEN "validate" ELSE "answer"
<1>1. Change(r, p, o)
  BY Returned DEF IInv
<1>2. /\ p \in Place \ Settled /\ p # "acquire" /\ p \notin Critical
      /\ p = "validate" => o = "success"
  BY Places
<1> HIDE DEF p
<1> QED BY <1>1, <1>2, RequestGoes

LEMMA PollStep ==
  ASSUME IInv, NEW r \in Request, Poll(r) \/ Probe(r) \/ FinalRead(r)
  PROVE  IInv'
<1>1. /\ req[r].pc \in {"poll", "probe", "final"} /\ sess' = sess
      /\ UNCHANGED <<now, lock, grant, replaced, scan, faults, historyVars>>
  BY DEF Poll, Probe, FinalRead
<1>2. PICK s \in Sid :
        /\ s = req[r].sid /\ TypeOK /\ SessionInv(s) /\ req[r].result \in Outcome
        /\ req[r].result = "success" => req[r].who = Owner[s]
        /\ req[r].result = "terminal" /\ req[r].who = Owner[s]
             => Over(s)
  BY <1>1, Somewhere
<1>3. Foreign(r) => req[r].who # Owner[s]
  BY <1>2 DEF Foreign, SessionInv, SessionMatches
<1>4. ~Foreign(r) /\ Exists(s) => req[r].who = Owner[s]
  BY <1>2 DEF Foreign, SessionInv, SessionMatches
<1>5. CASE \E p \in {"probe", "final"} : Goes(r, p)
  <2>1. PICK p \in {"probe", "final"} : Goes(r, p)
    BY <1>5
  <2>2. Change(r, p, req[r].result)
    BY <1>2, <2>1, Went, Places
  <2> QED BY <1>1, <1>2, <2>2, Quiet, Places, RequestGoes
<1>6. CASE req' = [req EXCEPT ![r].pc = "poll",
                              ![r].polls = SmallerOf(@ + 1, PollRounds)]
  <2> DEFINE n == SmallerOf(req[r].polls + 1, PollRounds)
             new == [req[r] EXCEPT !.pc = "poll", !.polls = n]
  <2>1. req \in [Request -> Local] /\ n \in 0..PollRounds
    BY <1>2 DEF TypeOK, Local, SmallerOf
  <2>2. req' = [req EXCEPT ![r] = new]
    BY <1>6, <2>1 DEF Local
  <2> HIDE DEF n
  <2>3. req[r] \in Local /\ "poll" \in Place
    BY <2>1, Places
  <2>4. /\ new \in Local /\ new.pc = "poll" /\ new.result = req[r].result
        /\ new.sid = req[r].sid /\ new.who = req[r].who /\ new.got = req[r].got
    BY <2>1, <2>3 DEF Local
  <2> HIDE DEF new
  <2>5. Change(r, "poll", req[r].result)
    BY <2>1, <2>2, <2>4 DEF Change
  <2> QED BY <1>1, <1>2, <2>5, Quiet, Places, RequestGoes
<1>7. CASE \E o \in Outcome :
             /\ Return(r, o)
             /\ o = "success" => req[r].who = Owner[s]
             /\ o = "terminal" /\ req[r].who = Owner[s] => ~Exists(s)
  BY <1>1, <1>2, <1>7, Places, ReturnStep DEF Exists, Over
<1>8. Poll(r) => \/ Return(r, "terminal") /\ Foreign(r)
                 \/ Return(r, "success") /\ NewToken(r) /\ ~Foreign(r)
                 \/ Goes(r, "probe")
  BY DEF Poll
<1>9. FinalRead(r) => Return(r, Verdict(r))
  BY DEF FinalRead
<1>10. /\ Verdict(r) \in Outcome
       /\ Verdict(r) = "success" => NewToken(r) /\ ~Foreign(r)
       /\ Verdict(r) = "terminal" => Foreign(r) \/ ~Exists(s)
  BY <1>2, Outcomes DEF Verdict, NewToken
<1>11. NewToken(r) => Exists(s)
  BY <1>2 DEF NewToken
<1>12. CASE Poll(r)
  BY <1>3, <1>4, <1>5, <1>7, <1>8, <1>11, <1>12, Outcomes
<1>13. CASE Probe(r)
  BY <1>5, <1>6, <1>13 DEF Probe
<1>14. CASE FinalRead(r)
  BY <1>3, <1>4, <1>7, <1>9, <1>10, <1>11, <1>14
<1> QED BY <1>12, <1>13, <1>14

LEMMA ValidateTokenStep ==
  ASSUME IInv, NEW r \in Request, ValidateToken(r)
  PROVE  IInv'
<1>1. /\ req[r].pc = "validate"
      /\ UNCHANGED <<now, lock, grant, replaced, scan, faults, historyVars>>
  BY DEF ValidateToken
<1>2. PICK s \in Sid :
        /\ s = req[r].sid /\ TypeOK /\ req[r].result \in Outcome
        /\ req[r].result = "success" => req[r].who = Owner[s]
        /\ req[r].result = "terminal" /\ req[r].who = Owner[s]
             => Over(s)
  BY <1>1, Somewhere
<1>3. CASE Goes(r, "answer") /\ UNCHANGED sess
  <2>1. Change(r, "answer", req[r].result)
    BY <1>2, <1>3, Went, Places
  <2> QED BY <1>1, <1>2, <1>3, <2>1, Quiet, Places, RequestGoes
<1>4. CASE sess' = Deleted(s) /\ Return(r, "terminal")
  BY <1>1, <1>2, <1>4, Removed, Places, Outcomes, ReturnStep
<1> QED BY <1>2, <1>3, <1>4 DEF ValidateToken

LEMMA RespondStep ==
  ASSUME IInv, NEW r \in Request, Respond(r)
  PROVE  IInv'
<1>1. /\ req' = [req EXCEPT ![r] = Idle]
      /\ UNCHANGED <<now, sess, lock, grant, replaced, scan, born, ended, reused>>
      /\ stale' \subseteq stale /\ stale \subseteq stale' \cup {r}
  BY DEF Respond
<1>2. faults' \in 0..MaxFaults /\ spent' = spent \cup SpentBy(r)
  BY DEF Respond, IInv, TypeOK, SpentBy, Losing
<1> QED BY <1>1, <1>2, RequestEnds

LEMMA CrashStep ==
  ASSUME IInv, NEW r \in Request, Crash(r)
  PROVE  IInv'
<1>1. /\ req' = [req EXCEPT ![r] = Idle]
      /\ UNCHANGED <<now, sess, lock, grant, replaced, scan, born, ended, reused>>
      /\ stale' \subseteq stale /\ stale \subseteq stale' \cup {r}
      /\ spent' = spent \cup SpentBy(r)
  BY DEF Crash
<1>2. faults' \in 0..MaxFaults
  BY DEF Crash, IInv, TypeOK
<1> QED BY <1>1, <1>2, RequestEnds

LEMMA RedisErrorStep ==
  ASSUME IInv, NEW r \in Request, RedisError(r)
  PROVE  IInv'
<1>1. /\ req[r].pc # "idle" /\ sess' = sess
      /\ UNCHANGED <<now, lock, grant, replaced, scan, born, ended, reused, stale>>
  BY Places DEF RedisError, Waiting
<1>2. PICK s \in Sid : s = req[r].sid /\ TypeOK /\ RequestInv(r) /\ LockInv(r)
  BY <1>1, Somewhere
<1>3. /\ faults' \in 0..MaxFaults
      /\ spent \subseteq spent' /\ spent' \subseteq Sid
      /\ lock' \in [Sid -> Request \cup {NoOne}]
      /\ \A x \in Request \ {r}, z \in Sid : lock[z] = x => lock'[z] = x
      /\ req[r].pc \in Losing => s \in spent'
  BY <1>1, <1>2 DEF RedisError, TypeOK, SpentBy
<1>4. CASE req[r].pc = "rejected" /\ Conclude(r, "terminal")
  <2>1. Change(r, "release", "terminal")
    BY <1>2, <1>4, Concluded, Outcomes
  <2>2. /\ r \notin stale => lock'[s] = r
        /\ r \in stale => s \in spent'
    BY <1>1, <1>2, <1>3, <1>4, Places DEF LockInv
  <2>3. Over(s)'
    BY <1>1, <1>2, <1>4 DEF RequestInv, Over
  <2> QED BY <1>1, <1>2, <1>3, <2>1, <2>2, <2>3, Places, Outcomes, RequestMoves
<1>5. CASE req[r].pc \in Critical \ {"rejected", "release"} /\ Conclude(r, "unavailable")
  <2>1. Change(r, "release", "unavailable")
    BY <1>2, <1>5, Concluded, Outcomes
  <2>2. /\ r \notin stale => lock'[s] = r
        /\ r \in stale => s \in spent'
    BY <1>1, <1>2, <1>3, <1>5 DEF LockInv
  <2> QED BY <1>1, <1>2, <1>3, <2>1, <2>2, Places, Outcomes, RequestMoves
<1>6. CASE Return(r, "unavailable")
  <2>1. Change(r, "answer", "unavailable")
    BY <1>2, <1>6, Returned, Outcomes
  <2> QED BY <1>1, <1>2, <1>3, <2>1, Places, Outcomes, RequestMoves
<1> QED BY <1>4, <1>5, <1>6 DEF RedisError

LEMMA LockExpiresStep ==
  ASSUME IInv, NEW s \in Sid, LockExpires(s)
  PROVE  IInv'
<1> DEFINE holders == {r \in Request : lock[s] = r /\ req[r].sid = s
                                         /\ req[r].pc \in Critical}
<1>1. /\ lock' = [lock EXCEPT ![s] = NoOne]
      /\ UNCHANGED <<now, sess, grant, req, replaced, scan, born, ended, reused>>
      /\ \/ holders = {} /\ UNCHANGED <<faults, stale, spent>>
         \/ /\ faults < MaxFaults /\ faults' = faults + 1
            /\ stale' = stale \cup holders /\ spent' = spent \cup {s}
  BY DEF LockExpires
<1>2. TypeOK
  BY DEF IInv
<1>3. /\ faults' \in 0..MaxFaults /\ stale' \subseteq Request
      /\ stale' = stale \cup holders
      /\ spent \subseteq spent' /\ spent' \subseteq Sid
      /\ holders # {} => s \in spent'
  BY <1>1, <1>2 DEF TypeOK
<1>4. /\ lock' \in [Sid -> Request \cup {NoOne}]
      /\ \A z \in Sid \ {s} : lock'[z] = lock[z]
  BY <1>1, <1>2 DEF TypeOK
<1>5. TypeOK'
  BY <1>1, <1>2, <1>3, <1>4 DEF TypeOK
<1>6. \A z \in Sid : SessionInv(z)' /\ StoredInv(z)'
  BY <1>1, <1>3, Quiet DEF IInv, SessionInv, StoredInv
<1>7. \A x \in Request : RequestInv(x)' /\ LockInv(x)' /\ TokenInv(x)'
  <2> TAKE x \in Request
  <2>1. RequestInv(x)'
    BY <1>1, Quiet, RequestKept DEF IInv, NoneReturns
  <2>2. LockInv(x)'
    <3>1. CASE x \in holders
      BY <1>1, <1>3, <3>1, Places DEF LockInv
    <3>2. CASE x \notin holders
      <4>1. req[x].pc # "idle" => req[x].sid \in Sid
        BY DEF IInv, RequestInv
      <4>2. LockInv(x)
        BY DEF IInv
      <4> QED BY <1>1, <1>3, <1>4, <3>2, <4>1, <4>2, Places DEF LockInv
    <3> QED BY <3>1, <3>2
  <2>3. TokenInv(x)'
    BY <1>1, <1>3 DEF IInv, TokenInv
  <2> QED BY <2>1, <2>2, <2>3
<1> QED BY <1>1, <1>3, <1>5, <1>6, <1>7, Quiet
        DEF IInv, ReuseOnlyAfterFault, ScanInv, TypeOK

LEMMA LoginStep ==
  ASSUME IInv, NEW s \in Sid, Login(s)
  PROVE  IInv'
<1>1. /\ born[s] = -1 /\ born' = [born EXCEPT ![s] = now]
      /\ UNCHANGED <<now, lock, grant, req, scan, faults, ended, reused, spent,
                     stale>>
  BY DEF Login
<1>2. TypeOK /\ SessionInv(s)
  BY DEF IInv
<1>3. now \in 0..MaxTime /\ 0 \in Token /\ WindowOpen(now) /\ Owner[s] \in Identity
  BY <1>2 DEF TypeOK, Token, WindowOpen
<1>12. PICK rt \in {0, NoToken} :
        sess' = [sess EXCEPT ![s] = Stored(Owner[s], rt, 0, now)]
  BY DEF Login
<1> DEFINE new == Stored(Owner[s], rt, 0, now)
<1>4. /\ new \in Session \ {NoSession}
      /\ new.sub = Owner[s] /\ new.rt \in {0, NoToken} /\ new.created = now
      /\ new.expires <= now + SessionTTL
  BY <1>2, <1>3, StoredFacts
<1> HIDE DEF new
<1>5. /\ sess' \in [Sid -> Session] /\ sess'[s] = new
      /\ \A z \in Sid \ {s} : sess'[z] = sess[z]
  BY <1>2, <1>4, <1>12 DEF TypeOK, new
<1>6. /\ born' \in [Sid -> -1..MaxTime] /\ born'[s] = now
      /\ \A z \in Sid \ {s} : born'[z] = born[z]
  BY <1>1, <1>2, <1>3, <1>4 DEF TypeOK
<1>7. /\ replaced \subseteq replaced' /\ replaced' \subseteq Sid
      /\ \A z \in replaced' \ replaced : Exists(z) /\ z # s
  BY <1>2 DEF Login, TypeOK
<1>8. TypeOK'
  BY <1>1, <1>2, <1>5, <1>6, <1>7 DEF TypeOK
<1>9. \A z \in Sid : SessionInv(z)' /\ StoredInv(z)'
  <2> TAKE z \in Sid
  <2>1. CASE z = s
    BY <1>1, <1>2, <1>3, <1>4, <1>5, <1>6, <1>7, <2>1 DEF SessionInv, StoredInv
  <2>2. CASE z # s
    BY <1>1, <1>5, <1>6, <1>7, <2>2 DEF IInv, SessionInv, StoredInv, Exists
  <2> QED BY <2>1, <2>2
<1>10. \A x \in Request : RequestInv(x)' /\ LockInv(x)' /\ TokenInv(x)'
  <2>1. NoneReturns
    BY <1>1, <1>5, <1>6 DEF NoneReturns, Exists, Over
  <2> QED BY <1>1, <2>1, RequestKept DEF IInv, LockInv, TokenInv
<1>11. ScanInv'
  BY <1>1, <1>2, <1>5, <1>6 DEF IInv, ScanInv, Exists, TypeOK
<1> QED BY <1>1, <1>8, <1>9, <1>10, <1>11 DEF IInv, ReuseOnlyAfterFault

LEMMA DeleteReplacedStep ==
  ASSUME IInv, NEW s \in Sid, DeleteReplaced(s)
  PROVE  IInv'
<1>1. /\ born[s] >= 0 /\ sess' = Deleted(s)
      /\ UNCHANGED <<now, lock, grant, req, scan, faults, born, reused, spent, stale>>
      /\ ended \subseteq ended' /\ ended' \subseteq ended \cup {s}
      /\ replaced' \subseteq replaced
  BY DEF DeleteReplaced, IInv, SessionInv
<1>2. ScanInv' /\ scan' \in [keys : SUBSET Sid, due : SUBSET Sid,
                             sub : Identity \cup {NoOne}]
  BY <1>1, Removed DEF IInv, ScanInv, Exists, TypeOK
<1> QED BY <1>1, <1>2, SessionGoes

LEMMA LogoutStep ==
  ASSUME IInv, NEW s \in Sid, NEW id, NEW token, NEW issuerUp,
         Logout(s, id, token, issuerUp)
  PROVE  IInv'
<1>1. /\ born[s] >= 0 /\ sess' = Deleted(s)
      /\ UNCHANGED <<now, lock, grant, req, replaced, scan, faults, born, reused,
                     spent, stale>>
      /\ ended \subseteq ended' /\ ended' \subseteq ended \cup {s}
  BY DEF Logout, IInv, SessionInv
<1>2. ScanInv' /\ scan' \in [keys : SUBSET Sid, due : SUBSET Sid,
                             sub : Identity \cup {NoOne}]
  BY <1>1, Removed DEF IInv, ScanInv, Exists, TypeOK
<1> QED BY <1>1, <1>2, SessionGoes

LEMMA ExpireStep ==
  ASSUME IInv, NEW s \in Sid, Expire(s)
  PROVE  IInv'
<1>1. /\ born[s] >= 0 /\ sess' = Deleted(s)
      /\ UNCHANGED <<now, lock, grant, req, replaced, scan, faults, historyVars>>
  BY DEF Expire, IInv, SessionInv
<1>2. ScanInv' /\ scan' \in [keys : SUBSET Sid, due : SUBSET Sid,
                             sub : Identity \cup {NoOne}]
  BY <1>1, Removed DEF IInv, ScanInv, Exists, TypeOK, historyVars
<1> QED BY <1>1, <1>2, SessionGoes DEF historyVars

\* A step of the scan: nothing but the scan and what is ended changes.
LEMMA ScanMoves ==
  ASSUME IInv, sess' = sess, ScanInv',
         UNCHANGED <<now, lock, grant, req, replaced, born, reused, spent, stale>>,
         faults' \in 0..MaxFaults,
         scan' \in [keys : SUBSET Sid, due : SUBSET Sid, sub : Identity \cup {NoOne}],
         ended' \subseteq Sid,
         \A s \in ended' : born[s] >= 0 /\ ~Exists(s)
  PROVE  IInv'
<1>1. TypeOK'
  BY DEF IInv, TypeOK
<1>2. \A s \in Sid : SessionInv(s)' /\ StoredInv(s)'
  BY Quiet DEF IInv, SessionInv, StoredInv
<1>3. \A r \in Request : RequestInv(r)' /\ LockInv(r)' /\ TokenInv(r)'
  BY Quiet, RequestKept DEF IInv, LockInv, TokenInv, NoneReturns, Over
<1> QED BY <1>1, <1>2, <1>3 DEF IInv, ReuseOnlyAfterFault

LEMMA RevokeStartStep ==
  ASSUME IInv, NEW id \in Identity, RevokeStart(id)
  PROVE  IInv'
<1> DEFINE k == {s \in Sid : Exists(s)}
           d == {s \in Sid : Exists(s) /\ Owner[s] = id}
<1>1. k \subseteq Sid /\ d \subseteq k /\ \A s \in d : born[s] >= 0 /\ Owner[s] = id
  BY DEF IInv, SessionInv
<1>2. /\ scan' = [keys |-> k, sub |-> id, due |-> d] /\ sess' = sess
      /\ UNCHANGED <<now, lock, grant, req, replaced, faults, historyVars>>
  BY DEF RevokeStart
<1>3. faults' \in 0..MaxFaults /\ ended' \subseteq Sid
      /\ \A s \in ended' : born[s] >= 0 /\ ~Exists(s)
  BY <1>2 DEF IInv, TypeOK, SessionInv, historyVars
<1> HIDE DEF k, d
<1>4. /\ scan'.keys = k /\ scan'.due = d /\ scan'.sub = id
      /\ scan' \in [keys : SUBSET Sid, due : SUBSET Sid, sub : Identity \cup {NoOne}]
  BY <1>1, <1>2
<1>5. ScanInv'
  BY <1>1, <1>2, <1>4 DEF ScanInv, historyVars
<1> QED BY <1>2, <1>3, <1>4, <1>5, ScanMoves DEF historyVars

LEMMA RevokeKeyStep ==
  ASSUME IInv, NEW s \in Sid, RevokeKey(s)
  PROVE  IInv'
<1>1. /\ s \in scan.keys /\ scan' = [scan EXCEPT !.keys = @ \ {s}]
      /\ UNCHANGED <<now, lock, grant, req, replaced, faults, historyVars>>
  BY DEF RevokeKey
<1>2. TypeOK /\ ScanInv /\ SessionInv(s)
  BY DEF IInv
<1>3. /\ scan'.keys = scan.keys \ {s} /\ scan'.due = scan.due
      /\ scan'.sub = scan.sub
      /\ scan' \in [keys : SUBSET Sid, due : SUBSET Sid, sub : Identity \cup {NoOne}]
  BY <1>1, <1>2 DEF TypeOK
<1>4. ended' \subseteq Sid /\ faults' \in 0..MaxFaults
      /\ \A z \in ended' : born[z] >= 0 /\ ~Exists(z)
  BY <1>1 DEF IInv, TypeOK, SessionInv, historyVars
<1>5. CASE SessionMatches(s, scan.sub) /\ sess' = Deleted(s)
  <2>1. ScanInv'
    BY <1>1, <1>2, <1>3, <1>5, Removed DEF ScanInv, Exists, TypeOK, historyVars
  <2>2. CASE Exists(s)
    <3>1. born[s] >= 0
      BY <1>2, <2>2 DEF SessionInv
    <3> QED BY <1>1, <1>3, <1>5, <2>1, <3>1, SessionGoes DEF historyVars
  <2>3. CASE ~Exists(s)
    <3>1. sess' = sess
      BY <1>2, <1>5, <2>3 DEF TypeOK, Deleted, Exists
    <3> QED BY <1>1, <1>3, <1>4, <2>1, <3>1, ScanMoves DEF historyVars
  <2> QED BY <2>2, <2>3
<1>6. CASE ~SessionMatches(s, scan.sub) /\ sess' = sess
  <2>1. s \in scan.due => ~Exists(s)
    BY <1>2, <1>6 DEF ScanInv, SessionInv, SessionMatches
  <2>2. ScanInv'
    BY <1>1, <1>2, <1>3, <1>6, <2>1, Quiet DEF ScanInv, TypeOK, historyVars
  <2> QED BY <1>1, <1>3, <1>4, <1>6, <2>2, ScanMoves DEF historyVars
<1> QED BY <1>5, <1>6 DEF RevokeKey

LEMMA RevokeEndStep ==
  ASSUME IInv, RevokeEnd \/ RevokeFails
  PROVE  IInv'
<1>1. /\ scan' = NoScan /\ sess' = sess
      /\ UNCHANGED <<now, lock, grant, req, replaced, born, reused, spent, stale>>
      /\ faults' \in 0..MaxFaults
      /\ ended' = ended \/ (ended' = ended \cup scan.due /\ scan.keys = {})
  <2>1. faults \in 0..MaxFaults
    BY DEF IInv, TypeOK
  <2>2. CASE RevokeEnd
    BY <2>1, <2>2 DEF RevokeEnd
  <2>3. CASE RevokeFails
    <3>1. UNCHANGED historyVars /\ faults < MaxFaults /\ faults' = faults + 1
      BY <2>3 DEF RevokeFails
    <3>2. ended' = ended /\ UNCHANGED <<born, reused, spent, stale>>
      BY <3>1 DEF historyVars
    <3> QED BY <2>1, <2>3, <3>1, <3>2 DEF RevokeFails
  <2> QED BY <2>2, <2>3
<1>2. scan' \in [keys : SUBSET Sid, due : SUBSET Sid, sub : Identity \cup {NoOne}]
      /\ ScanInv'
  BY <1>1 DEF NoScan, ScanInv
<1>3. ended' \subseteq Sid /\ \A s \in ended' : born[s] >= 0 /\ ~Exists(s)
  BY <1>1 DEF IInv, ScanInv, SessionInv, TypeOK
<1> QED BY <1>1, <1>2, <1>3, ScanMoves

LEMMA TickStep ==
  ASSUME IInv, Tick
  PROVE  IInv'
<1>1. /\ now' \in 0..MaxTime /\ sess' = sess
      /\ UNCHANGED <<lock, grant, req, replaced, scan, faults, born, ended, reused,
                     spent, stale>>
  BY DEF Tick, IInv, TypeOK, historyVars
<1>2. TypeOK'
  BY <1>1 DEF IInv, TypeOK
<1>3. \A s \in Sid : SessionInv(s)' /\ StoredInv(s)'
  BY <1>1, Quiet DEF IInv, SessionInv, StoredInv
<1>4. \A r \in Request : RequestInv(r)' /\ LockInv(r)' /\ TokenInv(r)'
  BY <1>1, Quiet, RequestKept DEF IInv, LockInv, TokenInv, NoneReturns, Over
<1> QED BY <1>1, <1>2, <1>3, <1>4, Quiet DEF IInv, ReuseOnlyAfterFault, ScanInv, TypeOK

LEMMA StutterStep ==
  ASSUME IInv, UNCHANGED vars
  PROVE  IInv'
<1>1. ScanInv'
  BY Quiet DEF IInv, ScanInv, TypeOK, vars
<1> QED BY <1>1, ScanMoves DEF IInv, TypeOK, SessionInv, vars

LEMMA Invariance == Spec => []IInv
<1>1. IInv /\ [Next]_vars => IInv'
  <2> SUFFICES ASSUME IInv, [Next]_vars PROVE IInv'
    OBVIOUS
  <2>1. ASSUME NEW r \in Request, NEW s \in Sid, NEW id \in Identity,
               NEW token \in Token, BeginRefresh(r, s, id, token)
        PROVE  IInv'
    BY <2>1, BeginRefreshStep
  <2>2. ASSUME NEW r \in Request, Step(r)
        PROVE  IInv'
    BY <2>2, AcquireLockStep, ReadSessionStep, IssuerRotatesStep,
       IssuerRejectsStep, IssuerUnavailableStep, DeleteRejectedStep,
       StoreRefreshedStep, ReleaseLockStep, PollStep, ValidateTokenStep,
       RespondStep DEF Step
  <2>3. ASSUME NEW r \in Request, IssuerAnswerLost(r) \/ RedisError(r) \/ Crash(r)
        PROVE  IInv'
    BY <2>3, IssuerAnswerLostStep, RedisErrorStep, CrashStep
  <2>4. ASSUME NEW s \in Sid, LockExpires(s) \/ Login(s) \/ DeleteReplaced(s)
        PROVE  IInv'
    BY <2>4, LockExpiresStep, LoginStep, DeleteReplacedStep
  <2>5. ASSUME NEW s \in Sid, NEW id \in Identity, NEW token \in Token,
               NEW issuerUp \in BOOLEAN, Logout(s, id, token, issuerUp)
        PROVE  IInv'
    BY <2>5, LogoutStep
  <2>6. ASSUME NEW s \in Sid, RevokeKey(s) \/ Expire(s)
        PROVE  IInv'
    BY <2>6, RevokeKeyStep, ExpireStep
  <2>7. ASSUME NEW id \in Identity, RevokeStart(id)
        PROVE  IInv'
    BY <2>7, RevokeStartStep
  <2>8. CASE RevokeEnd \/ RevokeFails
    BY <2>8, RevokeEndStep
  <2>9. CASE Tick
    BY <2>9, TickStep
  <2>10. CASE UNCHANGED vars
    BY <2>10, StutterStep
  <2> QED BY <2>1, <2>2, <2>3, <2>4, <2>5, <2>6, <2>7, <2>8, <2>9, <2>10 DEF Next
<1> QED BY <1>1, Initially, PTL DEF Spec

-----------------------------------------------------------------------------
(* What the invariant gives                                                *)

\* The state has its type, and no session expires later than SessionTTL after
\* the login that created it: the bounded time to live of store_session.
THEOREM Capped == Spec => []AbsoluteCap
<1>1. IInv => AbsoluteCap
  BY DEF IInv, SessionInv, AbsoluteCap
<1> QED BY <1>1, Invariance, PTL

\* A session that a logout, a replacing login or a completed revoke-identity
\* ended is never there again, whatever refreshes are in flight.
THEOREM EndedForGood == Spec => []NoResurrection
<1>1. IInv => NoResurrection
  BY DEF IInv, TypeOK, SessionInv, NoResurrection
<1> QED BY <1>1, Invariance, PTL

\* A request in the critical section of a refresh has the lock, unless it
\* expired under it.
THEOREM LockIsHeld == Spec => []HolderOwnsLock
<1>1. IInv => HolderOwnsLock
  BY DEF IInv, LockInv, HolderOwnsLock
<1> QED BY <1>1, Invariance, PTL

\* Two requests refresh one session at a time only after the lock expired
\* under one of them: mutual exclusion of refresh_session.
Together(r, x) ==
  req[r].sid = req[x].sid /\ req[r].pc \in Critical /\ req[x].pc \in Critical

OneRefreshAtATime ==
  \A r, x \in Request : Together(r, x) /\ x # r => r \in stale \/ x \in stale

THEOREM RefreshesExclude == Spec => []OneRefreshAtATime
<1>1. IInv => OneRefreshAtATime
  BY DEF IInv, LockInv, OneRefreshAtATime, Together
<1> QED BY <1>1, Invariance, PTL

\* A refresh token is presented to the issuer twice only after a fault: a
\* rotated token that was lost, or a lock that expired under its holder.
THEOREM TokensUsedOnce == Spec => []ReuseOnlyAfterFault
<1>1. IInv => ReuseOnlyAfterFault
  BY DEF IInv
<1> QED BY <1>1, Invariance, PTL

\* A terminal answer to a request whose cookies belong together means that its
\* session is gone, rejected by the issuer, or was stored without a refresh token
\* (and only then stays in Redis although the issuer has nothing against it).
THEOREM TerminalIsFinal == Spec => []TerminalMeansGone
<1>1. IInv => TerminalMeansGone
  BY DEF IInv, RequestInv, TerminalMeansGone
<1> QED BY <1>1, Invariance, PTL

\* A request is given a token of its own identity only, as the winner and as
\* the loser of the race for the lock.
THEOREM NoForeignToken == Spec => []OwnIdentityOnly
<1>1. IInv => OwnIdentityOnly
  BY DEF IInv, RequestInv, OwnIdentityOnly
<1> QED BY <1>1, Invariance, PTL

\* A request's own step leaves the other requests alone.
LEMMA StepIsOwn ==
  ASSUME TypeOK, NEW x \in Request, Step(x), NEW r \in Request, r # x
  PROVE  req'[r] = req[r]
<1>1. r \in DOMAIN req
  BY DEF TypeOK
<1>2. CASE \E p \in Place : Goes(x, p)
  BY <1>1, <1>2 DEF Goes
<1>3. CASE \E o : Conclude(x, o) \/ Return(x, o)
  BY <1>1, <1>3 DEF Conclude, Return
<1>4. CASE ReadSession(x) \/ Probe(x) \/ Respond(x)
  BY <1>1, <1>4 DEF ReadSession, Probe, Respond, Goes, Conclude
<1>5. CASE \/ AcquireLock(x) \/ IssuerRotates(x) \/ IssuerRejects(x) \/ Poll(x)
           \/ ValidateToken(x)
  <2>1. {"read", "poll", "store", "unusable", "rejected", "probe", "answer"}
          \subseteq Place
    BY Places DEF Waiting
  <2> QED BY <1>2, <1>3, <1>5, <2>1
          DEF AcquireLock, IssuerRotates, IssuerRejects, Poll, ValidateToken
<1>6. CASE \/ IssuerUnavailable(x) \/ DeleteRejected(x) \/ StoreRefreshed(x)
           \/ ReleaseLock(x) \/ FinalRead(x)
  BY <1>3, <1>6 DEF IssuerUnavailable, DeleteRejected, StoreRefreshed, ReleaseLock,
                    FinalRead
<1> QED BY <1>4, <1>5, <1>6 DEF Step

\* A step of a request whose two cookies belong to different identities leaves
\* every session and every grant as it is.
THEOREM MismatchIsHarmless == Spec => MismatchLeavesSession
<1>1. IInv /\ [Next]_vars =>
        [\A r \in Request :
           /\ req[r].pc # "idle" /\ req[r].who # Owner[req[r].sid]
           /\ req'[r] # req[r]
           => sess' = sess /\ grant' = grant]_vars
  <2> SUFFICES ASSUME IInv, Next, NEW r \in Request, req[r].pc # "idle",
                      req[r].who # Owner[req[r].sid], req'[r] # req[r]
               PROVE  sess' = sess /\ grant' = grant
    OBVIOUS
  <2>1. PICK s \in Sid : s = req[r].sid /\ TypeOK /\ RequestInv(r) /\ SessionInv(s)
    BY Somewhere
  <2>2. /\ req[r].pc \notin Settled
        /\ req[r].pc # "validate"
        /\ ~(Exists(s) /\ SessionMatches(s, req[r].who))
    BY <2>1 DEF RequestInv, SessionInv, TypeOK, SessionMatches
  <2>3. ASSUME NEW x \in Request, Step(x) PROVE sess' = sess /\ grant' = grant
    <3>1. CASE x # r
      BY <2>1, <2>3, <3>1, StepIsOwn
    <3>2. CASE x = r
      <4>1. ~ \/ IssuerRotates(r) \/ IssuerRejects(r) \/ DeleteRejected(r)
              \/ StoreRefreshed(r) \/ ValidateToken(r)
        BY <2>2 DEF IssuerRotates, IssuerRejects, DeleteRejected, StoreRefreshed,
                    ValidateToken, Settled
      <4>2. CASE ReadSession(r)
        BY <2>1, <2>2, <4>2 DEF ReadSession
      <4>3. CASE \/ AcquireLock(r) \/ IssuerUnavailable(r) \/ ReleaseLock(r)
                 \/ Poll(r) \/ Probe(r) \/ FinalRead(r) \/ Respond(r)
        BY <4>3 DEF AcquireLock, IssuerUnavailable, ReleaseLock, Poll, Probe,
                    FinalRead, Respond
      <4> QED BY <2>3, <3>2, <4>1, <4>2, <4>3 DEF Step
    <3> QED BY <3>1, <3>2
  <2>4. ASSUME NEW x \in Request, IssuerAnswerLost(x)
        PROVE  sess' = sess /\ grant' = grant
    <3>1. CASE x # r
      BY <2>1, <2>4, <3>1 DEF IssuerAnswerLost, Conclude, TypeOK
    <3>2. CASE x = r
      BY <2>2, <2>4, <3>2 DEF IssuerAnswerLost, Settled
    <3> QED BY <3>1, <3>2
  <2>5. ASSUME NEW x \in Request, NEW z \in Sid, NEW id \in Identity,
               NEW token \in Token, BeginRefresh(x, z, id, token)
        PROVE  sess' = sess /\ grant' = grant
    BY <2>5 DEF BeginRefresh
  <2>6. ASSUME NEW x \in Request, RedisError(x) \/ Crash(x)
        PROVE  sess' = sess /\ grant' = grant
    BY <2>6 DEF RedisError, Crash
  <2>7. req' # req
    OBVIOUS
  <2>8. ~ \E z \in Sid : \/ LockExpires(z) \/ Login(z) \/ DeleteReplaced(z)
                         \/ \E id \in Identity, token \in Token, issuerUp \in BOOLEAN :
                              Logout(z, id, token, issuerUp)
                         \/ RevokeKey(z) \/ Expire(z)
    BY <2>7 DEF LockExpires, Login, DeleteReplaced, Logout, RevokeKey, Expire
  <2>9. ~ \/ \E id \in Identity : RevokeStart(id)
          \/ RevokeEnd \/ RevokeFails \/ Tick
    BY <2>7 DEF RevokeStart, RevokeEnd, RevokeFails, Tick
  <2>10. PICK x \in Request : \/ \E z \in Sid, id \in Identity, token \in Token :
                                   BeginRefresh(x, z, id, token)
                              \/ Step(x) \/ IssuerAnswerLost(x)
                              \/ RedisError(x) \/ Crash(x)
    BY <2>8, <2>9 DEF Next
  <2> QED BY <2>3, <2>4, <2>5, <2>6, <2>10
<1> QED BY <1>1, Invariance, PTL DEF Spec, MismatchLeavesSession
=============================================================================
