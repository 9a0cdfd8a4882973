----------------------------- MODULE ApiProofs ------------------------------
(***************************************************************************)
(* Proofs about what the API keeps of its users: logins in a browser, and  *)
(* quotas.                                                                 *)
(***************************************************************************)
EXTENDS LoginFlow, Quota, FiniteSetTheorems, TLAPS
USE LoginAssumption

-----------------------------------------------------------------------------
(* The browser                                                             *)

Cookies == [state : 0..MaxLogin, at : Subject \cup {Nobody}, sid : 0..MaxSid]
Page == {"idle", "issuer", "back", "callback", "redeem", "provision", "store",
         "replace", "welcome", "clear", "logout", "goodbye", "request",
         "renewed"}
Screen == [pc : Page, sent : Cookies, state : 0..Foreign,
           who : Subject \cup {Nobody}, sid : 0..MaxSid]

\* The sessions stored so far have an owner, the others do not exist.
StoreInv ==
  /\ jar \in Cookies /\ tab \in [Tab -> Screen]
  /\ stored \in Seq(Subject) /\ Len(stored) <= MaxSid
  /\ sessions \in [1..MaxSid -> Subject \cup {Nobody}]
  /\ endedBy \in [1..MaxSid -> Subject \cup {Nobody}]
  /\ logins \in 0..MaxLogin /\ calm \in BOOLEAN
  /\ orphaned \subseteq 0..MaxSid
  /\ \A s \in 1..MaxSid :
       IF s <= Len(stored)
       THEN /\ sessions[s] \in {Nobody, stored[s]}
            /\ endedBy[s] \in {Nobody, stored[s]}
       ELSE sessions[s] = Nobody /\ endedBy[s] = Nobody

\* A callback that goes on belongs to a login of this browser, and what it has
\* stored is its identity's.
TabInv(t) ==
  /\ tab[t].pc \in {"redeem", "provision", "store", "replace", "welcome"} =>
       tab[t].state # Foreign /\ tab[t].who \in Subject
  /\ tab[t].pc \in {"replace", "welcome"} =>
       tab[t].sid \in 1..Len(stored) /\ stored[tab[t].sid] = tab[t].who
  /\ tab[t].pc = "request" => tab[t].sent.at # Nobody

\* While all is calm one request is served at a time, it has come with the
\* cookies that the browser still has, and these belong together.
CalmInv ==
  calm =>
    /\ \A t, u \in Tab : Served(t) /\ Served(u) => t = u
    /\ \A t \in Tab : Served(t) => /\ tab[t].sent.sid = jar.sid
                                   /\ tab[t].sent.at = jar.at
    /\ IF jar.sid = 0 THEN jar.at = Nobody
       ELSE jar.sid <= Len(stored) /\ stored[jar.sid] = jar.at
    /\ \A t \in Tab : On(t, "replace") => tab[t].sid # jar.sid

\* The sessions of one person that are alive and not forgotten: at most that of the
\* cookie, from the storage of a new one until the old one is deleted both, from
\* then on until the answer the new one, and none once the cookies are void.
OnePerson == \A s \in 1..Len(stored) : stored[s] = stored[1]
OfCookie == {jar.sid} \ {0}
Kept == Live \ orphaned
Between == {"replace", "welcome", "goodbye"}
LiveInv ==
  calm /\ OnePerson =>
    /\ (\A t \in Tab : tab[t].pc \notin Between) => Kept \subseteq OfCookie
    /\ \A t \in Tab :
         /\ On(t, "replace") => Kept \subseteq OfCookie \cup {tab[t].sid}
         /\ On(t, "welcome") => Kept \subseteq {tab[t].sid}
         /\ On(t, "goodbye") => Kept = {}

LoginInv ==
  /\ StoreInv /\ CalmInv /\ LiveInv
  /\ \A t \in Tab : TabInv(t)

-----------------------------------------------------------------------------
(* How a tab goes on                                                       *)

\* Tab t goes to place p with what its request has come with; no other moves.
Turns(t, p) ==
  /\ tab' \in [Tab -> Screen]
  /\ \A u \in Tab : u # t => tab'[u] = tab[u]
  /\ tab'[t].pc = p /\ tab'[t].sent = tab[t].sent
GoesOn(t, p) ==
  /\ Turns(t, p)
  /\ tab'[t].state = tab[t].state /\ tab'[t].who = tab[t].who
  /\ tab'[t].sid = tab[t].sid

LEMMA MovesGoes ==
  ASSUME StoreInv, NEW t \in Tab, NEW p \in Page, Moves(t, p)
  PROVE  GoesOn(t, p)
<1> DEFINE w == [tab[t] EXCEPT !.pc = p]
<1>1. tab \in [Tab -> Screen] /\ tab[t] \in Screen
  BY DEF StoreInv
<1>2. /\ w \in Screen /\ w.pc = p /\ w.sent = tab[t].sent
      /\ w.state = tab[t].state /\ w.who = tab[t].who /\ w.sid = tab[t].sid
  BY <1>1 DEF Screen
<1>3. tab' = [tab EXCEPT ![t] = w]
  BY DEF Moves
<1> HIDE DEF w
<1> QED BY <1>1, <1>2, <1>3 DEF GoesOn, Turns

\* Pages.
LEMMA QuietFacts ==
  /\ Quiet \in Screen /\ Quiet.pc = "idle"
  /\ \A p \in Page : LET w == [Quiet EXCEPT !.pc = p]
                     IN w \in Screen /\ w.pc = p
  /\ \A p \in Page, s \in 0..Foreign :
       LET w == [Quiet EXCEPT !.pc = p, !.state = s]
       IN w \in Screen /\ w.pc = p
  /\ \A p \in Page, s \in 0..Foreign, i \in Subject :
       LET w == [Quiet EXCEPT !.pc = p, !.who = i, !.state = s]
       IN w \in Screen /\ w.pc = p
<1>1. NoCookies \in Cookies /\ "idle" \in Page
  BY DEF NoCookies, Cookies, Page
<1>2. Quiet \in Screen /\ Quiet.pc = "idle"
  BY <1>1 DEF Quiet, Screen, Foreign
<1> HIDE DEF Quiet
<1>3. ASSUME NEW p \in Page
      PROVE  [Quiet EXCEPT !.pc = p] \in Screen
               /\ [Quiet EXCEPT !.pc = p].pc = p
  BY <1>2 DEF Screen
<1>5. ASSUME NEW p \in Page, NEW s \in 0..Foreign
      PROVE  LET w == [Quiet EXCEPT !.pc = p, !.state = s]
             IN w \in Screen /\ w.pc = p
  <2> DEFINE one == [Quiet EXCEPT !.pc = p]
  <2>1. one \in Screen /\ one.pc = p
    BY <1>3
  <2> HIDE DEF one
  <2>2. [one EXCEPT !.state = s] \in Screen /\ [one EXCEPT !.state = s].pc = p
    BY <2>1 DEF Screen
  <2> QED BY <2>2 DEF one
<1>6. ASSUME NEW p \in Page, NEW s \in 0..Foreign, NEW i \in Subject
      PROVE  LET w == [Quiet EXCEPT !.pc = p, !.who = i, !.state = s]
             IN w \in Screen /\ w.pc = p
  <2> DEFINE one == [Quiet EXCEPT !.pc = p]
             two == [one EXCEPT !.who = i]
  <2>1. one \in Screen /\ one.pc = p
    BY <1>3
  <2> HIDE DEF one
  <2>2. two \in Screen /\ two.pc = p
    BY <2>1 DEF Screen
  <2> HIDE DEF two
  <2>3. [two EXCEPT !.state = s] \in Screen /\ [two EXCEPT !.state = s].pc = p
    BY <2>2 DEF Screen
  <2> QED BY <2>3 DEF one, two
<1> QED BY <1>2, <1>3, <1>5, <1>6

LEMMA ClosesTab ==
  ASSUME StoreInv, NEW t \in Tab, Closes(t)
  PROVE  /\ tab' \in [Tab -> Screen] /\ tab'[t].pc = "idle"
         /\ \A u \in Tab : u # t => tab'[u] = tab[u]
<1>1. Quiet \in Screen /\ Quiet.pc = "idle"
  BY QuietFacts
<1>2. tab \in [Tab -> Screen] /\ tab' = [tab EXCEPT ![t] = Quiet]
  BY DEF Closes, StoreInv
<1> HIDE DEF Quiet
<1> QED BY <1>1, <1>2

LEMMA SendsTurns ==
  ASSUME StoreInv, NEW t \in Tab, NEW p \in Page, Sends(t, p)
  PROVE  /\ tab' \in [Tab -> Screen]
         /\ \A u \in Tab : u # t => tab'[u] = tab[u]
         /\ tab'[t].pc = p /\ tab'[t].sent = jar
<1> DEFINE v == [tab[t] EXCEPT !.pc = p]
           w == [v EXCEPT !.sent = jar]
<1>1. tab \in [Tab -> Screen] /\ tab[t] \in Screen /\ jar \in Cookies
  BY DEF StoreInv
<1>2. v \in Screen /\ v.pc = p
  BY <1>1 DEF Screen
<1>3. tab' = [tab EXCEPT ![t] = w]
  BY DEF Sends
<1> HIDE DEF v
<1>4. w \in Screen /\ w.pc = p /\ w.sent = jar
  BY <1>1, <1>2 DEF Screen
<1> HIDE DEF w
<1> QED BY <1>1, <1>3, <1>4

LEMMA ShowsNew ==
  ASSUME StoreInv, NEW t \in Tab, NEW w \in Screen,
           tab' = [tab EXCEPT ![t] = w]
  PROVE  /\ tab' \in [Tab -> Screen] /\ tab'[t] = w
         /\ \A u \in Tab : u # t => tab'[u] = tab[u]
BY DEF StoreInv

-----------------------------------------------------------------------------
(* Steps that leave the sessions and who is signed in alone                *)

Outside == {"idle", "issuer", "back"}

LEMMA StillStep ==
  ASSUME LoginInv, NEW t \in Tab, tab' \in [Tab -> Screen],
         \A u \in Tab : u # t => tab'[u] = tab[u],
         tab[t].pc \notin Between, tab'[t].pc \notin Between,
         \/ tab'[t].pc \in Outside
         \/ tab[t].pc \notin Outside /\ tab'[t].sent = tab[t].sent,
         tab'[t].pc \in {"redeem", "provision", "store"} =>
           tab'[t].state # Foreign /\ tab'[t].who \in Subject,
         tab'[t].pc # "request",
         jar' \in Cookies, jar'.at = jar.at, jar'.sid = jar.sid,
         logins' \in 0..MaxLogin, UNCHANGED <<sessions, stored, endedBy, orphaned, calm>>
  PROVE  LoginInv'
<1>1. StoreInv /\ CalmInv /\ LiveInv /\ \A u \in Tab : TabInv(u)
  BY DEF LoginInv
<1>2. StoreInv'
  BY <1>1 DEF StoreInv
<1>3. ASSUME NEW u \in Tab PROVE TabInv(u)'
  <2>1. CASE u = t
    BY <2>1 DEF TabInv, Between
  <2>2. CASE u # t
    BY <1>1, <2>2 DEF TabInv
  <2> QED BY <2>1, <2>2
<1>4. ASSUME NEW u \in Tab, Served(u)'
      PROVE  Served(u) /\ tab'[u].sent = tab[u].sent
  BY <1>4 DEF Served, Outside
<1>5. CalmInv'
  <2> SUFFICES ASSUME calm PROVE CalmInv'
    BY DEF CalmInv
  <2>1. \A u, v \in Tab : Served(u)' /\ Served(v)' => u = v
    BY <1>1, <1>4 DEF CalmInv
  <2>2. \A u \in Tab : Served(u)' => /\ tab'[u].sent.sid = jar'.sid
                                     /\ tab'[u].sent.at = jar'.at
    BY <1>1, <1>4 DEF CalmInv
  <2>3. \A u \in Tab : On(u, "replace")' => tab'[u].sid # jar'.sid
    BY <1>1 DEF CalmInv, On, Between
  <2> QED BY <1>1, <2>1, <2>2, <2>3 DEF CalmInv
<1>6. LiveInv'
  <2>1. Kept' = Kept /\ OfCookie' = OfCookie /\ (OnePerson' <=> OnePerson)
    BY DEF Kept, Live, OfCookie, OnePerson
  <2>2. \A u \in Tab : u # t
          \/ (tab[u].pc \notin Between /\ tab'[u].pc \notin Between)
    OBVIOUS
  <2>3. \A u \in Tab :
          /\ On(u, "replace")' => On(u, "replace") /\ tab'[u] = tab[u]
          /\ On(u, "welcome")' => On(u, "welcome") /\ tab'[u] = tab[u]
          /\ On(u, "goodbye")' => On(u, "goodbye")
          /\ tab[u].pc \in Between => tab'[u].pc \in Between
    BY DEF On, Between
  <2> QED BY <1>1, <2>1, <2>3 DEF LiveInv
<1> QED BY <1>2, <1>3, <1>5, <1>6 DEF LoginInv

LEMMA BeginSteps ==
  ASSUME LoginInv, NEW t \in Tab,
         login(t) \/ FollowLink(t)
  PROVE  LoginInv'
<1>1. StoreInv /\ jar \in Cookies /\ logins \in 0..MaxLogin
  BY DEF LoginInv, StoreInv
<1>2. Foreign \in 0..Foreign /\ logins + 1 \in Nat
        /\ 0..MaxLogin \subseteq 0..Foreign
  BY <1>1 DEF Foreign
<1>3. tab[t].pc = "idle"
        /\ UNCHANGED <<sessions, stored, endedBy, orphaned, calm>>
  BY DEF login, FollowLink, On
<1>4. PICK w \in Screen : /\ tab' = [tab EXCEPT ![t] = w]
                          /\ w.pc \in {"issuer", "back"}
  <2>1. CASE login(t)
    <3> DEFINE w == [Quiet EXCEPT !.pc = "issuer", !.state = logins + 1]
    <3>1. logins + 1 \in 0..Foreign /\ "issuer" \in Page
      BY <1>1, <1>2, <2>1 DEF login, Foreign, Page
    <3>2. w \in Screen /\ w.pc = "issuer"
      BY <3>1, QuietFacts, Zenon
    <3>3. tab' = [tab EXCEPT ![t] = w]
      BY <2>1 DEF login
    <3> HIDE DEF w
    <3> QED BY <3>2, <3>3
  <2>2. CASE FollowLink(t)
    <3>1. PICK who \in Subject :
            tab' = [tab EXCEPT ![t] = [Quiet EXCEPT !.pc = "back", !.who = who,
                                                    !.state = Foreign]]
      BY <2>2 DEF FollowLink
    <3> DEFINE w == [Quiet EXCEPT !.pc = "back", !.who = who,
                 !.state = Foreign]
    <3>2. "back" \in Page /\ Foreign \in 0..Foreign /\ who \in Subject
      BY <1>2 DEF Page
    <3> HIDE DEF Foreign
    <3>3. w \in Screen /\ w.pc = "back"
      BY <3>2, QuietFacts, Zenon
    <3>4. tab' = [tab EXCEPT ![t] = w]
      BY <3>1
    <3> HIDE DEF w
    <3> QED BY <3>3, <3>4
  <2> QED BY <2>1, <2>2
<1>5. /\ tab' \in [Tab -> Screen] /\ tab'[t] = w
      /\ \A u \in Tab : u # t => tab'[u] = tab[u]
  BY <1>1, <1>4, ShowsNew
<1>6. /\ jar' \in Cookies /\ jar'.at = jar.at /\ jar'.sid = jar.sid
      /\ logins' \in 0..MaxLogin
  <2>1. CASE login(t)
    <3>1. logins' \in 0..MaxLogin /\ logins' = logins + 1
      BY <1>1, <2>1 DEF login
    <3>2. jar' = [jar EXCEPT !.state = logins']
      BY <2>1, <3>1 DEF login
    <3> QED BY <1>1, <3>1, <3>2 DEF Cookies
  <2>2. CASE UNCHANGED <<jar, logins>>
    BY <1>1, <2>2
  <2> QED BY <2>1, <2>2 DEF FollowLink
<1> QED BY <1>3, <1>4, <1>5, <1>6, StillStep DEF Between, Outside

\* The steps of a callback before the session is stored, and the refusals.
LEMMA CallbackSteps ==
  ASSUME LoginInv, NEW t \in Tab,
         \/ consume_state(t) \/ RedeemCode(t) \/ Provision(t)
         \/ RefuseLogout(t)
  PROVE  LoginInv'
<1>1. StoreInv /\ TabInv(t) /\ jar \in Cookies /\ logins \in 0..MaxLogin
  BY DEF LoginInv, StoreInv
<1>2. /\ tab[t].pc \in {"callback", "redeem", "provision", "logout"}
      /\ UNCHANGED <<jar, sessions, logins, stored, endedBy, orphaned, calm>>
  BY DEF consume_state, RedeemCode, Provision, RefuseLogout, On
<1>3. ASSUME NEW p \in Page, GoesOn(t, p), p \notin Between, p # "request",
             p \in {"redeem", "provision", "store"} =>
               tab[t].state # Foreign /\ tab[t].who \in Subject
      PROVE  LoginInv'
  BY <1>1, <1>2, <1>3, StillStep DEF GoesOn, Turns, Between, Outside
<1>4. {"redeem", "provision", "store", "clear"}
        \subseteq Page \ (Between \cup {"request"})
  BY DEF Page, Between
<1>5. CASE Closes(t)
  <2>1. /\ tab' \in [Tab -> Screen] /\ tab'[t].pc = "idle"
        /\ \A u \in Tab : u # t => tab'[u] = tab[u]
    BY <1>1, <1>5, ClosesTab
  <2> QED BY <1>1, <1>2, <2>1, StillStep DEF Between, Outside
<1>6. CASE Moves(t, "clear")
  BY <1>1, <1>3, <1>4, <1>6, MovesGoes
<1>7. CASE consume_state(t)
  <2>1. CASE Moves(t, "redeem") /\ StateMatches(t) /\ tab[t].who # Nobody
    <3>1. tab[t] \in Screen /\ tab[t].sent \in Cookies
      BY <1>1 DEF StoreInv, Screen
    <3>2. tab[t].sent.state \in 0..MaxLogin
            /\ tab[t].who \in Subject \cup {Nobody}
      BY <3>1 DEF Cookies, Screen
    <3>3. tab[t].state # Foreign /\ tab[t].who \in Subject
      BY <2>1, <3>2 DEF StateMatches, Foreign
    <3> QED BY <1>1, <1>3, <1>4, <2>1, <3>3, MovesGoes
  <2> QED BY <1>5, <1>6, <1>7, <2>1 DEF consume_state
<1>8. CASE RedeemCode(t)
  <2>1. tab[t].state # Foreign /\ tab[t].who \in Subject
    BY <1>1, <1>8 DEF RedeemCode, On, TabInv
  <2>2. CASE Moves(t, "provision")
    BY <1>1, <1>3, <1>4, <2>1, <2>2, MovesGoes
  <2> QED BY <1>5, <1>8, <2>2 DEF RedeemCode
<1>9. CASE Provision(t)
  <2>1. tab[t].state # Foreign /\ tab[t].who \in Subject
    BY <1>1, <1>9 DEF Provision, On, TabInv
  <2>2. CASE Moves(t, "store")
    BY <1>1, <1>3, <1>4, <2>1, <2>2, MovesGoes
  <2> QED BY <1>6, <1>9, <2>2 DEF Provision
<1>10. CASE RefuseLogout(t)
  BY <1>5, <1>10 DEF RefuseLogout
<1> QED BY <1>7, <1>8, <1>9, <1>10

LEMMA IssuerStep ==
  ASSUME LoginInv, NEW t \in Tab, IssuerRedirects(t)
  PROVE  LoginInv'
<1>1. StoreInv /\ tab[t] \in Screen /\ jar \in Cookies
        /\ logins \in 0..MaxLogin
  BY DEF LoginInv, StoreInv
<1>2. PICK who \in Subject \cup {Nobody} :
        tab' = [tab EXCEPT ![t].pc = "back", ![t].who = who]
  BY DEF IssuerRedirects
<1> DEFINE v == [tab[t] EXCEPT !.pc = "back"]
           w == [v EXCEPT !.who = who]
<1>3. v \in Screen /\ v.pc = "back"
  BY <1>1 DEF Screen, Page
<1>4. tab' = [tab EXCEPT ![t] = w]
  BY <1>2
<1> HIDE DEF v
<1>5. w \in Screen /\ w.pc = "back"
  BY <1>3 DEF Screen
<1> HIDE DEF w
<1>6. /\ tab' \in [Tab -> Screen] /\ tab'[t].pc = "back"
      /\ \A u \in Tab : u # t => tab'[u] = tab[u]
  BY <1>1, <1>4, <1>5, ShowsNew
<1>7. /\ tab[t].pc = "issuer"
      /\ UNCHANGED <<jar, sessions, logins, stored, endedBy, orphaned, calm>>
  BY DEF IssuerRedirects, On
<1> QED BY <1>1, <1>6, <1>7, StillStep DEF Between, Outside

\* The failure of a callback deletes the cookie with the state.
LEMMA FailureStep ==
  ASSUME LoginInv, NEW t \in Tab, ReceiveFailure(t)
  PROVE  LoginInv'
<1>1. StoreInv /\ jar \in Cookies /\ logins \in 0..MaxLogin
  BY DEF LoginInv, StoreInv
<1>2. /\ tab[t].pc = "clear" /\ jar' = [jar EXCEPT !.state = 0]
      /\ Closes(t)
      /\ UNCHANGED <<sessions, logins, stored, endedBy, orphaned, calm>>
  BY DEF ReceiveFailure, On
<1>3. /\ tab' \in [Tab -> Screen] /\ tab'[t].pc = "idle"
      /\ \A u \in Tab : u # t => tab'[u] = tab[u]
  BY <1>1, <1>2, ClosesTab
<1>4. jar' \in Cookies /\ jar'.at = jar.at /\ jar'.sid = jar.sid
  BY <1>1, <1>2 DEF Cookies
<1> QED BY <1>1, <1>2, <1>3, <1>4, StillStep DEF Between, Outside

-----------------------------------------------------------------------------
(* Requests that are sent                                                  *)

LEMMA SendSteps ==
  ASSUME LoginInv, NEW t \in Tab,
         SendCallback(t) \/ SendLogout(t) \/ SendRequest(t)
  PROVE  LoginInv'
<1>1. /\ StoreInv /\ CalmInv /\ LiveInv /\ (\A u \in Tab : TabInv(u))
      /\ calm \in BOOLEAN
  BY DEF LoginInv, StoreInv
<1>2. /\ tab[t].pc \in {"back", "idle"}
      /\ UNCHANGED <<jar, sessions, logins, stored, endedBy, orphaned>>
  BY DEF SendCallback, SendLogout, SendRequest, On
<1>3. PICK p \in {"callback", "logout", "request"} :
         Sends(t, p) /\ (p = "request" => jar.at # Nobody)
  BY DEF SendCallback, SendLogout, SendRequest
<1>4. /\ tab' \in [Tab -> Screen] /\ tab'[t].pc = p /\ tab'[t].sent = jar
      /\ \A u \in Tab : u # t => tab'[u] = tab[u]
  BY <1>1, <1>3, SendsTurns DEF Page
<1>5. calm' = (calm /\ \A u \in Tab : ~Served(u))
  BY <1>3 DEF Sends
<1>6. StoreInv'
  BY <1>1, <1>2, <1>4, <1>5 DEF StoreInv
<1>7. ASSUME NEW u \in Tab PROVE TabInv(u)'
  <2>1. CASE u = t
    BY <1>3, <1>4, <2>1 DEF TabInv
  <2>2. CASE u # t
    BY <1>1, <1>2, <1>4, <2>2 DEF TabInv
  <2> QED BY <2>1, <2>2
<1>8. ASSUME calm' PROVE calm /\ \A u \in Tab : u # t => ~Served(u)'
  BY <1>4, <1>5, <1>8 DEF Served
<1>9. CalmInv'
  <2> SUFFICES ASSUME calm' PROVE CalmInv'
    BY DEF CalmInv
  <2>1. \A u \in Tab : ~On(u, "replace")'
    BY <1>4, <1>8 DEF On, Served
  <2> QED BY <1>1, <1>2, <1>4, <1>8, <2>1 DEF CalmInv
<1>10. LiveInv'
  <2> SUFFICES ASSUME calm', OnePerson' PROVE LiveInv'
    BY DEF LiveInv
  <2>1. Kept' = Kept /\ OfCookie' = OfCookie /\ OnePerson
    BY <1>2 DEF Kept, Live, OfCookie, OnePerson
  <2>2. \A u \in Tab : tab[u].pc \notin Between
    BY <1>5 DEF Served, Between
  <2>3. \A u \in Tab : tab'[u].pc \notin Between
    BY <1>4, <2>2 DEF Between
  <2>4. Kept \subseteq OfCookie
    BY <1>1, <1>8, <2>1, <2>2 DEF LiveInv
  <2> QED BY <2>1, <2>3, <2>4 DEF LiveInv, On, Between
<1> QED BY <1>6, <1>7, <1>9, <1>10 DEF LoginInv

-----------------------------------------------------------------------------
(* Steps after which not all is calm                                       *)

\* A tab gives up, or something fails that leaves a session behind.
LEMMA DisturbStep ==
  ASSUME LoginInv, NEW t \in Tab, tab' \in [Tab -> Screen],
         \A u \in Tab : u # t => tab'[u] = tab[u],
         tab'[t].pc \in {"idle", "clear", "goodbye"}, calm' = FALSE,
         UNCHANGED <<jar, sessions, logins, stored, endedBy, orphaned>>
  PROVE  LoginInv'
<1>1. StoreInv /\ \A u \in Tab : TabInv(u)
  BY DEF LoginInv
<1>2. StoreInv'
  BY <1>1 DEF StoreInv
<1>3. \A u \in Tab : TabInv(u)'
  BY <1>1 DEF TabInv
<1>4. CalmInv' /\ LiveInv'
  BY DEF CalmInv, LiveInv
<1> QED BY <1>2, <1>3, <1>4 DEF LoginInv

LEMMA LossStep ==
  ASSUME LoginInv, NEW t \in Tab, AnswerLost(t)
  PROVE  LoginInv'
<1>1. /\ Closes(t) /\ calm' = FALSE
      /\ UNCHANGED <<jar, sessions, logins, stored, endedBy, orphaned>>
  BY DEF AnswerLost
<1>2. /\ tab' \in [Tab -> Screen] /\ tab'[t].pc = "idle"
      /\ \A u \in Tab : u # t => tab'[u] = tab[u]
  BY <1>1, ClosesTab DEF LoginInv
<1> QED BY <1>1, <1>2, DisturbStep

-----------------------------------------------------------------------------
(* Steps that change sessions or cookies                                   *)

\* What is alive, and what the sessions in front of a request are.
LEMMA Alive ==
  ASSUME StoreInv, NEW s \in 1..MaxSid
  PROVE  /\ sessions[s] # Nobody => s \in Live /\ s <= Len(stored)
                                    /\ sessions[s] = stored[s]
         /\ s \in Live => sessions[s] # Nobody /\ sessions[s] = stored[s]
BY DEF StoreInv, Live

\* The only request under way while all is calm.
LEMMA Alone ==
  ASSUME LoginInv, calm, NEW t \in Tab, Served(t)
  PROVE  /\ \A u \in Tab : u # t => tab[u].pc \in Outside /\ ~Served(u)
         /\ tab[t].sent.sid = jar.sid /\ tab[t].sent.at = jar.at
BY DEF LoginInv, CalmInv, Served, Outside

LEMMA Storing ==
  ASSUME StoreInv, NEW who \in Subject, Stores(who), tab' \in [Tab -> Screen],
         calm' \in BOOLEAN, UNCHANGED <<jar, logins, endedBy, orphaned>>
  PROVE  /\ StoreInv'
         /\ Len(stored) \in Nat /\ Len(stored) + 1 \in 1..MaxSid
         /\ Len(stored') = Len(stored) + 1 /\ stored'[Len(stored) + 1] = who
         /\ \A s \in 1..Len(stored) : stored'[s] = stored[s]
         /\ Live' = Live \cup {Len(stored) + 1}
<1> DEFINE n == Len(stored) + 1
<1>1. /\ stored \in Seq(Subject) /\ Len(stored) \in Nat /\ n \in 1..MaxSid
      /\ stored' = Append(stored, who)
      /\ sessions' = [sessions EXCEPT ![n] = who]
  BY DEF StoreInv, Stores
<1>2. /\ stored' \in Seq(Subject) /\ Len(stored') = n /\ stored'[n] = who
      /\ \A s \in 1..Len(stored) : stored'[s] = stored[s]
  BY <1>1
<1>3. /\ sessions' \in [1..MaxSid -> Subject \cup {Nobody}]
      /\ sessions'[n] = who
      /\ \A s \in 1..MaxSid : s # n => sessions'[s] = sessions[s]
  BY <1>1 DEF StoreInv
<1> HIDE DEF n
<1>4. n = Len(stored) + 1
  BY DEF n
<1>5. ASSUME NEW s \in 1..MaxSid
      PROVE  IF s <= Len(stored')
             THEN /\ sessions'[s] \in {Nobody, stored'[s]}
                  /\ endedBy'[s] \in {Nobody, stored'[s]}
             ELSE sessions'[s] = Nobody /\ endedBy'[s] = Nobody
  BY <1>1, <1>2, <1>3, <1>4 DEF StoreInv
<1>6. StoreInv'
  BY <1>1, <1>2, <1>3, <1>5 DEF StoreInv
<1>7. Live' = Live \cup {n}
  <2>1. Nobody # who
    OBVIOUS
  <2> QED BY <1>1, <1>2, <1>3, <1>4, <2>1 DEF Live, StoreInv
<1> QED BY <1>1, <1>2, <1>4, <1>6, <1>7

LEMMA StoreStep ==
  ASSUME LoginInv, NEW t \in Tab, StoreSession(t)
  PROVE  LoginInv'
<1>1. /\ StoreInv /\ CalmInv /\ LiveInv /\ (\A u \in Tab : TabInv(u))
      /\ jar \in Cookies /\ logins \in 0..MaxLogin /\ calm \in BOOLEAN
  BY DEF LoginInv, StoreInv
<1>2. tab[t].pc = "store" /\ UNCHANGED <<jar, logins, endedBy, orphaned, calm>>
  BY DEF StoreSession, On
<1>3. CASE Moves(t, "clear") /\ UNCHANGED <<sessions, stored>>
  <2>1. GoesOn(t, "clear")
    BY <1>1, <1>3, MovesGoes DEF Page
  <2> QED BY <1>1, <1>2, <1>3, <2>1, StillStep
               DEF GoesOn, Turns, Between, Outside
<1>4. CASE /\ Stores(tab[t].who)
           /\ tab'
                = [tab EXCEPT ![t].pc = "replace", ![t].sid = Len(stored) + 1]
  <2> DEFINE n == Len(stored) + 1
             v == [tab[t] EXCEPT !.pc = "replace"]
             w == [v EXCEPT !.sid = n]
  <2>1. /\ stored \in Seq(Subject) /\ Len(stored) \in Nat /\ n \in 1..MaxSid
        /\ tab[t] \in Screen
    BY <1>1, <1>4 DEF StoreInv, Stores
  <2>2. tab[t].who \in Subject /\ tab[t].state # Foreign
    BY <1>1, <1>2 DEF TabInv
  <2>4. tab' = [tab EXCEPT ![t] = w]
    BY <1>4
  <2>5. v \in Screen /\ v.pc = "replace" /\ v.who = tab[t].who
        /\ v.state = tab[t].state /\ v.sent = tab[t].sent
    BY <2>1 DEF Screen, Page
  <2> HIDE DEF v
  <2>6. w \in Screen /\ w.pc = "replace" /\ w.who = tab[t].who /\ w.sid = n
        /\ w.state = tab[t].state /\ w.sent = tab[t].sent
    BY <2>1, <2>5 DEF Screen
  <2> HIDE DEF w
  <2>7. /\ tab' \in [Tab -> Screen] /\ tab'[t] = w
        /\ \A u \in Tab : u # t => tab'[u] = tab[u]
    BY <1>1, <2>4, <2>6, ShowsNew
  <2>8. /\ StoreInv' /\ Len(stored') = n /\ stored'[n] = tab[t].who
        /\ \A s \in 1..Len(stored) : stored'[s] = stored[s]
        /\ Live' = Live \cup {n}
    BY <1>1, <1>2, <1>4, <2>2, <2>7, Storing
  <2> HIDE DEF n
  <2>9. n = Len(stored) + 1
    BY DEF n
  <2>11. ASSUME NEW u \in Tab PROVE TabInv(u)'
    <3>1. CASE u = t
      BY <2>1, <2>2, <2>8, <2>6, <2>7, <3>1 DEF TabInv
    <3>2. CASE u # t
      BY <1>1, <2>1, <2>8, <2>7, <2>9, <3>2 DEF TabInv
    <3> QED BY <3>1, <3>2
  <2>12. CalmInv'
    <3> SUFFICES ASSUME calm PROVE CalmInv'
      BY <1>2 DEF CalmInv
    <3>1. Served(t)
      BY <1>2 DEF Served
    <3>2. \A u \in Tab : Served(u)' => u = t
      BY <2>7, <3>1, Alone DEF Served
    <3>3. \A u \in Tab : On(u, "replace")' => u = t
      BY <2>7, <3>1, Alone DEF On, Outside
    <3>4. jar.sid # 0 => jar.sid \in 1..Len(stored)
      BY <1>1 DEF CalmInv, Cookies
    <3>5. IF jar'.sid = 0 THEN jar'.at = Nobody
          ELSE jar'.sid <= Len(stored') /\ stored'[jar'.sid] = jar'.at
      BY <1>1, <1>2, <2>1, <2>8, <2>9, <3>4 DEF CalmInv
    <3>6. tab'[t].sid # jar'.sid
      BY <1>2, <2>1, <2>6, <2>7, <2>9, <3>4
    <3>7. tab'[t].sent.sid = jar'.sid /\ tab'[t].sent.at = jar'.at
      BY <1>2, <2>6, <2>7, <3>1, Alone
    <3> QED BY <3>2, <3>3, <3>5, <3>6, <3>7 DEF CalmInv
  <2>13. LiveInv'
    <3> SUFFICES ASSUME calm, OnePerson' PROVE LiveInv'
      BY <1>2 DEF LiveInv
    <3>1. Served(t)
      BY <1>2 DEF Served
    <3>2. OnePerson
      <4>1. \A s \in 1..Len(stored) : 1 \in 1..Len(stored)
              /\ s \in 1..Len(stored')
        BY <2>1, <2>8, <2>9
      <4> QED BY <2>8, <4>1 DEF OnePerson
    <3>3. \A u \in Tab : u # t => tab[u].pc \in Outside
      BY <3>1, Alone
    <3>4. Kept \subseteq OfCookie
      BY <1>1, <1>2, <3>2, <3>3 DEF LiveInv, Between, Outside
    <3>5. Kept' \subseteq Kept \cup {n}
      BY <1>2, <2>8 DEF Kept
    <3>6. OfCookie' = OfCookie
      BY <1>2 DEF OfCookie
    <3>7. tab'[t].pc = "replace" /\ tab'[t].sid = n
      BY <2>6, <2>7
    <3> QED BY <2>7, <3>3, <3>4, <3>5, <3>6, <3>7
                 DEF LiveInv, On, Between, Outside
  <2> QED BY <2>8, <2>11, <2>12, <2>13 DEF LoginInv
<1> QED BY <1>3, <1>4 DEF StoreSession

\* A session ends only for the one whose it is.
LEMMA Ending ==
  ASSUME StoreInv, NEW s \in 1..MaxSid, NEW who \in Subject,
         sessions[s] = who, Ends(s, who)
  PROVE  /\ sessions' \in [1..MaxSid -> Subject \cup {Nobody}]
         /\ endedBy' \in [1..MaxSid -> Subject \cup {Nobody}]
         /\ sessions'[s] = Nobody /\ endedBy'[s] = who
         /\ s <= Len(stored) /\ stored[s] = who
         /\ \A n \in 1..MaxSid : n # s => /\ sessions'[n] = sessions[n]
                                          /\ endedBy'[n] = endedBy[n]
BY DEF StoreInv, Ends

\* What a step may end: one session, of the person who ends it, or none.
EndsOwn(s, who) ==
  s \in 1..MaxSid /\ who \in Subject /\ sessions[s] = who /\ Ends(s, who)
EndsAtMost(s, who) == UNCHANGED <<sessions, endedBy>> \/ EndsOwn(s, who)

LEMMA EndedStore ==
  ASSUME StoreInv, tab' \in [Tab -> Screen], UNCHANGED <<jar, logins, stored>>,
         calm' \in BOOLEAN, orphaned' \subseteq 0..MaxSid,
         NEW s, NEW who, EndsAtMost(s, who)
  PROVE  StoreInv'
<1>1. CASE UNCHANGED <<sessions, endedBy>>
  BY <1>1 DEF StoreInv
<1>2. CASE EndsOwn(s, who)
  <2>1. s \in 1..MaxSid /\ who \in Subject /\ sessions[s] = who /\ Ends(s, who)
    BY <1>2 DEF EndsOwn
  <2>2. /\ sessions' \in [1..MaxSid -> Subject \cup {Nobody}]
        /\ endedBy' \in [1..MaxSid -> Subject \cup {Nobody}]
        /\ sessions'[s] = Nobody /\ endedBy'[s] = who
        /\ s <= Len(stored) /\ stored[s] = who
        /\ \A n \in 1..MaxSid : n # s => /\ sessions'[n] = sessions[n]
                                         /\ endedBy'[n] = endedBy[n]
    BY <2>1, Ending
  <2>3. ASSUME NEW n \in 1..MaxSid
        PROVE  IF n <= Len(stored)
               THEN /\ sessions'[n] \in {Nobody, stored[n]}
                    /\ endedBy'[n] \in {Nobody, stored[n]}
               ELSE sessions'[n] = Nobody /\ endedBy'[n] = Nobody
    <3>1. CASE n = s
      BY <2>2, <3>1
    <3>2. CASE n # s
      BY <2>2, <3>2 DEF StoreInv
    <3> QED BY <3>1, <3>2
  <2> QED BY <2>2, <2>3 DEF StoreInv
<1> QED BY <1>1, <1>2 DEF EndsAtMost

\* What was alive and has not been ended is alive.
LEMMA EndedLive ==
  ASSUME StoreInv, UNCHANGED stored, NEW s, NEW who
  PROVE  /\ EndsAtMost(s, who) => Live' \subseteq Live
         /\ EndsOwn(s, who) => s \notin Live'
<1>1. CASE UNCHANGED <<sessions, endedBy>> /\ ~EndsOwn(s, who)
  BY <1>1 DEF Live
<1>2. CASE EndsOwn(s, who)
  <2>1. s \in 1..MaxSid /\ who \in Subject /\ sessions[s] = who /\ Ends(s, who)
    BY <1>2 DEF EndsOwn
  <2>2. /\ sessions'[s] = Nobody
        /\ \A n \in 1..MaxSid : n # s => sessions'[n] = sessions[n]
    BY <2>1, Ending
  <2>3. \A n \in 1..Len(stored) : n \in 1..MaxSid
    BY DEF StoreInv
  <2>4. Live' = {n \in 1..Len(stored) : sessions'[n] # Nobody}
    BY DEF Live
  <2> QED BY <2>2, <2>3, <2>4 DEF Live
<1> QED BY <1>1, <1>2 DEF EndsAtMost

LEMMA ReplaceStep ==
  ASSUME LoginInv, NEW t \in Tab, ReplaceSession(t)
  PROVE  LoginInv'
<1>1. /\ StoreInv /\ CalmInv /\ LiveInv /\ (\A u \in Tab : TabInv(u))
      /\ jar \in Cookies /\ orphaned \subseteq 0..MaxSid /\ calm \in BOOLEAN
  BY DEF LoginInv, StoreInv
<1>2. tab[t].pc = "replace" /\ UNCHANGED <<jar, logins, stored, orphaned>>
  BY DEF ReplaceSession, On
<1>3. /\ tab[t] \in Screen /\ tab[t].sent \in Cookies
      /\ tab[t].sent.sid \in 0..MaxSid
  BY <1>1 DEF StoreInv, Screen, Cookies
<1>4. /\ tab[t].who \in Subject /\ tab[t].state # Foreign
      /\ tab[t].sid \in 1..Len(stored) /\ stored[tab[t].sid] = tab[t].who
  BY <1>1, <1>2 DEF TabInv
<1>5. CASE /\ Moves(t, "clear") /\ calm' = FALSE
           /\ UNCHANGED <<sessions, endedBy>>
  <2>1. GoesOn(t, "clear")
    BY <1>1, <1>5, MovesGoes DEF Page
  <2> QED BY <1>2, <1>5, <2>1, DisturbStep DEF GoesOn, Turns
<1>6. CASE /\ IF OldMatches(t) THEN Ends(OldSession(t), tab[t].who)
              ELSE UNCHANGED <<sessions, endedBy>>
           /\ Moves(t, "welcome")
           /\ UNCHANGED calm
  <2>1. GoesOn(t, "welcome")
    BY <1>1, <1>6, MovesGoes DEF Page
  <2>2. /\ tab' \in [Tab -> Screen] /\ tab'[t].pc = "welcome"
        /\ tab'[t].who = tab[t].who /\ tab'[t].sid = tab[t].sid
        /\ tab'[t].state = tab[t].state /\ tab'[t].sent = tab[t].sent
        /\ \A u \in Tab : u # t => tab'[u] = tab[u]
    BY <2>1 DEF GoesOn, Turns
  <2>3. /\ EndsAtMost(tab[t].sent.sid, tab[t].who)
        /\ OldMatches(t) => EndsOwn(tab[t].sent.sid, tab[t].who)
    BY <1>3, <1>4, <1>6 DEF OldMatches, OldSession, EndsOwn, EndsAtMost
  <2>4. StoreInv'
    BY <1>1, <1>2, <1>6, <2>2, <2>3, EndedStore
  <2>5. ASSUME NEW u \in Tab PROVE TabInv(u)'
    <3>1. CASE u = t
      BY <1>2, <1>4, <2>2, <3>1 DEF TabInv
    <3>2. CASE u # t
      BY <1>1, <1>2, <2>2, <3>2 DEF TabInv
    <3> QED BY <3>1, <3>2
  <2>6. Served(t)
    BY <1>2 DEF Served
  <2>7. CalmInv'
    <3> SUFFICES ASSUME calm PROVE CalmInv'
      BY <1>6 DEF CalmInv
    <3>1. \A u \in Tab : Served(u)' => u = t
      BY <2>2, <2>6, Alone DEF Served
    <3>2. \A u \in Tab : ~On(u, "replace")'
      BY <2>2, <2>6, Alone DEF On, Outside
    <3>3. tab'[t].sent.sid = jar'.sid /\ tab'[t].sent.at = jar'.at
      BY <1>2, <2>2, <2>6, Alone
    <3> QED BY <1>1, <1>2, <3>1, <3>2, <3>3 DEF CalmInv
  <2>8. LiveInv'
    <3> SUFFICES ASSUME calm, OnePerson PROVE LiveInv'
      BY <1>2, <1>6 DEF LiveInv, OnePerson
    <3>1. \A u \in Tab : u # t => tab[u].pc \in Outside
      BY <2>6, Alone
    <3>2. /\ Kept \subseteq OfCookie \cup {tab[t].sid}
          /\ tab[t].sent.sid = jar.sid
      BY <1>1, <1>2, <2>6, Alone DEF LiveInv, On
    <3>3. Live' \subseteq Live
      BY <1>1, <1>2, <2>3, EndedLive
    <3>4. jar.sid \notin Live'
      <4>1. CASE jar.sid \notin Live
        BY <3>3, <4>1
      <4>2. CASE jar.sid \in Live
        <5>1. jar.sid \in 1..Len(stored) /\ jar.sid \in 1..MaxSid
          BY <1>1, <4>2 DEF Live, StoreInv
        <5>2. sessions[jar.sid] = stored[jar.sid]
          BY <1>1, <4>2, <5>1, Alive
        <5>3. stored[jar.sid] = tab[t].who
          BY <1>4, <5>1 DEF OnePerson
        <5>4. OldMatches(t)
          BY <3>2, <5>1, <5>2, <5>3 DEF OldMatches, OldSession
        <5> QED BY <1>1, <1>2, <2>3, <3>2, <5>4, EndedLive
      <4> QED BY <4>1, <4>2
    <3>5. Kept' \subseteq {tab[t].sid}
      BY <1>2, <3>2, <3>3, <3>4 DEF Kept, OfCookie
    <3> QED BY <2>2, <3>1, <3>5 DEF LiveInv, On, Between, Outside
  <2> QED BY <2>4, <2>5, <2>7, <2>8 DEF LoginInv
<1> QED BY <1>5, <1>6 DEF ReplaceSession

\* The browser has a new session, and its answer has been the only one.
LEMMA WelcomeStep ==
  ASSUME LoginInv, NEW t \in Tab, ReceiveWelcome(t)
  PROVE  LoginInv'
<1>1. /\ StoreInv /\ CalmInv /\ LiveInv /\ (\A u \in Tab : TabInv(u))
      /\ jar \in Cookies
  BY DEF LoginInv, StoreInv
<1>2. /\ tab[t].pc = "welcome" /\ Closes(t)
      /\ jar' = [state |-> 0, at |-> tab[t].who, sid |-> tab[t].sid]
      /\ UNCHANGED <<sessions, logins, stored, endedBy, orphaned, calm>>
  BY DEF ReceiveWelcome, On
<1>3. /\ tab[t].who \in Subject /\ tab[t].sid \in 1..Len(stored)
      /\ stored[tab[t].sid] = tab[t].who /\ Len(stored) <= MaxSid
      /\ Len(stored) \in Nat
  BY <1>1, <1>2 DEF TabInv, StoreInv
<1>4. /\ tab' \in [Tab -> Screen] /\ tab'[t].pc = "idle"
      /\ \A u \in Tab : u # t => tab'[u] = tab[u]
  BY <1>1, <1>2, ClosesTab
<1>5. /\ jar' \in Cookies /\ jar'.sid = tab[t].sid /\ jar'.at = tab[t].who
      /\ jar'.sid # 0
  BY <1>2, <1>3 DEF Cookies
<1>6. StoreInv'
  BY <1>1, <1>2, <1>4, <1>5 DEF StoreInv
<1>7. \A u \in Tab : TabInv(u)'
  BY <1>1, <1>2, <1>4 DEF TabInv
<1>8. Served(t)
  BY <1>2 DEF Served
<1>9. ASSUME calm, NEW u \in Tab PROVE tab'[u].pc \in Outside
  BY <1>4, <1>8, <1>9, Alone DEF Outside
<1>10. CalmInv'
  <2> SUFFICES ASSUME calm PROVE CalmInv'
    BY <1>2 DEF CalmInv
  <2>1. \A u \in Tab : ~Served(u)' /\ ~On(u, "replace")'
    BY <1>9 DEF Served, On, Outside
  <2>2. jar'.sid <= Len(stored') /\ stored'[jar'.sid] = jar'.at
    BY <1>2, <1>3, <1>5
  <2> QED BY <1>5, <2>1, <2>2 DEF CalmInv
<1>11. LiveInv'
  <2> SUFFICES ASSUME calm, OnePerson PROVE LiveInv'
    BY <1>2 DEF LiveInv, OnePerson
  <2>1. Kept \subseteq {tab[t].sid} /\ Kept' = Kept
    BY <1>1, <1>2 DEF LiveInv, On, Kept, Live
  <2>2. OfCookie' = {tab[t].sid}
    BY <1>5 DEF OfCookie
  <2> QED BY <1>9, <2>1, <2>2 DEF LiveInv, On, Between, Outside
<1> QED BY <1>6, <1>7, <1>10, <1>11 DEF LoginInv

\* A live session that is the browser's, in calm, is its cookie's.
LEMMA NotOfCookie ==
  ASSUME LoginInv, calm, NEW t \in Tab, Served(t), ~SessionOfCookie(t)
  PROVE  tab[t].sent.sid \notin Live
<1>1. StoreInv /\ CalmInv /\ Len(stored) \in Nat
  BY DEF LoginInv, StoreInv
<1>2. tab[t].sent.sid = jar.sid /\ tab[t].sent.at = jar.at
  BY Alone
<1> SUFFICES ASSUME jar.sid \in Live PROVE FALSE
  BY <1>2
<1>3. jar.sid \in 1..Len(stored) /\ jar.sid \in 1..MaxSid
  BY <1>1 DEF Live, StoreInv
<1>4. sessions[jar.sid] = stored[jar.sid] /\ stored[jar.sid] = jar.at
  BY <1>1, <1>3, Alive DEF CalmInv
<1> QED BY <1>2, <1>3, <1>4 DEF SessionOfCookie

\* The cookies are declared void: of the session they name nothing is left, or it
\* is forgotten.
LEMMA VoidStep ==
  ASSUME LoginInv, NEW t \in Tab, Served(t), Moves(t, "goodbye"),
         EndsAtMost(tab[t].sent.sid, tab[t].sent.at),
         UNCHANGED <<jar, logins, stored, calm>>,
         orphaned \subseteq orphaned', orphaned' \subseteq 0..MaxSid,
         calm => tab[t].sent.sid \notin Live' \ orphaned',
         tab[t].pc \notin Between
  PROVE  LoginInv'
<1>1. /\ StoreInv /\ CalmInv /\ LiveInv /\ (\A u \in Tab : TabInv(u))
      /\ jar \in Cookies /\ calm \in BOOLEAN
  BY DEF LoginInv, StoreInv
<1>2. /\ tab' \in [Tab -> Screen] /\ tab'[t].pc = "goodbye"
      /\ tab'[t].sent = tab[t].sent
      /\ \A u \in Tab : u # t => tab'[u] = tab[u]
  BY <1>1, MovesGoes DEF GoesOn, Turns, Page
<1>3. StoreInv'
  BY <1>1, <1>2, EndedStore
<1>4. \A u \in Tab : TabInv(u)'
  BY <1>1, <1>2 DEF TabInv
<1>5. CalmInv'
  <2> SUFFICES ASSUME calm PROVE CalmInv'
    BY DEF CalmInv
  <2>1. \A u \in Tab : Served(u)' => u = t
    BY <1>2, Alone DEF Served
  <2>2. \A u \in Tab : ~On(u, "replace")'
    BY <1>2, Alone DEF On, Outside
  <2>3. tab'[t].sent.sid = jar'.sid /\ tab'[t].sent.at = jar'.at
    BY <1>2, Alone
  <2> QED BY <1>1, <2>1, <2>2, <2>3 DEF CalmInv
<1>6. LiveInv'
  <2> SUFFICES ASSUME calm, OnePerson PROVE LiveInv'
    BY DEF LiveInv, OnePerson
  <2>1. \A u \in Tab : u # t => tab[u].pc \in Outside
    BY Alone
  <2>2. Kept \subseteq OfCookie /\ tab[t].sent.sid = jar.sid
    BY <1>1, <2>1, Alone DEF LiveInv, Between, Outside
  <2>3. Live' \subseteq Live
    BY <1>1, EndedLive
  <2>4. Kept' = {}
    BY <2>2, <2>3 DEF Kept, OfCookie
  <2> QED BY <1>2, <2>1, <2>4 DEF LiveInv, On, Between, Outside
<1> QED BY <1>3, <1>4, <1>5, <1>6 DEF LoginInv

LEMMA VoidSteps ==
  ASSUME LoginInv, NEW t \in Tab,
         logout(t) \/ LogoutUnusable(t) \/ EndSession(t) \/ RequestUnusable(t)
  PROVE  LoginInv'
<1>1. /\ StoreInv /\ TabInv(t) /\ orphaned \subseteq 0..MaxSid
      /\ tab[t].sent.sid \in 0..MaxSid
      /\ tab[t].sent.at \in Subject \cup {Nobody}
  BY DEF LoginInv, StoreInv, Screen, Cookies
<1>2. /\ tab[t].pc \in {"logout", "request"} /\ tab[t].sent.at # Nobody
      /\ Moves(t, "goodbye") /\ UNCHANGED <<jar, logins, stored, calm>>
  BY <1>1 DEF logout, LogoutUnusable, EndSession, RequestUnusable, On, TabInv
<1>3. Served(t) /\ tab[t].pc \notin Between
  BY <1>2 DEF Served, Between
<1> DEFINE s == tab[t].sent.sid
           who == tab[t].sent.at
<1>4. ASSUME SessionOfCookie(t), Ends(s, who) PROVE EndsOwn(s, who)
  BY <1>1, <1>2, <1>4 DEF EndsOwn, SessionOfCookie
<1>5. /\ EndsAtMost(s, who)
      /\ orphaned \subseteq orphaned' /\ orphaned' \subseteq 0..MaxSid
      /\ calm => s \notin Live' \ orphaned'
  <2>1. CASE logout(t)
    <3>1. EndsAtMost(s, who) /\ UNCHANGED orphaned
      BY <1>4, <2>1 DEF logout, EndsAtMost
    <3>2. CASE SessionOfCookie(t)
      <4>1. EndsOwn(s, who)
        BY <1>4, <2>1, <3>2 DEF logout
      <4> QED BY <1>1, <1>2, <3>1, <4>1, EndedLive
    <3>3. CASE ~SessionOfCookie(t)
      <4>1. calm => s \notin Live
        BY <1>3, <3>3, NotOfCookie
      <4> QED BY <1>1, <1>2, <3>1, <4>1, EndedLive
    <3> QED BY <3>2, <3>3
  <2>2. CASE LogoutUnusable(t) \/ RequestUnusable(t)
    BY <1>1, <2>2 DEF LogoutUnusable, RequestUnusable, EndsAtMost
  <2>3. CASE EndSession(t)
    <3>1. EndsOwn(s, who) /\ UNCHANGED orphaned
      BY <1>4, <2>3 DEF EndSession
    <3> QED BY <1>1, <1>2, <3>1, EndedLive DEF EndsAtMost
  <2> QED BY <2>1, <2>2, <2>3
<1> QED BY <1>2, <1>3, <1>5, VoidStep

\* A request is answered.
LEMMA RequestStep ==
  ASSUME LoginInv, NEW t \in Tab, AnswerRequest(t)
  PROVE  LoginInv'
<1>1. StoreInv /\ jar \in Cookies /\ logins \in 0..MaxLogin
        /\ orphaned \subseteq 0..MaxSid
  BY DEF LoginInv, StoreInv
<1>2. /\ tab[t].pc = "request"
      /\ UNCHANGED <<jar, sessions, logins, stored, endedBy, orphaned, calm>>
  BY DEF AnswerRequest, On
<1>3. CASE Closes(t) \/ Moves(t, "renewed")
  <2>1. /\ tab' \in [Tab -> Screen]
        /\ \A u \in Tab : u # t => tab'[u] = tab[u]
        /\ \/ tab'[t].pc = "idle"
           \/ tab'[t].pc = "renewed" /\ tab'[t].sent = tab[t].sent
    BY <1>1, <1>3, ClosesTab, MovesGoes DEF GoesOn, Turns, Page
  <2> QED BY <1>1, <1>2, <2>1, StillStep DEF Between, Outside
<1>4. CASE ~SessionOfCookie(t) /\ Moves(t, "goodbye")
  <2>1. Served(t) /\ tab[t].pc \notin Between
    BY <1>2 DEF Served, Between
  <2>2. calm => tab[t].sent.sid \notin Live
    BY <1>4, <2>1, NotOfCookie
  <2>3. EndsAtMost(tab[t].sent.sid, tab[t].sent.at) /\ Live' = Live
    BY <1>2 DEF EndsAtMost, Live
  <2> QED BY <1>1, <1>2, <1>4, <2>1, <2>2, <2>3, VoidStep
<1> QED BY <1>3, <1>4 DEF AnswerRequest

\* An answer that clears the cookies, or renews one, arrives.
LEMMA GoodbyeStep ==
  ASSUME LoginInv, NEW t \in Tab, ReceiveGoodbye(t)
  PROVE  LoginInv'
<1>1. /\ StoreInv /\ CalmInv /\ LiveInv /\ (\A u \in Tab : TabInv(u))
      /\ jar \in Cookies
  BY DEF LoginInv, StoreInv
<1>2. /\ tab[t].pc = "goodbye" /\ Closes(t)
      /\ jar' = [jar EXCEPT !.at = Nobody, !.sid = 0]
      /\ UNCHANGED <<sessions, logins, stored, endedBy, orphaned, calm>>
  BY DEF ReceiveGoodbye, On
<1>3. /\ tab' \in [Tab -> Screen] /\ tab'[t].pc = "idle"
      /\ \A u \in Tab : u # t => tab'[u] = tab[u]
  BY <1>1, <1>2, ClosesTab
<1>4. jar' \in Cookies /\ jar'.at = Nobody /\ jar'.sid = 0
  <2> DEFINE one == [jar EXCEPT !.at = Nobody]
  <2>1. one \in Cookies /\ one.at = Nobody
    BY <1>1 DEF Cookies
  <2>2. jar' = [one EXCEPT !.sid = 0]
    BY <1>2
  <2> HIDE DEF one
  <2> QED BY <2>1, <2>2 DEF Cookies
<1>5. StoreInv'
  BY <1>1, <1>2, <1>3, <1>4 DEF StoreInv
<1>6. \A u \in Tab : TabInv(u)'
  BY <1>1, <1>2, <1>3 DEF TabInv
<1>7. Served(t)
  BY <1>2 DEF Served
<1>8. ASSUME calm, NEW u \in Tab PROVE tab'[u].pc \in Outside
  BY <1>3, <1>7, <1>8, Alone DEF Outside
<1>9. CalmInv'
  <2> SUFFICES ASSUME calm PROVE CalmInv'
    BY <1>2 DEF CalmInv
  <2>1. \A u \in Tab : ~Served(u)' /\ ~On(u, "replace")'
    BY <1>8 DEF Served, On, Outside
  <2> QED BY <1>4, <2>1 DEF CalmInv
<1>10. LiveInv'
  <2> SUFFICES ASSUME calm, OnePerson PROVE LiveInv'
    BY <1>2 DEF LiveInv, OnePerson
  <2>1. Kept' = Kept /\ Kept = {}
    BY <1>1, <1>2 DEF LiveInv, On, Kept, Live
  <2> QED BY <1>8, <2>1 DEF LiveInv, On, Between, Outside
<1> QED BY <1>5, <1>6, <1>9, <1>10 DEF LoginInv

LEMMA RenewedStep ==
  ASSUME LoginInv, NEW t \in Tab, ReceiveRenewed(t)
  PROVE  LoginInv'
<1>1. /\ StoreInv /\ CalmInv /\ LiveInv /\ (\A u \in Tab : TabInv(u))
      /\ jar \in Cookies /\ tab[t].sent.at \in Subject \cup {Nobody}
  BY DEF LoginInv, StoreInv, Screen, Cookies
<1>2. /\ tab[t].pc = "renewed" /\ Closes(t)
      /\ jar' = [jar EXCEPT !.at = tab[t].sent.at]
      /\ UNCHANGED <<sessions, logins, stored, endedBy, orphaned, calm>>
  BY DEF ReceiveRenewed, On
<1>3. /\ tab' \in [Tab -> Screen] /\ tab'[t].pc = "idle"
      /\ \A u \in Tab : u # t => tab'[u] = tab[u]
  BY <1>1, <1>2, ClosesTab
<1>4. jar' \in Cookies /\ jar'.at = tab[t].sent.at /\ jar'.sid = jar.sid
  BY <1>1, <1>2 DEF Cookies
<1>5. StoreInv'
  BY <1>1, <1>2, <1>3, <1>4 DEF StoreInv
<1>6. \A u \in Tab : TabInv(u)'
  BY <1>1, <1>2, <1>3 DEF TabInv
<1>7. Served(t)
  BY <1>2 DEF Served
<1>8. ASSUME calm, NEW u \in Tab PROVE tab'[u].pc \in Outside
  BY <1>3, <1>7, <1>8, Alone DEF Outside
<1>9. CalmInv'
  <2> SUFFICES ASSUME calm PROVE CalmInv'
    BY <1>2 DEF CalmInv
  <2>1. \A u \in Tab : ~Served(u)' /\ ~On(u, "replace")'
    BY <1>8 DEF Served, On, Outside
  <2>2. jar'.at = jar.at
    BY <1>4, <1>7, Alone
  <2> QED BY <1>1, <1>2, <1>4, <2>1, <2>2 DEF CalmInv
<1>10. LiveInv'
  <2> SUFFICES ASSUME calm, OnePerson PROVE LiveInv'
    BY <1>2 DEF LiveInv, OnePerson
  <2>1. Kept' = Kept /\ OfCookie' = OfCookie
    BY <1>2, <1>4 DEF Kept, Live, OfCookie
  <2>2. \A u \in Tab : tab[u].pc \notin Between
    BY <1>2, <1>7, Alone DEF Between, Outside
  <2>3. Kept \subseteq OfCookie
    BY <1>1, <2>2 DEF LiveInv
  <2> QED BY <1>8, <2>1, <2>3 DEF LiveInv, On, Between, Outside
<1> QED BY <1>5, <1>6, <1>9, <1>10 DEF LoginInv

\* Redis has done it, and the handler does not know.
LEMMA UnknownStep ==
  ASSUME LoginInv, NEW t \in Tab, RedisAnswerLost(t)
  PROVE  LoginInv'
<1>1. /\ StoreInv /\ (\A u \in Tab : TabInv(u)) /\ orphaned \subseteq 0..MaxSid
      /\ tab[t].sent.sid \in 0..MaxSid /\ tab[t].sent.at \in Subject \cup {Nobody}
  BY DEF LoginInv, StoreInv, Screen, Cookies
<1>2. calm' = FALSE /\ UNCHANGED <<jar, logins, orphaned>>
  BY DEF RedisAnswerLost
<1>3. Moves(t, "clear") \/ Closes(t)
  BY DEF RedisAnswerLost
<1>4. /\ tab' \in [Tab -> Screen] /\ tab'[t].pc \in {"clear", "idle"}
      /\ \A u \in Tab : u # t => tab'[u] = tab[u]
  BY <1>1, <1>3, ClosesTab, MovesGoes DEF GoesOn, Turns, Page
<1>5. StoreInv' /\ \A s \in 1..Len(stored) : /\ s \in 1..Len(stored')
                                            /\ stored'[s] = stored[s]
  <2>1. CASE On(t, "store") /\ Stores(tab[t].who) /\ UNCHANGED endedBy
    <3>1. tab[t].who \in Subject
      BY <1>1, <2>1 DEF TabInv, On
    <3>2. /\ StoreInv' /\ Len(stored) \in Nat
          /\ Len(stored') = Len(stored) + 1
          /\ \A s \in 1..Len(stored) : stored'[s] = stored[s]
      BY <1>1, <1>2, <1>4, <2>1, <3>1, Storing
    <3> QED BY <3>2
  <2>2. ASSUME NEW s \in 0..MaxSid, NEW who \in Subject, s # 0,
               sessions[s] = who, Ends(s, who), UNCHANGED stored
        PROVE  StoreInv'
    <3>1. EndsAtMost(s, who)
      BY <2>2 DEF EndsAtMost, EndsOwn
    <3> QED BY <1>1, <1>2, <1>4, <2>2, <3>1, EndedStore
  <2>3. CASE /\ On(t, "replace") /\ OldMatches(t)
             /\ Ends(OldSession(t), tab[t].who) /\ UNCHANGED stored
    <3>1. tab[t].who \in Subject
      BY <1>1, <2>3 DEF TabInv, On
    <3> QED BY <1>1, <2>2, <2>3, <3>1 DEF OldMatches, OldSession
  <2>4. CASE /\ tab[t].sent.at # Nobody /\ SessionOfCookie(t)
             /\ Ends(tab[t].sent.sid, tab[t].sent.at) /\ UNCHANGED stored
    BY <1>1, <2>2, <2>4 DEF SessionOfCookie
  <2> QED BY <2>1, <2>3, <2>4 DEF RedisAnswerLost
<1>6. ASSUME NEW u \in Tab PROVE TabInv(u)'
  BY <1>1, <1>4, <1>5 DEF TabInv
<1>7. CalmInv' /\ LiveInv'
  BY <1>2 DEF CalmInv, LiveInv
<1> QED BY <1>5, <1>6, <1>7 DEF LoginInv

LEMMA ExpiryStep ==
  ASSUME LoginInv, NEW s \in 1..MaxSid, SessionExpires(s)
  PROVE  LoginInv'
<1>1. /\ StoreInv /\ CalmInv /\ LiveInv /\ (\A u \in Tab : TabInv(u))
      /\ Len(stored) \in Nat /\ Len(stored) <= MaxSid
  BY DEF LoginInv, StoreInv
<1>2. /\ sessions' = [sessions EXCEPT ![s] = Nobody]
      /\ UNCHANGED <<jar, tab, logins, stored, endedBy, orphaned, calm>>
  BY DEF SessionExpires
<1>3. /\ sessions' \in [1..MaxSid -> Subject \cup {Nobody}]
      /\ \A n \in 1..MaxSid : sessions'[n] \in {Nobody, sessions[n]}
  BY <1>1, <1>2 DEF StoreInv
<1>4. StoreInv'
  BY <1>1, <1>2, <1>3 DEF StoreInv
<1>5. \A u \in Tab : TabInv(u)'
  BY <1>1, <1>2 DEF TabInv
<1>6. CalmInv'
  BY <1>1, <1>2 DEF CalmInv, Served, On
<1>7. Kept' \subseteq Kept
  <2>1. \A n \in 1..Len(stored) : n \in 1..MaxSid
    BY <1>1
  <2> QED BY <1>2, <1>3, <2>1 DEF Kept, Live
<1>8. LiveInv'
  <2> SUFFICES ASSUME calm, OnePerson PROVE LiveInv'
    BY <1>2 DEF LiveInv, OnePerson
  <2> QED BY <1>1, <1>2, <1>7 DEF LiveInv, On, OfCookie
<1> QED BY <1>4, <1>5, <1>6, <1>8 DEF LoginInv

-----------------------------------------------------------------------------
LEMMA LoginStarts == LoginInit => LoginInv
<1> SUFFICES ASSUME LoginInit PROVE LoginInv
  OBVIOUS
<1>1. NoCookies \in Cookies /\ NoCookies.sid = 0 /\ NoCookies.at = Nobody
  BY DEF NoCookies, Cookies
<1>2. stored \in Seq(Subject) /\ Len(stored) = 0 /\ stored = <<>>
  BY DEF LoginInit
<1>3. Quiet \in Screen /\ Quiet.pc = "idle"
  BY QuietFacts
<1>4. tab \in [Tab -> Screen] /\ \A t \in Tab : tab[t].pc = "idle"
  BY <1>3 DEF LoginInit
<1>5. StoreInv
  BY <1>1, <1>2, <1>4 DEF LoginInit, StoreInv
<1>6. \A t \in Tab : TabInv(t)
  BY <1>4 DEF TabInv
<1>7. CalmInv
  BY <1>1, <1>4 DEF LoginInit, CalmInv, Served, On
<1>8. Kept = {}
  BY <1>2 DEF Kept, Live
<1>9. LiveInv
  BY <1>4, <1>8 DEF LiveInv, On, Between
<1> QED BY <1>5, <1>6, <1>7, <1>9 DEF LoginInv

LEMMA LoginInvariance == LoginSpec => []LoginInv
<1>1. ASSUME LoginInv, [LoginNext]_loginVars PROVE LoginInv'
  <2>1. CASE UNCHANGED loginVars
    BY <1>1, <2>1
         DEF LoginInv, StoreInv, TabInv, CalmInv, LiveInv, Kept, Live,
       OfCookie, OnePerson, Served, On, Between, loginVars
  <2>2. CASE LoginNext
    BY <1>1, <2>2, BeginSteps, CallbackSteps, IssuerStep, FailureStep,
       SendSteps, LossStep, StoreStep, ReplaceStep, WelcomeStep, VoidSteps,
       RequestStep, GoodbyeStep, RenewedStep, UnknownStep, ExpiryStep
       DEF LoginNext
  <2> QED BY <1>1, <2>1, <2>2
<1> QED BY <1>1, LoginStarts, PTL DEF LoginSpec

\* For any number of tabs, logins and sessions: a session is stored only for a
\* login that this browser began, nobody ends another's, and while no requests
\* overlap and nothing fails the cookies belong together and the logins and
\* logouts of one person leave no session but that of the cookie, besides those
\* whose cookies were declared void while they stayed
\* (rest/auth.py: login, oauth_callback, logout; decorators.py: _authenticate).
THEOREM LoginIsSound == LoginSpec => []LoginSound
<1>1. LoginInv => LoginSound
  <2> SUFFICES ASSUME LoginInv PROVE LoginSound
    OBVIOUS
  <2>1. /\ StoreInv /\ CalmInv /\ LiveInv /\ (\A t \in Tab : TabInv(t))
        /\ jar \in Cookies /\ Len(stored) \in Nat
    BY DEF LoginInv, StoreInv
  <2>2. \A s \in 1..Len(stored) : s \in 1..MaxSid /\ s <= Len(stored)
    BY <2>1 DEF StoreInv
  <2>3. \A t \in Tab : /\ tab[t].sent \in Cookies
                       /\ tab[t].who \in Subject \cup {Nobody}
                       /\ tab[t].sid \in 0..MaxSid
                       /\ tab[t].state \in 0..Foreign
    BY <2>1 DEF StoreInv, Screen
  <2>4. LoginTypeOK
    BY <2>1, <2>2, <2>3 DEF LoginTypeOK, StoreInv, Cookies
  <2>5. \A s \in 1..Len(stored) : /\ sessions[s] \in {Nobody, stored[s]}
                                  /\ endedBy[s] \in {Nobody, stored[s]}
    BY <2>1, <2>2 DEF StoreInv
  <2>6. \A t \in Tab :
          tab[t].pc \in {"redeem", "provision", "store", "replace",
                                      "welcome"} => tab[t].state # Foreign
    BY <2>1 DEF TabInv
  <2>7. calm /\ jar.sid # 0 => stored[jar.sid] = jar.at
    BY <2>1 DEF CalmInv
  <2>8. ASSUME calm, \A t \in Tab : ~Served(t),
               \A s \in 1..Len(stored) : stored[s] = stored[1]
        PROVE  Live \ orphaned \subseteq {jar.sid}
    BY <2>1, <2>8 DEF LiveInv, OnePerson, Served, Between, OfCookie, Kept
  <2> QED BY <2>4, <2>5, <2>6, <2>7, <2>8 DEF LoginSound
<1> QED BY <1>1, LoginInvariance, PTL

-----------------------------------------------------------------------------
(* Quotas                                                                  *)

Column == Int \cup {None}
QuotaRow == [limit : Nat \cup {-1}, used : 0..MaxUsed,
             months : Column, start : Column]
Table == [User -> [Resource -> QuotaRow]]
Cpu == get_default_quota_resource("cpu")
Disk == get_default_quota_resource("disk")

Change ==
  [pc : {"idle", "asked", "read", "answered"}, kind : {"limit", "period"},
   by : {"email", "id", "both", "neither"},
   users : SUBSET (User \cup {Absentee}),
   named : {"name", "type", "both", "neither"},
   resource : Resource \cup {"cpu", "disk", None}, limit : Int,
   months : Int \cup {None, Unset}, start : Int \cup {None, Unset},
   read : Table, code : Int]

Upload == [pc : {"idle", "sent"}, user : User \cup {Absentee}, bytes : Nat,
           read : QuotaRow]

\* A row that exists has a limit, in the table and wherever it was read.
Limits(table) ==
  \A u \in User, r \in Resource :
    table[u][r] # NoRow => table[u][r].limit \in Nat

\* Rows that were read are still there.
There(table) ==
  \A u \in User, r \in Resource : table[u][r] # NoRow => quota[u][r] # NoRow

\* A change that has read the rows was allowed to, and had them to change.
ChangeInv(q) ==
  /\ q.pc = "asked" /\ q.kind = "period" =>
       \E u \in User \cup {Absentee} : q.users = {u}
  /\ q.pc \in {"idle", "asked", "read"} => q.code = 0
  /\ q.pc = "read" =>
       /\ q.users \subseteq User /\ Limits(q.read) /\ There(q.read)
       /\ q.kind = "limit" => q.limit \in Nat
       /\ q.kind = "period" =>
            /\ \A u \in q.users : q.read[u][Cpu] # NoRow
            /\ q.start # Unset =>
                 \A u \in q.users : EffectiveMonths(q, q.read[u][Cpu]) # None

\* An upload under way was let in by a row that is still there.
UploadInv(x) ==
  x.pc = "sent" =>
    /\ x.user \in User /\ x.read # NoRow /\ x.read.limit \in Nat
    /\ ~Excess(x.read, x.bytes)
    /\ DiskOf(x.user) # NoRow

QuotaInv ==
  /\ quota \in Table /\ Limits(quota)
  /\ change \in [Admin -> Change] /\ \A a \in Admin : ChangeInv(change[a])
  /\ upload \in [Uploader -> Upload]
       /\ \A c \in Uploader : UploadInv(upload[c])

LEMMA Defaults ==
  Cpu \in Resource /\ Disk \in Resource
<1>1. /\ \E r \in OfType("cpu") : TRUE
      /\ \E r \in OfType("disk") : TRUE
  BY QuotaAssumption DEF OfType
<1>2. Cpu \in OfType("cpu") /\ Disk \in OfType("disk")
  BY <1>1 DEF Cpu, Disk, get_default_quota_resource
<1> QED BY <1>2 DEF OfType

LEMMA Special ==
  /\ None \notin Int /\ Unset \notin Int /\ None # Unset
  /\ NoRow \in QuotaRow /\ NoRow.limit = -1 /\ NoRow.used = 0
  /\ NoRow.months = None /\ NoRow.start = None
BY QuotaAssumption DEF NoRow, Row, QuotaRow, Column

LEMMA RowsAreEqual ==
  ASSUME NEW x \in QuotaRow, NEW y \in QuotaRow,
         x.limit = y.limit, x.used = y.used, x.months = y.months,
           x.start = y.start
  PROVE  x = y
BY DEF QuotaRow

LEMMA UpdatedRow ==
  ASSUME NEW now \in QuotaRow, NEW was \in QuotaRow, NEW new \in QuotaRow
  PROVE  LET w == Updated(now, was, new)
         IN /\ w \in QuotaRow
            /\ w.limit = IF new.limit = was.limit THEN now.limit ELSE new.limit
            /\ w.used = IF new.used = was.used THEN now.used ELSE new.used
            /\ w.months = IF new.months = was.months THEN now.months
                 ELSE new.months
            /\ w.start = IF new.start = was.start THEN now.start ELSE new.start
<1> DEFINE w == Updated(now, was, new)
<1>1. DOMAIN now = {"limit", "used", "months", "start"}
  BY DEF QuotaRow
<1>2. w = [column \in {"limit", "used", "months", "start"} |->
             IF new[column] = was[column] THEN now[column] ELSE new[column]]
  BY <1>1 DEF Updated
<1> DEFINE v == [limit  |-> IF new.limit = was.limit THEN now.limit
             ELSE new.limit,
                 used   |-> IF new.used = was.used THEN now.used ELSE new.used,
                 months |-> IF new.months = was.months THEN now.months
                   ELSE new.months,
                 start  |-> IF new.start = was.start THEN now.start
                   ELSE new.start]
<1>3. w = v
  BY <1>2
<1>4. v \in QuotaRow
  BY DEF QuotaRow
<1> QED BY <1>3, <1>4

\* What a change wants of a row.
LEMMA LimitedRow ==
  ASSUME NEW q \in Change, q.limit \in Nat, NEW row \in QuotaRow
  PROVE  LET new == Limited(q, row)
         IN /\ new \in QuotaRow /\ new.limit = q.limit /\ new.used = row.used
            /\ new.months = row.months /\ new.start = row.start
<1>1. CASE row = NoRow
  <2>1. Limited(q, row) = Row(q.limit, 0, None, None)
    BY <1>1 DEF Limited
  <2>2. Row(q.limit, 0, None, None) \in QuotaRow
    BY QuotaAssumption DEF Row, QuotaRow, Column
  <2> QED BY <1>1, <2>1, <2>2, Special DEF Row
<1>2. CASE row # NoRow
  <2>1. Limited(q, row) = [row EXCEPT !.limit = q.limit]
    BY <1>2 DEF Limited
  <2> QED BY <2>1 DEF QuotaRow
<1> QED BY <1>1, <1>2

LEMMA PeriodicRow ==
  ASSUME NEW q \in Change, NEW row \in QuotaRow,
         q.start # Unset => EffectiveMonths(q, row) # None
  PROVE  LET new == Periodic(q, row)
         IN /\ new \in QuotaRow /\ new.limit = row.limit /\ new.used = row.used
            /\ Periodical(row) => Periodical(new)
<1> DEFINE m == EffectiveMonths(q, row)
           s == Started(q, row)
<1>1. /\ row.months \in Column /\ row.start \in Column
      /\ q.months \in Int \cup {None, Unset}
           /\ q.start \in Int \cup {None, Unset}
  BY DEF QuotaRow, Change
<1>2. m \in Column
  BY <1>1 DEF EffectiveMonths, Column
<1>3. s \in Column
  BY <1>1, <1>2 DEF Started, Column, get_current_quota_period_start_at
<1>4. Periodical(row) => (s # None => m # None)
  <2> SUFFICES ASSUME Periodical(row), s # None, m = None PROVE FALSE
    OBVIOUS
  <2>1. q.start = Unset
    OBVIOUS
  <2>2. q.months # None /\ row.start # None
    BY <2>1 DEF Started, get_current_quota_period_start_at
  <2>3. q.months = Unset => m = row.months
    BY DEF EffectiveMonths
  <2>4. q.months # Unset => m = q.months
    BY DEF EffectiveMonths
  <2> QED BY <2>2, <2>3, <2>4 DEF Periodical
<1> DEFINE one == [row EXCEPT !.months = m]
           two == [one EXCEPT !.start = s]
<1>5. Periodic(q, row) = two
  BY DEF Periodic
<1> HIDE DEF m, s
<1>6. one \in QuotaRow /\ one.months = m /\ one.limit = row.limit
        /\ one.used = row.used
  BY <1>2 DEF QuotaRow
<1> HIDE DEF one
<1>7. /\ two \in QuotaRow /\ two.months = m /\ two.start = s
      /\ two.limit = row.limit /\ two.used = row.used
  BY <1>3, <1>6 DEF QuotaRow
<1> HIDE DEF two
<1> QED BY <1>4, <1>5, <1>7 DEF Periodical

\* What was asked changes only with its own administrator, and a table in which
\* rows only come to be keeps what was read of it.
LEMMA OthersOfQuota ==
  ASSUME QuotaInv, quota' \in Table,
         \A u \in User, r \in Resource : quota[u][r] # NoRow
           => quota'[u][r] # NoRow
  PROVE  /\ \A a \in Admin : change'[a] = change[a] => ChangeInv(change[a])'
         /\ \A c \in Uploader : upload'[c] = upload[c] => UploadInv(upload[c])'
<1>1. ASSUME NEW a \in Admin, change'[a] = change[a]
      PROVE ChangeInv(change[a])'
  <2>1. ChangeInv(change[a])
    BY DEF QuotaInv
  <2>2. There(change[a].read) => There(change[a].read)'
    BY <1>1 DEF There
  <2>3. Limits(change[a].read) => Limits(change[a].read)'
    BY <1>1 DEF Limits
  <2> QED BY <1>1, <2>1, <2>2, <2>3 DEF ChangeInv
<1>2. ASSUME NEW c \in Uploader, upload'[c] = upload[c]
      PROVE UploadInv(upload[c])'
  <2>1. UploadInv(upload[c])
    BY DEF QuotaInv
  <2>2. upload[c].user \in User /\ DiskOf(upload[c].user) # NoRow
          => DiskOf(upload[c].user)' # NoRow
    BY <1>2, Defaults DEF DiskOf, Disk
  <2> QED BY <1>2, <2>1, <2>2 DEF UploadInv
<1> QED BY <1>1, <1>2

\* What the theorem says of one step.
WholeChanges ==
  \A a \in Admin : change'[a].code # change[a].code =>
    IF change'[a].code = 200
    THEN \A p \in Touched(change[a]) : ChangedAsAsked(change[a], p)
    ELSE quota' = quota
WithinLimit ==
  \A c \in Uploader : \A u \in User :
    (upload'[c] # upload[c] /\ quota' # quota
       /\ upload[c].user = u /\ upload[c].read = DiskOf(u))
      => DiskOf(u)'.limit = 0 \/ DiskOf(u)'.used <= DiskOf(u)'.limit

LEMMA NothingAsked ==
  /\ NoChange \in Change /\ ChangeInv(NoChange) /\ NoChange.code = 0
  /\ NoUpload \in Upload /\ UploadInv(NoUpload)
<1>1. [u \in User |-> [r \in Resource |-> NoRow]] \in Table
  BY Special DEF Table
<1>2. NoChange \in Change
  BY <1>1 DEF NoChange, Change
<1>3. NoChange.pc = "idle" /\ NoChange.code = 0
  BY DEF NoChange
<1>4. NoUpload \in Upload /\ NoUpload.pc = "idle"
  BY Special DEF NoUpload, Upload
<1> QED BY <1>2, <1>3, <1>4 DEF ChangeInv, UploadInv

LEMMA QuotaStarted ==
  ASSUME QuotaInit
  PROVE  QuotaInv
<1>1. Row(0, 0, None, None) \in QuotaRow /\ Row(0, 0, None, None).limit = 0
  BY QuotaAssumption DEF Row, QuotaRow, Column
<1>2. quota \in Table
  BY <1>1, Special DEF QuotaInit, Table
<1>3. Limits(quota)
  BY <1>1 DEF QuotaInit, Limits
<1>4. change \in [Admin -> Change] /\ \A a \in Admin : ChangeInv(change[a])
  BY NothingAsked DEF QuotaInit
<1>5. upload \in [Uploader -> Upload]
        /\ \A c \in Uploader : UploadInv(upload[c])
  BY NothingAsked DEF QuotaInit
<1> QED BY <1>2, <1>3, <1>4, <1>5 DEF QuotaInv

LEMMA QuotaStutters ==
  ASSUME QuotaInv, UNCHANGED <<quota, change, upload>>
  PROVE  QuotaInv' /\ WholeChanges /\ WithinLimit
<1>1. quota' \in Table
  BY DEF QuotaInv
<1>2. /\ \A a \in Admin : ChangeInv(change[a])'
      /\ \A c \in Uploader : UploadInv(upload[c])'
  BY <1>1, OthersOfQuota
<1>3. Limits(quota)'
  BY DEF QuotaInv, Limits
<1>4. QuotaInv'
  BY <1>1, <1>2, <1>3 DEF QuotaInv
<1> QED BY <1>4 DEF WholeChanges, WithinLimit

LEMMA ChangeMoves ==
  ASSUME QuotaInv, NEW a \in Admin, NEW q \in Change,
         change' = [change EXCEPT ![a] = q], UNCHANGED <<quota, upload>>,
         ChangeInv(q), q.code # 200
  PROVE  QuotaInv' /\ WholeChanges /\ WithinLimit
<1>1. quota' \in Table /\ Limits(quota)'
  BY DEF QuotaInv, Limits
<1>2. change' \in [Admin -> Change] /\ change'[a] = q
  BY DEF QuotaInv
<1>3. \A b \in Admin : b # a => change'[b] = change[b]
  BY DEF QuotaInv
<1>4. /\ \A b \in Admin : b # a => ChangeInv(change[b])'
      /\ \A c \in Uploader : UploadInv(upload[c])'
  BY <1>1, <1>3, OthersOfQuota
<1>5. ChangeInv(change[a])'
  BY <1>2 DEF ChangeInv, There, Limits
<1>6. QuotaInv'
  BY <1>1, <1>2, <1>4, <1>5 DEF QuotaInv
<1>7. WholeChanges
  BY <1>2, <1>3 DEF WholeChanges
<1> QED BY <1>6, <1>7 DEF WithinLimit

LEMMA UploadMoves ==
  ASSUME QuotaInv, NEW c \in Uploader, NEW x \in Upload,
         upload' = [upload EXCEPT ![c] = x], UNCHANGED <<quota, change>>,
         UploadInv(x)
  PROVE  QuotaInv' /\ WholeChanges /\ WithinLimit
<1>1. quota' \in Table /\ Limits(quota)'
  BY DEF QuotaInv, Limits
<1>2. upload' \in [Uploader -> Upload] /\ upload'[c] = x
  BY DEF QuotaInv
<1>3. \A d \in Uploader : d # c => upload'[d] = upload[d]
  BY DEF QuotaInv
<1>4. /\ \A a \in Admin : ChangeInv(change[a])'
      /\ \A d \in Uploader : d # c => UploadInv(upload[d])'
  BY <1>1, <1>3, OthersOfQuota
<1>5. UploadInv(upload[c])'
  BY <1>2 DEF UploadInv, DiskOf
<1>6. QuotaInv'
  BY <1>1, <1>2, <1>4, <1>5 DEF QuotaInv
<1> QED BY <1>6 DEF WholeChanges, WithinLimit

-----------------------------------------------------------------------------
(* The steps of a change                                                   *)

LEMMA RequestedChange ==
  ASSUME QuotaInv, NEW a \in Admin, NEW q \in ChangeRequests,
           RequestChange(a, q)
  PROVE  QuotaInv' /\ WholeChanges /\ WithinLimit
<1>1. NoChange.read \in Table
  BY NothingAsked DEF Change
<1>2. /\ q \in Change /\ q.code = 0
      /\ q.kind = "period" => \E u \in User \cup {Absentee} : q.users = {u}
  BY <1>1 DEF ChangeRequests, Change
<1> DEFINE new == [q EXCEPT !.pc = "asked"]
<1>3. /\ new \in Change /\ new.code = 0 /\ new.pc = "asked"
      /\ new.kind = q.kind /\ new.users = q.users
  BY <1>2 DEF Change
<1>4. change' = [change EXCEPT ![a] = new] /\ UNCHANGED <<quota, upload>>
  BY DEF RequestChange
<1> HIDE DEF new
<1>5. ChangeInv(new)
  BY <1>2, <1>3 DEF ChangeInv
<1>6. PICK r \in Change : r = new
  BY <1>3
<1>7. change' = [change EXCEPT ![a] = r] /\ ChangeInv(r) /\ r.code # 200
  BY <1>3, <1>4, <1>5, <1>6
<1> QED BY <1>4, <1>7, ChangeMoves

LEMMA AnsweredChange ==
  ASSUME QuotaInv, NEW a \in Admin, NEW code \in Int, code # 200,
         change' = [change EXCEPT ![a] = AnsweredWith(@, code)],
         UNCHANGED <<quota, upload>>
  PROVE  QuotaInv' /\ WholeChanges /\ WithinLimit
<1>1. change[a] \in Change /\ change \in [Admin -> Change]
  BY DEF QuotaInv
<1> DEFINE one == [change[a] EXCEPT !.pc = "answered"]
           two == [one EXCEPT !.code = code]
<1>2. change' = [change EXCEPT ![a] = two]
  BY <1>1 DEF AnsweredWith
<1>3. one \in Change /\ one.pc = "answered"
  BY <1>1 DEF Change
<1> HIDE DEF one
<1>4. two \in Change /\ two.pc = "answered" /\ two.code = code
  BY <1>3 DEF Change
<1> HIDE DEF two
<1>5. ChangeInv(two)
  BY <1>4 DEF ChangeInv
<1>6. PICK q \in Change : q = two
  BY <1>4
<1>7. change' = [change EXCEPT ![a] = q] /\ ChangeInv(q) /\ q.code # 200
  BY <1>2, <1>4, <1>5, <1>6
<1> QED BY <1>7, ChangeMoves

LEMMA RefusedChange ==
  ASSUME QuotaInv, NEW a \in Admin,
         RefuseChange(a) \/ ChangeFails(a) \/ ChangeEnds(a)
  PROVE  QuotaInv' /\ WholeChanges /\ WithinLimit
<1>1. CASE RefuseChange(a)
  <2>1. ChangeRefusal(change[a]) \in Int
    BY DEF ChangeRefusal, LimitRefusal, PeriodRefusal
  <2>2. PICK code \in Int : code = ChangeRefusal(change[a])
    BY <2>1
  <2>3. change' = [change EXCEPT ![a] = AnsweredWith(@, code)] /\ code # 200
        /\ UNCHANGED <<quota, upload>>
    BY <1>1, <2>2 DEF RefuseChange
  <2> QED BY <2>3, AnsweredChange
<1>2. CASE ChangeFails(a)
  <2>1. PICK code \in Int : code = 500
    OBVIOUS
  <2>2. /\ change' = [change EXCEPT ![a] = AnsweredWith(@, code)]
        /\ code # 200 /\ UNCHANGED <<quota, upload>>
    BY <1>2, <2>1 DEF ChangeFails
  <2> QED BY <2>2, AnsweredChange
<1>3. CASE ChangeEnds(a)
  <2>1. change' = [change EXCEPT ![a] = NoChange]
          /\ UNCHANGED <<quota, upload>>
    BY <1>3 DEF ChangeEnds
  <2>2. NoChange.code # 200
    BY NothingAsked
  <2> QED BY <2>1, <2>2, NothingAsked, ChangeMoves
<1> QED BY <1>1, <1>2, <1>3

\* Why a change that may read the rows is one that may be committed.
LEMMA AllowedChange ==
  ASSUME QuotaInv, NEW a \in Admin, change[a].pc = "asked",
         ChangeRefusal(change[a]) = 200
  PROVE  LET q == change[a]
         IN /\ q.users \subseteq User
            /\ q.kind = "limit" => q.limit \in Nat
            /\ q.kind = "period" =>
                 /\ \A u \in q.users : quota[u][Cpu] # NoRow
                 /\ q.start # Unset =>
                      \A u \in q.users :
                        EffectiveMonths(q, quota[u][Cpu]) # None
<1> DEFINE q == change[a]
<1>1. q \in Change /\ ChangeInv(q)
  BY DEF QuotaInv
<1>2. CASE q.kind = "limit"
  <2>1. LimitRefusal(q) = 200
    BY <1>2 DEF ChangeRefusal
  <2>2. ~Malformed(q) /\ q.users \subseteq User
    BY <2>1 DEF LimitRefusal
  <2>3. q.limit \in Nat
    BY <1>1, <2>2 DEF Malformed, Change
  <2> QED BY <1>2, <2>2, <2>3
<1>3. CASE q.kind = "period"
  <2>1. PeriodRefusal(q) = 200
    BY <1>3 DEF ChangeRefusal
  <2>2. /\ PeriodRow(q) # NoRow
        /\ q.start # Unset => EffectiveMonths(q, PeriodRow(q)) # None
    BY <2>1 DEF PeriodRefusal
  <2>3. q.users \subseteq User
    BY <2>2 DEF PeriodRow
  <2>4. PICK u \in User \cup {Absentee} : q.users = {u}
    BY <1>1, <1>3 DEF ChangeInv
  <2>5. PeriodRow(q) = quota[u][Cpu]
    BY <2>3, <2>4 DEF PeriodRow, Cpu
  <2> QED BY <1>3, <2>2, <2>3, <2>4, <2>5
<1> QED BY <1>1, <1>2, <1>3 DEF Change

LEMMA ReadChange ==
  ASSUME QuotaInv, NEW a \in Admin, ReadRows(a)
  PROVE  QuotaInv' /\ WholeChanges /\ WithinLimit
<1>1. change[a] \in Change /\ change \in [Admin -> Change]
        /\ ChangeInv(change[a])
  BY DEF QuotaInv
<1>2. quota \in Table /\ Limits(quota)
  BY DEF QuotaInv
<1> DEFINE one == [change[a] EXCEPT !.pc = "read"]
           two == [one EXCEPT !.read = quota]
<1> DEFINE f == [change EXCEPT ![a] = one]
<1>0. change' = [f EXCEPT ![a].read = quota] /\ UNCHANGED <<quota, upload>>
  BY <1>1 DEF ReadRows
<1> HIDE DEF one
<1>3. change' = [change EXCEPT ![a] = two] /\ UNCHANGED <<quota, upload>>
  BY <1>0, <1>1
<1> USE DEF one
<1>4. /\ one \in Change /\ one.pc = "read" /\ one.code = change[a].code
      /\ one.kind = change[a].kind /\ one.users = change[a].users
      /\ one.limit = change[a].limit /\ one.start = change[a].start
      /\ one.months = change[a].months
  BY <1>1 DEF Change
<1> HIDE DEF one
<1>5. /\ two \in Change /\ two.pc = "read" /\ two.code = one.code
      /\ two.kind = one.kind /\ two.users = one.users
      /\ two.limit = one.limit /\ two.start = one.start
      /\ two.months = one.months /\ two.read = quota
  BY <1>2, <1>4 DEF Change
<1> HIDE DEF two
<1>6. change[a].pc = "asked" /\ ChangeRefusal(change[a]) = 200
  BY DEF ReadRows
<1>7. two.code = 0
  BY <1>1, <1>4, <1>5, <1>6 DEF ChangeInv
<1>8. There(two.read) /\ Limits(two.read)
  BY <1>2, <1>5 DEF There
<1>9. \A row : EffectiveMonths(two, row) = EffectiveMonths(change[a], row)
  BY <1>4, <1>5 DEF EffectiveMonths
<1>10. /\ two.users \subseteq User
       /\ two.kind = "limit" => two.limit \in Nat
       /\ two.kind = "period" =>
            /\ \A u \in two.users : two.read[u][Cpu] # NoRow
            /\ two.start # Unset =>
                 \A u \in two.users :
                   EffectiveMonths(two, two.read[u][Cpu]) # None
  BY <1>4, <1>5, <1>6, <1>9, AllowedChange
<1>11. ChangeInv(two)
  BY <1>5, <1>7, <1>8, <1>10 DEF ChangeInv
<1>12. PICK q \in Change : q = two
  BY <1>5
<1>13. change' = [change EXCEPT ![a] = q] /\ ChangeInv(q) /\ q.code # 200
  BY <1>3, <1>7, <1>11, <1>12
<1> QED BY <1>3, <1>13, ChangeMoves

\* What a commit makes of one row.
LEMMA CommittedRow ==
  ASSUME QuotaInv, NEW a \in Admin, change[a].pc = "read",
         NEW u \in User, NEW r \in Resource, <<u, r>> \in Touched(change[a])
  PROVE  LET q == change[a]
             old == quota[u][r]
             was == q.read[u][r]
             new == Updated(old, was, Wanted(q, was))
         IN /\ new \in QuotaRow /\ new.limit \in Nat /\ new.used = old.used
            /\ old = was =>
                 /\ q.kind = "limit" => new.limit = q.limit
                 /\ Periodical(old) => Periodical(new)
<1> DEFINE q == change[a]
           old == quota[u][r]
           was == q.read[u][r]
           want == Wanted(q, was)
           new == Updated(old, was, want)
<1>1. q \in Change /\ ChangeInv(q)
  BY DEF QuotaInv
<1>2. old \in QuotaRow /\ was \in QuotaRow
  BY <1>1 DEF QuotaInv, Change, Table
<1>3. /\ old # NoRow => old.limit \in Nat
      /\ was # NoRow => was.limit \in Nat /\ old # NoRow
  BY <1>1 DEF QuotaInv, ChangeInv, Limits, There
<1>4. u \in q.users
  BY DEF Touched
<1>5. CASE q.kind = "limit"
  <2>1. q.limit \in Nat
    BY <1>1, <1>5 DEF ChangeInv
  <2>2. PICK p \in Change : p = q
    BY <1>1
  <2>3. PICK row \in QuotaRow : row = was
    BY <1>2
  <2>4. want = Limited(p, row)
    BY <1>5, <2>2, <2>3 DEF Wanted
  <2>5. /\ want \in QuotaRow /\ want.limit = q.limit /\ want.used = was.used
        /\ want.months = was.months /\ want.start = was.start
    <3>1. p.limit \in Nat
      BY <2>1, <2>2
    <3>2. LET w == Limited(p, row)
          IN /\ w \in QuotaRow /\ w.limit = p.limit /\ w.used = row.used
             /\ w.months = row.months /\ w.start = row.start
      BY <3>1, LimitedRow
    <3> QED BY <2>2, <2>3, <2>4, <3>2
  <2> HIDE DEF want
  <2>6. /\ new \in QuotaRow
        /\ new.limit = IF want.limit = was.limit THEN old.limit ELSE want.limit
        /\ new.used = IF want.used = was.used THEN old.used ELSE want.used
        /\ new.months = IF want.months = was.months THEN old.months
             ELSE want.months
        /\ new.start = IF want.start = was.start THEN old.start ELSE want.start
    <3>1. PICK x \in QuotaRow, y \in QuotaRow : x = old /\ y = want
      BY <1>2, <2>5
    <3>2. LET w == Updated(x, row, y)
          IN /\ w \in QuotaRow
             /\ w.limit = IF y.limit = row.limit THEN x.limit ELSE y.limit
             /\ w.used = IF y.used = row.used THEN x.used ELSE y.used
             /\ w.months = IF y.months = row.months THEN x.months ELSE y.months
             /\ w.start = IF y.start = row.start THEN x.start ELSE y.start
      BY UpdatedRow
    <3> QED BY <2>3, <3>1, <3>2
  <2> HIDE DEF new
  <2>7. new.limit \in Nat
    <3>1. CASE want.limit # was.limit
      BY <2>1, <2>5, <2>6, <3>1
    <3>2. CASE want.limit = was.limit
      <4>1. was # NoRow
        BY <2>1, <2>5, <3>2, Special
      <4> QED BY <1>3, <2>6, <3>2, <4>1
    <3> QED BY <3>1, <3>2
  <2>8. new.used = old.used /\ new.months = old.months /\ new.start = old.start
    BY <2>5, <2>6
  <2>9. old = was => new.limit = q.limit
    BY <2>5, <2>6
  <2>10. Periodical(old) => Periodical(new)
    BY <2>8 DEF Periodical
  <2> QED BY <2>6, <2>7, <2>8, <2>9, <2>10 DEF new, want
<1>6. CASE q.kind = "period"
  <2>1. r = Cpu
    BY <1>6 DEF Touched, Cpu
  <2>2. /\ was # NoRow
        /\ q.start # Unset => EffectiveMonths(q, was) # None
    BY <1>1, <1>4, <1>6, <2>1 DEF ChangeInv
  <2>3. PICK p \in Change : p = q
    BY <1>1
  <2>4. PICK row \in QuotaRow : row = was
    BY <1>2
  <2>5. want = Periodic(p, row)
    BY <1>6, <2>3, <2>4 DEF Wanted
  <2>6. /\ want \in QuotaRow /\ want.limit = was.limit /\ want.used = was.used
        /\ Periodical(was) => Periodical(want)
    <3>1. p.start # Unset => EffectiveMonths(p, row) # None
      BY <2>2, <2>3, <2>4
    <3>2. LET w == Periodic(p, row)
          IN /\ w \in QuotaRow /\ w.limit = row.limit /\ w.used = row.used
             /\ Periodical(row) => Periodical(w)
      BY <3>1, PeriodicRow
    <3> QED BY <2>4, <2>5, <3>2
  <2> HIDE DEF want
  <2>7. /\ new \in QuotaRow
        /\ new.limit = IF want.limit = was.limit THEN old.limit ELSE want.limit
        /\ new.used = IF want.used = was.used THEN old.used ELSE want.used
        /\ new.months = IF want.months = was.months THEN old.months
             ELSE want.months
        /\ new.start = IF want.start = was.start THEN old.start ELSE want.start
    <3>1. PICK x \in QuotaRow, y \in QuotaRow : x = old /\ y = want
      BY <1>2, <2>6
    <3>2. LET w == Updated(x, row, y)
          IN /\ w \in QuotaRow
             /\ w.limit = IF y.limit = row.limit THEN x.limit ELSE y.limit
             /\ w.used = IF y.used = row.used THEN x.used ELSE y.used
             /\ w.months = IF y.months = row.months THEN x.months ELSE y.months
             /\ w.start = IF y.start = row.start THEN x.start ELSE y.start
      BY UpdatedRow
    <3> QED BY <2>4, <3>1, <3>2
  <2> HIDE DEF new
  <2>8. new.limit \in Nat /\ new.used = old.used
    BY <1>3, <2>2, <2>6, <2>7
  <2>9. old = was => (Periodical(old) => Periodical(new))
    BY <2>6, <2>7 DEF Periodical
  <2> QED BY <1>6, <2>7, <2>8, <2>9 DEF new, want
<1> QED BY <1>1, <1>5, <1>6 DEF Change

LEMMA CommittedChange ==
  ASSUME QuotaInv, NEW a \in Admin, CommitChange(a)
  PROVE  QuotaInv' /\ WholeChanges /\ WithinLimit
<1> DEFINE q == change[a]
           New(u, r) == Updated(quota[u][r], q.read[u][r],
                                Wanted(q, q.read[u][r]))
<1>1. q \in Change /\ change \in [Admin -> Change] /\ q.pc = "read"
  BY DEF QuotaInv, CommitChange
<1>2. \A u \in User, r \in Resource :
        quota'[u][r] = IF <<u, r>> \in Touched(q) THEN New(u, r)
          ELSE quota[u][r]
  BY DEF CommitChange
<1>3. \A u \in User, r \in Resource : <<u, r>> \in Touched(q) =>
        /\ New(u, r) \in QuotaRow /\ New(u, r).limit \in Nat
        /\ New(u, r).used = quota[u][r].used
        /\ quota[u][r] = q.read[u][r] =>
             /\ q.kind = "limit" => New(u, r).limit = q.limit
             /\ Periodical(quota[u][r]) => Periodical(New(u, r))
  BY <1>1, CommittedRow
<1>4. quota \in Table /\ Limits(quota)
  BY DEF QuotaInv
<1> HIDE DEF New
<1>5. \A u \in User, r \in Resource :
        /\ quota'[u][r] \in QuotaRow
        /\ quota'[u][r] # NoRow => quota'[u][r].limit \in Nat
        /\ quota[u][r] # NoRow => quota'[u][r] # NoRow
  <2> SUFFICES ASSUME NEW u \in User, NEW r \in Resource
               PROVE  /\ quota'[u][r] \in QuotaRow
                      /\ quota'[u][r] # NoRow => quota'[u][r].limit \in Nat
                      /\ quota[u][r] # NoRow => quota'[u][r] # NoRow
    OBVIOUS
  <2>1. CASE <<u, r>> \in Touched(q)
    BY <1>2, <1>3, <2>1, Special
  <2>2. CASE <<u, r>> \notin Touched(q)
    <3>1. quota'[u][r] = quota[u][r]
      BY <1>2, <2>2
    <3> QED BY <1>4, <3>1 DEF Table, Limits
  <2> QED BY <2>1, <2>2
<1>6. quota' \in Table /\ Limits(quota)'
  <2>1. quota' = [u \in User |-> [r \in Resource |-> quota'[u][r]]]
    BY DEF CommitChange
  <2>2. quota' \in Table
    BY <1>5, <2>1 DEF Table
  <2>3. Limits(quota)'
    BY <1>5 DEF Limits
  <2> QED BY <2>2, <2>3
<1>7. /\ \A b \in Admin : change'[b] = change[b] => ChangeInv(change[b])'
      /\ \A c \in Uploader : upload'[c] = upload[c] => UploadInv(upload[c])'
  BY <1>5, <1>6, OthersOfQuota
<1> DEFINE one == [q EXCEPT !.pc = "answered"]
           two == [one EXCEPT !.code = 200]
<1>8. change' = [change EXCEPT ![a] = two] /\ upload' = upload
  BY <1>1 DEF CommitChange, AnsweredWith
<1>9. one \in Change /\ one.pc = "answered"
  BY <1>1 DEF Change
<1> HIDE DEF one
<1>10. two \in Change /\ two.pc = "answered" /\ two.code = 200
  BY <1>9 DEF Change
<1> HIDE DEF two
<1>11. /\ change' \in [Admin -> Change] /\ change'[a] = two
       /\ \A b \in Admin : b # a => change'[b] = change[b]
  BY <1>1, <1>8, <1>10
<1>12. ChangeInv(change[a])'
  BY <1>10, <1>11 DEF ChangeInv
<1>13. /\ \A b \in Admin : ChangeInv(change[b])'
       /\ \A c \in Uploader : UploadInv(upload[c])'
  BY <1>7, <1>8, <1>11, <1>12
<1>14. QuotaInv'
  BY <1>6, <1>8, <1>11, <1>13 DEF QuotaInv
<1>15. \A p \in Touched(q) : ChangedAsAsked(q, p)
  <2> SUFFICES ASSUME NEW p \in Touched(q) PROVE ChangedAsAsked(q, p)
    OBVIOUS
  <2>1. ChangeInv(q)
    BY DEF QuotaInv
  <2>2. q.users \subseteq User
    BY <1>1, <2>1 DEF ChangeInv
  <2>3. Named(q) \subseteq Resource
    BY DEF Named, OfType
  <2>4. p \in User \X Resource /\ p = <<p[1], p[2]>>
    BY <2>2, <2>3, Defaults DEF Touched, Cpu
  <2>5. PICK u \in User, r \in Resource : p = <<u, r>>
    BY <2>4
  <2>6. quota'[u][r] = New(u, r)
    BY <1>2, <2>5
  <2>7. /\ New(u, r).used = quota[u][r].used
        /\ quota[u][r] = q.read[u][r] =>
             /\ q.kind = "limit" => New(u, r).limit = q.limit
             /\ Periodical(quota[u][r]) => Periodical(New(u, r))
    BY <1>3, <2>5
  <2>8. p[1] = u /\ p[2] = r
    BY <2>5
  <2> QED BY <2>6, <2>7, <2>8 DEF ChangedAsAsked
<1>16. WholeChanges
  BY <1>10, <1>11, <1>15 DEF WholeChanges
<1>17. WithinLimit
  BY <1>8 DEF WithinLimit
<1> QED BY <1>14, <1>16, <1>17

LEMMA ChangeStep ==
  ASSUME QuotaInv, NEW a \in Admin, ChangeSteps(a, ChangeRequests)
  PROVE  QuotaInv' /\ WholeChanges /\ WithinLimit
<1>1. CASE \E q \in ChangeRequests : RequestChange(a, q)
  BY <1>1, RequestedChange
<1>2. CASE ReadRows(a)
  BY <1>2, ReadChange
<1>3. CASE RefuseChange(a) \/ ChangeFails(a) \/ ChangeEnds(a)
  BY <1>3, RefusedChange
<1>4. CASE CommitChange(a)
  BY <1>4, CommittedChange
<1> QED BY <1>1, <1>2, <1>3, <1>4 DEF ChangeSteps

-----------------------------------------------------------------------------
(* The steps of an upload, and the command                                 *)

LEMMA ChargedUpload ==
  ASSUME QuotaInv, NEW c \in Uploader, Charge(c)
  PROVE  QuotaInv' /\ WholeChanges /\ WithinLimit
<1> DEFINE u == upload[c].user
           row == quota[u][Disk]
           used == row.used + upload[c].bytes
           new == [row EXCEPT !.used = used]
<1>1. /\ upload[c] \in Upload /\ upload \in [Uploader -> Upload]
      /\ UploadInv(upload[c]) /\ upload[c].pc = "sent"
  BY DEF QuotaInv, Charge
<1>2. /\ u \in User /\ upload[c].read.limit \in Nat
      /\ ~Excess(upload[c].read, upload[c].bytes) /\ row # NoRow
  BY <1>1 DEF UploadInv, DiskOf, Disk
<1>3. quota \in Table /\ Limits(quota)
  BY DEF QuotaInv
<1>4. row \in QuotaRow /\ row.limit \in Nat
  BY <1>2, <1>3, Defaults DEF Table, Limits
<1>5. used \in 0..MaxUsed
  <2>1. used <= MaxUsed
    BY DEF Charge, DiskOf, Disk
  <2>2. upload[c].bytes \in Nat /\ row.used \in 0..MaxUsed
    BY <1>1, <1>4 DEF Upload, QuotaRow
  <2>3. MaxUsed \in Nat
    BY QuotaAssumption
  <2> QED BY <2>1, <2>2, <2>3
<1>6. new \in QuotaRow /\ new.limit = row.limit /\ new.used = used
  <2> HIDE DEF used
  <2> QED BY <1>4, <1>5 DEF QuotaRow
<1>7. quota' = [quota EXCEPT ![u] = [quota[u] EXCEPT ![Disk] = new]]
  BY <1>2, <1>3, <1>4, Defaults DEF Charge, Disk, Table
<1>8. change' = change /\ upload' = [upload EXCEPT ![c] = NoUpload]
  BY DEF Charge
<1> HIDE DEF new, row, used
<1>9. /\ quota'[u][Disk] = new
      /\ \A v \in User, r \in Resource :
           v # u \/ r # Disk => quota'[v][r] = quota[v][r]
      /\ quota' \in Table
  BY <1>2, <1>3, <1>6, <1>7, Defaults DEF Table
<1>10. \A v \in User, r \in Resource :
         /\ quota'[v][r] # NoRow => quota'[v][r].limit \in Nat
         /\ quota[v][r] # NoRow => quota'[v][r] # NoRow
  BY <1>3, <1>4, <1>6, <1>9, Special DEF Limits
<1>11. /\ \A a \in Admin : ChangeInv(change[a])'
       /\ \A d \in Uploader : upload'[d] = upload[d] => UploadInv(upload[d])'
  BY <1>8, <1>9, <1>10, OthersOfQuota
<1>12. /\ upload' \in [Uploader -> Upload] /\ upload'[c] = NoUpload
       /\ \A d \in Uploader : d # c => upload'[d] = upload[d]
  BY <1>1, <1>8, NothingAsked
<1>13. UploadInv(upload[c])'
  BY <1>12, NothingAsked DEF UploadInv, NoUpload
<1>14. Limits(quota)'
  BY <1>10 DEF Limits
<1>15. QuotaInv'
  BY <1>8, <1>9, <1>11, <1>12, <1>13, <1>14 DEF QuotaInv
<1>16. WithinLimit
  <2> SUFFICES ASSUME NEW d \in Uploader, NEW v \in User,
                      upload'[d] # upload[d], upload[d].user = v,
                      upload[d].read = DiskOf(v)
               PROVE  DiskOf(v)'.limit = 0
                        \/ DiskOf(v)'.used <= DiskOf(v)'.limit
    BY DEF WithinLimit
  <2>1. d = c /\ v = u
    BY <1>12
  <2>2. DiskOf(v) = row /\ DiskOf(v)' = new
    BY <1>9, <2>1 DEF DiskOf, Disk, row
  <2>3. ~Excess(row, upload[c].bytes)
    BY <1>2, <2>1, <2>2
  <2>4. row.limit = 0 \/ used <= row.limit
    BY <1>4, <1>5, <2>3 DEF Excess, used
  <2> QED BY <1>6, <2>2, <2>4
<1> QED BY <1>8, <1>15, <1>16 DEF WholeChanges

LEMMA UploadStep ==
  ASSUME QuotaInv, NEW c \in Uploader, UploadSteps(c, User, Nat)
  PROVE  QuotaInv' /\ WholeChanges /\ WithinLimit
<1>1. ASSUME NEW u \in User, NEW bytes \in Nat, StartUpload(c, u, bytes)
      PROVE  QuotaInv' /\ WholeChanges /\ WithinLimit
  <2> DEFINE x == [pc |-> "sent", user |-> u, bytes |-> bytes,
               read |-> DiskOf(u)]
  <2>1. DiskOf(u) \in QuotaRow /\ DiskOf(u) # NoRow /\ DiskOf(u).limit \in Nat
    BY <1>1, Defaults DEF StartUpload, QuotaInv, Limits, Table, DiskOf, Disk
  <2>2. x \in Upload
    BY <2>1 DEF Upload
  <2>3. UploadInv(x)
    BY <1>1, <2>1 DEF UploadInv, StartUpload
  <2>4. PICK y \in Upload : y = x
    BY <2>2
  <2>5. upload' = [upload EXCEPT ![c] = y] /\ UNCHANGED <<quota, change>>
    BY <1>1, <2>4 DEF StartUpload
  <2>6. UploadInv(y)
    BY <2>3, <2>4
  <2> QED BY <2>5, <2>6, UploadMoves
<1>2. CASE Charge(c)
  BY <1>2, ChargedUpload
<1>3. CASE UploadFails(c)
  BY <1>3, NothingAsked, UploadMoves DEF UploadFails
<1> QED BY <1>1, <1>2, <1>3 DEF UploadSteps

\* Its requests give the name and the type, and are refused.
LEMMA DefaultStep ==
  ASSUME QuotaInv, DefaultSteps
  PROVE  UNCHANGED <<quota, change, upload>>
<1>1. CASE StartDefaults \/ EndDefaults
  BY <1>1 DEF StartDefaults, EndDefaults
<1>2. ASSUME NEW p \in defaults.left, SetDefault(p)
      PROVE  UNCHANGED <<quota, change, upload>>
  <2> DEFINE q == DefaultRequest(p)
  <2>1. q.named = "both"
    BY DEF DefaultRequest, NoChange
  <2> HIDE DEF q
  <2>2. LimitRefusal(q) # 200
    BY <2>1 DEF LimitRefusal, Malformed
  <2> QED BY <1>2, <2>2 DEF SetDefault, q
<1> QED BY <1>1, <1>2 DEF DefaultSteps

LEMMA QuotaStep ==
  ASSUME QuotaInv, [QuotaNext]_quotaVars
  PROVE  QuotaInv' /\ WholeChanges /\ WithinLimit
<1>1. CASE \E a \in Admin : ChangeSteps(a, ChangeRequests)
  BY <1>1, ChangeStep
<1>2. CASE \E c \in Uploader : UploadSteps(c, User, Nat)
  BY <1>2, UploadStep
<1>3. CASE DefaultSteps
  BY <1>3, DefaultStep, QuotaStutters
<1>4. CASE UNCHANGED quotaVars
  BY <1>4, QuotaStutters DEF quotaVars
<1> QED BY <1>1, <1>2, <1>3, <1>4 DEF QuotaNext

LEMMA QuotaInvariance == QuotaSpec => []QuotaInv
<1>1. QuotaInit => QuotaInv
  BY QuotaStarted
<1>2. QuotaInv /\ [QuotaNext]_quotaVars => QuotaInv'
  BY QuotaStep
<1> QED BY <1>1, <1>2, PTL DEF QuotaSpec

\* The theorem of the quotas: a change that is refused or that fails leaves
\* every row alone, one that succeeds does what it was asked, and no upload
\* exceeds a limit that has not changed since it was let in.
THEOREM QuotaIsWhole == QuotaSpec => QuotaChangesWhole
<1>1. QuotaInv => QuotaTypeOK
  <2> SUFFICES ASSUME QuotaInv, NEW u \in User, NEW r \in Resource
               PROVE  /\ quota[u][r].limit \in Nat \cup {-1}
                      /\ quota[u][r].used \in 0..MaxUsed
                      /\ quota[u][r] # NoRow => quota[u][r].limit >= 0
    BY DEF QuotaTypeOK
  <2>1. quota[u][r] \in QuotaRow
    BY DEF QuotaInv, Table
  <2>2. quota[u][r] # NoRow => quota[u][r].limit \in Nat
    BY DEF QuotaInv, Limits
  <2> QED BY <2>1, <2>2 DEF QuotaRow
<1>2. QuotaInv /\ [QuotaNext]_quotaVars => WholeChanges /\ WithinLimit
  BY QuotaStep
<1>3. QuotaSpec => []QuotaTypeOK
  BY <1>1, QuotaInvariance, PTL
<1>4. QuotaSpec => [][WholeChanges /\ WithinLimit]_quotaVars
  BY <1>2, QuotaInvariance, PTL DEF QuotaSpec
<1> QED BY <1>3, <1>4, PTL DEF QuotaChangesWhole, WholeChanges, WithinLimit
=============================================================================
