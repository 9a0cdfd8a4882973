----------------------------- MODULE LoginFlow ------------------------------
(***************************************************************************)
(* rest/auth: a browser logs in and out.  login leaves a signed cookie with *)
(* a state and redirects to the issuer; the issuer redirects back to       *)
(* oauth_callback, which redeems the code, stores a session, deletes the   *)
(* one that the browser had, and sets the cookies; logout ends the session *)
(* and clears them.                                                        *)
(*                                                                         *)
(* A browser has one jar of cookies and several tabs.  A request carries   *)
(* the cookies as they were when it was sent, and its answer changes them  *)
(* when it arrives: both may be overtaken by other tabs.  A link from      *)
(* another browser brings a state that is not in this jar.                 *)
(*                                                                         *)
(* The state, the verifier and the nonce of a login are one number: they   *)
(* are drawn together and travel in the same cookie.                       *)
(***************************************************************************)
EXTENDS Integers, Sequences

CONSTANTS
  Tab,
  Subject,      \* identities at the issuer
  Nobody,
  MaxLogin,     \* bound on the logins begun in this browser
  MaxSid        \* bound on the sessions stored

ASSUME LoginAssumption ==
  Nobody \notin Subject /\ MaxLogin \in Nat \ {0} /\ MaxSid \in Nat \ {0}

VARIABLES
  jar,          \* the browser's cookies
  sessions,     \* sessions[s]: whose session is stored under s in Redis
  tab,          \* tab[t]: what a tab, or the handler it calls, is doing
  logins,       \* number of logins begun
  \* history
  stored,       \* stored[s]: whom the session s was stored for
  endedBy,      \* endedBy[s]: who has ended the session s
  orphaned,     \* sessions that stayed when their cookies were declared void
  calm          \* no two requests overlapped, no answer or deletion failed

loginVars == <<jar, sessions, tab, logins, stored, endedBy, orphaned, calm>>

Foreign == MaxLogin + 1     \* a state of another browser
NoCookies == [state |-> 0, at |-> Nobody, sid |-> 0]

\* The cookies the request came with, the state and the identity it brings, and
\* its new session.
Quiet == [pc |-> "idle", sent |-> NoCookies, state |-> 0, who |-> Nobody,
          sid |-> 0]

LoginInit ==
  /\ jar = NoCookies
  /\ sessions = [s \in 1..MaxSid |-> Nobody]
  /\ tab = [t \in Tab |-> Quiet]
  /\ logins = 0 /\ stored = <<>>
  /\ endedBy = [s \in 1..MaxSid |-> Nobody]
  /\ orphaned = {} /\ calm = TRUE

On(t, place) == tab[t].pc = place
Moves(t, place) == tab' = [tab EXCEPT ![t].pc = place]
Closes(t) == tab' = [tab EXCEPT ![t] = Quiet]
Served(t) == tab[t].pc \notin {"idle", "issuer", "back"}
\* A request is sent, with the cookies of the moment.
Sends(t, place) ==
  /\ tab' = [tab EXCEPT ![t].pc = place, ![t].sent = jar]
  /\ calm' = (calm /\ \A u \in Tab : ~Served(u))

-----------------------------------------------------------------------------
(* login, and the issuer                                                   *)

\* A new state replaces the one of another tab.  A login that is refused, without
\* browser logins or a usable issuer, changes nothing.
login(t) ==
  /\ On(t, "idle") /\ logins < MaxLogin
  /\ logins' = logins + 1
  /\ jar' = [jar EXCEPT !.state = logins + 1]
  /\ tab' = [tab EXCEPT ![t] = [Quiet EXCEPT !.pc = "issuer",
                                             !.state = logins + 1]]
  /\ UNCHANGED <<sessions, stored, endedBy, orphaned, calm>>

\* Somebody signs in at the issuer, or nobody.
IssuerRedirects(t) ==
  /\ On(t, "issuer")
  /\ \E who \in Subject \cup {Nobody} :
       tab' = [tab EXCEPT ![t].pc = "back", ![t].who = who]
  /\ UNCHANGED <<jar, sessions, logins, stored, endedBy, orphaned, calm>>

FollowLink(t) ==
  /\ On(t, "idle")
  /\ \E who \in Subject :
       tab' = [tab EXCEPT ![t] = [Quiet EXCEPT !.pc = "back", !.who = who,
                                               !.state = Foreign]]
  /\ UNCHANGED <<jar, sessions, logins, stored, endedBy, orphaned, calm>>

-----------------------------------------------------------------------------
(* oauth_callback                                                          *)

SendCallback(t) ==
  /\ On(t, "back") /\ Sends(t, "callback")
  /\ UNCHANGED <<jar, sessions, logins, stored, endedBy, orphaned>>

StateMatches(t) == tab[t].sent.state = tab[t].state

\* An answer ends what the tab does, or, at "clear", also deletes the state cookie.
\* A state that matches may still have expired.
consume_state(t) ==
  /\ On(t, "callback")
  /\ \/ Closes(t)
     \/ StateMatches(t) /\ tab[t].who = Nobody /\ Moves(t, "clear")
     \/ StateMatches(t) /\ tab[t].who # Nobody /\ Moves(t, "redeem")
  /\ UNCHANGED <<jar, sessions, logins, stored, endedBy, orphaned, calm>>

\* The exchange and the validation of both tokens, with the nonce; a failure
\* leaves the state cookie.
RedeemCode(t) ==
  /\ On(t, "redeem")
  /\ Moves(t, "provision") \/ Closes(t)
  /\ UNCHANGED <<jar, sessions, logins, stored, endedBy, orphaned, calm>>

\* A missing role does not prevent the session.
Provision(t) ==
  /\ On(t, "provision")
  /\ Moves(t, "store") \/ Moves(t, "clear")
  /\ UNCHANGED <<jar, sessions, logins, stored, endedBy, orphaned, calm>>

Stores(who) ==
  /\ Len(stored) < MaxSid
  /\ stored' = Append(stored, who)
  /\ sessions' = [sessions EXCEPT ![Len(stored) + 1] = who]

StoreSession(t) ==
  /\ On(t, "store")
  /\ \/ /\ Stores(tab[t].who)
        /\ tab' = [tab EXCEPT ![t].pc = "replace", ![t].sid = Len(stored) + 1]
     \/ Moves(t, "clear") /\ UNCHANGED <<sessions, stored>>
  /\ UNCHANGED <<jar, logins, endedBy, orphaned, calm>>

Ends(s, who) ==
  /\ sessions' = [sessions EXCEPT ![s] = Nobody]
  /\ endedBy' = [endedBy EXCEPT ![s] = who]

\* The session the request came with goes if it is the same person's.
OldSession(t) == tab[t].sent.sid
OldExists(t) ==
  OldSession(t) # 0 /\ sessions[OldSession(t)] # Nobody
OldMatches(t) ==
  OldSession(t) # 0 /\ sessions[OldSession(t)] = tab[t].who

ReplaceSession(t) ==
  /\ On(t, "replace")
  /\ \/ /\ IF OldMatches(t) THEN Ends(OldSession(t), tab[t].who)
           ELSE UNCHANGED <<sessions, endedBy>>
        /\ Moves(t, "welcome")
        /\ UNCHANGED calm
     \/ /\ OldSession(t) # 0        \* Redis fails
        /\ Moves(t, "clear") /\ calm' = FALSE
        /\ UNCHANGED <<sessions, endedBy>>
  /\ UNCHANGED <<jar, logins, stored, orphaned>>

\* The browser receives the answer, or not.
ReceiveWelcome(t) ==
  /\ On(t, "welcome")
  /\ jar' = [state |-> 0, at |-> tab[t].who, sid |-> tab[t].sid]
  /\ Closes(t)
  /\ UNCHANGED <<sessions, logins, stored, endedBy, orphaned, calm>>

ReceiveFailure(t) ==
  /\ On(t, "clear")
  /\ jar' = [jar EXCEPT !.state = 0]
  /\ Closes(t)
  /\ UNCHANGED <<sessions, logins, stored, endedBy, orphaned, calm>>

\* The answer of a handler never arrives.
AnswerLost(t) ==
  /\ tab[t].pc \in {"welcome", "clear", "goodbye", "renewed"}
  /\ Closes(t)
  /\ calm' = FALSE
  /\ UNCHANGED <<jar, sessions, logins, stored, endedBy, orphaned>>

-----------------------------------------------------------------------------
(* logout                                                                  *)

SendLogout(t) ==
  /\ On(t, "idle") /\ Sends(t, "logout")
  /\ UNCHANGED <<jar, sessions, logins, stored, endedBy, orphaned>>

\* No browser login, no access cookie, no proof that it is the browser's; or Redis
\* or the issuer cannot be asked, or the latter is misconfigured.
RefuseLogout(t) ==
  /\ On(t, "logout")
  /\ Closes(t)
  /\ UNCHANGED <<jar, sessions, logins, stored, endedBy, orphaned, calm>>

\* Whose session ends: that of the access cookie, whether its token was decoded
\* or, without the issuer's keys, is the one stored in the session.
SessionOfCookie(t) ==
  tab[t].sent.sid # 0 /\ sessions[tab[t].sent.sid] = tab[t].sent.at

logout(t) ==
  /\ On(t, "logout") /\ tab[t].sent.at # Nobody
  /\ IF SessionOfCookie(t) THEN Ends(tab[t].sent.sid, tab[t].sent.at)
     ELSE UNCHANGED <<sessions, endedBy>>
  /\ Moves(t, "goodbye")
  /\ UNCHANGED <<jar, logins, stored, orphaned, calm>>

\* A definitively unusable token: the cookies go, the session stays.
LogoutUnusable(t) ==
  /\ On(t, "logout") /\ tab[t].sent.at # Nobody /\ tab[t].sent.sid # 0
  /\ Moves(t, "goodbye")
  /\ orphaned' = orphaned \cup {tab[t].sent.sid}
  /\ UNCHANGED <<jar, sessions, logins, stored, endedBy, calm>>

ReceiveGoodbye(t) ==
  /\ On(t, "goodbye")
  /\ jar' = [jar EXCEPT !.at = Nobody, !.sid = 0]
  /\ Closes(t)
  /\ UNCHANGED <<sessions, logins, stored, endedBy, orphaned, calm>>

-----------------------------------------------------------------------------
(* Other requests of the browser                                           *)

SendRequest(t) ==
  /\ On(t, "idle") /\ jar.at # Nobody /\ Sends(t, "request")
  /\ UNCHANGED <<jar, sessions, logins, stored, endedBy, orphaned>>

\* The access cookie is still good, or nothing definite is known of it: no cookie
\* changes.  Or its token is refreshed, which sets the access cookie; or the
\* session is gone or another identity's, and the cookies go.
AnswerRequest(t) ==
  /\ On(t, "request")
  /\ \/ Closes(t)
     \/ SessionOfCookie(t) /\ Moves(t, "renewed")
     \/ ~SessionOfCookie(t) /\ Moves(t, "goodbye")
  /\ UNCHANGED <<jar, sessions, logins, stored, endedBy, orphaned, calm>>

\* The issuer rejects the refresh or answers with unusable tokens, or the window
\* of the session is past: it is deleted, and the cookies go.
EndSession(t) ==
  /\ On(t, "request") /\ SessionOfCookie(t)
  /\ Ends(tab[t].sent.sid, tab[t].sent.at)
  /\ Moves(t, "goodbye")
  /\ UNCHANGED <<jar, logins, stored, orphaned, calm>>

\* The access cookie is definitively invalid, as after a rotation of the issuer's
\* keys, or the session has no refresh token, or it is rejected and Redis does not
\* delete it: the cookies go, the session stays.
RequestUnusable(t) ==
  /\ On(t, "request")
  /\ Moves(t, "goodbye")
  /\ orphaned' = orphaned \cup {tab[t].sent.sid}
  /\ UNCHANGED <<jar, sessions, logins, stored, endedBy, calm>>

ReceiveRenewed(t) ==
  /\ On(t, "renewed")
  /\ jar' = [jar EXCEPT !.at = tab[t].sent.at]
  /\ Closes(t)
  /\ UNCHANGED <<sessions, logins, stored, endedBy, orphaned, calm>>

\* Redis does what it is asked, but its answer is lost: 503.
RedisAnswerLost(t) ==
  /\ \/ /\ On(t, "store") /\ Stores(tab[t].who) /\ Moves(t, "clear")
        /\ UNCHANGED endedBy
     \/ /\ On(t, "replace") /\ OldMatches(t)
        /\ Ends(OldSession(t), tab[t].who) /\ Moves(t, "clear")
        /\ UNCHANGED stored
     \/ /\ On(t, "logout") \/ On(t, "request")
        /\ tab[t].sent.at # Nobody /\ SessionOfCookie(t)
        /\ Ends(tab[t].sent.sid, tab[t].sent.at) /\ Closes(t)
        /\ UNCHANGED stored
  /\ calm' = FALSE
  /\ UNCHANGED <<jar, logins, orphaned>>

-----------------------------------------------------------------------------
\* Redis drops a session whose time to live is over.
SessionExpires(s) ==
  /\ sessions' = [sessions EXCEPT ![s] = Nobody]
  /\ UNCHANGED <<jar, tab, logins, stored, endedBy, orphaned, calm>>

LoginNext ==
  \/ \E s \in 1..MaxSid : SessionExpires(s)
  \/ \E t \in Tab :
    \/ login(t) \/ IssuerRedirects(t) \/ FollowLink(t)
    \/ SendCallback(t) \/ consume_state(t) \/ RedeemCode(t) \/ Provision(t)
    \/ StoreSession(t) \/ ReplaceSession(t) \/ ReceiveWelcome(t)
    \/ ReceiveFailure(t) \/ AnswerLost(t)
    \/ SendLogout(t) \/ RefuseLogout(t) \/ logout(t)
    \/ LogoutUnusable(t) \/ ReceiveGoodbye(t)
    \/ SendRequest(t) \/ AnswerRequest(t) \/ EndSession(t)
    \/ RequestUnusable(t) \/ ReceiveRenewed(t) \/ RedisAnswerLost(t)

LoginSpec == LoginInit /\ [][LoginNext]_loginVars

-----------------------------------------------------------------------------
(* Properties                                                              *)

LoginTypeOK ==
  LET Cookies == [state : 0..MaxLogin, at : Subject \cup {Nobody},
                  sid : 0..MaxSid] IN
  /\ jar \in Cookies
  /\ sessions \in [1..MaxSid -> Subject \cup {Nobody}]
  /\ endedBy \in [1..MaxSid -> Subject \cup {Nobody}]
  /\ Len(stored) <= MaxSid /\ \A s \in 1..Len(stored) : stored[s] \in Subject
  /\ \A t \in Tab : /\ tab[t].sent \in Cookies
                     /\ tab[t].who \in Subject \cup {Nobody}
                     /\ tab[t].sid \in 0..MaxSid
                     /\ tab[t].state \in 0..Foreign
  /\ orphaned \subseteq 0..MaxSid
  /\ logins \in 0..MaxLogin /\ calm \in BOOLEAN

Live == {s \in 1..Len(stored) : sessions[s] # Nobody}

\* A session is stored only for a login that this browser began, and is ended
\* by nobody but the one it was stored for, however the tabs overtake each
\* other.  While none does and no answer or deletion fails, the two cookies belong
\* to one identity, and the logins and logouts of one person leave at most one
\* session, that of the cookie, besides those whose cookies were declared void
\* while they stayed: with an access cookie that has become definitively invalid
\* or a session without refresh token, the next login finds no session to delete.
LoginSound ==
  /\ LoginTypeOK
  /\ \A t \in Tab : tab[t].pc \in {"redeem", "provision", "store", "replace",
                                   "welcome"} => tab[t].state # Foreign
  /\ \A s \in 1..Len(stored) :
       /\ sessions[s] \in {Nobody, stored[s]}
       /\ endedBy[s] \in {Nobody, stored[s]}
  /\ calm /\ jar.sid # 0 => stored[jar.sid] = jar.at
  /\ calm /\ (\A t \in Tab : ~Served(t))
          /\ (\A s \in 1..Len(stored) : stored[s] = stored[1]) =>
       Live \ orphaned \subseteq {jar.sid}
=============================================================================
