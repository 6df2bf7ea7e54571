------------------------------- MODULE SignIn -------------------------------
(***************************************************************************)
(* Signing in to the console.  A login leaves a pending row and a cookie   *)
(* and sends the browser to the provider; the callback takes the row,      *)
(* exchanges the code and leaves a session row and its cookie.  The        *)
(* callback may be loaded again, late, or in another browser, and expired  *)
(* rows linger in the table until DynamoDB gets round to them.             *)
(***************************************************************************)
EXTENDS Arrival

CONSTANTS
    Browsers,
    Logins,            \* login transactions, each known by its CSRF state
    Callbacks,         \* calls of the redirect target
    Emails, AllowedEmails,
    PKCE_TTL, SESSION_TTL

ASSUME SignInAssumption ==
    /\ AllowedEmails \subseteq Emails
    /\ PKCE_TTL \in Nat /\ SESSION_TTL \in Nat

NoLogin == "no login"
NoCallback == "no callback"
NoEmail == "no email"

ASSUME NamesAssumption ==
    NoLogin \notin Logins /\ NoCallback \notin Callbacks /\ NoEmail \notin Emails

VARIABLES
    pending,           \* when the login's pending row expires; Gone: no row
    sessions,          \* the session row each callback created, or NoSession
    state_cookie,      \* the login each browser is bound to, or NoLogin
    session_cookie,    \* the session each browser presents, or NoCallback
    lpc, began,        \* each login's next step and its browser
    started,           \* when the login arrived
    call,              \* each callback's progress
    served             \* history: under which session, where and when a request was served

signInVars == <<pending, sessions, state_cookie, session_cookie, lpc, began,
                started, call, served>>

Gone == -1
NoBrowser == "no browser"

Session == [email : Emails, exp : Nat]
NoSession == [email |-> NoEmail, exp |-> Gone]

Call == [pc : {"idle", "take", "exchange", "create", "respond", "done"},
         login : Logins \cup {NoLogin}, browser : Browsers \cup {NoBrowser},
         email : Emails \cup {NoEmail}, at : Nat]
IdleCall == [pc |-> "idle", login |-> NoLogin, browser |-> NoBrowser,
             email |-> NoEmail, at |-> 0]

SignInInit ==
    /\ pending = [l \in Logins |-> Gone]
    /\ sessions = [c \in Callbacks |-> NoSession]
    /\ state_cookie = [b \in Browsers |-> NoLogin]
    /\ session_cookie = [b \in Browsers |-> NoCallback]
    /\ lpc = [l \in Logins |-> "unused"]
    /\ began = [l \in Logins |-> NoBrowser]
    /\ started = [l \in Logins |-> 0]
    /\ call = [c \in Callbacks |-> IdleCall]
    /\ served = {}

-----------------------------------------------------------------------------
(* login: the pending row first, and the cookie with the redirect. *)

put_pending(l, b) ==
    /\ lpc[l] = "unused" /\ NoFault
    /\ pending' = [pending EXCEPT ![l] = clock + PKCE_TTL]
    /\ lpc' = [lpc EXCEPT ![l] = "redirect"]
    /\ began' = [began EXCEPT ![l] = b]
    /\ started' = [started EXCEPT ![l] = clock]
    /\ UNCHANGED <<sessions, state_cookie, session_cookie, call, served>>

login_redirect(l) ==
    /\ lpc[l] = "redirect" /\ NoFault
    /\ lpc' = [lpc EXCEPT ![l] = "at_provider"]
    /\ state_cookie' = [state_cookie EXCEPT ![began[l]] = l]
    /\ UNCHANGED <<pending, sessions, session_cookie, began, started, call, served>>

-----------------------------------------------------------------------------
(* callback, one store or provider call at a time. *)

(* The cookie set at the login must name the state; the mutant takes any   *)
(* state it is given.                                                      *)
AnyState(b, l) == b \in Browsers /\ l \in Logins

BoundState(b, l) == state_cookie[b] = l

(* The provider's redirect is followed, perhaps more than once, perhaps in *)
(* another browser.                                                        *)
CallbackArrives(c, b, l) ==
    /\ call[c].pc = "idle" /\ lpc[l] = "at_provider" /\ NoFault
    /\ BoundState(b, l)
    /\ call' = [call EXCEPT ![c] = [IdleCall EXCEPT !.pc = "take", !.login = l,
                                                    !.browser = b, !.at = ArrivalTime]]
    /\ UNCHANGED <<pending, sessions, state_cookie, session_cookie, lpc, began,
                   started, served>>

(* A row past its deadline is no row, although it is still there. *)
LiveRow(exp, now) == exp # Gone /\ now < exp

Ends(c) == call' = [call EXCEPT ![c] = [IdleCall EXCEPT !.pc = "done"]]

(* One DeleteItem that returns what it deleted; the mutant only reads. *)
take_pending_reads(c) ==
    LET l == call[c].login
    IN  /\ call[c].pc = "take" /\ NoFault
        /\ IF LiveRow(pending[l], call[c].at)
           THEN call' = [call EXCEPT ![c].pc = "exchange"] ELSE Ends(c)
        /\ UNCHANGED <<pending, sessions, state_cookie, session_cookie, lpc,
                       began, started, served>>

take_pending(c) ==
    LET l == call[c].login
    IN  /\ call[c].pc = "take" /\ NoFault
        /\ pending' = [pending EXCEPT ![l] = Gone]
        /\ IF LiveRow(pending[l], call[c].at)
           THEN call' = [call EXCEPT ![c].pc = "exchange"] ELSE Ends(c)
        /\ UNCHANGED <<sessions, state_cookie, session_cookie, lpc, began,
                       started, served>>

(* The code exchange names whoever signed in at the provider, and the      *)
(* allowlist decides; the provider is external.                            *)
exchange_code(c) ==
    /\ call[c].pc = "exchange" /\ NoFault
    /\ \E e \in Emails :
        IF e \in AllowedEmails
        THEN call' = [call EXCEPT ![c].pc = "create", ![c].email = e]
        ELSE Ends(c)
    /\ UNCHANGED <<pending, sessions, state_cookie, session_cookie, lpc, began,
                   started, served>>

create_session(c) ==
    /\ call[c].pc = "create" /\ NoFault
    /\ sessions' = [sessions EXCEPT ![c] = [email |-> call[c].email,
                                            exp |-> call[c].at + SESSION_TTL]]
    /\ call' = [call EXCEPT ![c].pc = "respond"]
    /\ UNCHANGED <<pending, state_cookie, session_cookie, lpc, began, started, served>>

(* Both cookies travel with the redirect; what is kept of the call is kept *)
(* for the properties.                                                     *)
callback_responds(c) ==
    LET b == call[c].browser
    IN  /\ call[c].pc = "respond" /\ NoFault
        /\ session_cookie' = [session_cookie EXCEPT ![b] = c]
        /\ state_cookie' = [state_cookie EXCEPT ![b] = NoLogin]
        /\ call' = [call EXCEPT ![c].pc = "done"]
        /\ UNCHANGED <<pending, sessions, lpc, began, started, served>>

(* A call fails, with or without its write, or the invocation dies. *)
CallbackFails(c) ==
    /\ call[c].pc \in {"take", "exchange", "create", "respond"}
    /\ Fault("dies")
    /\ call' = [call EXCEPT ![c].pc = "done"]
    /\ UNCHANGED <<pending, sessions, state_cookie, session_cookie, lpc, began,
                   started, served>>

callback(c) ==
    \/ \E b \in Browsers, l \in Logins : CallbackArrives(c, b, l)
    \/ take_pending(c) \/ exchange_code(c) \/ create_session(c)
    \/ callback_responds(c) \/ CallbackFails(c)

-----------------------------------------------------------------------------
(* authed: every other handler loads the session the cookie names. *)
authed(b) ==
    LET id == session_cookie[b]
    IN  /\ id # NoCallback /\ LiveRow(sessions[id].exp, clock) /\ NoFault
        /\ served' = served \cup {<<id, b, clock>>}
        /\ UNCHANGED <<pending, sessions, state_cookie, session_cookie, lpc,
                       began, started, call>>

(* The delete is tried and its failure ignored; the cookie goes either way. *)
logout(b) ==
    LET id == session_cookie[b]
    IN  /\ id # NoCallback
        /\ \/ NoFault /\ sessions' = [sessions EXCEPT ![id] = NoSession]
           \/ Fault("dies") /\ UNCHANGED sessions
        /\ session_cookie' = [session_cookie EXCEPT ![b] = NoCallback]
        /\ UNCHANGED <<pending, state_cookie, lpc, began, started, call, served>>

(* DynamoDB's TTL deletes an expired row, some time after it expired. *)
Reclaim ==
    /\ \/ /\ \E l \in Logins : pending[l] \in 0 .. clock
                               /\ pending' = [pending EXCEPT ![l] = Gone]
          /\ UNCHANGED sessions
       \/ /\ \E c \in Callbacks : sessions[c].exp \in 0 .. clock
                                  /\ sessions' = [sessions EXCEPT ![c] = NoSession]
          /\ UNCHANGED pending
    /\ UNCHANGED <<state_cookie, session_cookie, lpc, began, started, call,
                   served, faults>>

SignInNext ==
    \/ \E l \in Logins : (\E b \in Browsers : put_pending(l, b)) \/ login_redirect(l)
    \/ \E c \in Callbacks : callback(c)
    \/ \E b \in Browsers : authed(b) \/ logout(b)
    \/ Reclaim

-----------------------------------------------------------------------------
(* Type correctness of the two tables' rows, the cookies and the calls. *)
SignInTypeOK ==
    /\ pending \in [Logins -> Nat \cup {Gone}]
    /\ sessions \in [Callbacks -> Session \cup {NoSession}]
    /\ state_cookie \in [Browsers -> Logins \cup {NoLogin}]
    /\ session_cookie \in [Browsers -> Callbacks \cup {NoCallback}]
    /\ lpc \in [Logins -> {"unused", "redirect", "at_provider"}]
    /\ began \in [Logins -> Browsers \cup {NoBrowser}]
    /\ started \in [Logins -> Nat]
    /\ call \in [Callbacks -> Call]
    /\ served \subseteq Callbacks \X Browsers \X Nat

(* The callbacks that got past take_pending. *)
PastTake == {"exchange", "create", "respond"}
Authenticated(c) == call[c].pc \in PastTake \/ (call[c].pc = "done" /\ call[c].email # NoEmail)

(* take_pending: a login is completed at most once, however often its      *)
(* redirect is followed and however the callbacks overlap.                 *)
CompletedOnce ==
    \A c, d \in Callbacks :
        Authenticated(c) /\ Authenticated(d) /\ call[c].login = call[d].login => c = d

(* authed: whoever is served signed in at the provider as somebody on the  *)
(* allowlist, in the browser they began the login in, within PKCE_TTL of   *)
(* beginning and less than SESSION_TTL ago, wherever the callback's URL    *)
(* was opened and however long expired rows linger.                        *)
ServedRightly ==
    \A x \in served :
        LET c == call[x[1]]
        IN  /\ c.email \in AllowedEmails
            /\ began[c.login] = x[2]
            /\ c.at < started[c.login] + PKCE_TTL
            /\ x[3] < c.at + SESSION_TTL
=============================================================================
