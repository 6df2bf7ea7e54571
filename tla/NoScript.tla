------------------------------ MODULE NoScript ------------------------------
(***************************************************************************)
(* The nojs Lambda: a browser without JavaScript posts a form to join and  *)
(* then reloads a page that tries to admit it.  Its identity is a cookie,  *)
(* given only with the answer to a join that was accepted.                 *)
(***************************************************************************)
EXTENDS WaitingPage

CONSTANTS
    Forms,             \* the browsers
    Posts              \* form posts one browser may have under way

VARIABLES
    identity,          \* the identity cookie of each browser, or NoIdentity
    posting,           \* each post's identity while it waits for its answer
    session,           \* the browsers that were admitted
    accepted           \* history: identities whose join the queue accepted

formVars == <<identity, posting, session, accepted>>

NoIdentity == "no identity"

ASSUME IdentityAssumption == NoIdentity \notin Visitors

FormTypeOK ==
    /\ identity \in [Forms -> Visitors \cup {NoIdentity}]
    /\ posting \in [Forms \X Posts -> Visitors \cup {NoIdentity}]
    /\ session \subseteq Forms
    /\ accepted \subseteq Visitors \ Scripted

FormInit ==
    /\ identity = [b \in Forms |-> NoIdentity]
    /\ posting = [x \in Forms \X Posts |-> NoIdentity]
    /\ session = {}
    /\ accepted = {}

(* An identity nobody has: the RNG does not repeat itself. *)
Mint == {v \in Visitors \ Scripted :
            v \notin accepted /\ \A x \in Forms \X Posts : posting[x] # v
                              /\ \A b \in Forms : identity[b] # v}

(* The send fails, and no cookie is given.  The mutant gives it first. *)
SendFailsAfterCookie(b, v) == Fault("error") /\ identity' = [identity EXCEPT ![b] = v]

SendFails(b, v) == Fault("error") /\ v \in Visitors /\ UNCHANGED identity

(* handle_enter: a browser that shows an identity is sent on to the wait   *)
(* page; any other is joined, and its answer may be lost on the way.       *)
handle_enter(b, i) ==
    /\ identity[b] = NoIdentity /\ posting[<<b, i>>] = NoIdentity
    /\ \E v \in Mint :
        \/ /\ NoFault /\ Enqueue(v)
           /\ posting' = [posting EXCEPT ![<<b, i>>] = v]
           /\ accepted' = accepted \cup {v}
           /\ UNCHANGED identity
        \/ SendFails(b, v) /\ UNCHANGED <<mail, waited, posting, accepted>>
        \/ /\ Fault("ambiguous") /\ Enqueue(v)
           /\ accepted' = accepted \cup {v}
           /\ UNCHANGED <<posting, identity>>
    /\ UNCHANGED <<roomVars, cache, page, chain, sent, unanswered, session>>

(* The redirect that sets the cookie; a later one replaces it. *)
set_cookie(b, i) ==
    /\ posting[<<b, i>>] # NoIdentity /\ NoFault
    /\ identity' = [identity EXCEPT ![b] = posting[<<b, i>>]]
    /\ posting' = [posting EXCEPT ![<<b, i>>] = NoIdentity]
    /\ UNCHANGED <<roomVars, cache, pageVars, session, accepted>>

(* handle_wait, for the identity of a place that is another's: the cookie  *)
(* is taken back, and the form may be posted again.                        *)
clear_identity_cookie(b) ==
    /\ identity[b] # NoIdentity /\ b \notin session
    /\ NotHolder(identity[b])
    /\ identity' = [identity EXCEPT ![b] = NoIdentity]
    /\ UNCHANGED <<roomVars, cache, pageVars, posting, session, accepted>>

(* handle_wait: the page reloads itself until the identity is admitted.    *)
(* It never joins again.                                                   *)
handle_wait(b) ==
    /\ identity[b] # NoIdentity /\ b \notin session /\ NoFault
    /\ Admits(identity[b])
    /\ session' = session \cup {b}
    /\ UNCHANGED <<roomVars, cache, pageVars, identity, posting, accepted>>

FormNext ==
    \E b \in Forms :
        \/ \E i \in Posts : handle_enter(b, i) \/ set_cookie(b, i)
        \/ handle_wait(b) \/ clear_identity_cookie(b)
=============================================================================
