---------------------------- MODULE SingleSession ----------------------------
(***************************************************************************)
(* What "single active session per user" promises, without Postgres, Redis *)
(* or requests: a user has at most one session, opening one closes the one *)
(* before, and a session that was closed never opens again.                *)
(***************************************************************************)
CONSTANTS Users, Jti

VARIABLES
    sessions,   \* pairs <<user, token>>: the open sessions
    used        \* tokens that may not open a session any more

specVars == <<sessions, used>>

SpecInit == sessions = {} /\ used = {}

SessionsOf(u) == {s \in sessions : s[1] = u}

Open(u, j) ==
    /\ j \notin used
    /\ used' = used \cup {j}
    /\ sessions' = (sessions \ SessionsOf(u)) \cup {<<u, j>>}

(* Logout, a forced logout, or the end of the 24 hours.                    *)
Close(s) ==
    /\ s \in sessions
    /\ sessions' = sessions \ {s}
    /\ UNCHANGED used

(* A token was made for a login that did not get as far as a session.      *)
Waste(j) ==
    /\ j \notin used
    /\ used' = used \cup {j}
    /\ UNCHANGED sessions

SpecNext ==
    \/ \E u \in Users, j \in Jti : Open(u, j)
    \/ \E s \in sessions : Close(s)
    \/ \E j \in Jti : Waste(j)

SingleSessionSpec == SpecInit /\ [][SpecNext]_specVars
=============================================================================
