---------------------------- MODULE SessionTable -----------------------------
(***************************************************************************)
(* What the registry of the daemon promises its users: a session is created  *)
(* while there is room, it ends once, for good, and only because somebody     *)
(* asked for it or because its shell is gone; one client at a time holds it.  *)
(***************************************************************************)
CONSTANTS
    Sessions,   \* the sessions that may ever exist
    Users,      \* who may hold one
    NoUser,     \* nobody
    Fits(_)     \* whether a set of sessions may live at once

VARIABLES
    session,    \* the life of each session
    asked,      \* sessions somebody asked to end
    gone,       \* sessions whose shell process has ended
    holder      \* who holds each session

vars == <<session, asked, gone, holder>>

Living == {s \in Sessions : session[s] = "live"}

Init ==
    /\ session = [s \in Sessions |-> "absent"]
    /\ asked = {} /\ gone = {}
    /\ holder = [s \in Sessions |-> NoUser]

Create(s) ==
    /\ session[s] = "absent"
    /\ Fits(Living \cup {s})
    /\ session' = [session EXCEPT ![s] = "live"]
    /\ UNCHANGED <<asked, gone, holder>>

Ask(s) ==
    /\ session[s] # "absent"
    /\ asked' = asked \cup {s}
    /\ UNCHANGED <<session, gone, holder>>

\* A shell may end before its session was set up.
Depart(s) ==
    /\ gone' = gone \cup {s}
    /\ UNCHANGED <<session, asked, holder>>

End(s) ==
    /\ session[s] = "live"
    /\ s \in asked \cup gone
    /\ session' = [session EXCEPT ![s] = "ended"]
    /\ UNCHANGED <<asked, gone, holder>>

\* A holder that was there when the session ended is told and let go.
Hold(s, u) ==
    /\ session[s] # "absent"
    /\ holder' = [holder EXCEPT ![s] = u]
    /\ UNCHANGED <<session, asked, gone>>

Next ==
    \E s \in Sessions :
        \/ Create(s) \/ Ask(s) \/ Depart(s) \/ End(s)
        \/ \E u \in Users \cup {NoUser} : Hold(s, u)

Spec == Init /\ [][Next]_vars
=============================================================================
