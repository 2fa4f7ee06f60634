------------------------------- MODULE Viewing -------------------------------
(***************************************************************************)
(* What a live shell promises those who watch it: one viewer at a time, shown *)
(* the output in order and kept up with the shell as long as its line holds;  *)
(* who stops being the viewer is told why, asked for it or is gone, and who   *)
(* comes too late to be told that the shell ended is greeted with the news.   *)
(***************************************************************************)
EXTENDS Naturals

CONSTANTS
    Viewers,    \* the viewings that may ever be, each good for once
    NoViewer    \* nobody

VARIABLES
    printed,    \* how much the shell has printed
    viewer,     \* who watches it now
    view,       \* how much of the output each viewer has been shown
    admitted,   \* who watched it until now
    broken,     \* those of them whose line is down
    leaving,    \* those of them on their way out
    notice,     \* the last word to each
    over,       \* whether the shell runs, has ended, or has ended and said so
    knows       \* who was greeted with the news that it ended

vars == <<printed, viewer, view, admitted, broken, leaving, notice, over, knows>>

Init ==
    /\ printed = 0
    /\ viewer = NoViewer
    /\ view = [v \in Viewers |-> 0]
    /\ admitted = {} /\ broken = {} /\ leaving = {}
    /\ notice = [v \in Viewers |-> "no"]
    /\ over = "running"
    /\ knows = {}

\* At most the last piece of the output is missing.
Recent(n) == n <= printed /\ printed <= n + 1

\* The shell does not run ahead of a viewer it can reach.
Produce ==
    /\ viewer = NoViewer \/ viewer \in broken \/ view[viewer] = printed
    /\ printed' = printed + 1
    /\ UNCHANGED <<viewer, view, admitted, broken, leaving, notice, over, knows>>

Show ==
    /\ viewer # NoViewer
    /\ view[viewer] < printed
    /\ view' = [view EXCEPT ![viewer] = @ + 1]
    /\ UNCHANGED <<printed, viewer, admitted, broken, leaving, notice, over, knows>>

\* The picture a newcomer gets, while nobody else watches.
Greet(v) ==
    /\ viewer = NoViewer /\ v \notin admitted
    /\ \E n \in 0..printed : Recent(n) /\ view' = [view EXCEPT ![v] = n]
    /\ knows' = IF over = "running" THEN knows ELSE knows \cup {v}
    /\ UNCHANGED <<printed, viewer, admitted, broken, leaving, notice, over>>

\* A newcomer may turn out to be gone already.
Admit(v) ==
    /\ viewer = NoViewer /\ v \notin admitted
    /\ over = "told" => v \in knows
    /\ viewer' = v
    /\ admitted' = admitted \cup {v}
    /\ broken' = broken \/ broken' = broken \cup {v}
    /\ \E n \in view[v]..printed : Recent(n) /\ view' = [view EXCEPT ![v] = n]
    /\ UNCHANGED <<printed, leaving, notice, over, knows>>

Evict ==
    /\ viewer # NoViewer
    /\ notice' = [notice EXCEPT ![viewer] = "stolen"]
    /\ viewer' = NoViewer
    /\ UNCHANGED <<printed, view, admitted, broken, leaving, over, knows>>

Drop ==
    /\ viewer \in broken
    /\ viewer' = NoViewer
    /\ UNCHANGED <<printed, view, admitted, broken, leaving, notice, over, knows>>

AskLeave ==
    /\ viewer # NoViewer
    /\ leaving' = leaving \cup {viewer}
    /\ UNCHANGED <<printed, viewer, view, admitted, broken, notice, over, knows>>

\* Somebody else may watch by now; it is not disturbed.
Leave(v) ==
    /\ v \in leaving
    /\ leaving' = leaving \ {v}
    /\ viewer' = IF viewer = v THEN NoViewer ELSE viewer
    /\ UNCHANGED <<printed, view, admitted, broken, notice, over, knows>>

Break ==
    /\ broken \subseteq broken' /\ broken' \subseteq admitted
    /\ UNCHANGED <<printed, viewer, view, admitted, leaving, notice, over, knows>>

Finish ==
    /\ over = "running"
    /\ over' = "ended"
    /\ UNCHANGED <<printed, viewer, view, admitted, broken, leaving, notice, knows>>

TellEnd ==
    /\ over = "ended"
    /\ over' = "told"
    /\ notice' = IF viewer = NoViewer THEN notice ELSE [notice EXCEPT ![viewer] = "exited"]
    /\ viewer' = NoViewer
    /\ UNCHANGED <<printed, view, admitted, broken, leaving, knows>>

Next ==
    \/ Produce \/ Show \/ Evict \/ Drop \/ AskLeave \/ Break \/ Finish \/ TellEnd
    \/ \E v \in Viewers : Greet(v) \/ Admit(v) \/ Leave(v)

Spec == Init /\ [][Next]_vars
=============================================================================
