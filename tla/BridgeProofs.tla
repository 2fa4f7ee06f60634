----------------------------- MODULE BridgeProofs -----------------------------
(* What Bridge guarantees for any number of attempts, upgrades, keys, resizes,  *)
(* chunks and rivals.                                                        *)
EXTENDS Bridge, TLAPS

Answers == {"snapshot", "output", "exited", "evicted", "error"}
OpenMessage == Message("open", 0)

NoOpen(q) == \A i \in DOMAIN q : q[i].kind # "open"
Has(q, x) == \E i \in DOMAIN q : q[i] = x

\* The session is not, and will not be again, with a connection that has no open to come.
Lost(k) == shell # "live" \/ slot # k

\* Input and resize go where the output comes from, an attempt is a later connection.
OrderInv ==
    /\ cur = target /\ cur <= used /\ held.conn <= cur
    /\ pc \in {"hello", "opening"} => cur < used

\* An open is all that waits on its connection, and its client may send nothing else, since
\* it is of an attempt that is under way, or was given up.
Pending(k) ==
    /\ req[k] = <<OpenMessage>> /\ rsp[k] = <<>>
    /\ slot # k /\ k # cur
    /\ link[k] = "open" => k = used /\ pc = "opening"

OpenInv == \A k \in Conns : NoOpen(req[k]) \/ Pending(k)

\* Nothing has happened on a connection that does not exist, or on which hello is awaited.
FreshInv ==
    \A k \in Conns :
        k > used \/ (k = used /\ pc = "hello") => req[k] = <<>> /\ rsp[k] = <<>> /\ slot # k

\* An attempt that is refused finds no shell.
AttemptInv ==
    pc = "opening" =>
        /\ req[used] \in {<<>>, <<OpenMessage>>}
        /\ Has(rsp[used], "error") => shell # "live"

\* What the daemon told was true, and is still.
ToldInv ==
    \A k \in Conns :
        /\ Has(rsp[k], "exited") => shell = "gone"
        /\ Has(rsp[k], "error") \/ Has(rsp[k], "evicted") => Lost(k) /\ NoOpen(req[k])

EndInv ==
    /\ outcome # "none" => pc \in {"leaving", "ended"}
    /\ outcome = "exited" => shell = "gone"
    /\ outcome \in {"error", "evicted"} => Lost(cur) /\ NoOpen(req[cur])
    /\ outcome = "fallback" => shell # "live" \/ tries = Attempts

IInv ==
    TypeOK /\ OrderInv /\ OpenInv /\ FreshInv /\ AttemptInv /\ ToldInv /\ EndInv

-----------------------------------------------------------------------------
(* Constants, queues                                                        *)

LEMMA ConnsFacts == 1 \in Conns /\ Conns \subseteq Nat /\ Rival \notin Conns /\ Nobody \notin Conns
<1>1. Attempts * MaxUpgrades \in Nat
  BY BridgeAssumption, SMT DEF BridgeAssumption
<1>2. 1 \in Conns /\ Conns \subseteq Nat
  BY <1>1 DEF Conns
<1> QED
  BY <1>2, BridgeAssumption DEF BridgeAssumption

\* Attempts go up one by one.
LEMMA ConnsBelow ==
    ASSUME NEW k \in Conns, NEW n \in Nat \ {0}, n <= k
    PROVE  n \in Conns
<1>1. Attempts * MaxUpgrades \in Nat
  BY BridgeAssumption, SMT DEF BridgeAssumption
<1> QED
  BY <1>1 DEF Conns

LEMMA EmptyQueue == NoOpen(<<>>) /\ \A x : ~Has(<<>>, x)
BY DEF NoOpen, Has

LEMMA NoOpenAppend ==
    ASSUME NEW q \in Seq(Messages), NEW m \in Messages, NoOpen(q), m.kind # "open"
    PROVE  NoOpen(Append(q, m))
BY DEF NoOpen

LEMMA NoOpenTail ==
    ASSUME NEW q \in Seq(Messages), q # <<>>, NoOpen(q)
    PROVE  NoOpen(Tail(q)) /\ Head(q).kind # "open"
BY DEF NoOpen

LEMMA HasAppend ==
    ASSUME NEW q \in Seq(Answers), NEW a \in Answers, NEW x
    PROVE  Has(Append(q, a), x) => Has(q, x) \/ x = a
BY DEF Has

LEMMA HasTail ==
    ASSUME NEW q \in Seq(Answers), q # <<>>
    PROVE  Has(q, Head(q)) /\ \A x : Has(Tail(q), x) => Has(q, x)
BY DEF Has

LEMMA Concatenation ==
    ASSUME NEW q \in Seq(Answers)
    PROVE  q \o <<>> = q /\ q \o <<"snapshot">> = Append(q, "snapshot")
BY DEF Answers

LEMMA AnswersKinds ==
    "snapshot" \in Answers /\ "output" \in Answers /\ "exited" \in Answers
        /\ "evicted" \in Answers /\ "error" \in Answers
BY DEF Answers

\* What is taken from a queue, and what is left of it.
LEMMA HeadAndTail ==
    ASSUME NEW S, NEW q \in Seq(S), q # <<>>
    PROVE  Head(q) \in S /\ Tail(q) \in Seq(S)
OBVIOUS

LEMMA Appended ==
    ASSUME NEW S, NEW q \in Seq(S), NEW x \in S
    PROVE  Append(q, x) \in Seq(S)
OBVIOUS

-----------------------------------------------------------------------------
(* What a step does to the queues                                           *)

LinkOK == link \in [Conns -> {"unused", "open", "dropped", "broken", "closed"}]
ReqOK == req \in [Conns -> Seq(Messages)]
RspOK == rsp \in [Conns -> Seq(Answers)]
SlotOK == slot \in Conns \cup {Rival, Nobody}
EndsOK == cur \in Conns /\ target \in Conns /\ used \in Conns
HeldOK == held \in [key : 1..MaxKeys, conn : Conns] \cup {NoKey}

LEMMA TypeParts == TypeOK => LinkOK /\ ReqOK /\ RspOK /\ SlotOK /\ EndsOK /\ HeldOK
BY DEF TypeOK, LinkOK, ReqOK, RspOK, SlotOK, EndsOK, HeldOK, Answers

Sent(k, m) == link[k] = "open" /\ req' = [req EXCEPT ![k] = Append(@, m)]
Took(k) == req[k] # <<>> /\ req' = [req EXCEPT ![k] = Tail(@)]
Emptied(conns) == req' = [k \in Conns |-> IF k \in conns THEN <<>> ELSE req[k]]

ReqChanges ==
    \/ req' = req
    \/ \E k \in Conns : Took(k)
    \/ \E conns : Emptied(conns)
    \/ \E k \in Conns, m \in Messages :
           /\ Sent(k, m)
           /\ \/ m.kind # "open" /\ k \in {cur, target, held.conn}
              \/ m = OpenMessage /\ k = used /\ HelloAnswered

Answered(k, a) == rsp' = [rsp EXCEPT ![k] = Append(@, a)]
Read(k) == rsp[k] # <<>> /\ rsp' = [rsp EXCEPT ![k] = Tail(@)]

\* Who a refusal goes to.
Refused(k) ==
    \/ HandleOpen(k) /\ shell # "live"
    \/ (HandleInput(k) \/ HandleResize(k)) /\ ~Attached(k)

RspChanges ==
    \/ rsp' = rsp
    \/ \E k \in Conns : Read(k)
    \/ \E k \in Conns : k = slot /\ Answered(k, "output")
    \/ \E k \in Conns : Answered(k, "error") /\ Refused(k)
    \/ Steals(Rival)
    \/ \E k \in Conns : Steals(k) /\ HandleOpen(k)
    \/ MarkExited

LEMMA ReqStep ==
    ASSUME LinkOK, ReqOK, EndsOK, HeldOK, [Next]_vars
    PROVE  ReqChanges
<1>1. CASE ReadKey \/ Disconnected \/ Attempt \/ AttemptFails \/ TimedOut \/ GiveUp \/ Killed
  BY <1>1 DEF ReqChanges, connVars, ReadKey, Disconnected, Attempt, AttemptFails, TimedOut,
              GiveUp, Killed
<1>2. CASE RecvOutput \/ RecvLast \/ Reattached \/ NotFound
  BY <1>2 DEF ReqChanges, RecvOutput, RecvLast, Reattached, NotFound
<1>3. CASE Output \/ ShellExits \/ MarkExited \/ Adopt \/ Respawn \/ RivalOpens \/ RivalLeaves
  BY <1>3 DEF ReqChanges, connVars, Output, ShellExits, MarkExited, Adopt, Respawn,
              RivalOpens, RivalLeaves
<1>4. CASE UpgradeExec \/ DaemonEnds
  BY <1>4 DEF ReqChanges, Emptied, Cut, UpgradeExec, DaemonEnds
<1>5. ASSUME NEW k \in Conns, Handler(k)
      PROVE  ReqChanges
  BY <1>5 DEF ReqChanges, Took, Handler, Handles, HandleOpen, HandleInput, HandleResize,
              HandleDetach, HandlerEnds
<1>6. ASSUME NEW k \in Conns, NEW m \in Messages, k \in {cur, target, held.conn},
             m.kind # "open", Send(k, m)
      PROVE  ReqChanges
  BY <1>6 DEF ReqChanges, Sent, Send
<1>7. CASE SendKey
  <2>1. held \in [key : 1..MaxKeys, conn : Conns]
    BY <1>7 DEF SendKey, HeldOK
  <2>2. Message("input", held.key) \in Messages /\ Message("input", held.key).kind # "open"
    BY <2>1 DEF Message, Messages
  <2> QED
    BY <1>6, <1>7, <2>1, <2>2 DEF SendKey
<1>8. CASE Resize \/ Leave
  <2>1. /\ Message("resize", 0) \in Messages /\ Message("resize", 0).kind # "open"
        /\ Message("detach", 0) \in Messages /\ Message("detach", 0).kind # "open"
    BY DEF Message, Messages
  <2> QED
    BY <1>6, <1>8, <2>1 DEF Resize, Leave, EndsOK
<1>9. CASE HelloAnswered
  <2>1. OpenMessage \in Messages
    BY DEF OpenMessage, Message, Messages
  <2> QED
    BY <1>9, <2>1 DEF ReqChanges, Sent, Send, OpenMessage, HelloAnswered, EndsOK
<1>10. CASE UNCHANGED vars
  BY <1>10 DEF ReqChanges, vars, connVars
<1> QED
  BY <1>1, <1>2, <1>3, <1>4, <1>5, <1>7, <1>8, <1>9, <1>10 DEF Next, OutputLoop, Reconnect

LEMMA RspStep ==
    ASSUME RspOK, SlotOK, EndsOK, [Next]_vars
    PROVE  RspChanges
<1>1. CASE ReadKey \/ SendKey \/ Resize \/ Disconnected \/ Attempt \/ HelloAnswered
           \/ AttemptFails \/ TimedOut \/ GiveUp \/ Leave \/ Killed
  BY <1>1 DEF RspChanges, connVars, ReadKey, SendKey, Resize, Disconnected, Attempt,
              HelloAnswered, AttemptFails, TimedOut, GiveUp, Leave, Killed
<1>2. CASE RecvOutput \/ RecvLast \/ Reattached \/ NotFound
  BY <1>2 DEF RspChanges, Read, Recv, EndsOK, RecvOutput, RecvLast, Reattached, NotFound
<1>3. CASE ShellExits \/ UpgradeExec \/ Adopt \/ DaemonEnds \/ Respawn \/ RivalLeaves
  BY <1>3 DEF RspChanges, connVars, ShellExits, UpgradeExec, Adopt, DaemonEnds, Respawn,
              RivalLeaves
<1>4. CASE Output \/ MarkExited \/ RivalOpens
  BY <1>4 DEF RspChanges, Answered, Output, RivalOpens
<1>5. ASSUME NEW k \in Conns, HandleOpen(k) \/ HandleInput(k) \/ HandleResize(k)
      PROVE  RspChanges
  BY <1>5 DEF RspChanges, Answered, Refused, Attached, HandleOpen, HandleInput, HandleResize
<1>6. ASSUME NEW k \in Conns, HandleDetach(k) \/ HandlerEnds(k)
      PROVE  RspChanges
  BY <1>6 DEF RspChanges, HandleDetach, HandlerEnds
<1>7. CASE UNCHANGED vars
  BY <1>7 DEF RspChanges, vars, connVars
<1> QED
  BY <1>1, <1>2, <1>3, <1>4, <1>5, <1>6, <1>7 DEF Next, OutputLoop, Reconnect, Handler

-----------------------------------------------------------------------------
(* Types                                                                    *)

ControlOK ==
    /\ daemon \in {"up", "swapping", "down"}
    /\ shell \in {"live", "leaving", "gone"}
    /\ pc \in {"attached", "retry", "hello", "opening", "leaving", "ended"}
    /\ outcome \in {"none", "exited", "evicted", "error", "terminal", "fallback", "killed"}

NumbersOK ==
    /\ tries \in 0..Attempts
    /\ typed \in 0..MaxKeys
    /\ counts \in [upgrades : 0..MaxUpgrades, resizes : 0..MaxResizes,
                   outputs : 0..MaxOutputs, rivals : 0..MaxRivals]

ReceivedOK == received \in Seq(1..MaxKeys)

LEMMA TypeWhole ==
    TypeOK <=> /\ LinkOK /\ ReqOK /\ RspOK /\ SlotOK /\ EndsOK /\ HeldOK
               /\ ControlOK /\ NumbersOK /\ ReceivedOK
BY DEF TypeOK, LinkOK, ReqOK, RspOK, SlotOK, EndsOK, HeldOK, Answers, ControlOK, NumbersOK,
       ReceivedOK

LEMMA InitTypeOK == Init => TypeOK
<1> SUFFICES ASSUME Init PROVE TypeOK
  OBVIOUS
<1>1. LinkOK /\ ReqOK /\ RspOK /\ ReceivedOK
  BY DEF Init, LinkOK, ReqOK, RspOK, ReceivedOK
<1>2. SlotOK /\ EndsOK /\ HeldOK /\ ControlOK
  BY ConnsFacts DEF Init, SlotOK, EndsOK, HeldOK, ControlOK
<1>3. NumbersOK
  BY BridgeAssumption DEF BridgeAssumption, Init, NumbersOK
<1> QED
  BY <1>1, <1>2, <1>3, TypeWhole

\* The states of the connections.
LEMMA LinkStep ==
    ASSUME LinkOK, EndsOK, [Next]_vars
    PROVE  LinkOK'
<1> USE DEF LinkOK
<1>1. CASE ReadKey \/ SendKey \/ Resize \/ OutputLoop \/ HelloAnswered \/ Reattached \/ GiveUp
  BY <1>1 DEF connVars, ReadKey, SendKey, Resize, OutputLoop, RecvOutput, RecvLast,
              Disconnected, HelloAnswered, Reattached, GiveUp
<1>2. CASE Attempt
  BY <1>2 DEF Attempt
<1>3. CASE AttemptFails \/ TimedOut \/ NotFound \/ Leave
  BY <1>3 DEF EndsOK, AttemptFails, TimedOut, NotFound, Leave, Drop
<1>4. CASE Killed
  BY <1>4 DEF Killed
<1>5. ASSUME NEW k \in Conns, Handler(k)
      PROVE  LinkOK'
  BY <1>5 DEF Handler, HandleOpen, HandleInput, HandleResize, HandleDetach, HandlerEnds
<1>6. CASE UpgradeExec \/ DaemonEnds
  BY <1>6 DEF UpgradeExec, DaemonEnds, Cut
<1>7. CASE Output \/ ShellExits \/ MarkExited \/ Adopt \/ Respawn \/ RivalOpens \/ RivalLeaves
  BY <1>7 DEF connVars, Output, ShellExits, MarkExited, Adopt, Respawn, RivalOpens, RivalLeaves
<1>8. CASE UNCHANGED vars
  BY <1>8 DEF vars, connVars
<1> QED
  BY <1>1, <1>2, <1>3, <1>4, <1>5, <1>6, <1>7, <1>8 DEF Next, Reconnect

LEMMA ReqTypeStep ==
    ASSUME LinkOK, ReqOK, EndsOK, HeldOK, [Next]_vars
    PROVE  ReqOK'
<1>1. ReqChanges
  BY ReqStep
<1> USE DEF ReqOK
<1>2. ASSUME NEW k \in Conns, Took(k)
      PROVE  ReqOK'
  <2>1. Tail(req[k]) \in Seq(Messages)
    BY <1>2, HeadAndTail DEF Took
  <2> QED
    BY <1>2, <2>1 DEF Took
<1>3. ASSUME NEW conns, Emptied(conns)
      PROVE  ReqOK'
  BY <1>3 DEF Emptied
<1>4. ASSUME NEW k \in Conns, NEW m \in Messages, Sent(k, m)
      PROVE  ReqOK'
  BY <1>4 DEF Sent
<1> QED
  BY <1>1, <1>2, <1>3, <1>4 DEF ReqChanges

LEMMA StealsEffect ==
    ASSUME RspOK, NEW j, Steals(j)
    PROVE  \A k \in Conns :
               \/ rsp'[k] = rsp[k]
               \/ k = slot /\ rsp'[k] = Append(rsp[k], "evicted")
               \/ k = j /\ rsp'[k] = Append(rsp[k], "snapshot")
               \/ k = j /\ k = slot /\ rsp'[k] = Append(Append(rsp[k], "evicted"), "snapshot")
<1> SUFFICES ASSUME NEW k \in Conns
             PROVE  \/ rsp'[k] = rsp[k]
                    \/ k = slot /\ rsp'[k] = Append(rsp[k], "evicted")
                    \/ k = j /\ rsp'[k] = Append(rsp[k], "snapshot")
                    \/ /\ k = j /\ k = slot
                       /\ rsp'[k] = Append(Append(rsp[k], "evicted"), "snapshot")
  OBVIOUS
<1>1. rsp[k] \in Seq(Answers) /\ Append(rsp[k], "evicted") \in Seq(Answers)
  BY DEF RspOK, Answers
<1> DEFINE q == IF k = slot THEN Append(rsp[k], "evicted") ELSE rsp[k]
<1>2. rsp'[k] = q \o (IF k = j THEN <<"snapshot">> ELSE <<>>)
  BY DEF Steals
<1>3. q \in Seq(Answers)
  BY <1>1
<1>4. rsp'[k] = IF k = j THEN Append(q, "snapshot") ELSE q
  BY <1>2, <1>3, Concatenation
<1> QED
  BY <1>4

LEMMA RspTypeStep ==
    ASSUME RspOK, SlotOK, EndsOK, [Next]_vars
    PROVE  RspOK'
<1> USE DEF RspOK
<1>1. RspChanges
  BY RspStep
<1>2. CASE rsp' = rsp
  BY <1>2
<1>3. ASSUME NEW k \in Conns, Read(k)
      PROVE  RspOK'
  <2>1. Tail(rsp[k]) \in Seq(Answers)
    BY <1>3, HeadAndTail DEF Read
  <2> QED
    BY <1>3, <2>1 DEF Read
<1>4. ASSUME NEW k \in Conns, Answered(k, "output") \/ Answered(k, "error")
      PROVE  RspOK'
  <2>1. Append(rsp[k], "output") \in Seq(Answers) /\ Append(rsp[k], "error") \in Seq(Answers)
    BY AnswersKinds
  <2> QED
    BY <1>4, <2>1 DEF Answered
<1>5. ASSUME NEW j, Steals(j)
      PROVE  RspOK'
  <2>1. rsp' = [c \in Conns |-> rsp'[c]]
    BY <1>5 DEF Steals
  <2>2. ASSUME NEW c \in Conns
        PROVE  rsp'[c] \in Seq(Answers)
    <3>1. \/ rsp'[c] = rsp[c]
          \/ rsp'[c] = Append(rsp[c], "evicted")
          \/ rsp'[c] = Append(rsp[c], "snapshot")
          \/ rsp'[c] = Append(Append(rsp[c], "evicted"), "snapshot")
      BY <1>5, StealsEffect
    <3> QED
      BY <3>1, AnswersKinds
  <2> QED
    BY <2>1, <2>2
<1>6. CASE MarkExited
  BY <1>6, AnswersKinds DEF MarkExited
<1> QED
  BY <1>1, <1>2, <1>3, <1>4, <1>5, <1>6 DEF RspChanges

LEMMA SlotStep ==
    ASSUME SlotOK, [Next]_vars
    PROVE  SlotOK'
<1> USE DEF SlotOK
<1>1. CASE \/ ReadKey \/ SendKey \/ Resize \/ OutputLoop \/ Leave \/ Killed
           \/ Output \/ ShellExits \/ Adopt \/ Respawn
  BY <1>1 DEF daemonVars, ReadKey, SendKey, Resize, OutputLoop, RecvOutput, RecvLast,
              Disconnected, Leave, Killed, Output, ShellExits, Adopt, Respawn
<1>2. CASE Reconnect
  BY <1>2 DEF daemonVars, Reconnect, Attempt, HelloAnswered, AttemptFails, TimedOut,
              Reattached, NotFound, GiveUp
<1>3. CASE MarkExited \/ UpgradeExec \/ DaemonEnds \/ RivalOpens \/ RivalLeaves
  BY <1>3 DEF MarkExited, UpgradeExec, DaemonEnds, RivalOpens, RivalLeaves, Steals
<1>4. ASSUME NEW k \in Conns, Handler(k)
      PROVE  SlotOK'
  BY <1>4 DEF daemonVars, Handler, HandleOpen, HandleInput, HandleResize, HandleDetach,
              HandlerEnds, Steals
<1>5. CASE UNCHANGED vars
  BY <1>5 DEF vars, daemonVars
<1> QED
  BY <1>1, <1>2, <1>3, <1>4, <1>5 DEF Next

\* What the bridge has: its connections, where it is, what it read.
LEMMA BridgeStep ==
    ASSUME EndsOK, HeldOK, ControlOK, [Next]_vars
    PROVE  EndsOK' /\ ControlOK'
<1> USE DEF EndsOK, ControlOK
<1>1. CASE ReadKey \/ SendKey \/ Resize \/ Leave \/ Killed
  BY <1>1 DEF daemonVars, bridgeVars, ReadKey, SendKey, Resize, Leave, Killed
<1>2. CASE OutputLoop
  BY <1>2 DEF daemonVars, OutputLoop, RecvOutput, RecvLast, Disconnected, End
<1>3. CASE Attempt \/ HelloAnswered \/ AttemptFails \/ TimedOut
  BY <1>3 DEF daemonVars, Attempt, HelloAnswered, AttemptFails, TimedOut
<1>4. CASE Reattached \/ NotFound \/ GiveUp
  BY <1>4 DEF daemonVars, Reattached, NotFound, GiveUp, End
<1>5. CASE Output \/ ShellExits \/ MarkExited \/ UpgradeExec
  BY <1>5 DEF daemonVars, bridgeVars, Output, ShellExits, MarkExited, UpgradeExec
<1>6. CASE Adopt \/ DaemonEnds \/ Respawn \/ RivalOpens \/ RivalLeaves
  BY <1>6 DEF bridgeVars, Adopt, DaemonEnds, Respawn, RivalOpens, RivalLeaves
<1>7. ASSUME NEW k \in Conns, Handler(k)
      PROVE  EndsOK' /\ ControlOK'
  BY <1>7 DEF daemonVars, bridgeVars, Handler, HandleOpen, HandleInput, HandleResize,
              HandleDetach, HandlerEnds
<1>8. CASE UNCHANGED vars
  BY <1>8 DEF vars, daemonVars, bridgeVars
<1> QED
  BY <1>1, <1>2, <1>3, <1>4, <1>5, <1>6, <1>7, <1>8 DEF Next, Reconnect

LEMMA InputStep ==
    ASSUME EndsOK, HeldOK, ReqOK, ReceivedOK, NumbersOK, [Next]_vars
    PROVE  HeldOK' /\ ReceivedOK'
<1> USE DEF HeldOK, ReceivedOK
<1>1. CASE ReadKey
  <2>1. typed' \in 1..MaxKeys
    BY <1>1, BridgeAssumption DEF BridgeAssumption, ReadKey, NumbersOK
  <2> QED
    BY <1>1, <2>1 DEF ReadKey, EndsOK
<1>2. CASE SendKey \/ Resize \/ Leave \/ Killed
  BY <1>2 DEF inputVars, SendKey, Resize, Leave, Killed
<1>3. CASE OutputLoop \/ Reconnect
  BY <1>3 DEF inputVars, OutputLoop, RecvOutput, RecvLast, Disconnected, Reconnect, Attempt,
              HelloAnswered, AttemptFails, TimedOut, Reattached, NotFound, GiveUp
<1>4. ASSUME NEW k \in Conns, HandleInput(k)
      PROVE  HeldOK' /\ ReceivedOK'
  <2>1. Head(req[k]) \in Messages /\ Head(req[k]).kind = "input"
    BY <1>4, HeadAndTail DEF ReqOK, HandleInput, Handles
  <2>2. Head(req[k]).key \in 1..MaxKeys
    BY <2>1 DEF Messages
  <2>3. received' = received \/ received' = Append(received, Head(req[k]).key)
    BY <1>4 DEF HandleInput
  <2>4. Append(received, Head(req[k]).key) \in Seq(1..MaxKeys)
    BY <2>2, Appended
  <2>5. ReceivedOK'
    BY <2>3, <2>4
  <2> QED
    BY <1>4, <2>5 DEF HandleInput
<1>5. ASSUME NEW k \in Conns,
             HandleOpen(k) \/ HandleResize(k) \/ HandleDetach(k) \/ HandlerEnds(k)
      PROVE  HeldOK' /\ ReceivedOK'
  BY <1>5 DEF inputVars, HandleOpen, HandleResize, HandleDetach, HandlerEnds
<1>6. CASE \/ Output \/ ShellExits \/ MarkExited \/ UpgradeExec
           \/ Adopt \/ DaemonEnds \/ Respawn \/ RivalOpens \/ RivalLeaves
  BY <1>6 DEF inputVars, Output, ShellExits, MarkExited, UpgradeExec, Adopt, DaemonEnds,
              Respawn, RivalOpens, RivalLeaves
<1>7. CASE UNCHANGED vars
  BY <1>7 DEF vars, inputVars
<1> QED
  BY <1>1, <1>2, <1>3, <1>4, <1>5, <1>6, <1>7 DEF Next, Handler

LEMMA NumbersStep ==
    ASSUME NumbersOK, [Next]_vars
    PROVE  NumbersOK'
<1> USE BridgeAssumption DEF BridgeAssumption, NumbersOK
<1>1. CASE ReadKey \/ SendKey \/ Leave \/ Killed
  BY <1>1 DEF bridgeVars, ReadKey, SendKey, Leave, Killed
<1>2. CASE Resize
  BY <1>2 DEF bridgeVars, inputVars, Resize
<1>3. CASE OutputLoop
  BY <1>3 DEF inputVars, OutputLoop, RecvOutput, RecvLast, Disconnected
<1>4. CASE Reconnect
  BY <1>4 DEF inputVars, Reconnect, Attempt, HelloAnswered, AttemptFails, TimedOut,
              Reattached, NotFound, GiveUp
<1>5. ASSUME NEW k \in Conns, Handler(k)
      PROVE  NumbersOK'
  BY <1>5 DEF bridgeVars, inputVars, Handler, HandleOpen, HandleInput, HandleResize,
              HandleDetach, HandlerEnds
<1>6. CASE ShellExits \/ MarkExited \/ Adopt \/ Respawn \/ RivalLeaves
  <2>1. CASE ShellExits \/ MarkExited
    BY <2>1 DEF bridgeVars, inputVars, ShellExits, MarkExited
  <2>2. CASE Adopt \/ Respawn \/ RivalLeaves
    BY <2>2 DEF bridgeVars, inputVars, Adopt, Respawn, RivalLeaves
  <2> QED
    BY <1>6, <2>1, <2>2
<1>7. CASE Output \/ RivalOpens
  <2>1. CASE Output
    BY <2>1 DEF bridgeVars, inputVars, Output
  <2>2. CASE RivalOpens
    BY <2>2 DEF bridgeVars, inputVars, RivalOpens
  <2> QED
    BY <1>7, <2>1, <2>2
<1>8. CASE UpgradeExec \/ DaemonEnds
  BY <1>8 DEF bridgeVars, inputVars, UpgradeExec, DaemonEnds
<1>9. CASE UNCHANGED vars
  BY <1>9 DEF vars, bridgeVars, inputVars
<1> QED
  BY <1>1, <1>2, <1>3, <1>4, <1>5, <1>6, <1>7, <1>8, <1>9 DEF Next

LEMMA TypeStep ==
    ASSUME TypeOK, [Next]_vars
    PROVE  TypeOK'
<1>1. /\ LinkOK /\ ReqOK /\ RspOK /\ SlotOK /\ EndsOK /\ HeldOK
      /\ ControlOK /\ NumbersOK /\ ReceivedOK
  BY TypeWhole
<1>2. /\ LinkOK' /\ ReqOK' /\ RspOK' /\ SlotOK' /\ EndsOK' /\ HeldOK'
      /\ ControlOK' /\ NumbersOK' /\ ReceivedOK'
  BY <1>1, LinkStep, ReqTypeStep, RspTypeStep, SlotStep, BridgeStep, InputStep, NumbersStep
<1> QED
  BY <1>2, TypeWhole, PTL

\* Every variable keeps its type.
THEOREM TypeCorrect == Spec => []TypeOK
<1>1. TypeOK /\ [Next]_vars => TypeOK'
  BY TypeStep
<1> QED
  BY <1>1, InitTypeOK, PTL DEF Spec

-----------------------------------------------------------------------------
(* What a step leaves as it was                                             *)

Typed == LinkOK /\ ReqOK /\ RspOK /\ SlotOK /\ EndsOK /\ HeldOK

LEMMA TypedIsTyped == TypeOK => Typed
BY TypeParts DEF Typed

\* Only these steps are steps of the output loop.
LEMMA BridgeQuiet ==
    ASSUME [Next]_vars
    PROVE  UNCHANGED bridgeVars \/ OutputLoop \/ Reconnect \/ Leave \/ Killed
<1>1. CASE ReadKey \/ SendKey \/ Resize
  BY <1>1 DEF ReadKey, SendKey, Resize
<1>2. ASSUME NEW k \in Conns, Handler(k)
      PROVE  UNCHANGED bridgeVars
  BY <1>2 DEF Handler, HandleOpen, HandleInput, HandleResize, HandleDetach, HandlerEnds
<1>3. CASE \/ Output \/ ShellExits \/ MarkExited \/ UpgradeExec
           \/ Adopt \/ DaemonEnds \/ Respawn \/ RivalOpens \/ RivalLeaves
  BY <1>3 DEF Output, ShellExits, MarkExited, UpgradeExec, Adopt, DaemonEnds, Respawn,
              RivalOpens, RivalLeaves
<1> QED
  BY <1>1, <1>2, <1>3 DEF Next, vars

\* A shell that leaves does not come back.
LEMMA ShellOnward ==
    ASSUME [Next]_vars
    PROVE  /\ shell # "live" => shell' # "live"
           /\ shell = "gone" => shell' = "gone"
<1>1. CASE ReadKey \/ SendKey \/ Resize \/ OutputLoop \/ Leave \/ Killed
  BY <1>1 DEF daemonVars, ReadKey, SendKey, Resize, OutputLoop, RecvOutput, RecvLast,
              Disconnected, Leave, Killed
<1>2. CASE Reconnect
  BY <1>2 DEF daemonVars, Reconnect, Attempt, HelloAnswered, AttemptFails, TimedOut,
              Reattached, NotFound, GiveUp
<1>3. ASSUME NEW k \in Conns, Handler(k)
      PROVE  shell' = shell
  BY <1>3 DEF daemonVars, Handler, HandleOpen, HandleInput, HandleResize, HandleDetach,
              HandlerEnds
<1>4. CASE \/ Output \/ ShellExits \/ MarkExited \/ UpgradeExec
           \/ Adopt \/ DaemonEnds \/ Respawn \/ RivalOpens \/ RivalLeaves
  BY <1>4 DEF daemonVars, Output, ShellExits, MarkExited, UpgradeExec, Adopt, DaemonEnds,
              Respawn, RivalOpens, RivalLeaves
<1> QED
  BY <1>1, <1>2, <1>3, <1>4 DEF Next, vars, daemonVars

\* A connection gets the slot by its own open.
LEMMA SlotGained ==
    ASSUME [Next]_vars, NEW k \in Conns, slot # k, slot' = k
    PROVE  HandleOpen(k)
<1> USE ConnsFacts
<1>1. CASE ReadKey \/ SendKey \/ Resize \/ OutputLoop \/ Leave \/ Killed
  BY <1>1 DEF daemonVars, ReadKey, SendKey, Resize, OutputLoop, RecvOutput, RecvLast,
              Disconnected, Leave, Killed
<1>2. CASE Reconnect
  BY <1>2 DEF daemonVars, Reconnect, Attempt, HelloAnswered, AttemptFails, TimedOut,
              Reattached, NotFound, GiveUp
<1>3. ASSUME NEW j \in Conns, Handler(j)
      PROVE  HandleOpen(k)
  BY <1>3 DEF daemonVars, Handler, HandleOpen, Steals, HandleInput, HandleResize,
              HandleDetach, HandlerEnds
<1>4. CASE \/ Output \/ ShellExits \/ MarkExited \/ UpgradeExec
           \/ Adopt \/ DaemonEnds \/ Respawn \/ RivalOpens \/ RivalLeaves
  BY <1>4 DEF daemonVars, Output, ShellExits, MarkExited, UpgradeExec, Adopt, DaemonEnds,
              Respawn, RivalOpens, RivalLeaves, Steals
<1> QED
  BY <1>1, <1>2, <1>3, <1>4 DEF Next, vars, daemonVars

LEMMA NoOpenKept ==
    ASSUME Typed, [Next]_vars, NEW k \in Conns, NoOpen(req[k]), ~(HelloAnswered /\ k = used)
    PROVE  NoOpen(req'[k])
<1> USE DEF ReqOK
<1>1. ReqChanges /\ ReqOK
  BY ReqStep DEF Typed
<1>2. ASSUME NEW j \in Conns, Took(j)
      PROVE  NoOpen(req'[k])
  BY <1>1, <1>2, NoOpenTail DEF Took
<1>3. ASSUME NEW conns, Emptied(conns)
      PROVE  NoOpen(req'[k])
  BY <1>3, EmptyQueue DEF Emptied
<1>4. ASSUME NEW j \in Conns, NEW m \in Messages, Sent(j, m),
             m.kind # "open" \/ (j = used /\ HelloAnswered)
      PROVE  NoOpen(req'[k])
  BY <1>1, <1>4, NoOpenAppend DEF Sent
<1> QED
  BY <1>1, <1>2, <1>3, <1>4 DEF ReqChanges

LEMMA LostKept ==
    ASSUME Typed, [Next]_vars, NEW k \in Conns, Lost(k), NoOpen(req[k])
    PROVE  Lost(k)'
<1>1. CASE shell # "live"
  BY <1>1, ShellOnward DEF Lost
<1>2. CASE slot # k
  <2>1. ~HandleOpen(k)
    BY NoOpenTail DEF HandleOpen, Handles, Typed, ReqOK
  <2> QED
    BY <1>2, <2>1, SlotGained DEF Lost
<1> QED
  BY <1>1, <1>2 DEF Lost

\* Who is told what, and by which step.
LEMMA NewlyTold ==
    ASSUME Typed, [Next]_vars, NEW k \in Conns, NEW x \in {"exited", "error", "evicted"},
           Has(rsp'[k], x), ~Has(rsp[k], x)
    PROVE  \/ x = "exited" /\ MarkExited
           \/ x = "error" /\ Refused(k)
           \/ /\ x = "evicted" /\ k = slot
              /\ Steals(Rival) \/ \E j \in Conns : Steals(j) /\ HandleOpen(j)
<1>1. RspChanges /\ RspOK /\ rsp[k] \in Seq(Answers)
  BY RspStep DEF Typed, RspOK
<1>2. ASSUME NEW j \in Conns, Read(j)
      PROVE  FALSE
  BY <1>1, <1>2, HasTail DEF Read, RspOK
<1>3. ASSUME NEW j \in Conns, Answered(j, "output")
      PROVE  FALSE
  <2>1. rsp'[k] = rsp[k] \/ rsp'[k] = Append(rsp[k], "output")
    BY <1>1, <1>3 DEF Answered, RspOK
  <2> QED
    BY <1>1, <2>1, HasAppend, AnswersKinds
<1>4. ASSUME NEW j \in Conns, Answered(j, "error"), Refused(j)
      PROVE  x = "error" /\ Refused(k)
  <2>1. rsp'[k] = rsp[k] \/ (k = j /\ rsp'[k] = Append(rsp[k], "error"))
    BY <1>1, <1>4 DEF Answered, RspOK
  <2> QED
    BY <1>1, <1>4, <2>1, HasAppend, AnswersKinds
<1>5. ASSUME NEW j, Steals(j)
      PROVE  x = "evicted" /\ k = slot
  <2>1. \/ rsp'[k] = rsp[k]
        \/ k = slot /\ rsp'[k] = Append(rsp[k], "evicted")
        \/ k = j /\ rsp'[k] = Append(rsp[k], "snapshot")
        \/ k = j /\ k = slot /\ rsp'[k] = Append(Append(rsp[k], "evicted"), "snapshot")
    BY <1>1, <1>5, StealsEffect
  <2>2. Append(rsp[k], "evicted") \in Seq(Answers)
    BY <1>1, AnswersKinds
  <2>3. /\ Has(Append(rsp[k], "evicted"), x) => x = "evicted"
        /\ ~Has(Append(rsp[k], "snapshot"), x)
        /\ Has(Append(Append(rsp[k], "evicted"), "snapshot"), x) => x = "evicted"
    BY <1>1, <2>2, HasAppend, AnswersKinds
  <2> QED
    BY <2>1, <2>3
<1>6. CASE MarkExited
  <2>1. rsp'[k] = rsp[k] \/ rsp'[k] = Append(rsp[k], "exited")
    BY <1>6 DEF MarkExited
  <2> QED
    BY <1>1, <1>6, <2>1, HasAppend, AnswersKinds
<1> QED
  BY <1>1, <1>2, <1>3, <1>4, <1>5, <1>6 DEF RspChanges

\* Nobody writes to a connection that is not attached, unless it asks.
LEMMA Unasked ==
    ASSUME Typed, [Next]_vars, NEW k \in Conns, slot # k, rsp[k] = <<>>,
           \A kind : ~Handles(k, kind)
    PROVE  rsp'[k] = <<>> /\ slot' # k
<1>1. RspChanges /\ RspOK /\ ~HandleOpen(k) /\ ~Refused(k)
  BY RspStep DEF Typed, HandleOpen, HandleInput, HandleResize, Refused
<1>2. ASSUME NEW j, Steals(j), j # k
      PROVE  rsp'[k] = rsp[k]
  BY <1>1, <1>2, StealsEffect
<1>3. rsp'[k] = <<>>
  BY <1>1, <1>2, ConnsFacts DEF RspChanges, Read, Answered, MarkExited, RspOK
<1> QED
  BY <1>1, <1>3, SlotGained

-----------------------------------------------------------------------------
(* The invariant                                                            *)

LEMMA InitIInv == Init => IInv
<1> SUFFICES ASSUME Init PROVE IInv
  OBVIOUS
<1>1. \A k \in Conns : NoOpen(req[k]) /\ \A x : ~Has(rsp[k], x)
  BY EmptyQueue DEF Init
<1>2. OrderInv
  BY DEF Init, OrderInv, NoKey
<1>3. OpenInv /\ ToldInv
  BY <1>1 DEF OpenInv, ToldInv
<1>4. FreshInv
  BY ConnsFacts DEF Init, FreshInv
<1>5. AttemptInv /\ EndInv
  BY DEF Init, AttemptInv, EndInv
<1> QED
  BY <1>2, <1>3, <1>4, <1>5, InitTypeOK DEF IInv

LEMMA OrderStep ==
    ASSUME Typed, OrderInv, [Next]_vars
    PROVE  OrderInv'
<1> USE ConnsFacts DEF OrderInv, Typed, EndsOK, HeldOK, NoKey
<1>1. CASE ReadKey \/ SendKey \/ Resize
  BY <1>1 DEF bridgeVars, inputVars, ReadKey, SendKey, Resize
<1>2. CASE OutputLoop
  <2>1. UNCHANGED <<cur, target, used, held>> /\ pc' \notin {"hello", "opening"}
    BY <1>2 DEF inputVars, OutputLoop, RecvOutput, RecvLast, Disconnected, End
  <2> QED
    BY <2>1
<1>3. CASE Attempt
  <2>1. /\ UNCHANGED <<cur, target, held>>
        /\ used' = used + 1 \/ (used' = used /\ pc' = "retry")
    BY <1>3 DEF inputVars, Attempt
  <2> QED
    BY <2>1
<1>4. CASE HelloAnswered \/ AttemptFails \/ TimedOut
  <2>1. /\ UNCHANGED <<cur, target, used, held>>
        /\ pc' \in {"hello", "opening"} => pc \in {"hello", "opening"}
    BY <1>4 DEF inputVars, HelloAnswered, AttemptFails, TimedOut
  <2> QED
    BY <2>1
<1>5. CASE Reattached
  <2>1. cur' = used /\ target' = used /\ pc' \notin {"hello", "opening"} /\ pc = "opening"
    BY <1>5 DEF Reattached, End
  <2>2. used' = used /\ held' = held
    BY <1>5 DEF inputVars, Reattached
  <2>3. held.conn \in Nat /\ cur \in Nat /\ used \in Nat
    <3>1. held.conn \in Conns \cup {0}
      OBVIOUS
    <3>2. Conns \cup {0} \subseteq Nat
      BY ConnsFacts
    <3>3. held.conn \in Nat
      BY <3>1, <3>2, Zenon
    <3>4. cur \in Nat /\ used \in Nat
      BY <3>2
    <3> QED
      BY <3>3, <3>4
  <2>4. held.conn <= used /\ used <= used
    BY <2>3
  <2> QED
    BY <2>1, <2>2, <2>4
<1>6. CASE NotFound \/ GiveUp
  <2>1. UNCHANGED <<cur, target, used, held>> /\ pc' = "leaving"
    BY <1>6 DEF inputVars, NotFound, GiveUp, End
  <2> QED
    BY <2>1
<1>7. CASE Leave \/ Killed
  BY <1>7 DEF Leave, Killed
<1>8. ASSUME NEW k \in Conns, Handler(k)
      PROVE  OrderInv'
  BY <1>8 DEF bridgeVars, inputVars, Handler, HandleOpen, HandleInput, HandleResize,
              HandleDetach, HandlerEnds
<1>9. CASE \/ Output \/ ShellExits \/ MarkExited \/ UpgradeExec
           \/ Adopt \/ DaemonEnds \/ Respawn \/ RivalOpens \/ RivalLeaves
  BY <1>9 DEF bridgeVars, inputVars, Output, ShellExits, MarkExited, UpgradeExec, Adopt,
              DaemonEnds, Respawn, RivalOpens, RivalLeaves
<1>10. CASE UNCHANGED vars
  BY <1>10 DEF vars, bridgeVars, inputVars
<1> QED
  BY <1>1, <1>2, <1>3, <1>4, <1>5, <1>6, <1>7, <1>8, <1>9, <1>10 DEF Next, Reconnect

\* A connection is fresh until its client says hello.
Fresh(k) == k > used \/ (k = used /\ pc = "hello")

LEMMA FreshBefore ==
    ASSUME Typed, [Next]_vars, NEW k \in Conns, Fresh(k)'
    PROVE  Fresh(k) /\ ~(HelloAnswered /\ k = used)
<1> USE ConnsFacts DEF Typed, EndsOK, Fresh
<1>1. CASE OutputLoop
  <2>1. used' = used /\ pc' # "hello" /\ ~HelloAnswered
    BY <1>1 DEF OutputLoop, RecvOutput, RecvLast, Disconnected, End, HelloAnswered
  <2> QED
    BY <2>1
<1>2. CASE Attempt
  <2>1. used' \in {used, used + 1} /\ (used' = used => pc' = "retry") /\ pc = "retry"
    BY <1>2 DEF Attempt
  <2> QED
    BY <2>1 DEF HelloAnswered
<1>3. CASE Reconnect /\ ~Attempt
  <2>1. used' = used /\ pc' # "hello"
    BY <1>3 DEF Reconnect, HelloAnswered, AttemptFails, TimedOut, Reattached, NotFound,
                GiveUp, End
  <2> QED
    BY <2>1
<1>4. CASE Leave \/ Killed
  BY <1>4 DEF Leave, Killed, HelloAnswered
<1>5. CASE UNCHANGED bridgeVars
  BY <1>5 DEF bridgeVars, HelloAnswered
<1> QED
  BY <1>1, <1>2, <1>3, <1>4, <1>5, BridgeQuiet

LEMMA FreshStep ==
    ASSUME Typed, OrderInv, FreshInv, [Next]_vars
    PROVE  FreshInv'
<1> SUFFICES ASSUME NEW k \in Conns, Fresh(k)'
             PROVE  req'[k] = <<>> /\ rsp'[k] = <<>> /\ slot' # k
  BY DEF FreshInv, Fresh
<1>1. Fresh(k) /\ ~(HelloAnswered /\ k = used)
  BY FreshBefore
<1>2. req[k] = <<>> /\ rsp[k] = <<>> /\ slot # k
  BY <1>1 DEF FreshInv, Fresh
<1>3. rsp'[k] = <<>> /\ slot' # k
  BY <1>2, Unasked DEF Handles
<1>4. k \notin {cur, target, held.conn}
  BY <1>1, ConnsFacts DEF Fresh, OrderInv, Typed, EndsOK, HeldOK, NoKey
<1>5. ReqChanges
  BY ReqStep DEF Typed
<1>6. req'[k] = <<>>
  BY <1>1, <1>2, <1>4, <1>5 DEF ReqChanges, Took, Emptied, Sent, Typed, ReqOK
<1> QED
  BY <1>3, <1>6

\* What a handler leaves is no open.
LEMMA AfterHandled ==
    ASSUME Typed, OpenInv, NEW k \in Conns, NEW kind, Handles(k, kind)
    PROVE  NoOpen(req'[k]) /\ (kind # "open" => NoOpen(req[k]))
<1>1. req[k] \in Seq(Messages) /\ req'[k] = Tail(req[k])
  BY DEF Handles, Typed, ReqOK
<1>2. CASE NoOpen(req[k])
  BY <1>1, <1>2, NoOpenTail DEF Handles
<1>3. CASE Pending(k)
  <2>1. req[k] = <<OpenMessage>> /\ OpenMessage.kind = "open"
    BY <1>3 DEF Pending, OpenMessage, Message
  <2>2. req'[k] = <<>> /\ kind = "open"
    BY <1>1, <2>1 DEF Handles
  <2> QED
    BY <2>2, EmptyQueue
<1> QED
  BY <1>2, <1>3 DEF OpenInv

\* An open that waits is handled, or lost, or waits on.
LEMMA PendingReq ==
    ASSUME Typed, OrderInv, [Next]_vars, NEW k \in Conns, req[k] = <<OpenMessage>>,
           link[k] = "open" => k = used /\ pc = "opening"
    PROVE  req'[k] = <<OpenMessage>> \/ req'[k] = <<>>
<1>1. ReqChanges /\ ReqOK
  BY ReqStep DEF Typed
<1>2. ASSUME NEW j \in Conns, NEW m \in Messages, Sent(j, m),
             \/ j \in {cur, target, held.conn}
             \/ j = used /\ HelloAnswered
      PROVE  j # k
  BY <1>2, ConnsFacts DEF Sent, HelloAnswered, OrderInv, Typed, EndsOK, HeldOK, NoKey
<1> QED
  BY <1>1, <1>2 DEF ReqChanges, Took, Emptied, Sent, ReqOK

LEMMA LinkOpens ==
    ASSUME Typed, [Next]_vars, NEW k \in Conns, link'[k] = "open"
    PROVE  link[k] = "open" \/ (Attempt /\ k = used + 1)
<1> USE DEF Typed, LinkOK, EndsOK
<1>1. CASE ReadKey \/ SendKey \/ Resize \/ OutputLoop \/ HelloAnswered \/ Reattached \/ GiveUp
  BY <1>1 DEF connVars, ReadKey, SendKey, Resize, OutputLoop, RecvOutput, RecvLast,
              Disconnected, HelloAnswered, Reattached, GiveUp
<1>2. CASE Attempt
  BY <1>2 DEF Attempt
<1>3. CASE AttemptFails \/ TimedOut \/ NotFound \/ Leave
  BY <1>3 DEF AttemptFails, TimedOut, NotFound, Leave, Drop
<1>4. CASE Killed
  BY <1>4 DEF Killed
<1>5. ASSUME NEW j \in Conns, Handler(j)
      PROVE  link[k] = "open"
  BY <1>5 DEF Handler, HandleOpen, HandleInput, HandleResize, HandleDetach, HandlerEnds
<1>6. CASE UpgradeExec \/ DaemonEnds
  BY <1>6 DEF UpgradeExec, DaemonEnds, Cut
<1>7. CASE Output \/ ShellExits \/ MarkExited \/ Adopt \/ Respawn \/ RivalOpens \/ RivalLeaves
  BY <1>7 DEF connVars, Output, ShellExits, MarkExited, Adopt, Respawn, RivalOpens, RivalLeaves
<1> QED
  BY <1>1, <1>2, <1>3, <1>4, <1>5, <1>6, <1>7 DEF Next, Reconnect, vars, connVars

\* The attempt that waits for its answer is still that attempt, or its client gave it up.
LEMMA WaitsOn ==
    ASSUME Typed, [Next]_vars, pc = "opening", rsp[used] = <<>>, link'[used] = "open"
    PROVE  pc' = "opening" /\ used' = used
<1> USE DEF Typed, LinkOK, EndsOK
<1>1. CASE OutputLoop
  BY <1>1 DEF OutputLoop, RecvOutput, RecvLast, Disconnected
<1>2. CASE Attempt \/ HelloAnswered \/ Reattached \/ NotFound \/ GiveUp \/ Leave
  BY <1>2 DEF Attempt, HelloAnswered, Reattached, NotFound, Recv, GiveUp, Leave
<1>3. CASE AttemptFails \/ TimedOut \/ Killed
  BY <1>3 DEF AttemptFails, TimedOut, Drop, Killed
<1>4. CASE UNCHANGED bridgeVars
  BY <1>4 DEF bridgeVars
<1> QED
  BY <1>1, <1>2, <1>3, <1>4, BridgeQuiet DEF Reconnect

LEMMA OpenStep ==
    ASSUME Typed, OrderInv, FreshInv, OpenInv, [Next]_vars
    PROVE  OpenInv'
<1> SUFFICES ASSUME NEW k \in Conns
             PROVE  NoOpen(req'[k]) \/ Pending(k)'
  BY DEF OpenInv
<1>1. CASE NoOpen(req[k]) /\ ~(HelloAnswered /\ k = used)
  BY <1>1, NoOpenKept
<1>2. CASE HelloAnswered /\ k = used
  <2>1. req[k] = <<>> /\ rsp[k] = <<>> /\ slot # k
    BY <1>2 DEF FreshInv, HelloAnswered
  <2>2. req'[k] = <<OpenMessage>>
    BY <1>2, <2>1 DEF HelloAnswered, Send, OpenMessage, Typed, ReqOK
  <2>3. rsp' = rsp /\ slot' = slot /\ cur' = cur /\ used' = used /\ pc' = "opening"
    BY <1>2 DEF HelloAnswered, daemonVars
  <2>4. k # cur
    BY <1>2, ConnsFacts DEF HelloAnswered, OrderInv, Typed, EndsOK
  <2> QED
    BY <1>2, <2>1, <2>2, <2>3, <2>4 DEF Pending
<1>3. CASE Pending(k) /\ \E kind : Handles(k, kind)
  BY <1>3, AfterHandled
<1>4. CASE Pending(k) /\ \A kind : ~Handles(k, kind)
  <2>1. /\ req[k] = <<OpenMessage>> /\ rsp[k] = <<>> /\ slot # k /\ k # cur
        /\ link[k] = "open" => k = used /\ pc = "opening"
    BY <1>4 DEF Pending
  <2>2. rsp'[k] = <<>> /\ slot' # k
    BY <1>4, <2>1, Unasked
  <2>3. req'[k] = <<OpenMessage>> \/ req'[k] = <<>>
    BY <2>1, PendingReq
  <2>4. k # cur'
    <3>1. CASE Reattached
      BY <2>1, <3>1 DEF Reattached, Recv
    <3>2. CASE ~Reattached
      <4>1. cur' = cur
        BY <3>2, BridgeQuiet
           DEF bridgeVars, OutputLoop, RecvOutput, RecvLast, Disconnected, Reconnect, Attempt,
               HelloAnswered, AttemptFails, TimedOut, NotFound, GiveUp, Leave, Killed
      <4> QED
        BY <2>1, <4>1
    <3> QED
      BY <3>1, <3>2
  <2>5. ASSUME link'[k] = "open"
        PROVE  k = used' /\ pc' = "opening"
    <3>1. ~(Attempt /\ k = used + 1)
      <4>1. ASSUME k = used + 1 PROVE FALSE
        <5>1. k > used
          BY <4>1, ConnsFacts DEF Typed, EndsOK
        <5> QED
          BY <2>1, <5>1 DEF FreshInv
      <4> QED
        BY <4>1
    <3>2. link[k] = "open"
      BY <2>5, <3>1, LinkOpens
    <3> QED
      BY <2>1, <2>5, <3>2, WaitsOn
  <2> QED
    BY <2>2, <2>3, <2>4, <2>5, EmptyQueue DEF Pending
<1> QED
  BY <1>1, <1>2, <1>3, <1>4 DEF OpenInv

LEMMA AttemptStep ==
    ASSUME Typed, OrderInv, FreshInv, OpenInv, AttemptInv, [Next]_vars
    PROVE  AttemptInv'
<1> SUFFICES ASSUME pc' = "opening"
             PROVE  /\ req'[used'] \in {<<>>, <<OpenMessage>>}
                    /\ Has(rsp'[used'], "error") => shell' # "live"
  BY DEF AttemptInv
<1> USE DEF Typed, EndsOK
<1>1. CASE HelloAnswered
  <2>1. req[used] = <<>> /\ rsp[used] = <<>>
    BY <1>1 DEF FreshInv, HelloAnswered
  <2>2. req'[used] = <<OpenMessage>>
    BY <1>1, <2>1 DEF HelloAnswered, Send, OpenMessage, ReqOK
  <2>3. rsp' = rsp /\ used' = used
    BY <1>1 DEF HelloAnswered
  <2> QED
    BY <2>1, <2>2, <2>3, EmptyQueue
<1>2. CASE ~HelloAnswered
  <2>1. pc = "opening" /\ used' = used
    BY <1>2, BridgeQuiet
       DEF bridgeVars, OutputLoop, RecvOutput, RecvLast, Disconnected, End, Reconnect, Attempt,
           AttemptFails, TimedOut, Reattached, NotFound, GiveUp, Leave, Killed
  <2>2. req[used] \in {<<>>, <<OpenMessage>>} /\ (Has(rsp[used], "error") => shell # "live")
    BY <2>1 DEF AttemptInv
  <2>3. req'[used] \in {<<>>, <<OpenMessage>>}
    <3>1. CASE req[used] = <<OpenMessage>>
      BY <2>1, <3>1, PendingReq
    <3>2. CASE req[used] = <<>>
      <4>1. ReqChanges
        BY ReqStep
      <4>2. used \notin {cur, target, held.conn}
        BY <2>1, ConnsFacts DEF OrderInv, HeldOK, NoKey
      <4> QED
        BY <1>2, <3>2, <4>1, <4>2 DEF ReqChanges, Took, Emptied, Sent, ReqOK
    <3> QED
      BY <2>2, <3>1, <3>2
  <2>4. ASSUME Has(rsp'[used], "error")
        PROVE  shell' # "live"
    <3>1. CASE Has(rsp[used], "error")
      BY <2>2, <3>1, ShellOnward
    <3>2. CASE ~Has(rsp[used], "error")
      <4>1. Refused(used)
        BY <2>4, <3>2, NewlyTold
      <4>2. ~HandleInput(used) /\ ~HandleResize(used)
        BY <2>2 DEF HandleInput, HandleResize, Handles, OpenMessage, Message
      <4>3. shell # "live"
        BY <4>1, <4>2 DEF Refused
      <4> QED
        BY <4>3, ShellOnward
    <3> QED
      BY <3>1, <3>2
  <2> QED
    BY <2>1, <2>3, <2>4
<1> QED
  BY <1>1, <1>2

LEMMA ToldStep ==
    ASSUME Typed, OrderInv, FreshInv, OpenInv, ToldInv, [Next]_vars
    PROVE  ToldInv'
<1> SUFFICES ASSUME NEW k \in Conns
             PROVE  /\ Has(rsp'[k], "exited") => shell' = "gone"
                    /\ Has(rsp'[k], "error") \/ Has(rsp'[k], "evicted")
                           => Lost(k)' /\ NoOpen(req'[k])
  BY DEF ToldInv
<1>1. ASSUME Has(rsp'[k], "exited")
      PROVE  shell' = "gone"
  <2>1. CASE Has(rsp[k], "exited")
    BY <2>1, ShellOnward DEF ToldInv
  <2>2. CASE ~Has(rsp[k], "exited")
    BY <1>1, <2>2, NewlyTold DEF MarkExited
  <2> QED
    BY <2>1, <2>2
<1>2. ASSUME Lost(k), NoOpen(req[k]), ~(HelloAnswered /\ k = used)
      PROVE  Lost(k)' /\ NoOpen(req'[k])
  BY <1>2, LostKept, NoOpenKept
<1>3. ASSUME NEW x \in {"error", "evicted"}, Has(rsp[k], x)
      PROVE  Lost(k)' /\ NoOpen(req'[k])
  <2>1. ~(HelloAnswered /\ k = used)
    BY <1>3, EmptyQueue DEF HelloAnswered, FreshInv
  <2> QED
    BY <1>2, <1>3, <2>1 DEF ToldInv
<1>4. ASSUME Has(rsp'[k], "error"), ~Has(rsp[k], "error")
      PROVE  Lost(k)' /\ NoOpen(req'[k])
  <2>1. Refused(k)
    BY <1>4, NewlyTold
  <2>2. NoOpen(req'[k])
    BY <2>1, AfterHandled DEF Refused, HandleOpen, HandleInput, HandleResize
  <2>3. CASE shell # "live"
    BY <2>2, <2>3, ShellOnward DEF Lost
  <2>4. CASE shell = "live"
    <3>1. slot # k /\ slot' = slot
      BY <2>1, <2>4 DEF Refused, Attached, HandleInput, HandleResize, daemonVars
    <3> QED
      BY <2>2, <3>1 DEF Lost
  <2> QED
    BY <2>3, <2>4
<1>5. ASSUME Has(rsp'[k], "evicted"), ~Has(rsp[k], "evicted")
      PROVE  Lost(k)' /\ NoOpen(req'[k])
  <2>1. k = slot /\ (Steals(Rival) \/ \E j \in Conns : Steals(j) /\ HandleOpen(j))
    BY <1>5, NewlyTold
  <2>2. NoOpen(req[k])
    BY <2>1 DEF OpenInv, Pending
  <2>3. ~(HelloAnswered /\ k = used)
    BY <2>1 DEF HelloAnswered, FreshInv
  <2>4. NoOpen(req'[k])
    BY <2>2, <2>3, NoOpenKept
  <2>5. ~HandleOpen(k)
    BY <2>2, NoOpenTail DEF HandleOpen, Handles, Typed, ReqOK
  <2>6. slot' # k
    BY <2>1, <2>5, ConnsFacts DEF Steals
  <2> QED
    BY <2>4, <2>6 DEF Lost
<1> QED
  BY <1>1, <1>3, <1>4, <1>5

LEMMA EndStep ==
    ASSUME Typed, AttemptInv, ToldInv, EndInv, [Next]_vars
    PROVE  EndInv'
<1> USE DEF Typed, EndsOK
<1>1. CASE UNCHANGED bridgeVars \/ Leave
  <2>1. /\ outcome' = outcome /\ cur' = cur /\ tries' = tries
        /\ pc' \in {pc, "ended"} /\ ~HelloAnswered
    BY <1>1 DEF bridgeVars, Leave, HelloAnswered
  <2>2. ASSUME Lost(cur), NoOpen(req[cur])
        PROVE  (shell' # "live" \/ slot' # cur') /\ NoOpen(req'[cur'])
    BY <2>1, <2>2, LostKept, NoOpenKept DEF Lost
  <2> QED
    BY <2>1, <2>2, ShellOnward DEF EndInv, Lost
<1>2. CASE RecvOutput \/ Disconnected \/ Reattached
  <2>1. outcome = "none"
    BY <1>2 DEF EndInv, RecvOutput, Disconnected, Reattached
  <2>2. \/ outcome' = "none"
        \/ outcome' = "terminal" /\ pc' = "leaving"
    BY <1>2, <2>1 DEF RecvOutput, Disconnected, Reattached, End
  <2> QED
    BY <2>2 DEF EndInv
<1>3. CASE RecvLast
  <2>1. PICK last \in {"exited", "evicted", "error"} : Recv(cur, last) /\ End(last)
    BY <1>3 DEF RecvLast
  <2>2. Has(rsp[cur], last)
    BY <2>1, HasTail DEF Recv, RspOK
  <2>3. UNCHANGED <<req, shell, slot, cur>>
    BY <1>3 DEF RecvLast, daemonVars
  <2> QED
    BY <2>1, <2>2, <2>3 DEF ToldInv, EndInv, End, Lost
<1>4. CASE Attempt \/ HelloAnswered \/ AttemptFails \/ TimedOut
  <2>1. outcome = "none" /\ outcome' = outcome
    BY <1>4 DEF EndInv, Attempt, HelloAnswered, AttemptFails, TimedOut, Trying
  <2> QED
    BY <2>1 DEF EndInv
<1>5. CASE NotFound
  <2>1. shell # "live"
    BY <1>5, HasTail DEF NotFound, Recv, AttemptInv, RspOK
  <2>2. shell' # "live" /\ outcome' = "fallback" /\ pc' = "leaving"
    BY <1>5, <2>1 DEF NotFound, End, daemonVars
  <2> QED
    BY <2>2 DEF EndInv
<1>6. CASE GiveUp
  BY <1>6 DEF GiveUp, End, EndInv
<1>7. CASE Killed
  BY <1>7 DEF Killed, EndInv
<1> QED
  BY <1>1, <1>2, <1>3, <1>4, <1>5, <1>6, <1>7, BridgeQuiet DEF OutputLoop, Reconnect

LEMMA StepIInv == IInv /\ [Next]_vars => IInv'
<1> SUFFICES ASSUME IInv, [Next]_vars PROVE IInv'
  OBVIOUS
<1>1. Typed
  BY TypedIsTyped DEF IInv
<1> QED
  BY <1>1, TypeStep, OrderStep, OpenStep, FreshStep, AttemptStep, ToldStep, EndStep DEF IInv

\* A bridge ends because of Exited only when the shell is gone, with an error or as evicted
\* only when the session is not its connection's own, and falls back only when the session
\* is gone or every attempt failed, for any number of attempts, upgrades, requests under way and rivals.
THEOREM EndsWithReason == Spec => []EndsForAReason
<1>1. IInv => EndsForAReason
  BY DEF IInv, EndInv, Lost, EndsForAReason
<1> QED
  BY <1>1, InitIInv, StepIInv, PTL DEF Spec

=============================================================================
