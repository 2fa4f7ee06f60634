-------------------------------- MODULE Bridge --------------------------------
(***************************************************************************)
(* The client's side of an attached session (bridge_snapshot): the output     *)
(* loop, the input task and the resize task, which share a target that a       *)
(* reconnect replaces, and what they meet on the other side: the daemon's       *)
(* handlers, one for each connection, the exit of the shell, an upgrade that    *)
(* cuts every connection, and another client that takes the session.           *)
(*                                                                         *)
(* A connection is a pair of queues.  A daemon that goes breaks it: what it had *)
(* not read is lost, what it had written can still be read.  The daemon's side  *)
(* is coarser here than in ShellStream and Registry.                          *)
(***************************************************************************)
EXTENDS Naturals, Sequences, SequencesExt

CONSTANTS
    Attempts,    \* RECONNECT_ATTEMPTS (50 in the code)
    MaxUpgrades, \* bound: upgrades
    MaxKeys,     \* bound: reads of the input task
    MaxResizes,  \* bound: window changes
    MaxOutputs,  \* bound: chunks of output
    MaxRivals,   \* bound: times another client opens the session
    Rival,       \* the other client
    Nobody       \* no client

ASSUME BridgeAssumption ==
    /\ Attempts \in Nat \ {0}
    /\ {MaxUpgrades, MaxKeys, MaxResizes, MaxOutputs, MaxRivals} \subseteq Nat
    /\ Rival # Nobody /\ Rival \notin Nat /\ Nobody \notin Nat

\* Only an upgrade, or the end of the daemon, makes the bridge reconnect.
Conns == 1..(1 + Attempts * MaxUpgrades)

VARIABLES
    link,      \* the state of each connection
    req,       \* what its client sent and its handler has not read
    rsp,       \* what was sent to its client
    daemon,    \* whether the daemon runs
    shell,     \* "live" on the registry, "leaving" it, or "gone"
    slot,      \* ShellState::attach: the connection, Rival or Nobody
    pc,        \* where bridge_snapshot is
    outcome,   \* how it ended
    cur,       \* current: the connection of the output loop
    target,    \* what target_tx last sent: the connection of input and resize
    used,      \* connections made
    tries,     \* attempts of the current reconnect
    typed,     \* keys read from the terminal
    held,      \* the key the input task is about to send, and to where
    received,  \* the keys the shell got, in order
    counts     \* upgrades, resizes, outputs and rivals so far

connVars   == <<link, req, rsp>>
daemonVars == <<daemon, shell, slot>>
bridgeVars == <<pc, outcome, cur, target, used, tries>>
inputVars  == <<typed, held, received>>
vars == <<connVars, daemonVars, bridgeVars, inputVars, counts>>

Message(kind, key) == [kind |-> kind, key |-> key]
Messages ==
    [kind : {"input"}, key : 1..MaxKeys] \cup [kind : {"open", "resize", "detach"}, key : {0}]
NoKey == [key |-> 0, conn |-> 0]

TypeOK ==
    /\ link \in [Conns -> {"unused", "open", "dropped", "broken", "closed"}]
    /\ req \in [Conns -> Seq(Messages)]
    /\ rsp \in [Conns -> Seq({"snapshot", "output", "exited", "evicted", "error"})]
    /\ daemon \in {"up", "swapping", "down"}
    /\ shell \in {"live", "leaving", "gone"}
    /\ slot \in Conns \cup {Rival, Nobody}
    /\ pc \in {"attached", "retry", "hello", "opening", "leaving", "ended"}
    /\ outcome \in {"none", "exited", "evicted", "error", "terminal", "fallback", "killed"}
    /\ cur \in Conns /\ target \in Conns /\ used \in Conns
    /\ tries \in 0..Attempts
    /\ typed \in 0..MaxKeys
    /\ held \in [key : 1..MaxKeys, conn : Conns] \cup {NoKey}
    /\ received \in Seq(1..MaxKeys)
    /\ counts \in [upgrades : 0..MaxUpgrades, resizes : 0..MaxResizes,
                   outputs : 0..MaxOutputs, rivals : 0..MaxRivals]

\* open_shell returned the snapshot, and it was painted.
Init ==
    /\ link = [k \in Conns |-> IF k = 1 THEN "open" ELSE "unused"]
    /\ req = [k \in Conns |-> <<>>]
    /\ rsp = [k \in Conns |-> <<>>]
    /\ daemon = "up" /\ shell = "live" /\ slot = 1
    /\ pc = "attached" /\ outcome = "none"
    /\ cur = 1 /\ target = 1 /\ used = 1 /\ tries = 0
    /\ typed = 0 /\ held = NoKey /\ received = <<>>
    /\ counts = [upgrades |-> 0, resizes |-> 0, outputs |-> 0, rivals |-> 0]

-----------------------------------------------------------------------------
(* The input and resize tasks                                                *)

Send(k, message) ==
    req' = IF link[k] = "open" THEN [req EXCEPT ![k] = Append(@, message)] ELSE req

\* The task reads the terminal and clones the target.
ReadKey ==
    /\ pc # "ended" /\ held = NoKey /\ typed < MaxKeys
    /\ typed' = typed + 1
    /\ held' = [key |-> typed', conn |-> target]
    /\ UNCHANGED <<connVars, daemonVars, bridgeVars, received, counts>>

\* An error drops the key: the daemon is taken to be in an upgrade.
SendKey ==
    /\ pc # "ended" /\ held # NoKey
    /\ Send(held.conn, Message("input", held.key))
    /\ held' = NoKey
    /\ UNCHANGED <<link, rsp, daemonVars, bridgeVars, typed, received, counts>>

Resize ==
    /\ pc # "ended" /\ counts.resizes < MaxResizes
    /\ Send(target, Message("resize", 0))
    /\ counts' = [counts EXCEPT !.resizes = @ + 1]
    /\ UNCHANGED <<link, rsp, daemonVars, bridgeVars, inputVars>>

-----------------------------------------------------------------------------
(* output_loop                                                              *)

End(how) == pc' = "leaving" /\ outcome' = how

Recv(k, message) ==
    /\ rsp[k] # <<>> /\ Head(rsp[k]) = message
    /\ rsp' = [rsp EXCEPT ![k] = Tail(@)]

\* Output is painted, unless the terminal is gone.
RecvOutput ==
    /\ pc = "attached" /\ Recv(cur, "output")
    /\ \/ UNCHANGED <<pc, outcome>>
       \/ End("terminal")
    /\ UNCHANGED <<link, req, daemonVars, cur, target, used, tries, inputVars, counts>>

\* Exited, DetachedByAnotherClient, or any Error the daemon sends.
RecvLast ==
    /\ pc = "attached"
    /\ \E last \in {"exited", "evicted", "error"} : Recv(cur, last) /\ End(last)
    /\ UNCHANGED <<link, req, daemonVars, cur, target, used, tries, inputVars, counts>>

Drained(k) == link[k] = "broken" /\ rsp[k] = <<>>

Disconnected ==
    /\ pc = "attached" /\ Drained(cur)
    /\ pc' = "retry" /\ tries' = 0
    /\ UNCHANGED <<connVars, daemonVars, outcome, cur, target, used, inputVars, counts>>

-----------------------------------------------------------------------------
(* reconnect, try_reattach                                                  *)

\* A connect that finds no listener fails at once.
Attempt ==
    /\ pc = "retry" /\ tries < Attempts
    /\ tries' = tries + 1
    /\ IF daemon = "down"
       THEN UNCHANGED <<pc, used, link>>
       ELSE /\ used + 1 \in Conns
            /\ used' = used + 1
            /\ link' = [link EXCEPT ![used'] = "open"]
            /\ pc' = "hello"
    /\ UNCHANGED <<req, rsp, daemonVars, outcome, cur, target, inputVars, counts>>

\* The daemon says hello; OpenShell is sent.
HelloAnswered ==
    /\ pc = "hello" /\ link[used] = "open" /\ daemon = "up"
    /\ Send(used, Message("open", 0))
    /\ pc' = "opening"
    /\ UNCHANGED <<link, rsp, daemonVars, outcome, cur, target, used, tries, inputVars, counts>>

Trying == pc \in {"hello", "opening"}

\* The client closes its end of connection k.
Drop(k) ==
    link' = [link EXCEPT ![k] = CASE @ = "open" -> "dropped" [] OTHER -> "closed"]

AttemptFails ==
    /\ Trying /\ Drained(used)
    /\ Drop(used) /\ pc' = "retry"
    /\ UNCHANGED <<req, rsp, daemonVars, outcome, cur, target, used, tries, inputVars, counts>>

\* Mutant: only the open is subject to the timeout, not the connection before it.
TimedOutOpening ==
    /\ pc = "opening"
    /\ Drop(used) /\ pc' = "retry"
    /\ UNCHANGED <<req, rsp, daemonVars, outcome, cur, target, used, tries, inputVars, counts>>

\* The attempt is given up after RECONNECT_HANDSHAKE_TIMEOUT, what the daemon makes
\* of it later notwithstanding.
TimedOut ==
    /\ Trying
    /\ Drop(used) /\ pc' = "retry"
    /\ UNCHANGED <<req, rsp, daemonVars, outcome, cur, target, used, tries, inputVars, counts>>

\* Mutant: the other tasks are not told of the new connection.
ReattachedAlone ==
    /\ pc = "opening" /\ Recv(used, "snapshot")
    /\ cur' = used
    /\ UNCHANGED target
    /\ \/ pc' = "attached" /\ UNCHANGED outcome
       \/ End("terminal")
    /\ UNCHANGED <<link, req, daemonVars, used, tries, inputVars, counts>>

\* The other tasks are pointed at the new connection and the snapshot is painted.
Reattached ==
    /\ pc = "opening" /\ Recv(used, "snapshot")
    /\ cur' = used /\ target' = used
    /\ \/ pc' = "attached" /\ UNCHANGED outcome
       \/ End("terminal")
    /\ UNCHANGED <<link, req, daemonVars, used, tries, inputVars, counts>>

\* The daemon does not know the shell: the real shell.
NotFound ==
    /\ pc = "opening" /\ Recv(used, "error")
    /\ Drop(used) /\ End("fallback")
    /\ UNCHANGED <<req, daemonVars, cur, target, used, tries, inputVars, counts>>

\* Mutant: one attempt too few.
GiveUpEarly ==
    /\ pc = "retry" /\ tries + 1 = Attempts
    /\ End("fallback")
    /\ UNCHANGED <<connVars, daemonVars, cur, target, used, tries, inputVars, counts>>

\* No attempt succeeded: the real shell.
GiveUp ==
    /\ pc = "retry" /\ tries = Attempts
    /\ End("fallback")
    /\ UNCHANGED <<connVars, daemonVars, cur, target, used, tries, inputVars, counts>>

\* Detach goes out if it can, the tasks are aborted, the sockets closed.
Leave ==
    /\ pc = "leaving"
    /\ Send(cur, Message("detach", 0))
    /\ Drop(cur)
    /\ pc' = "ended" /\ held' = NoKey
    /\ UNCHANGED <<rsp, daemonVars, outcome, cur, target, used, tries, typed, received, counts>>

\* The pane is closed: the process ends without a word, its connections with it.
Killed ==
    /\ pc # "ended"
    /\ pc' = "ended" /\ outcome' = "killed" /\ held' = NoKey
    /\ link' = [k \in Conns |->
          IF link[k] = "open" THEN "dropped" ELSE IF link[k] = "broken" THEN "closed" ELSE link[k]]
    /\ UNCHANGED <<req, rsp, daemonVars, cur, target, used, tries, typed, received, counts>>

-----------------------------------------------------------------------------
(* The daemon                                                                *)

\* The handler of connection k reads a message of this kind.
Handles(k, kind) ==
    /\ daemon = "up"
    /\ req[k] # <<>> /\ Head(req[k]).kind = kind
    /\ req' = [req EXCEPT ![k] = Tail(@)]

Attached(k) == shell = "live" /\ slot = k

\* Connection k gets the slot; its holder is told.
Steals(k) ==
    /\ slot' = k
    /\ rsp' = [c \in Conns |->
          (IF c = slot THEN Append(rsp[c], "evicted") ELSE rsp[c])
          \o (IF c = k THEN <<"snapshot">> ELSE <<>>)]

HandleOpen(k) ==
    /\ Handles(k, "open")
    /\ IF shell = "live"
       THEN Steals(k)
       ELSE rsp' = [rsp EXCEPT ![k] = Append(@, "error")] /\ UNCHANGED slot
    /\ UNCHANGED <<link, daemon, shell, bridgeVars, inputVars, counts>>

HandleInput(k) ==
    /\ Handles(k, "input")
    /\ IF Attached(k)
       THEN received' = Append(received, Head(req[k]).key) /\ UNCHANGED rsp
       ELSE rsp' = [rsp EXCEPT ![k] = Append(@, "error")] /\ UNCHANGED received
    /\ UNCHANGED <<link, daemonVars, bridgeVars, typed, held, counts>>

HandleResize(k) ==
    /\ Handles(k, "resize")
    /\ rsp' = IF Attached(k) THEN rsp ELSE [rsp EXCEPT ![k] = Append(@, "error")]
    /\ UNCHANGED <<link, daemonVars, bridgeVars, inputVars, counts>>

HandleDetach(k) ==
    /\ Handles(k, "detach")
    /\ slot' = IF Attached(k) THEN Nobody ELSE slot
    /\ UNCHANGED <<link, rsp, daemon, shell, bridgeVars, inputVars, counts>>

\* Mutant: the end of a connection does not detach it.
HandlerEndsOnly(k) ==
    /\ daemon = "up" /\ link[k] = "dropped" /\ req[k] = <<>>
    /\ link' = [link EXCEPT ![k] = "closed"]
    /\ UNCHANGED <<req, rsp, daemonVars, bridgeVars, inputVars, counts>>

\* End of file on the connection: its attaches are detached.
HandlerEnds(k) ==
    /\ daemon = "up" /\ link[k] = "dropped" /\ req[k] = <<>>
    /\ link' = [link EXCEPT ![k] = "closed"]
    /\ slot' = IF Attached(k) THEN Nobody ELSE slot
    /\ UNCHANGED <<req, rsp, daemon, shell, bridgeVars, inputVars, counts>>

Handler(k) ==
    \/ HandleOpen(k) \/ HandleInput(k) \/ HandleResize(k) \/ HandleDetach(k)
    \/ HandlerEnds(k)

\* The reader thread sends a chunk.
Output ==
    /\ daemon = "up" /\ shell = "live" /\ slot \in Conns
    /\ counts.outputs < MaxOutputs
    /\ rsp' = [rsp EXCEPT ![slot] = Append(@, "output")]
    /\ counts' = [counts EXCEPT !.outputs = @ + 1]
    /\ UNCHANGED <<link, req, daemonVars, bridgeVars, inputVars>>

\* cleanup_shell takes the shell off the registry ...
ShellExits ==
    /\ daemon = "up" /\ shell = "live"
    /\ shell' = "leaving"
    /\ UNCHANGED <<connVars, daemon, slot, bridgeVars, inputVars, counts>>

\* ... and then tells the attached client.
MarkExited ==
    /\ daemon = "up" /\ shell = "leaving"
    /\ shell' = "gone" /\ slot' = Nobody
    /\ rsp' = [k \in Conns |-> IF k = slot THEN Append(rsp[k], "exited") ELSE rsp[k]]
    /\ UNCHANGED <<link, req, daemon, bridgeVars, inputVars, counts>>

\* The daemon's end of these connections is closed.
Cut(conns) ==
    /\ link' = [k \in Conns |->
          IF k \notin conns THEN link[k]
          ELSE CASE link[k] = "open" -> "broken"
                 [] link[k] = "dropped" -> "closed"
                 [] OTHER -> link[k]]
    /\ req' = [k \in Conns |-> IF k \in conns THEN <<>> ELSE req[k]]

\* execv: only a connection that was not accepted yet outlives it.
UpgradeExec ==
    /\ daemon = "up" /\ counts.upgrades < MaxUpgrades
    /\ daemon' = "swapping" /\ slot' = Nobody
    /\ shell' = IF shell = "live" THEN "live" ELSE "gone"
    /\ \/ Cut(Conns)
       \/ pc = "hello" /\ Cut(Conns \ {used})
    /\ counts' = [counts EXCEPT !.upgrades = @ + 1]
    /\ UNCHANGED <<rsp, bridgeVars, inputVars>>

\* The new binary adopts the shell, or drops it.
Adopt ==
    /\ daemon = "swapping"
    /\ daemon' = "up"
    /\ shell' \in {shell, "gone"}
    /\ UNCHANGED <<connVars, slot, bridgeVars, inputVars, counts>>

\* The daemon ends: an upgrade that fails, a new binary that gives up, a kill.
DaemonEnds ==
    /\ \/ daemon = "up" /\ counts.upgrades < MaxUpgrades
       \/ daemon = "swapping"
    /\ daemon' = "down" /\ shell' = "gone" /\ slot' = Nobody
    /\ Cut(Conns)
    /\ counts' = [counts EXCEPT !.upgrades = IF daemon = "up" THEN @ + 1 ELSE @]
    /\ UNCHANGED <<rsp, bridgeVars, inputVars>>

\* Another client starts a daemon, which knows no shell.
Respawn ==
    /\ daemon = "down"
    /\ daemon' = "up"
    /\ UNCHANGED <<connVars, shell, slot, bridgeVars, inputVars, counts>>

\* Another client opens the session with steal, or lets go of it.
RivalOpens ==
    /\ daemon = "up" /\ shell = "live" /\ counts.rivals < MaxRivals
    /\ Steals(Rival)
    /\ counts' = [counts EXCEPT !.rivals = @ + 1]
    /\ UNCHANGED <<link, req, daemon, shell, bridgeVars, inputVars>>

RivalLeaves ==
    /\ slot = Rival /\ shell = "live"
    /\ slot' = Nobody
    /\ UNCHANGED <<connVars, daemon, shell, bridgeVars, inputVars, counts>>

-----------------------------------------------------------------------------
OutputLoop == RecvOutput \/ RecvLast \/ Disconnected

Reconnect ==
    \/ Attempt \/ HelloAnswered \/ AttemptFails \/ TimedOut \/ Reattached
    \/ NotFound \/ GiveUp

Next ==
    \/ ReadKey \/ SendKey \/ Resize
    \/ OutputLoop \/ Reconnect \/ Leave \/ Killed
    \/ \E k \in Conns : Handler(k)
    \/ Output \/ ShellExits \/ MarkExited
    \/ UpgradeExec \/ Adopt \/ DaemonEnds \/ Respawn
    \/ RivalOpens \/ RivalLeaves

Spec == Init /\ [][Next]_vars

\* The tasks of the bridge and the handlers of the daemon run.  Nobody need type, no
\* daemon need come back.
Fairness ==
    /\ WF_vars(SendKey) /\ WF_vars(OutputLoop) /\ WF_vars(Reconnect) /\ WF_vars(Leave)
    /\ \A k \in Conns : WF_vars(Handler(k))
    /\ WF_vars(MarkExited)

FairSpec == Spec /\ Fairness
-----------------------------------------------------------------------------
(* Properties                                                               *)

\* The bridge ends because of Exited only when the shell is gone; with an error, or with
\* code 0 because another client has it, only when the shell is leaving or the session
\* is no longer that of the bridge's connection, whatever requests were under way; and
\* falls back to a real shell only when the session is gone or every attempt to get it
\* back failed.  That other client may be an attempt that the bridge itself gave up.
EndsForAReason ==
    /\ outcome = "exited" => shell = "gone"
    /\ outcome \in {"error", "evicted"} => shell # "live" \/ slot # cur
    /\ outcome = "fallback" => shell # "live" \/ tries = Attempts

\* A key that is typed on a connection that stays up reaches the shell, also on the
\* connection a reconnect brought (target_tx), unless the session ends or is taken.
TypedKeyArrives ==
    \A n \in 1..MaxKeys :
        (held = [key |-> n, conn |-> target] /\ pc = "attached" /\ link[cur] = "open")
            ~> (n \in ToSet(received) \/ link[cur] # "open" \/ pc # "attached")

\* A bridge that lost its connection is attached again or ends, whatever the daemon
\* does: each attempt is bounded by the timeout, and so is their number.
ReconnectSettles == pc \in {"retry", "hello", "opening"} ~> pc \in {"attached", "ended"}

\* An attempt that was given up may still be served; the session it took is let go.
AbandonedLetGo ==
    \A k \in Conns : (slot = k /\ link[k] = "dropped") ~> slot # k
=============================================================================
