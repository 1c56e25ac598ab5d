---------------------------- MODULE KdTransport -----------------------------
(***************************************************************************)
(* The transport of the Windows kernel debugger (windows/kd/wire.go and    *)
(* session.go).  Data packets carry a one-bit identifier in each direction *)
(* and are acknowledged; a damaged one is asked for again.  writeLoop      *)
(* sends one packet at a time, readLoop handles everything that arrives,   *)
(* and callers queue packets and wait for their acknowledgement.           *)
(*                                                                         *)
(* Every packet a caller queues is a continue request, every data packet   *)
(* of the target is a state change that stops it, so that the session's    *)
(* stop generation is driven by the packets.  The identifiers 0 and 1 are  *)
(* the initial one and its complement; 2 is any other.  The target is      *)
(* external: it runs the same protocol, may mark its first packet after a  *)
(* boot with the sync bit, repeats an unacknowledged packet when it likes, *)
(* and may reboot.  The line keeps the order of packets and may damage     *)
(* data packets, payload or identifier (which then has no sync bit).       *)
(***************************************************************************)
EXTENDS Naturals, Sequences, FiniteSets

CONSTANTS
    None,
    MaxPackets,  \* bound: packets queued by callers
    MaxStops,    \* bound: data packets of the target
    MaxFaults,   \* bound: packets damaged, reboots, failures of either loop
    MaxLine      \* bound: packets on the line in one direction

ASSUME KdAssumption == {MaxPackets, MaxStops, MaxFaults, MaxLine} \subseteq Nat

VARIABLES
    outbound, writer, current,      \* writeLoop: queue, its step, packet and id
    remoteID, localID, lastOutbound, ackWait,   \* kdWire
    ack,                            \* acknowledgement channel of each packet
    reader, held,                   \* readLoop: its step, packet to deliver or send again
    stopped, generation,            \* session state
    posted, asked, settled,         \* callers: generation each continue was asked in
    toTarget, toDebugger,           \* the line
    target,                         \* the target's protocol state
    accepted, delivered,            \* packets the target took, stops we took
    faults, resets

caller == <<posted, asked, settled>>
wire == <<remoteID, localID, lastOutbound, ackWait, ack>>
vars == <<outbound, writer, current, remoteID, localID, lastOutbound, ackWait, ack,
          reader, held, stopped, generation, posted, asked, settled, toTarget,
          toDebugger, target, accepted, delivered, faults, resets>>

Packet == 1..MaxPackets
Flip(id) == 1 - id

Data(n, id, sync) == [type |-> "data", body |-> n, id |-> id, sync |-> sync, bad |-> FALSE]
Control(type, id) == [type |-> type, body |-> 0, id |-> id, sync |-> FALSE, bad |-> FALSE]
Booted(sync, sent) ==
    [expected |-> 0, next |-> 0, sync |-> sync, inflight |-> 0, sent |-> sent]

Init ==
    /\ outbound = <<>> /\ writer = "idle" /\ current = None
    /\ remoteID = 0 /\ localID = 0 /\ lastOutbound = None
    /\ ackWait = [id \in 0..1 |-> None] /\ ack = [p \in Packet |-> "none"]
    /\ reader = "read" /\ held = None
    /\ stopped = FALSE /\ generation = 0
    /\ posted = 0 /\ asked = [p \in Packet |-> 0] /\ settled = [p \in Packet |-> "no"]
    /\ toTarget = <<>> /\ toDebugger = <<>>
    /\ \E sync \in BOOLEAN : target = Booted(sync, 0)
    /\ accepted = <<>> /\ delivered = <<>>
    /\ faults = 0 /\ resets = 0

\* One of the bounded faults happens.
Fault == faults < MaxFaults /\ faults' = faults + 1

ToTarget(m) == Len(toTarget) < MaxLine /\ toTarget' = Append(toTarget, m)
ToDebugger(m) == Len(toDebugger) < MaxLine /\ toDebugger' = Append(toDebugger, m)

-----------------------------------------------------------------------------
(* Callers: continue.                                                      *)

\* continueBuiltin reads the state and queues its packet.
Continue ==
    /\ stopped
    /\ posted < MaxPackets
    /\ posted' = posted + 1
    /\ asked' = [asked EXCEPT ![posted + 1] = generation]
    /\ outbound' = Append(outbound, posted + 1)
    /\ UNCHANGED <<writer, current, wire, reader, held, stopped, generation, settled,
                   toTarget, toDebugger, target, accepted, delivered, faults, resets>>

\* Mutant: any acknowledged continue clears the stop.
MarkContinued_Any(p) ==
    /\ settled[p] = "acknowledged"
    /\ settled' = [settled EXCEPT ![p] = "done"]
    /\ stopped' = FALSE
    /\ UNCHANGED <<outbound, writer, current, wire, reader, held, generation, posted,
                   asked, toTarget, toDebugger, target, accepted, delivered, faults, resets>>

\* markContinued, some time after the acknowledgement was passed on.
MarkContinued(p) ==
    /\ settled[p] = "acknowledged"
    /\ settled' = [settled EXCEPT ![p] = "done"]
    /\ stopped' = (stopped /\ generation # asked[p])
    /\ UNCHANGED <<outbound, writer, current, wire, reader, held, generation, posted,
                   asked, toTarget, toDebugger, target, accepted, delivered, faults, resets>>

-----------------------------------------------------------------------------
(* writeLoop and kdWire.sendData.                                          *)

\* The identifier is read and its acknowledgement awaited before the write.
Take ==
    /\ writer = "idle"
    /\ outbound # <<>>
    /\ outbound' = Tail(outbound)
    /\ current' = Data(Head(outbound), remoteID, FALSE)
    /\ ackWait' = [ackWait EXCEPT ![remoteID] = Head(outbound)]
    /\ writer' = "write"
    /\ UNCHANGED <<remoteID, localID, lastOutbound, ack, reader, held, stopped, generation,
                   caller, toTarget, toDebugger, target, accepted, delivered, faults, resets>>

\* The context of the caller is done when its turn comes.
Expire ==
    /\ writer = "idle"
    /\ outbound # <<>>
    /\ outbound' = Tail(outbound)
    /\ settled' = [settled EXCEPT ![Head(outbound)] = "failed"]
    /\ UNCHANGED <<writer, current, wire, reader, held, stopped, generation, posted, asked,
                   toTarget, toDebugger, target, accepted, delivered, faults, resets>>

Write ==
    /\ writer = "write"
    /\ ToTarget(current)
    /\ writer' = "store"
    /\ UNCHANGED <<outbound, current, wire, reader, held, stopped, generation, caller,
                   toDebugger, target, accepted, delivered, faults, resets>>

\* The packet to send again is stored after the write.
Store ==
    /\ writer = "store"
    /\ lastOutbound' = current
    /\ writer' = "await"
    /\ UNCHANGED <<outbound, current, remoteID, localID, ackWait, ack, reader, held, stopped,
                   generation, caller, toTarget, toDebugger, target, accepted, delivered,
                   faults, resets>>

\* A failed write ends the writer and withdraws the acknowledgement.
WriteFails ==
    /\ writer = "write"
    /\ Fault
    /\ ackWait' = [ackWait EXCEPT ![current.id] = None]
    /\ settled' = [settled EXCEPT ![current.body] = "failed"]
    /\ writer' = "exit" /\ current' = None
    /\ UNCHANGED <<outbound, remoteID, localID, lastOutbound, ack, reader, held, stopped,
                   generation, posted, asked, toTarget, toDebugger, target, accepted,
                   delivered, resets>>

\* The acknowledgement is passed on to the caller.
Await ==
    /\ writer = "await"
    /\ ack[current.body] # "none"
    /\ settled' = [settled EXCEPT ![current.body] =
                      IF ack[current.body] = "nil" THEN "acknowledged" ELSE "failed"]
    /\ current' = None
    /\ writer' = "idle"
    /\ UNCHANGED <<outbound, wire, reader, held, stopped, generation, posted, asked,
                   toTarget, toDebugger, target, accepted, delivered, faults, resets>>

\* A writer that waits when the reader is done fails its packet and ends.
AwaitDone ==
    /\ writer = "await"
    /\ reader = "done"
    /\ settled' = [settled EXCEPT ![current.body] = "failed"]
    /\ writer' = "exit" /\ current' = None
    /\ UNCHANGED <<outbound, wire, reader, held, stopped, generation, posted, asked,
                   toTarget, toDebugger, target, accepted, delivered, faults, resets>>

-----------------------------------------------------------------------------
(* readLoop.                                                               *)

Arrives(type) ==
    /\ reader = "read"
    /\ toDebugger # <<>> /\ Head(toDebugger).type = type
    /\ toDebugger' = Tail(toDebugger)

\* Mutant: an acknowledgement is counted for whatever packet waits.
HandleAck_AnyWaiter ==
    /\ Arrives("ack")
    /\ ack' = [p \in Packet |-> IF \E id \in 0..1 : ackWait[id] = p THEN "nil" ELSE ack[p]]
    /\ ackWait' = [id \in 0..1 |-> None]
    /\ remoteID' = IF Head(toDebugger).id = remoteID THEN Flip(remoteID) ELSE remoteID
    /\ UNCHANGED <<outbound, writer, current, localID, lastOutbound, reader, held, stopped,
                   generation, caller, toTarget, target, accepted, delivered, faults, resets>>

\* handleControl: the waiter is told and the identifier advances.
HandleAck ==
    /\ Arrives("ack")
    /\ LET id == Head(toDebugger).id IN
       /\ ack' = IF ackWait[id] = None THEN ack ELSE [ack EXCEPT ![ackWait[id]] = "nil"]
       /\ ackWait' = [ackWait EXCEPT ![id] = None]
       /\ remoteID' = IF id = remoteID THEN Flip(remoteID) ELSE remoteID
    /\ UNCHANGED <<outbound, writer, current, localID, lastOutbound, reader, held, stopped,
                   generation, caller, toTarget, target, accepted, delivered, faults, resets>>

\* handleControl: the stored packet is copied under the lock ...
HandleResend ==
    /\ Arrives("resend")
    /\ IF lastOutbound = None THEN UNCHANGED <<reader, held>>
       ELSE reader' = "resend" /\ held' = lastOutbound
    /\ UNCHANGED <<outbound, writer, current, wire, stopped, generation, caller, toTarget,
                   target, accepted, delivered, faults, resets>>

\* ... and written after it was released.
Resend ==
    /\ reader = "resend"
    /\ ToTarget(held)
    /\ reader' = "read" /\ held' = None
    /\ UNCHANGED <<outbound, writer, current, wire, stopped, generation, caller, toDebugger,
                   target, accepted, delivered, faults, resets>>

\* handleControl: identifiers start again, packets that wait for an
\* acknowledgement fail ...
HandleReset ==
    /\ Arrives("reset")
    /\ remoteID' = 0 /\ localID' = 0
    /\ ack' = [p \in Packet |-> IF \E id \in 0..1 : ackWait[id] = p THEN "reset" ELSE ack[p]]
    /\ ackWait' = [id \in 0..1 |-> None]
    /\ reader' = "reset"
    /\ UNCHANGED <<outbound, writer, current, lastOutbound, held, stopped, generation, caller,
                   toTarget, target, accepted, delivered, faults, resets>>

\* ... and then, in readLoop, the session runs.
ResetSession ==
    /\ reader = "reset"
    /\ stopped' = FALSE
    /\ generation' = generation + 1
    /\ reader' = "read"
    /\ UNCHANGED <<outbound, writer, current, wire, held, caller, toTarget, toDebugger, target,
                   accepted, delivered, faults, resets>>

\* A packet with the sync bit sets the identifier that is expected.
Expected(m) == IF m.sync THEN m.id ELSE localID

\* Mutant: a packet with either identifier is taken.
Accepts_Any(m) == TRUE

Accepts(m) == m.id = Expected(m)

\* validateAndAcknowledge: a damaged packet or an unknown identifier is asked
\* for again, a repeated one acknowledged, a new one acknowledged and kept.
HandleData ==
    LET m == Head(toDebugger)
        known == ~m.bad /\ m.id \in 0..1 IN
    /\ Arrives("data")
    /\ ToTarget(IF known THEN Control("ack", m.id) ELSE Control("resend", 0))
    /\ IF known /\ Accepts(m)
       THEN localID' = Flip(m.id) /\ reader' = "deliver" /\ held' = m
       ELSE UNCHANGED <<localID, reader, held>>
    /\ UNCHANGED <<outbound, writer, current, remoteID, lastOutbound, ackWait, ack, stopped,
                   generation, caller, target, accepted, delivered, faults, resets>>

\* handleData: the state change stops the session; what is left of its event
\* may still be malformed, which ends the reader.
Deliver ==
    /\ reader = "deliver"
    /\ stopped' = TRUE /\ generation' = generation + 1
    /\ delivered' = Append(delivered, held)
    /\ held' = None
    /\ \/ reader' = "read" /\ UNCHANGED faults
       \/ reader' = "done" /\ Fault
    /\ UNCHANGED <<outbound, writer, current, wire, caller, toTarget, toDebugger, target,
                   accepted, resets>>

\* The transport fails, or a state change is too short: the reader ends.
ReaderFails ==
    /\ reader # "done"
    /\ Fault
    /\ reader' = "done" /\ held' = None
    /\ UNCHANGED <<outbound, writer, current, wire, stopped, generation, caller, toTarget,
                   toDebugger, target, accepted, delivered, resets>>

-----------------------------------------------------------------------------
(* The target and the line (external).                                     *)

debugger == <<outbound, writer, current, wire, reader, held, stopped, generation, caller,
              delivered>>

TargetReceives ==
    LET m == Head(toTarget) IN
    /\ toTarget # <<>>
    /\ toTarget' = Tail(toTarget)
    /\ \/ /\ m.type = "data" /\ (m.bad \/ m.id \notin 0..1)
          /\ ToDebugger(Control("resend", 0))
          /\ UNCHANGED <<target, accepted>>
       \/ /\ m.type = "data" /\ ~m.bad /\ m.id = target.expected
          /\ target' = [target EXCEPT !.expected = Flip(@)]
          /\ accepted' = Append(accepted, m.body)
          /\ ToDebugger(Control("ack", m.id))
       \/ /\ m.type = "data" /\ ~m.bad /\ m.id = Flip(target.expected)
          /\ ToDebugger(Control("ack", m.id))
          /\ UNCHANGED <<target, accepted>>
       \/ /\ m.type = "ack" /\ target.inflight # 0 /\ m.id = target.next
          /\ target' = [target EXCEPT !.inflight = 0, !.next = Flip(@), !.sync = FALSE]
          /\ UNCHANGED <<toDebugger, accepted>>
       \/ /\ m.type = "ack" /\ ~(target.inflight # 0 /\ m.id = target.next)
          /\ UNCHANGED <<toDebugger, target, accepted>>
       \/ /\ m.type = "resend" /\ target.inflight # 0
          /\ ToDebugger(Data(target.inflight, target.next, target.sync))
          /\ UNCHANGED <<target, accepted>>
       \/ /\ m.type = "resend" /\ target.inflight = 0
          /\ UNCHANGED <<toDebugger, target, accepted>>
    /\ UNCHANGED <<debugger, faults, resets>>

TargetStops ==
    /\ target.inflight = 0
    /\ target.sent < MaxStops
    /\ target' = [target EXCEPT !.inflight = target.sent + 1, !.sent = @ + 1]
    /\ ToDebugger(Data(target.sent + 1, target.next, target.sync))
    /\ UNCHANGED <<debugger, toTarget, accepted, faults, resets>>

TargetRepeats ==
    /\ target.inflight # 0
    /\ ToDebugger(Data(target.inflight, target.next, target.sync))
    /\ UNCHANGED <<debugger, toTarget, target, accepted, faults, resets>>

\* What was on the way to the target is lost with its receive buffer.
TargetReboots ==
    /\ Fault
    /\ resets' = resets + 1
    /\ \E sync \in BOOLEAN : target' = Booted(sync, target.sent)
    /\ toTarget' = <<>>
    /\ ToDebugger(Control("reset", 0))
    /\ UNCHANGED <<debugger, accepted>>

Damaged(m) == {[m EXCEPT !.bad = TRUE], [m EXCEPT !.id = 2, !.sync = FALSE]}

LineDamages ==
    /\ Fault
    /\ \/ \E i \in 1..Len(toTarget) :
             /\ toTarget[i].type = "data"
             /\ \E m \in Damaged(toTarget[i]) : toTarget' = [toTarget EXCEPT ![i] = m]
             /\ UNCHANGED toDebugger
       \/ \E i \in 1..Len(toDebugger) :
             /\ toDebugger[i].type = "data"
             /\ \E m \in Damaged(toDebugger[i]) : toDebugger' = [toDebugger EXCEPT ![i] = m]
             /\ UNCHANGED toTarget
    /\ UNCHANGED <<debugger, target, accepted, resets>>

Next ==
    \/ Continue \/ (\E p \in Packet : MarkContinued(p))
    \/ Take \/ Expire \/ Write \/ WriteFails \/ Store \/ Await \/ AwaitDone
    \/ HandleAck \/ HandleResend \/ Resend \/ HandleReset \/ ResetSession
    \/ HandleData \/ Deliver \/ ReaderFails
    \/ TargetReceives \/ TargetStops \/ TargetRepeats \/ TargetReboots \/ LineDamages

Spec == Init /\ [][Next]_vars

-----------------------------------------------------------------------------
Increasing(s) == \A i, j \in 1..Len(s) : i < j => s[i] < s[j]

\* State changes reach the session in order and, but for a packet that carries
\* the sync bit, once, however packets are damaged, repeated, asked for again
\* or restarted by a reboot.  Until the target reboots, none that it takes for
\* acknowledged is lost: it has reached the session, the reader has it in
\* hand, or the reader has ended and says so to every caller.
StopsOnce ==
    /\ \A i, j \in 1..Len(delivered) : i < j =>
          \/ delivered[i].body < delivered[j].body
          \/ delivered[i].body = delivered[j].body /\ delivered[j].sync
    /\ resets = 0 =>
          \A n \in 1..target.sent \ {target.inflight} :
              \/ \E i \in 1..Len(delivered) : delivered[i].body = n
              \/ reader = "deliver" /\ held.body = n
              \/ reader = "done"

\* "The protocol does not advance its outbound packet ID until the target
\* acknowledges the previous packet": a packet whose caller was told that it
\* was acknowledged has been taken by the target.  It fails across a reboot:
\* see PacketsOnce.
AcknowledgedTaken ==
    \A p \in Packet : settled[p] \in {"acknowledged", "done"} =>
        \E i \in 1..Len(accepted) : accepted[i] = p

\* While the target does not reboot it takes no packet of the debugger twice
\* or out of order, a stale packet sent again included, and has taken every
\* packet whose caller was told that it was acknowledged.
PacketsOnce == resets = 0 => Increasing(accepted) /\ AcknowledgedTaken

\* A continue clears the stop it was asked for and never a newer one: while
\* the target's last state change has not been continued, the session says
\* stopped.
NewerStopKept ==
    generation > 0 /\ ~stopped /\ resets = 0 =>
        \E p \in Packet : settled[p] = "done" /\ asked[p] = generation

\* What a request to send again is answered with is the packet in flight.  A
\* request handled between Write and Store is not, and the property fails.
ResendsCurrent ==
    [][reader = "resend" /\ reader' = "read" /\ current # None => held = current]_vars

=============================================================================
