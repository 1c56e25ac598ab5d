---------------------------- MODULE MemoryChannel ---------------------------
(***************************************************************************)
(* The bounded in-memory duplex stream of channel/memory.go: two ends with *)
(* one buffer each, whose operations never block.  Who wants to wait asks  *)
(* for a notification first, tries, and then waits for the notification.   *)
(*                                                                         *)
(* changed[s] is the set of waiters that hold the current notification of  *)
(* end s: notifyLocked closes it, which frees them all, and makes another  *)
(* that nobody holds.                                                      *)
(***************************************************************************)
EXTENDS Naturals, Sequences

CONSTANT Maximum   \* capacity of each buffer

ASSUME MaximumAssumption == Maximum \in Nat \ {0}

VARIABLES data, closedEnd, changed, saved

memory == <<data, closedEnd, changed, saved>>

Side == 0..1
Peer(s) == 1 - s
NoCheckpoint == <<>>

MemoryInit ==
    /\ data = [s \in Side |-> <<>>]
    /\ closedEnd = [s \in Side |-> FALSE]
    /\ changed = [s \in Side |-> {}]
    /\ saved = NoCheckpoint

Closed(s) == closedEnd[s] \/ closedEnd[Peer(s)]

notify(sides) == changed' = [s \in Side |-> IF s \in sides THEN {} ELSE changed[s]]

\* ReadReady: p gets a notification that is ready, or the current one.
ReadReady(p, s) ==
    /\ changed' = IF data[s] # <<>> \/ Closed(s) THEN changed
                  ELSE [changed EXCEPT ![s] = @ \cup {p}]
    /\ UNCHANGED <<data, closedEnd, saved>>

\* WriteCapacity on an open stream; the notification is that of the peer.
Capacity(s) == Maximum - Len(data[Peer(s)])

WriteCapacity(p, s) ==
    /\ changed' = [changed EXCEPT ![Peer(s)] = @ \cup {p}]
    /\ UNCHANGED <<data, closedEnd, saved>>

ReadFails(s) == closedEnd[s] \/ (data[s] = <<>> /\ closedEnd[Peer(s)])
ReadBlocks(s) == ~ReadFails(s) /\ data[s] = <<>>

\* Read of the first n bytes.
Read(s, n) ==
    /\ data' = [data EXCEPT ![s] = SubSeq(@, n + 1, Len(@))]
    /\ notify({s})
    /\ UNCHANGED <<closedEnd, saved>>

\* Write takes all bytes or none.
Write(s, bytes) ==
    /\ data' = [data EXCEPT ![Peer(s)] = @ \o bytes]
    /\ IF bytes # <<>> THEN notify({Peer(s)}) ELSE UNCHANGED changed
    /\ UNCHANGED <<closedEnd, saved>>

CloseEnd(s) ==
    /\ closedEnd' = [closedEnd EXCEPT ![s] = TRUE]
    /\ IF closedEnd[s] THEN UNCHANGED changed ELSE notify(Side)
    /\ UNCHANGED <<data, saved>>

CaptureCheckpoint ==
    /\ saved' = <<data, closedEnd>>
    /\ UNCHANGED <<data, closedEnd, changed>>

\* Mutant: nobody is told that the stream was restored.
Restore_Silent ==
    /\ saved # NoCheckpoint
    /\ data' = saved[1] /\ closedEnd' = saved[2]
    /\ UNCHANGED <<changed, saved>>

Restore ==
    /\ saved # NoCheckpoint
    /\ data' = saved[1] /\ closedEnd' = saved[2]
    /\ notify(Side)
    /\ UNCHANGED saved

=============================================================================
