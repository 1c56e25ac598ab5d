----------------------------- MODULE NamedRoots -----------------------------
(***************************************************************************)
(* What the SCS repository promises about its named workspace roots,       *)
(* without records, buffers, indexes or handles: a history of root maps of *)
(* which a prefix is stable.  Each map differs from the one it follows in  *)
(* a single name; only maps that are not stable can be lost, newest first. *)
(***************************************************************************)
EXTENDS Naturals, Sequences

CONSTANTS Name, ID, None

VARIABLES
    history,  \* every root map that recovery may still find, oldest first
    stable    \* how many of them survive a power loss

vars == <<history, stable>>

Current == history[Len(history)]

Init ==
    /\ history = <<[n \in Name |-> None]>>
    /\ stable = 1

\* Publish or Drop writes the successor of the current map.
Change(n, v) ==
    /\ history' = Append(history, [Current EXCEPT ![n] = v])
    /\ UNCHANGED stable

\* A sync stabilises a prefix of the history, whole if it succeeds.
Stabilise ==
    /\ stable' \in stable..Len(history)
    /\ UNCHANGED history

\* A crash forgets the newest maps, never a stable one.
Forget ==
    \E k \in stable..Len(history) :
        /\ history' = SubSeq(history, 1, k)
        /\ stable' \in stable..k

Next ==
    \/ \E n \in Name, v \in {None} \cup ID : Change(n, v)
    \/ Stabilise
    \/ Forget

Spec == Init /\ [][Next]_vars
=============================================================================
