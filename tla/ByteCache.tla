------------------------------ MODULE ByteCache ------------------------------
(***************************************************************************)
(* The keyed byte cache (storage/cache): a size-bounded LRU whose misses   *)
(* load outside the lock, once for all callers that ask meanwhile.         *)
(*                                                                         *)
(* An entry is an object: a caller that waits for one still holds it after *)
(* the table has dropped it, when the same key may already have another.   *)
(* Entries that nothing refers to are reused, as the collector does.       *)
(* Counters are left out; the bytes of a key are the same at every load.   *)
(***************************************************************************)
EXTENDS Integers, Sequences, FiniteSets, SequencesExt

CONSTANTS
    Key, Proc,
    Entry,      \* entry objects: |Key| + |Proc| of them are enough
    Length,     \* bytes of the data of each key
    MaxBytes,   \* maxBytes
    None

ASSUME CacheAssumption ==
    /\ Length \in [Key -> Nat] /\ MaxBytes \in Nat
    /\ None \notin Entry \cup Key
    /\ IsFiniteSet(Key) /\ IsFiniteSet(Proc) /\ IsFiniteSet(Entry)
    /\ Cardinality(Entry) >= Cardinality(Key) + Cardinality(Proc)

VARIABLES
    table,   \* entries
    obj,     \* the entry objects: key, and the outcome of the load
    lru,     \* the list, most recently used first
    bytes,
    proc     \* callers: what they do, for which key, holding which entry

vars == <<table, obj, lru, bytes, proc>>

Blank == [key |-> None, state |-> "failed"]
Resting == [pc |-> "idle", key |-> None, entry |-> None]

TypeOK ==
    /\ table \in [Key -> {None} \cup Entry]
    /\ obj \in [Entry -> [key : {None} \cup Key, state : {"loading", "loaded", "failed"}]]
    /\ lru \in Seq(Entry)
    /\ bytes \in Nat
    /\ proc \in [Proc -> [pc : {"idle", "load", "wait"}, key : {None} \cup Key,
                          entry : {None} \cup Entry]]

Init ==
    /\ table = [k \in Key |-> None]
    /\ obj = [e \in Entry |-> Blank]
    /\ lru = <<>>
    /\ bytes = 0
    /\ proc = [p \in Proc |-> Resting]

Referenced(t, list, callers) ==
    {t[k] : k \in Key} \cup ToSet(list) \cup {callers[p].entry : p \in Proc}
Fresh == CHOOSE e \in Entry : e \notin Referenced(table, lru, proc)

\* What the collector leaves of the entries.
Collected(o, t, list, callers) ==
    [e \in Entry |-> IF e \in Referenced(t, list, callers) THEN o[e] ELSE Blank]

Size(e) == Length[obj[e].key]
Sum(s) == FoldSeq(LAMBDA e, sum : Size(e) + sum, 0, s)

-----------------------------------------------------------------------------
\* A resident or loading entry is joined: by Get, and by Lookup.
Join(p, k) ==
    /\ proc[p] = Resting
    /\ table[k] # None
    /\ proc' = [proc EXCEPT ![p] = [pc |-> "wait", key |-> k, entry |-> table[k]]]
    /\ UNCHANGED <<table, obj, lru, bytes>>

Miss(p, k) ==
    /\ proc[p] = Resting
    /\ table[k] = None
    /\ obj' = [obj EXCEPT ![Fresh] = [key |-> k, state |-> "loading"]]
    /\ table' = [table EXCEPT ![k] = Fresh]
    /\ proc' = [proc EXCEPT ![p] = [pc |-> "load", key |-> k, entry |-> Fresh]]
    /\ UNCHANGED <<lru, bytes>>

Get(p, k) == Join(p, k) \/ Miss(p, k)

Lookup(p, k) == Join(p, k)

\* Mutant: the entry is put in front whether it is still on the list or not.
MoveToFront_Revived(e) == <<e>> \o Remove(lru, e)

\* An evicted entry has no list element any more.
MoveToFront(e) == IF Contains(lru, e) THEN <<e>> \o Remove(lru, e) ELSE lru

\* The load this caller waited for is over.
Wake(p) ==
    /\ proc[p].pc = "wait"
    /\ obj[proc[p].entry].state # "loading"
    /\ lru' = MoveToFront(proc[p].entry)
    /\ proc' = [proc EXCEPT ![p] = Resting]
    /\ obj' = Collected(obj, table, lru', proc')
    /\ UNCHANGED <<table, bytes>>

\* Mutant: the ready channel is not closed.
LoadFails_Unsignalled(p) ==
    /\ proc[p].pc = "load"
    /\ table' = [table EXCEPT ![proc[p].key] = None]
    /\ proc' = [proc EXCEPT ![p] = Resting]
    /\ obj' = Collected(obj, table', lru, proc')
    /\ UNCHANGED <<lru, bytes>>

\* Callers that joined get the error; nobody after them does.
LoadFails(p) ==
    /\ proc[p].pc = "load"
    /\ table' = [table EXCEPT ![proc[p].key] = None]
    /\ proc' = [proc EXCEPT ![p] = Resting]
    /\ obj' = Collected([obj EXCEPT ![proc[p].entry].state = "failed"], table', lru, proc')
    /\ UNCHANGED <<lru, bytes>>

\* The loop that evicts from the back: the shortest suffix that makes room.
Surplus(list, total) ==
    LET suffix(n) == SubSeq(list, n, Len(list))
        enough(n) == total - Sum(suffix(n)) <= MaxBytes
    IN suffix(CHOOSE n \in 1..(Len(list) + 1) :
                /\ enough(n) \/ n = 1
                /\ \A m \in (n + 1)..(Len(list) + 1) : ~enough(m))

\* Data that can never fit is handed out but not kept.
Admitted(k) == Length[k] <= MaxBytes

Loaded(p) ==
    LET e == proc[p].entry
        k == proc[p].key
        list == IF Admitted(k) THEN <<e>> \o lru ELSE lru
        total == IF Admitted(k) THEN bytes + Length[k] ELSE bytes
        out == Surplus(list, total)
        gone == {obj[x].key : x \in ToSet(out)} \cup (IF Admitted(k) THEN {} ELSE {k})
    IN /\ proc[p].pc = "load"
       /\ lru' = SubSeq(list, 1, Len(list) - Len(out))
       /\ bytes' = total - Sum(out)
       /\ table' = [j \in Key |-> IF j \in gone THEN None ELSE table[j]]
       /\ proc' = [proc EXCEPT ![p] = Resting]
       /\ obj' = Collected([obj EXCEPT ![e].state = "loaded"], table', lru', proc')

Next ==
    \E p \in Proc :
        \/ \E k \in Key : Get(p, k) \/ Lookup(p, k)
        \/ Wake(p)
        \/ LoadFails(p)
        \/ Loaded(p)

\* Loads end, and callers that can run do.
Fairness ==
    \A p \in Proc : WF_vars(Wake(p)) /\ WF_vars(Loaded(p) \/ LoadFails(p))

Spec == Init /\ [][Next]_vars /\ Fairness

-----------------------------------------------------------------------------
(* Properties.                                                             *)

\* A key is loaded by one caller at a time, whatever is evicted or fails
\* meanwhile.
SingleFlight ==
    \A p, q \in Proc :
        proc[p].pc = "load" /\ proc[q].pc = "load" /\ p # q => proc[p].key # proc[q].key

\* The table finds an entry that is being loaded or is on the list, and the
\* list holds exactly the loaded entries of the table, each once: nothing is
\* kept that cannot be found, nothing is found that was dropped or failed.
TableMatchesList ==
    /\ \A k \in Key : table[k] # None =>
        /\ obj[table[k]].key = k
        /\ \/ Contains(lru, table[k]) /\ obj[table[k]].state = "loaded"
           \/ \E p \in Proc : proc[p] = [pc |-> "load", key |-> k, entry |-> table[k]]
    /\ \A i \in DOMAIN lru : table[obj[lru[i]].key] = lru[i]
    /\ IsInjective(lru)

\* The bytes accounted for are those of the list, and fit.
BytesExact == bytes = Sum(lru) /\ bytes <= MaxBytes

\* What Get and Lookup keep under the mutex fits together at every moment,
\* with loads under way, waiters of dropped entries and evictions of several
\* entries at once.
CacheConsistent == TypeOK /\ SingleFlight /\ TableMatchesList /\ BytesExact

\* A caller that joins a load is not given the error of one that had already
\* failed: errors are shared, never remembered.
ErrorsNotCached ==
    [][\A p \in Proc : proc[p].pc = "idle" /\ proc'[p].pc = "wait" =>
        obj[proc'[p].entry].state # "failed"]_vars

\* Every call returns once the loads it depends on have ended.
CallsReturn == \A p \in Proc : proc[p].pc # "idle" ~> proc[p].pc = "idle"

\* A call ends, and with an error only if the load it joined was still to fail.
CallsServed == ErrorsNotCached /\ CallsReturn

=============================================================================
