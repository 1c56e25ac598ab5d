------------------------------ MODULE GitImport -----------------------------
(***************************************************************************)
(* The parallel import of a Git pack (scs/git/parallel.go).  A scanner     *)
(* sends batches of object headers, workers store one object at a time in  *)
(* the repository, and the coordinator gives a delta to a worker as soon   *)
(* as its base is stored.  A delta names its base by an earlier offset of  *)
(* the pack or by the identifier of an object of the pack, before or after *)
(* it, or of the repository; an offset may be that of no earlier entry.    *)
(*                                                                         *)
(* A pack is any assignment of kinds, bases and identifiers to entries;    *)
(* two entries may be the same object.  Reading, storing and the caller's  *)
(* context may fail at any time.                                           *)
(***************************************************************************)
EXTENDS Naturals, Sequences, FiniteSets

CONSTANTS
    Count,      \* bound: objects in the pack
    Batch,      \* headers in a batch
    Worker,
    Stored,     \* identifiers already in the repository
    FailCount   \* bound: objects in a pack for which reads, stores and the context may fail

ASSUME GitAssumption ==
    /\ {Count, Batch} \subseteq Nat \ {0}
    /\ IsFiniteSet(Worker) /\ Worker # {}
    /\ FailCount \in Nat

VARIABLES
    count, kind, base, oid,    \* the pack
    scanner, position, scans,  \* the scanner, headers it read, batches sent
    scanned, scanDone,         \* headers the coordinator has seen
    done, child, waiting,      \* dependency records
    ready, roots,              \* runnable deltas, other objects
    worker, results,           \* job of each worker, finished jobs
    repository, ingested,      \* identifiers stored, times each entry was
    coordinator, cancelled

pack == <<count, kind, base, oid>>
scan == <<scanner, position>>
records == <<done, child, waiting, ready, roots>>
vars == <<count, kind, base, oid, scanner, position, scans, scanned, scanDone, done, child, waiting,
          ready, roots, worker, results, repository, ingested, coordinator, cancelled>>

Entry == 1..count
OID == Entry \cup Stored \cup {0}   \* 0 is in neither
Idle == 0
Gone == Count + 1
Failures == count <= FailCount

\* An identifier is the first entry that has it; 0 stands for all that nobody has.
Init ==
    /\ count \in 1..Count
    /\ kind \in [Entry -> {"object", "ofs", "ref"}]
    /\ oid \in {o \in [Entry -> Entry] : \A i \in Entry : o[i] <= i /\ o[o[i]] = o[i]}
    /\ base \in [Entry -> OID]
    /\ \A i \in Entry :
          /\ kind[i] = "object" => base[i] = 0
          /\ kind[i] = "ofs" => base[i] \in 0..(i - 1)
          /\ kind[i] = "ref" => base[i] \in {oid[j] : j \in Entry} \cup Stored \cup {0}
    /\ scanner = "read" /\ position = 0 /\ scans = <<>>
    /\ scanned = 0 /\ scanDone = FALSE
    /\ done = {} /\ child = [i \in Entry |-> {}] /\ waiting = [o \in OID |-> {}]
    /\ ready = {} /\ roots = {}
    /\ worker = [w \in Worker |-> Idle] /\ results = {}
    /\ repository = Stored /\ ingested = [i \in Entry |-> 0]
    /\ coordinator = "loop" /\ cancelled = FALSE

-----------------------------------------------------------------------------
(* The scanner.                                                            *)

\* A full batch, or the rest of the headers, is sent when the channel has room.
SendBatch ==
    /\ scanner = "read"
    /\ position < count
    /\ Len(scans) < 2
    /\ LET last == IF position + Batch < count THEN position + Batch ELSE count IN
       /\ scans' = Append(scans, [last |-> last, done |-> FALSE, err |-> FALSE])
       /\ position' = last
    /\ UNCHANGED <<pack, scanner, scanned, scanDone, records, worker, results, repository,
                   ingested, coordinator, cancelled>>

\* The checksum, or an error at any header, ends the scan.
SendLast ==
    /\ scanner = "read"
    /\ Len(scans) < 2
    /\ \E err \in BOOLEAN :
          /\ err => Failures
          /\ err \/ position = count
          /\ scans' = Append(scans, [last |-> position, done |-> TRUE, err |-> err])
    /\ scanner' = "end"
    /\ UNCHANGED <<pack, position, scanned, scanDone, records, worker, results, repository,
                   ingested, coordinator, cancelled>>

\* Mutant: the scanner waits for room in the channel whatever happens.
ScannerCancelled_Deaf ==
    /\ scanner = "read"
    /\ cancelled
    /\ Len(scans) < 2
    /\ scanner' = "end"
    /\ UNCHANGED <<pack, position, scans, scanned, scanDone, records, worker, results,
                   repository, ingested, coordinator, cancelled>>

ScannerCancelled ==
    /\ scanner = "read"
    /\ cancelled
    /\ scanner' = "end"
    /\ UNCHANGED <<pack, position, scans, scanned, scanDone, records, worker, results,
                   repository, ingested, coordinator, cancelled>>

-----------------------------------------------------------------------------
(* Workers.                                                                *)

BaseOID(i) == IF kind[i] = "ofs" THEN oid[base[i]] ELSE base[i]

\* ingestJob: the object is stored when its base is found; its result is sent
\* when the channel has room, which it has for one result of every worker.
Ingest(w) ==
    /\ worker[w] \in Entry
    /\ LET i == worker[w] IN
       \/ /\ kind[i] = "object" \/ BaseOID(i) \in repository
          /\ repository' = repository \cup {oid[i]}
          /\ ingested' = [ingested EXCEPT ![i] = @ + 1]
          /\ results' = results \cup {[index |-> i, err |-> FALSE]}
          /\ worker' = [worker EXCEPT ![w] = Idle]
       \/ /\ Failures \/ (kind[i] # "object" /\ BaseOID(i) \notin repository)
          /\ results' = results \cup {[index |-> i, err |-> TRUE]}
          /\ worker' = [worker EXCEPT ![w] = Gone]
          /\ UNCHANGED <<repository, ingested>>
    /\ UNCHANGED <<pack, scan, scans, scanned, scanDone, records, coordinator, cancelled>>

WorkerCancelled(w) ==
    /\ worker[w] # Gone
    /\ cancelled
    /\ worker' = [worker EXCEPT ![w] = Gone]
    /\ UNCHANGED <<pack, scan, scans, scanned, scanDone, records, results, repository, ingested,
                   coordinator, cancelled>>

-----------------------------------------------------------------------------
(* The coordinator.                                                        *)

inserted == Cardinality(done)
active == Cardinality({w \in Worker : worker[w] \in Entry}) + Cardinality(results)
Finished == scanDone /\ inserted = count
Runnable == IF ready # {} THEN ready ELSE roots
Schedulable == active < Cardinality(Worker) /\ Runnable # {}
Stuck == scanDone /\ active = 0 /\ ~Schedulable

Select == coordinator = "loop" /\ ~cancelled /\ ~Finished /\ ~Stuck

\* importParallel returns: with everything stored, because nothing is left to
\* schedule, or because its context is done.  Returning cancels the others.
Return ==
    /\ coordinator = "loop"
    /\ coordinator' = CASE Finished -> "ok" [] cancelled -> "error" [] Stuck -> "missing"
                        [] OTHER -> "loop"
    /\ coordinator' # "loop"
    /\ cancelled' = TRUE
    /\ UNCHANGED <<pack, scan, scans, scanned, scanDone, records, worker, results, repository,
                   ingested>>

\* GitObjectHeader.
Present(o) == o \in repository

\* The headers of a batch that end the import: no entry starts at the offset.
Refused(new) == \E i \in new : kind[i] = "ofs" /\ base[i] = 0

\* The entries of a batch are filed: runnable, or waiting for a base.
Receive ==
    /\ Select
    /\ scans # <<>>
    /\ scans' = Tail(scans)
    /\ LET b == Head(scans)
           new == (scanned + 1)..b.last
           ofs == {i \in new : kind[i] = "ofs"}
           ref == {i \in new : kind[i] = "ref"} IN
       IF b.err \/ Refused(new) \/ (b.done /\ b.last # count)
       THEN /\ coordinator' = "error" /\ cancelled' = TRUE
            /\ UNCHANGED <<scanned, scanDone, records>>
       ELSE /\ scanned' = b.last
            /\ scanDone' = (scanDone \/ b.done)
            /\ roots' = roots \cup {i \in new : kind[i] = "object"}
            /\ ready' = ready \cup {i \in ofs : base[i] \in done} \cup {i \in ref : Present(base[i])}
            /\ child' = [p \in Entry |-> child[p] \cup {i \in ofs : base[i] = p /\ p \notin done}]
            /\ waiting' = [o \in OID |-> waiting[o] \cup {i \in ref : base[i] = o /\ ~Present(o)}]
            /\ UNCHANGED <<done, coordinator, cancelled>>
    /\ UNCHANGED <<pack, scan, worker, results, repository, ingested>>

Send(w) ==
    /\ Select
    /\ Schedulable
    /\ worker[w] = Idle
    /\ \E i \in Runnable :
          /\ worker' = [worker EXCEPT ![w] = i]
          /\ ready' = ready \ {i}
          /\ roots' = IF ready = {} THEN roots \ {i} ELSE roots
    /\ UNCHANGED <<pack, scan, scans, scanned, scanDone, done, child, waiting, results,
                   repository, ingested, coordinator, cancelled>>

\* Mutant: waiters stay filed under the identifier.
Forget_Kept(o) == UNCHANGED waiting

\* delete(waiting, result.oid).
Forget(o) == waiting' = [waiting EXCEPT ![o] = {}]

\* A result releases the deltas that wait for its entry or its identifier;
\* accounting for its links may fail.
Result ==
    /\ Select
    /\ \E r \in results :
          /\ results' = results \ {r}
          /\ \/ /\ r.err \/ Failures
                /\ coordinator' = "error" /\ cancelled' = TRUE
                /\ UNCHANGED <<done, ready, waiting>>
             \/ /\ ~r.err
                /\ done' = done \cup {r.index}
                /\ ready' = ready \cup child[r.index] \cup waiting[oid[r.index]]
                /\ Forget(oid[r.index])
                /\ UNCHANGED <<coordinator, cancelled>>
    /\ UNCHANGED <<pack, scan, scans, scanned, scanDone, child, roots, worker, repository, ingested>>

\* The caller's context is done.
Cancel ==
    /\ Failures
    /\ coordinator = "loop"
    /\ ~cancelled
    /\ cancelled' = TRUE
    /\ UNCHANGED <<pack, scan, scans, scanned, scanDone, records, worker, results, repository,
                   ingested, coordinator>>

Joined == coordinator # "loop" /\ scanner = "end" /\ \A w \in Worker : worker[w] = Gone

Next ==
    \/ SendBatch \/ SendLast \/ ScannerCancelled
    \/ \E w \in Worker : Ingest(w) \/ WorkerCancelled(w) \/ Send(w)
    \/ Return \/ Receive \/ Result \/ Cancel

Spec == Init /\ [][Next]_vars

\* Every goroutine goes on while it can.
Fairness ==
    /\ WF_vars(SendBatch \/ SendLast) /\ WF_vars(ScannerCancelled)
    /\ \A w \in Worker : WF_vars(Ingest(w) \/ WorkerCancelled(w))
    /\ WF_vars(Return \/ Receive \/ Result \/ \E w \in Worker : Send(w))

LiveSpec == Spec /\ Fairness

-----------------------------------------------------------------------------
\* Some deltas of the pack can never be resolved: each needs an object that is
\* not in the repository and that only others of them could provide.
Unresolvable ==
    \E S \in SUBSET Entry \ {{}} :
        \A i \in S :
            /\ kind[i] # "object"
            /\ kind[i] = "ofs" => base[i] \in S
            /\ kind[i] = "ref" => /\ base[i] \notin Stored
                                  /\ \A j \in Entry : oid[j] = base[i] => j \in S

\* The import reports missing bases only for a pack that lacks some, and
\* succeeds only when every entry was stored exactly once.
ImportExact ==
    /\ coordinator = "missing" => Unresolvable
    /\ coordinator = "ok" => \A i \in Entry : ingested[i] = 1

\* A delta reaches a worker only after its base is stored, and no entry
\* reaches two: the coordinator may see an object in the repository before or
\* after it sees the result of the worker that stored it.
ScheduledOnceReady ==
    /\ \A i \in Entry : ingested[i] <= 1
    /\ \A w \in Worker : worker[w] \in Entry =>
          LET i == worker[w] IN
          /\ ingested[i] = 0
          /\ kind[i] = "object" \/ BaseOID(i) \in repository
          /\ \A v \in Worker \ {w} : worker[v] # i

\* Whatever order the pack has and the workers finish in, every entry is
\* stored once, after its base, and the outcome says so.
EntriesStored == ImportExact /\ ScheduledOnceReady

\* The import returns with all its goroutines joined.
ImportReturns == <>[]Joined

=============================================================================
