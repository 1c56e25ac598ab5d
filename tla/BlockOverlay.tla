---------------------------- MODULE BlockOverlay ----------------------------
(***************************************************************************)
(* The copy-on-write block overlay (block/star/overlay.go): chunks of      *)
(* written data in memory over a read-only base, snapshots that share      *)
(* their buffers, leases that keep it writable and the commit that seals   *)
(* it.  Every method holds the overlay's mutex, so it is one action.       *)
(*                                                                         *)
(* A chunk holds a reference to its buffer: whether a write changes what a *)
(* snapshot sees depends on which buffer it fills.  A buffer holds the     *)
(* bytes of the positions of its chunk; `heap` has every buffer that is    *)
(* still referenced.  Operation counters and the trace of recent           *)
(* operations are left out.  A read of the base that fails makes an update *)
(* return before it has changed anything, a step that is not seen here.    *)
(***************************************************************************)
EXTENDS Integers, Sequences, FiniteSets, Functions

CONSTANTS
    Size,          \* bytes of the device
    ChunkSizes,    \* the chunk sizes an overlay may be made with
    MaxDirty,      \* maxDirty
    Byte, Zero,    \* what a position holds; the value ZeroAt stores
    Buffer,        \* identities of chunk buffers, enough for all references
    Holder,        \* one per call of Acquire
    Free,          \* no contents
    BaseImage,     \* what the base may hold
    MaxSnapshots,  \* bound: snapshots taken, by chunk size
    MaxLeases      \* bound: calls of Acquire, by chunk size

ASSUME OverlayAssumption ==
    /\ Size \in Nat \ {0} /\ {MaxSnapshots, MaxLeases} \subseteq [ChunkSizes -> Nat]
    /\ MaxDirty \in Nat /\ ChunkSizes \subseteq 1..MaxDirty
    /\ IsFiniteSet(Buffer) /\ IsFiniteSet(Holder)
    /\ \A c \in ChunkSizes : Cardinality(Buffer) >= Size * (MaxSnapshots[c] + 2)
    /\ Zero \in Byte /\ BaseImage \subseteq [0..(Size - 1) -> Byte]

VARIABLES
    chunkSize,     \* bytes of a chunk; the last one may be shorter
    base, heap, chunks, dirtyBytes, generation, cowBytes,
    snapshots, sealed, leases, lease

made == <<chunkSize, base>>
vars == <<chunkSize, base, heap, chunks, dirtyBytes, generation, cowBytes,
          snapshots, sealed, leases, lease>>

Position == 0..(Size - 1)
ChunkOf(p) == p \div chunkSize
Index == {ChunkOf(p) : p \in Position}

\* The positions of chunk i; chunkLength is their number.
Span(i) == {p \in Position : ChunkOf(p) = i}
Bytes(I) == Cardinality({p \in Position : ChunkOf(p) \in I})

TypeOK ==
    /\ chunkSize \in ChunkSizes
    /\ base \in [Position -> Byte]
    /\ DOMAIN chunks \subseteq Index
    /\ \A i \in DOMAIN chunks :
        /\ chunks[i].buffer \in Buffer
        /\ chunks[i].generation \in 1..generation
        /\ heap[chunks[i].buffer] \in [Span(i) -> Byte]
    /\ DOMAIN heap = Buffer
    /\ dirtyBytes \in Nat /\ generation \in Nat /\ cowBytes \in Nat
    /\ Len(snapshots) = generation - 1
    /\ \A k \in 1..Len(snapshots) :
        /\ DOMAIN snapshots[k] \subseteq Index
        /\ \A i \in DOMAIN snapshots[k] : heap[snapshots[k][i]] \in [Span(i) -> Byte]
    /\ sealed \in BOOLEAN
    /\ leases \in Nat
    /\ lease \in [Holder -> {"none", "held", "released"}]

Init ==
    /\ chunkSize \in ChunkSizes
    /\ base \in BaseImage
    /\ heap = [b \in Buffer |-> Free]
    /\ chunks = <<>>
    /\ dirtyBytes = 0
    /\ generation = 1
    /\ cowBytes = 0
    /\ snapshots = <<>>
    /\ sealed = FALSE
    /\ leases = 0
    /\ lease = [h \in Holder |-> "none"]

\* ReadAt, and ReadAt of a snapshot: the chunk's bytes, else the base's.
Read(chs, bufs, p) ==
    IF ChunkOf(p) \in DOMAIN chs THEN bufs[chs[ChunkOf(p)].buffer][p] ELSE base[p]

Content == [p \in Position |-> Read(chunks, heap, p)]

SnapshotContent(s) ==
    [p \in Position |->
        IF ChunkOf(p) \in DOMAIN s THEN heap[s[ChunkOf(p)]][p] ELSE base[p]]

-----------------------------------------------------------------------------
(* updateLocked: the chunks of a range are staged, then installed.         *)

Touched(range) == {ChunkOf(p) : p \in range}

Candidate(i, range, data) ==
    [p \in Span(i) |-> IF p \in range THEN data[p] ELSE Read(chunks, heap, p)]

\* Mutant: only the bytes written are compared.
IsBase_Partial(i, range, data) ==
    \A p \in Span(i) \cap range : data[p] = base[p]

\* A new chunk, and one that is rewritten whole, is compared with the base.
IsBase(i, range, data) ==
    /\ i \notin DOMAIN chunks \/ Span(i) \subseteq range
    /\ LET c == Candidate(i, range, data) IN \A p \in Span(i) : c[p] = base[p]

NewDirty(kept, dropped) ==
    dirtyBytes + Bytes(kept \ DOMAIN chunks) - Bytes(dropped \cap DOMAIN chunks)

\* The buffers that the chunks and the snapshots still refer to.
Referenced(chs, snaps) ==
    {chs[i].buffer : i \in DOMAIN chs}
    \cup UNION {Range(snaps[k]) : k \in DOMAIN snaps}

\* Buffers nobody refers to, one for each staged chunk.
Fresh(kept) ==
    LET free == Buffer \ Referenced(chunks, snapshots) IN
    CHOOSE new \in [kept -> free] : IsInjective(new)

\* Mutant: a chunk that is there already is written in place.
Allocated_InPlace(kept) ==
    [i \in kept |-> IF i \in DOMAIN chunks THEN chunks[i].buffer ELSE Fresh(kept)[i]]

\* A fresh buffer for every staged chunk.
Allocated(kept) == Fresh(kept)

\* Mutant: the generation of a rewritten chunk is kept.
Stamp_Kept(i) == IF i \in DOMAIN chunks THEN chunks[i].generation ELSE generation

Stamp(i) == generation

Cloned(kept) == {i \in kept \cap DOMAIN chunks : chunks[i].generation # generation}

\* The chunks, buffers and dirty bytes there will be.
Staged(range, data) ==
    LET dropped == {i \in Touched(range) : IsBase(i, range, data)}
        kept == Touched(range) \ dropped
        new == Allocated(kept)
        chs == [i \in (DOMAIN chunks \cup kept) \ dropped |->
                    IF i \in kept
                    THEN [buffer |-> new[i], generation |-> Stamp(i)]
                    ELSE chunks[i]]
        alive == Referenced(chs, snapshots)
    IN [chunks |-> chs,
        heap |-> [b \in Buffer |->
                    IF \E i \in kept : new[i] = b
                    THEN Candidate(CHOOSE i \in kept : new[i] = b, range, data)
                    ELSE IF b \in alive THEN heap[b] ELSE Free],
        dirty |-> NewDirty(kept, dropped),
        cloned |-> Bytes(Cloned(kept))]

Update(range, data) ==
    LET s == Staged(range, data) IN
    /\ s.dirty <= MaxDirty
    /\ chunks' = s.chunks
    /\ heap' = s.heap
    /\ dirtyBytes' = s.dirty
    /\ cowBytes' = cowBytes + s.cloned
    /\ UNCHANGED <<made, generation, snapshots, sealed, leases, lease>>

WriteAt(first, last, data) ==
    /\ ~sealed
    /\ Update(first..last, data)

ZeroAt(first, last) ==
    /\ ~sealed
    /\ Update(first..last, [p \in first..last |-> Zero])

-----------------------------------------------------------------------------
(* Snapshots, leases and the commit.                                       *)

\* The snapshot takes the references; the next write of a chunk is a copy.
Snapshot ==
    /\ ~sealed
    /\ Len(snapshots) < MaxSnapshots[chunkSize]
    /\ snapshots' = Append(snapshots, [i \in DOMAIN chunks |-> chunks[i].buffer])
    /\ generation' = generation + 1
    /\ UNCHANGED <<made, heap, chunks, dirtyBytes, cowBytes, sealed, leases, lease>>

Acquire(h) ==
    /\ ~sealed
    /\ lease[h] = "none"
    /\ Cardinality({g \in Holder : lease[g] # "none"}) < MaxLeases[chunkSize]
    /\ leases' = leases + 1
    /\ lease' = [lease EXCEPT ![h] = "held"]
    /\ UNCHANGED <<made, heap, chunks, dirtyBytes, generation, cowBytes,
                   snapshots, sealed>>

\* Mutant: calling the release function twice gives the lease back twice.
Release_Repeated(h) ==
    /\ lease[h] # "none"
    /\ leases > 0
    /\ leases' = leases - 1
    /\ lease' = [lease EXCEPT ![h] = "released"]
    /\ UNCHANGED <<made, heap, chunks, dirtyBytes, generation, cowBytes,
                   snapshots, sealed>>

\* The release function: only its first call counts.
Release(h) ==
    /\ lease[h] = "held"
    /\ leases' = leases - 1
    /\ lease' = [lease EXCEPT ![h] = "released"]
    /\ UNCHANGED <<made, heap, chunks, dirtyBytes, generation, cowBytes,
                   snapshots, sealed>>

Commit ==
    /\ leases = 0
    /\ sealed' = TRUE
    /\ UNCHANGED <<made, heap, chunks, dirtyBytes, generation, cowBytes,
                   snapshots, leases, lease>>

Next ==
    \/ \E first, last \in Position :
        /\ first <= last
        /\ \/ \E data \in [first..last -> Byte] : WriteAt(first, last, data)
           \/ ZeroAt(first, last)
    \/ Snapshot
    \/ \E h \in Holder : Acquire(h) \/ Release(h)
    \/ Commit

Spec == Init /\ [][Next]_vars

-----------------------------------------------------------------------------
(* Properties.                                                             *)

\* The capacity is charged for exactly the chunks in memory, through growth,
\* chunks given back to the base and refused writes, and never exceeded.
DirtyExact ==
    dirtyBytes = Bytes(DOMAIN chunks) /\ dirtyBytes <= MaxDirty

\* A chunk's generation is the current one exactly when no snapshot shares
\* its buffer: copy_on_write_bytes counts real copies.
SharingTracked ==
    \A i \in DOMAIN chunks :
        chunks[i].generation # generation <=>
            \E k \in DOMAIN snapshots : chunks[i].buffer \in Range(snapshots[k])

\* A chunk that a snapshot took is copied at most once for it.
CopiedOnce ==
    cowBytes <= Cardinality({c \in (DOMAIN snapshots) \X Position :
                                ChunkOf(c[2]) \in DOMAIN snapshots[c[1]]})

\* What updateLocked accounts for follows from the chunks and snapshots there
\* are: dirty bytes, sharing by generation, and copies.
AccountsExact == TypeOK /\ DirtyExact /\ SharingTracked /\ CopiedOnce

\* An overlay that somebody leases is writable: Commit waits for every lease
\* and no lease is granted afterwards.
LeasedIsWritable ==
    sealed => \A h \in Holder : lease[h] # "held"

Abstract == INSTANCE FlatDisk WITH
    disk <- Content,
    frozen <- [k \in DOMAIN snapshots |-> SnapshotContent(snapshots[k])]

\* The overlay is a disk with immutable snapshots and a seal.
ImplementsFlatDisk == Abstract!Spec

\* A write that succeeds has the effect of the same write to a flat disk:
\* all its bytes and no others, however chunks are shared, dropped or split.
WritesExact ==
    ~sealed => \A first \in Position : \A last \in first..(Size - 1) :
        \A data \in [first..last -> Byte] :
            LET s == Staged(first..last, data) IN
            s.dirty <= MaxDirty =>
                \A p \in Position :
                    Read(s.chunks, s.heap, p) =
                        IF p \in first..last THEN data[p] ELSE Read(chunks, heap, p)
=============================================================================
