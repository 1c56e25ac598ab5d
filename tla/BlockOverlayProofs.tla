------------------------- MODULE BlockOverlayProofs -------------------------
(***************************************************************************)
(* The overlay of BlockOverlay is a flat disk with immutable snapshots,    *)
(* accounts for its memory exactly and is writable while it is leased: for *)
(* any device, chunk sizes, capacity and numbers of snapshots and leases.  *)
(***************************************************************************)
EXTENDS BlockOverlay, TLAPS

\* What a snapshot may be: buffers of some chunks.
Shared == UNION {[D -> Buffer] : D \in SUBSET Index}

Types ==
    /\ chunkSize \in ChunkSizes /\ base \in [Position -> Byte]
    /\ DOMAIN chunks \subseteq Index
    /\ \A i \in DOMAIN chunks :
        chunks[i].buffer \in Buffer /\ chunks[i].generation \in 1..generation
    /\ DOMAIN heap = Buffer
    /\ generation \in Nat /\ cowBytes \in Nat
    /\ snapshots \in Seq(Shared) /\ Len(snapshots) = generation - 1
    /\ Len(snapshots) <= MaxSnapshots[chunkSize]
    /\ sealed \in BOOLEAN
    /\ lease \in [Holder -> {"none", "held", "released"}]

\* Every buffer that is referred to holds the bytes of its chunk.
Filled ==
    /\ \A i \in DOMAIN chunks : heap[chunks[i].buffer] \in [Span(i) -> Byte]
    /\ \A k \in DOMAIN snapshots : \A i \in DOMAIN snapshots[k] :
        heap[snapshots[k][i]] \in [Span(i) -> Byte]

\* The leases counted are the ones held, and none is when it is sealed.
Held == {h \in Holder : lease[h] = "held"}
Leasing == leases = Cardinality(Held) /\ (sealed => leases = 0)

\* Chunks that a snapshot shares, and the bytes in snapshots: the bytes that
\* may still be copied were not counted yet.
Stale == {i \in DOMAIN chunks : chunks[i].generation # generation}
Pairs ==
    {c \in (DOMAIN snapshots) \X Position : ChunkOf(c[2]) \in DOMAIN snapshots[c[1]]}
Copies == cowBytes + Bytes(Stale) <= Cardinality(Pairs)

Invariant == Types /\ Filled /\ Leasing /\ DirtyExact /\ SharingTracked /\ Copies

\* There are buffers for any chunks staged.
Room ==
    \A K \in SUBSET Index :
        \E new \in [K -> Buffer \ Referenced(chunks, snapshots)] : IsInjective(new)

\* What the steps use about numbers of bytes and of holders.
Measure ==
    /\ Bytes({}) = 0 /\ \A I : Bytes(I) \in Nat
    /\ \A I, J, K : I \cap J = {} /\ K = I \cup J => Bytes(K) = Bytes(I) + Bytes(J)

Counts ==
    /\ Cardinality({}) = 0
    /\ \A S \in SUBSET Holder :
        /\ Cardinality(S) \in Nat /\ (Cardinality(S) = 0 => S = {})
        /\ \A h \in Holder \ S : Cardinality(S \cup {h}) = Cardinality(S) + 1

-----------------------------------------------------------------------------
(* Chunks and steps.                                                       *)

\* Positions and chunks.
LEMMA ChunkFacts ==
    /\ \A p \in Position : ChunkOf(p) \in Index /\ p \in Span(ChunkOf(p))
    /\ \A i : \A p \in Span(i) : p \in Position /\ ChunkOf(p) = i
BY DEF Index, Span

\* The size of the chunks is fixed.
LEMMA Fixed ==
    ASSUME chunkSize' = chunkSize
    PROVE  /\ Index' = Index /\ Shared' = Shared
           /\ \A p : ChunkOf(p)' = ChunkOf(p)
           /\ \A i : Span(i)' = Span(i)
           /\ \A I : Bytes(I)' = Bytes(I)
BY DEF Index, Shared, ChunkOf, Span, Bytes

\* The operations: WriteAt and ZeroAt update a range of positions.
LEMMA Steps ==
    ASSUME [Next]_vars
    PROVE  \/ \E range \in SUBSET Position : \E data \in [range -> Byte] :
                ~sealed /\ Update(range, data)
           \/ Snapshot
           \/ \E h \in Holder : Acquire(h) \/ Release(h)
           \/ Commit
           \/ UNCHANGED vars
<1>1. ASSUME NEW first \in Position, NEW last \in Position
      PROVE  first..last \in SUBSET Position
  BY OverlayAssumption DEF Position
<1>2. ASSUME NEW first \in Position, NEW last \in Position, NEW data \in [first..last -> Byte],
             WriteAt(first, last, data)
      PROVE  \E range \in SUBSET Position : \E d \in [range -> Byte] : ~sealed /\ Update(range, d)
  BY <1>1, <1>2, Zenon DEF WriteAt
<1>3. ASSUME NEW first \in Position, NEW last \in Position, ZeroAt(first, last)
      PROVE  \E range \in SUBSET Position : \E d \in [range -> Byte] : ~sealed /\ Update(range, d)
  <2>1. [p \in first..last |-> Zero] \in [first..last -> Byte]
    BY OverlayAssumption
  <2> QED BY <1>1, <1>3, <2>1, Zenon DEF ZeroAt
<1> QED BY <1>2, <1>3, Zenon DEF Next

-----------------------------------------------------------------------------
(* updateLocked.                                                           *)

\* What is referred to.
LEMMA ReferencedFacts ==
    /\ \A i \in DOMAIN chunks : chunks[i].buffer \in Referenced(chunks, snapshots)
    /\ \A k \in DOMAIN snapshots : \A i \in DOMAIN snapshots[k] :
        snapshots[k][i] \in Referenced(chunks, snapshots)
BY DEF Referenced, Range

\* Fresh buffers: one for each chunk, and none that is referred to.
LEMMA FreshFacts ==
    ASSUME Room, NEW K \in SUBSET Index
    PROVE  /\ Allocated(K) \in [K -> Buffer \ Referenced(chunks, snapshots)]
           /\ IsInjective(Allocated(K))
BY Zenon DEF Room, Allocated, Fresh

\* A staged chunk holds what is written and what was read before.
LEMMA CandidateFacts ==
    ASSUME Types, Filled, NEW range \in SUBSET Position, NEW data \in [range -> Byte],
           NEW i \in Index
    PROVE  /\ Candidate(i, range, data) \in [Span(i) -> Byte]
           /\ \A p \in Span(i) : Candidate(i, range, data)[p] =
                IF p \in range THEN data[p] ELSE Read(chunks, heap, p)
<1>1. \A p \in Span(i) : Read(chunks, heap, p) \in Byte
  <2> SUFFICES ASSUME NEW p \in Span(i) PROVE Read(chunks, heap, p) \in Byte
    OBVIOUS
  <2>1. p \in Position /\ ChunkOf(p) = i
    BY ChunkFacts
  <2>2. CASE i \in DOMAIN chunks
    BY <2>1, <2>2 DEF Read, Filled
  <2>3. CASE i \notin DOMAIN chunks
    BY <2>1, <2>3 DEF Read, Types
  <2> QED BY <2>2, <2>3
<1> QED BY <1>1 DEF Candidate

\* What an update installs: chunks that are kept, each in a buffer of its own
\* that nobody saw before, chunks given back to the base, and the others,
\* which are left as they are like all that snapshots see.
Installs(s, range, data, kept, dropped, new) ==
    /\ kept \cup dropped = Touched(range) /\ kept \cap dropped = {}
    /\ \A i \in kept : new[i] \in Buffer /\ new[i] \notin Referenced(chunks, snapshots)
    /\ DOMAIN s.chunks = (DOMAIN chunks \cup kept) \ dropped
    /\ \A i \in kept : /\ s.chunks[i] = [buffer |-> new[i], generation |-> generation]
                       /\ s.heap[new[i]] = Candidate(i, range, data)
    /\ \A i \in DOMAIN s.chunks \ kept : /\ s.chunks[i] = chunks[i]
                                         /\ s.heap[chunks[i].buffer] = heap[chunks[i].buffer]
    /\ \A i \in dropped : \A p \in Span(i) : Candidate(i, range, data)[p] = base[p]
    /\ \A k \in DOMAIN snapshots : \A i \in DOMAIN snapshots[k] :
        s.heap[snapshots[k][i]] = heap[snapshots[k][i]]
    /\ DOMAIN s.heap = Buffer
    /\ s.dirty = NewDirty(kept, dropped) /\ s.cloned = Bytes(Cloned(kept))

\* What updateLocked stages is such an update.
LEMMA StagedFacts ==
    ASSUME Types, Filled, Room, NEW range \in SUBSET Position, NEW data \in [range -> Byte]
    PROVE  \E kept \in SUBSET Index : \E dropped \in SUBSET Index : \E new :
                Installs(Staged(range, data), range, data, kept, dropped, new)
<1> DEFINE dropped == {i \in Touched(range) : IsBase(i, range, data)}
           kept == Touched(range) \ dropped
           new == Allocated(kept)
           chs == [i \in (DOMAIN chunks \cup kept) \ dropped |->
                       IF i \in kept
                       THEN [buffer |-> new[i], generation |-> Stamp(i)]
                       ELSE chunks[i]]
           alive == Referenced(chs, snapshots)
           bufs == [b \in Buffer |->
                       IF \E i \in kept : new[i] = b
                       THEN Candidate(CHOOSE i \in kept : new[i] = b, range, data)
                       ELSE IF b \in alive THEN heap[b] ELSE Free]
           s == Staged(range, data)
<1>1. s = [chunks |-> chs, heap |-> bufs, dirty |-> NewDirty(kept, dropped),
           cloned |-> Bytes(Cloned(kept))]
  BY Zenon DEF Staged
<1>2. /\ kept \in SUBSET Index /\ dropped \in SUBSET Index
      /\ kept \cup dropped = Touched(range) /\ kept \cap dropped = {}
  BY ChunkFacts DEF Touched
<1>3. /\ new \in [kept -> Buffer \ Referenced(chunks, snapshots)] /\ IsInjective(new)
  BY <1>2, FreshFacts
<1>4. \A i \in dropped : \A p \in Span(i) : Candidate(i, range, data)[p] = base[p]
  BY DEF IsBase
<1> HIDE DEF kept, dropped, new
<1>5. \A i \in kept : bufs[new[i]] = Candidate(i, range, data)
  <2> SUFFICES ASSUME NEW i \in kept PROVE bufs[new[i]] = Candidate(i, range, data)
    BY Zenon
  <2>1. \A j \in kept : new[j] = new[i] => j = i
    BY <1>3 DEF IsInjective
  <2>2. (CHOOSE j \in kept : new[j] = new[i]) = i
    BY <2>1
  <2>3. new[i] \in Buffer
    BY <1>3
  <2> QED BY <2>2, <2>3, Zenon
<1>6. ASSUME NEW b \in Buffer, b \in alive, b \in Referenced(chunks, snapshots)
      PROVE  bufs[b] = heap[b]
  <2>1. \A i \in kept : new[i] # b
    BY <1>3, <1>6
  <2> QED BY <1>6, <2>1
<1>7. ASSUME NEW i \in DOMAIN chs, i \notin kept
      PROVE  chs[i] = chunks[i] /\ bufs[chunks[i].buffer] = heap[chunks[i].buffer]
  <2>1. i \in DOMAIN chunks /\ chs[i] = chunks[i]
    BY <1>7
  <2>2. chunks[i].buffer \in alive /\ chunks[i].buffer \in Buffer
    BY <1>7, <2>1 DEF Referenced, Types
  <2> QED BY <1>6, <2>1, <2>2, ReferencedFacts, Zenon
<1>8. ASSUME NEW k \in DOMAIN snapshots, NEW i \in DOMAIN snapshots[k]
      PROVE  bufs[snapshots[k][i]] = heap[snapshots[k][i]]
  <2>1. snapshots[k] \in Shared
    BY DEF Types
  <2>2. snapshots[k][i] \in Buffer
    BY <2>1 DEF Shared
  <2>3. snapshots[k][i] \in alive
    BY DEF Referenced, Range
  <2> QED BY <1>6, <2>2, <2>3, ReferencedFacts, Zenon
<1>9. \A i \in kept : chs[i] = [buffer |-> new[i], generation |-> generation]
  BY <1>2 DEF Stamp
<1>10. Installs(s, range, data, kept, dropped, new)
  <2>1. DOMAIN chs = (DOMAIN chunks \cup kept) \ dropped /\ DOMAIN bufs = Buffer
    OBVIOUS
  <2>2. \A i \in kept : new[i] \in Buffer /\ new[i] \notin Referenced(chunks, snapshots)
    BY <1>3
  <2> HIDE DEF chs, bufs, s, alive
  <2>3. /\ s.chunks = chs /\ s.heap = bufs /\ s.dirty = NewDirty(kept, dropped)
        /\ s.cloned = Bytes(Cloned(kept))
    BY <1>1
  <2> QED BY <1>2, <1>4, <1>5, <1>7, <1>8, <1>9, <2>1, <2>2, <2>3 DEF Installs
<1> QED BY <1>2, <1>10, Zenon

\* What is read afterwards is what was written, and the rest is as before.
LEMMA ReadFacts ==
    ASSUME Types, Filled, NEW range \in SUBSET Position, NEW data \in [range -> Byte], NEW s,
           NEW kept \in SUBSET Index, NEW dropped \in SUBSET Index, NEW new,
           Installs(s, range, data, kept, dropped, new), NEW p \in Position
    PROVE  Read(s.chunks, s.heap, p) = IF p \in range THEN data[p] ELSE Read(chunks, heap, p)
<1> DEFINE i == ChunkOf(p)
<1>1. i = ChunkOf(p) /\ i \in Index /\ p \in Span(i)
  BY ChunkFacts
<1> HIDE DEF i
<1>2. Candidate(i, range, data)[p] = IF p \in range THEN data[p] ELSE Read(chunks, heap, p)
  BY <1>1 DEF Candidate
<1>3. i \notin kept \cup dropped => p \notin range
  BY <1>1 DEF Installs, Touched
<1>4. CASE i \in kept
  <2>1. /\ i \in DOMAIN s.chunks /\ s.heap[new[i]] = Candidate(i, range, data)
        /\ s.chunks[i] = [buffer |-> new[i], generation |-> generation]
    BY <1>4 DEF Installs
  <2>2. s.chunks[i].buffer = new[i]
    BY <2>1
  <2> QED BY <1>1, <1>2, <2>1, <2>2 DEF Read
<1>5. CASE i \in dropped
  <2>1. i \notin DOMAIN s.chunks /\ Candidate(i, range, data)[p] = base[p]
    BY <1>1, <1>5 DEF Installs
  <2> QED BY <1>1, <1>2, <2>1 DEF Read
<1>6. CASE i \notin kept \cup dropped
  <2>1. i \in DOMAIN s.chunks <=> i \in DOMAIN chunks
    BY <1>6 DEF Installs
  <2>2. i \in DOMAIN s.chunks =>
            /\ s.chunks[i] = chunks[i] /\ s.heap[chunks[i].buffer] = heap[chunks[i].buffer]
    BY <1>6 DEF Installs
  <2> QED BY <1>1, <1>3, <1>6, <2>1, <2>2 DEF Read
<1> QED BY <1>4, <1>5, <1>6

\* An update in one state.
LEMMA WritesFacts == Types /\ Filled /\ Room => WritesExact
<1> SUFFICES ASSUME Types, Filled, Room, NEW first \in Position, NEW last \in first..(Size - 1),
                    NEW data \in [first..last -> Byte], NEW p \in Position
             PROVE  Read(Staged(first..last, data).chunks, Staged(first..last, data).heap, p) =
                        IF p \in first..last THEN data[p] ELSE Read(chunks, heap, p)
  BY ZenonT(30) DEF WritesExact
<1> DEFINE range == first..last
<1>1. range \in SUBSET Position /\ data \in [range -> Byte]
  BY OverlayAssumption DEF Position
<1> PICK kept \in SUBSET Index, dropped \in SUBSET Index :
        \E new : Installs(Staged(range, data), range, data, kept, dropped, new)
  BY <1>1, StagedFacts, Zenon
<1>2. PICK new : Installs(Staged(range, data), range, data, kept, dropped, new)
  OBVIOUS
<1>3. Read(Staged(range, data).chunks, Staged(range, data).heap, p) =
        IF p \in range THEN data[p] ELSE Read(chunks, heap, p)
  <2> HIDE DEF range
  <2> QED BY <1>1, <1>2, ReadFacts
<1> QED BY <1>3

-----------------------------------------------------------------------------
(* The steps keep the invariant.                                           *)

\* A snapshot in the list of snapshots.
LEMMA SnapshotFacts ==
    ASSUME Types, NEW k \in DOMAIN snapshots
    PROVE  /\ DOMAIN snapshots[k] \subseteq Index
           /\ \A i \in DOMAIN snapshots[k] : snapshots[k][i] \in Buffer
<1>1. snapshots[k] \in Shared
  BY DEF Types
<1> QED BY <1>1 DEF Shared

\* Taking a snapshot appends the buffers of the chunks.
LEMMA TakenFacts ==
    ASSUME Types, Snapshot
    PROVE  LET n == Len(snapshots) + 1 IN
           /\ snapshots' \in Seq(Shared) /\ DOMAIN snapshots' = 1..n /\ Len(snapshots') = n
           /\ DOMAIN snapshots = 1..Len(snapshots) /\ n \in Nat /\ n \notin DOMAIN snapshots
           /\ \A k \in DOMAIN snapshots : k \in DOMAIN snapshots' /\ snapshots'[k] = snapshots[k]
           /\ snapshots'[n] = [i \in DOMAIN chunks |-> chunks[i].buffer]
           /\ \A k \in DOMAIN snapshots' : k \in DOMAIN snapshots \/ k = n
<1> DEFINE taken == [i \in DOMAIN chunks |-> chunks[i].buffer]
<1>1. taken \in Shared
  <2>1. taken \in [DOMAIN chunks -> Buffer] /\ DOMAIN chunks \in SUBSET Index
    BY DEF Types
  <2> QED BY <2>1, Zenon DEF Shared
<1>2. snapshots \in Seq(Shared) /\ snapshots' = Append(snapshots, taken)
  BY DEF Types, Snapshot
<1> HIDE DEF taken
<1>3. \A T : \A q \in Seq(T) : \A e \in T :
        /\ Append(q, e) \in Seq(T) /\ Len(Append(q, e)) = Len(q) + 1 /\ Len(q) \in Nat
        /\ DOMAIN Append(q, e) = 1..(Len(q) + 1) /\ DOMAIN q = 1..Len(q)
        /\ \A k \in 1..Len(q) : Append(q, e)[k] = q[k]
        /\ Append(q, e)[Len(q) + 1] = e
  OBVIOUS
<1>4. /\ snapshots' \in Seq(Shared) /\ Len(snapshots') = Len(snapshots) + 1
      /\ Len(snapshots) \in Nat
      /\ DOMAIN snapshots' = 1..(Len(snapshots) + 1) /\ DOMAIN snapshots = 1..Len(snapshots)
      /\ \A k \in 1..Len(snapshots) : snapshots'[k] = snapshots[k]
      /\ snapshots'[Len(snapshots) + 1] = taken
  BY <1>1, <1>2, <1>3
<1> QED BY <1>4 DEF taken

\* The new overlay.
LEMMA StartFacts ==
    Measure /\ Counts /\ Init => Types /\ Filled /\ Leasing /\ DirtyExact /\ SharingTracked
<1> SUFFICES ASSUME Measure, Counts, Init
             PROVE  Types /\ Filled /\ Leasing /\ DirtyExact /\ SharingTracked
  OBVIOUS
<1>1. DOMAIN chunks = {} /\ DOMAIN snapshots = {} /\ snapshots \in Seq(Shared) /\ Len(snapshots) = 0
  BY DEF Init
<1>2. Types
  <2>1. chunkSize \in ChunkSizes /\ MaxSnapshots[chunkSize] \in Nat /\ base \in [Position -> Byte]
    BY OverlayAssumption DEF Init, Position
  <2>2. lease \in [Holder -> {"none", "held", "released"}] /\ DOMAIN heap = Buffer
    BY DEF Init
  <2>3. /\ generation \in Nat /\ cowBytes \in Nat /\ Len(snapshots) = generation - 1
        /\ Len(snapshots) <= MaxSnapshots[chunkSize]
    BY <1>1, <2>1 DEF Init
  <2>4. sealed \in BOOLEAN
    BY Zenon DEF Init
  <2> QED BY <1>1, <2>1, <2>2, <2>3, <2>4, Zenon DEF Types
<1>3. Held = {}
  BY DEF Init, Held
<1>4. Filled /\ SharingTracked
  BY <1>1 DEF Filled, SharingTracked
<1>5. Leasing
  BY <1>3 DEF Init, Leasing, Counts
<1>6. DirtyExact
  BY <1>1, OverlayAssumption DEF Init, DirtyExact, Measure
<1> QED BY <1>2, <1>4, <1>5, <1>6

\* An update keeps the types and contents.
LEMMA UpdateTypes ==
    ASSUME Types, Filled, Measure, NEW range \in SUBSET Position, NEW data \in [range -> Byte],
           Update(range, data),
           NEW kept \in SUBSET Index, NEW dropped \in SUBSET Index, NEW new,
           Installs(Staged(range, data), range, data, kept, dropped, new)
    PROVE  Types' /\ Filled'
<1> DEFINE s == Staged(range, data)
<1>1. /\ chunks' = s.chunks /\ heap' = s.heap /\ cowBytes' = cowBytes + s.cloned
      /\ UNCHANGED <<chunkSize, base, generation, snapshots, sealed, lease>>
  BY DEF Update, made
<1>2. Installs(s, range, data, kept, dropped, new)
  OBVIOUS
<1> HIDE DEF s
<1>3. Index' = Index /\ Shared' = Shared /\ \A i : Span(i)' = Span(i)
  BY <1>1, Fixed
<1>4. generation \in Nat /\ generation > 0 /\ generation \in 1..generation
  BY DEF Types
<1>5. \A i \in DOMAIN chunks' :
        \/ i \in kept /\ chunks'[i].buffer = new[i] /\ chunks'[i].generation = generation
        \/ i \in DOMAIN chunks \ kept /\ chunks'[i] = chunks[i]
  <2>1. \A i \in DOMAIN chunks' :
            \/ i \in kept /\ chunks'[i] = [buffer |-> new[i], generation |-> generation]
            \/ i \in DOMAIN chunks \ kept /\ chunks'[i] = chunks[i]
    BY <1>1, <1>2 DEF Installs
  <2> QED BY <2>1, SMTT(30)
<1>6. Types'
  <2>1. DOMAIN chunks' \subseteq Index /\ DOMAIN heap' = Buffer
    BY <1>1, <1>2, SMTT(30) DEF Installs, Types
  <2>2. \A i \in DOMAIN chunks' :
            chunks'[i].buffer \in Buffer /\ chunks'[i].generation \in 1..generation
    BY <1>2, <1>4, <1>5, SMTT(30) DEF Installs, Types
  <2>3. cowBytes' \in Nat
    BY <1>1, <1>2 DEF Installs, Types, Measure
  <2> QED BY <1>1, <1>3, <2>1, <2>2, <2>3, Zenon DEF Types
<1>7. \A i \in DOMAIN chunks' : heap'[chunks'[i].buffer] \in [Span(i) -> Byte]
  <2> SUFFICES ASSUME NEW i \in DOMAIN chunks' PROVE heap'[chunks'[i].buffer] \in [Span(i) -> Byte]
    OBVIOUS
  <2>1. CASE i \in kept
    <3>1. chunks'[i].buffer = new[i] /\ heap'[new[i]] = Candidate(i, range, data)
      BY <1>1, <1>2, <1>5, <2>1, ZenonT(30) DEF Installs
    <3> QED BY <2>1, <3>1, CandidateFacts, SMTT(30)
  <2>2. CASE i \notin kept
    <3>1. /\ i \in DOMAIN chunks /\ chunks'[i] = chunks[i]
          /\ heap'[chunks[i].buffer] = heap[chunks[i].buffer]
      BY <1>1, <1>2, <2>2, ZenonT(30) DEF Installs
    <3> QED BY <3>1, Zenon DEF Filled
  <2> QED BY <2>1, <2>2
<1>8. \A k \in DOMAIN snapshots : \A i \in DOMAIN snapshots[k] :
        heap'[snapshots[k][i]] \in [Span(i) -> Byte]
  <2>1. \A k \in DOMAIN snapshots : \A i \in DOMAIN snapshots[k] :
            s.heap[snapshots[k][i]] = heap[snapshots[k][i]]
    BY <1>2, Zenon DEF Installs
  <2>2. heap' = s.heap
    BY <1>1
  <2> QED BY <2>1, <2>2, Zenon DEF Filled
<1> QED BY <1>1, <1>3, <1>6, <1>7, <1>8 DEF Filled

\* An update keeps the accounts.
LEMMA UpdateAccounts ==
    ASSUME Types, Filled, Measure, DirtyExact, SharingTracked,
           NEW range \in SUBSET Position, NEW data \in [range -> Byte],
           Update(range, data),
           NEW kept \in SUBSET Index, NEW dropped \in SUBSET Index, NEW new,
           Installs(Staged(range, data), range, data, kept, dropped, new)
    PROVE  DirtyExact' /\ SharingTracked' /\ cowBytes' + Bytes(Stale)' <= cowBytes + Bytes(Stale)
<1> DEFINE s == Staged(range, data)
<1>1. /\ chunks' = s.chunks /\ heap' = s.heap /\ cowBytes' = cowBytes + s.cloned
      /\ dirtyBytes' = s.dirty /\ s.dirty <= MaxDirty
      /\ UNCHANGED <<chunkSize, base, generation, snapshots, sealed, lease>>
  BY DEF Update, made
<1>2. Installs(s, range, data, kept, dropped, new)
  OBVIOUS
<1> HIDE DEF s
<1>3. \A I : Bytes(I)' = Bytes(I)
  BY <1>1, Fixed
<1>4. \A i \in DOMAIN chunks' :
        \/ i \in kept /\ chunks'[i].buffer = new[i] /\ chunks'[i].generation = generation
        \/ i \in DOMAIN chunks \ kept /\ chunks'[i] = chunks[i]
  <2>1. \A i \in DOMAIN chunks' :
            \/ i \in kept /\ chunks'[i] = [buffer |-> new[i], generation |-> generation]
            \/ i \in DOMAIN chunks \ kept /\ chunks'[i] = chunks[i]
    BY <1>1, <1>2, ZenonT(30) DEF Installs
  <2> QED BY <2>1
<1>5. DirtyExact'
  <2> DEFINE D == DOMAIN chunks
             E == (D \cup kept) \ dropped
  <2>1. DOMAIN chunks' = E /\ kept \cap dropped = {} /\ s.dirty = NewDirty(kept, dropped)
    BY <1>1, <1>2 DEF Installs
  <2>2. Bytes(D \cup kept) = Bytes(D) + Bytes(kept \ D)
    BY Zenon DEF Measure
  <2>3. Bytes(D \cup kept) = Bytes(E) + Bytes(dropped \cap D)
    <3>1. E \cap (dropped \cap D) = {} /\ D \cup kept = E \cup (dropped \cap D)
      BY <2>1
    <3> QED BY <3>1, Zenon DEF Measure
  <2>4. s.dirty = Bytes(E)
    <3>1. s.dirty = Bytes(D) + Bytes(kept \ D) - Bytes(dropped \cap D)
      BY <2>1 DEF NewDirty, DirtyExact
    <3> QED BY <2>2, <2>3, <3>1 DEF Measure
  <2> QED BY <1>1, <1>3, <2>1, <2>4, ZenonT(30) DEF DirtyExact
<1>6. SharingTracked'
  <2> SUFFICES ASSUME NEW i \in DOMAIN chunks'
               PROVE  chunks'[i].generation # generation <=>
                        \E k \in DOMAIN snapshots : chunks'[i].buffer \in Range(snapshots[k])
    BY <1>1 DEF SharingTracked
  <2>1. CASE i \in kept
    <3>1. chunks'[i].buffer = new[i] /\ chunks'[i].generation = generation
      BY <1>4, <2>1
    <3>2. \A k \in DOMAIN snapshots : new[i] \notin Range(snapshots[k])
      <4>1. new[i] \notin Referenced(chunks, snapshots)
        BY <1>2, <2>1, Zenon DEF Installs
      <4> QED BY <4>1 DEF Referenced
    <3> QED BY <3>1, <3>2
  <2>2. CASE i \notin kept
    BY <1>4, <2>2 DEF SharingTracked
  <2> QED BY <2>1, <2>2
<1>7. cowBytes' + Bytes(Stale)' <= cowBytes + Bytes(Stale)
  <2>1. s.cloned = Bytes(Cloned(kept)) /\ Cloned(kept) = Stale \cap kept
    BY <1>2, SMTT(30) DEF Installs, Cloned, Stale
  <2>2. Stale' \subseteq Stale \ kept
    BY <1>1, <1>4 DEF Stale
  <2> DEFINE R == Stale'
             T == Stale \ kept
  <2>3. R \subseteq T
    BY <2>2
  <2> HIDE DEF R
  <2>4. Bytes(Stale) = Bytes(Stale \cap kept) + Bytes(T)
    BY DEF Measure
  <2>5. Bytes(T) = Bytes(R) + Bytes(T \ R)
    BY <2>3, Zenon DEF Measure
  <2>6. Bytes(Stale)' = Bytes(R)
    BY <1>1 DEF Bytes, ChunkOf, R
  <2>7. cowBytes \in Nat
    BY DEF Types
  <2> QED BY <1>1, <2>1, <2>4, <2>5, <2>6, <2>7, SMTT(30) DEF Measure
<1> QED BY <1>5, <1>6, <1>7

\* A snapshot shares every chunk from then on.
LEMMA SnapshotKeeps ==
    ASSUME Types, Filled, DirtyExact, SharingTracked, Snapshot
    PROVE  Types' /\ Filled' /\ DirtyExact' /\ SharingTracked'
<1> DEFINE n == Len(snapshots) + 1
<1>1. /\ UNCHANGED <<chunkSize, base, heap, chunks, dirtyBytes, cowBytes, sealed, lease>>
      /\ generation' = generation + 1 /\ Len(snapshots) < MaxSnapshots[chunkSize]
  BY DEF Snapshot, made
<1>2. /\ snapshots' \in Seq(Shared) /\ DOMAIN snapshots' = 1..n /\ Len(snapshots') = n
      /\ \A k \in DOMAIN snapshots : k \in DOMAIN snapshots' /\ snapshots'[k] = snapshots[k]
      /\ n \in DOMAIN snapshots' /\ snapshots'[n] = [i \in DOMAIN chunks |-> chunks[i].buffer]
      /\ \A k \in DOMAIN snapshots' : k \in DOMAIN snapshots \/ k = n
  BY TakenFacts
<1>3. /\ Index' = Index /\ Shared' = Shared /\ \A i : Span(i)' = Span(i)
      /\ \A I : Bytes(I)' = Bytes(I)
  BY <1>1, Fixed
<1>4. generation \in Nat /\ n = generation /\ MaxSnapshots[chunkSize] \in Nat
  BY OverlayAssumption DEF Types
<1>5. Types'
  <2>1. generation' \in Nat /\ n = generation' - 1 /\ n <= MaxSnapshots[chunkSize]
    BY <1>1, <1>4
  <2>2. \A i \in DOMAIN chunks : chunks[i].generation \in 1..generation'
    BY <1>1, <1>4 DEF Types
  <2> HIDE DEF n
  <2> QED BY <1>1, <1>2, <1>3, <2>1, <2>2, Zenon DEF Types
<1> HIDE DEF n
<1>6. Filled'
  <2>1. \A k \in DOMAIN snapshots' : \A i \in DOMAIN snapshots'[k] :
            heap[snapshots'[k][i]] \in [Span(i) -> Byte]
    BY <1>2 DEF Filled
  <2> QED BY <1>1, <1>3, <2>1 DEF Filled
<1>7. DirtyExact'
  BY <1>1, <1>3 DEF DirtyExact
<1>8. SharingTracked'
  <2>1. \A i \in DOMAIN chunks : chunks[i].generation # generation'
    BY <1>1, <1>4 DEF Types
  <2>2. \A i \in DOMAIN chunks : chunks[i].buffer \in Range(snapshots'[n])
    BY <1>2 DEF Range
  <2> QED BY <1>1, <1>2, <2>1, <2>2 DEF SharingTracked
<1> QED BY <1>5, <1>6, <1>7, <1>8

\* Leases and the commit.
LEMMA LeaseKeeps ==
    ASSUME Types, Leasing, Counts, \E h \in Holder : Acquire(h) \/ Release(h)
    PROVE  Leasing' /\ lease' \in [Holder -> {"none", "held", "released"}]
<1>1. PICK h \in Holder : Acquire(h) \/ Release(h)
  OBVIOUS
<1>2. lease \in [Holder -> {"none", "held", "released"}] /\ Held \in SUBSET Holder
  BY DEF Types, Held
<1>3. Cardinality(Held) \in Nat /\ Held' \in SUBSET Holder
  BY <1>2 DEF Counts, Held
<1>4. CASE Acquire(h)
  <2>1. h \notin Held /\ Held' = Held \cup {h}
    BY <1>2, <1>4 DEF Acquire, Held
  <2>2. leases' = leases + 1 /\ ~sealed /\ sealed' = sealed
    BY <1>4 DEF Acquire
  <2>3. Cardinality(Held \cup {h}) = Cardinality(Held) + 1
    BY <1>2, <2>1 DEF Counts
  <2>4. lease' \in [Holder -> {"none", "held", "released"}]
    BY <1>2, <1>4 DEF Acquire
  <2> QED BY <2>1, <2>2, <2>3, <2>4 DEF Leasing
<1>5. CASE Release(h)
  <2>1. h \in Held /\ Held' = Held \ {h}
    BY <1>2, <1>5 DEF Release, Held
  <2>2. leases' = leases - 1 /\ sealed' = sealed
    BY <1>5 DEF Release
  <2>3. Cardinality(Held) = Cardinality(Held') + 1 /\ Cardinality(Held') \in Nat
    <3>1. h \in Holder \ Held' /\ Held = Held' \cup {h}
      BY <2>1
    <3> QED BY <1>3, <3>1 DEF Counts
  <2>4. lease' \in [Holder -> {"none", "held", "released"}]
    BY <1>2, <1>5 DEF Release
  <2>5. ~sealed
    BY <1>3, <2>3 DEF Leasing
  <2> QED BY <1>3, <2>2, <2>3, <2>4, <2>5 DEF Leasing
<1> QED BY <1>1, <1>4, <1>5

\* Every step but for the count of copied bytes.
LEMMA StepKeeps ==
    ASSUME Types, Filled, Leasing, DirtyExact, SharingTracked, Room, Measure, Counts, [Next]_vars
    PROVE  Types' /\ Filled' /\ Leasing' /\ DirtyExact' /\ SharingTracked'
<1>1. ASSUME NEW range \in SUBSET Position, NEW data \in [range -> Byte], Update(range, data)
      PROVE  Types' /\ Filled' /\ Leasing' /\ DirtyExact' /\ SharingTracked'
  <2> PICK kept \in SUBSET Index, dropped \in SUBSET Index :
            \E new : Installs(Staged(range, data), range, data, kept, dropped, new)
    BY StagedFacts, Zenon
  <2>1. PICK new : Installs(Staged(range, data), range, data, kept, dropped, new)
    OBVIOUS
  <2>2. Types' /\ Filled' /\ DirtyExact' /\ SharingTracked'
    BY <1>1, <2>1, UpdateTypes, UpdateAccounts, Zenon
  <2>3. Leasing'
    BY <1>1 DEF Update, Leasing, Held
  <2> QED BY <2>2, <2>3
<1>2. CASE Snapshot
  BY <1>2, SnapshotKeeps DEF Snapshot, Leasing, Held
<1>3. ASSUME UNCHANGED <<made, heap, chunks, dirtyBytes, generation, cowBytes, snapshots>>,
             lease' \in [Holder -> {"none", "held", "released"}], sealed' \in BOOLEAN
      PROVE  Types' /\ Filled' /\ DirtyExact' /\ SharingTracked'
  <2>1. /\ Index' = Index /\ Shared' = Shared /\ \A i : Span(i)' = Span(i)
        /\ \A I : Bytes(I)' = Bytes(I) /\ chunkSize' = chunkSize /\ base' = base
    BY <1>3, Fixed DEF made
  <2>2. Types'
    BY <1>3, <2>1, Zenon DEF Types
  <2> QED BY <1>3, <2>1, <2>2 DEF Filled, DirtyExact, SharingTracked
<1>4. CASE \E h \in Holder : Acquire(h) \/ Release(h)
  <2>1. UNCHANGED <<made, heap, chunks, dirtyBytes, generation, cowBytes, snapshots, sealed>>
    BY <1>4 DEF Acquire, Release
  <2> QED BY <1>3, <1>4, <2>1, LeaseKeeps DEF Types
<1>5. CASE Commit \/ UNCHANGED vars
  <2>1. /\ UNCHANGED <<made, heap, chunks, dirtyBytes, generation, cowBytes, snapshots,
                       leases, lease>>
        /\ sealed' = sealed \/ (sealed' = TRUE /\ leases = 0)
    BY <1>5 DEF Commit, vars, made
  <2>2. Leasing'
    BY <2>1 DEF Leasing, Held
  <2>3. lease' \in [Holder -> {"none", "held", "released"}] /\ sealed' \in BOOLEAN
    BY <2>1, Zenon DEF Types
  <2> QED BY <1>3, <2>1, <2>2, <2>3
<1> QED BY <1>1, <1>2, <1>4, <1>5, Steps

-----------------------------------------------------------------------------
(* The overlay is a flat disk.                                             *)

\* What is read are bytes.
LEMMA ContentFacts ==
    ASSUME Types, Filled
    PROVE  /\ Content \in [Position -> Byte]
           /\ \A p \in Position : Content[p] = Read(chunks, heap, p)
           /\ \A k \in DOMAIN snapshots : SnapshotContent(snapshots[k]) \in [Position -> Byte]
<1>1. \A p \in Position : Read(chunks, heap, p) \in Byte
  BY ChunkFacts DEF Read, Types, Filled
<1>2. ASSUME NEW k \in DOMAIN snapshots
      PROVE  SnapshotContent(snapshots[k]) \in [Position -> Byte]
  BY ChunkFacts DEF SnapshotContent, Types, Filled
<1> QED BY <1>1, <1>2 DEF Content

\* Appending to a sequence given as a function.
LEMMA AppendFunction ==
    ASSUME NEW T, NEW n \in Nat, NEW f \in [1..n -> T], NEW e \in T, NEW g \in [1..(n + 1) -> T],
           g[n + 1] = e, \A k \in 1..n : g[k] = f[k]
    PROVE  g = Append(f, e)
<1>1. f \in Seq(T) /\ Len(f) = n
  OBVIOUS
<1>2. /\ Append(f, e) \in Seq(T) /\ Len(Append(f, e)) = n + 1 /\ Append(f, e)[n + 1] = e
      /\ \A k \in 1..n : Append(f, e)[k] = f[k]
  BY <1>1
<1>3. g \in [1..(n + 1) -> T] /\ \A k \in 1..(n + 1) : g[k] = Append(f, e)[k]
  BY <1>2
<1>4. Append(f, e) \in [1..(n + 1) -> T]
  <2>1. \A q \in Seq(T) : q \in [1..Len(q) -> T]
    OBVIOUS
  <2> QED BY <1>2, <2>1, Zenon
<1>5. ASSUME NEW G \in [1..(n + 1) -> T], \A k \in 1..(n + 1) : g[k] = G[k] PROVE g = G
  BY <1>3, <1>5
<1> QED BY <1>3, <1>4, <1>5, Zenon

\* The contents of the snapshots.
Frozen == [k \in DOMAIN snapshots |-> SnapshotContent(snapshots[k])]

\* Writing changes the disk and no snapshot.
LEMMA UpdateChanges ==
    ASSUME Types, Filled, Room, NEW range \in SUBSET Position, NEW data \in [range -> Byte],
           Update(range, data)
    PROVE  Content' \in [Position -> Byte] /\ Frozen' = Frozen
<1> DEFINE s == Staged(range, data)
<1> PICK kept \in SUBSET Index, dropped \in SUBSET Index :
        \E new : Installs(s, range, data, kept, dropped, new)
  BY StagedFacts, Zenon
<1>1. PICK new : Installs(s, range, data, kept, dropped, new)
  OBVIOUS
<1>2. chunks' = s.chunks /\ heap' = s.heap /\ UNCHANGED <<chunkSize, base, snapshots>>
  BY DEF Update, made
<1> HIDE DEF s
<1>3. \A p \in Position : Read(s.chunks, s.heap, p) \in Byte
  <2>1. \A p \in Position : Read(s.chunks, s.heap, p) =
            IF p \in range THEN data[p] ELSE Read(chunks, heap, p)
    BY <1>1, ReadFacts
  <2> QED BY <2>1, ContentFacts
<1>4. Content' = [p \in Position |-> Read(s.chunks, s.heap, p)]
  BY <1>2 DEF Content, Read, ChunkOf
<1>5. \A k \in DOMAIN snapshots : SnapshotContent(snapshots[k])' = SnapshotContent(snapshots[k])
  <2>1. \A k \in DOMAIN snapshots : \A i \in DOMAIN snapshots[k] :
            heap'[snapshots[k][i]] = heap[snapshots[k][i]]
    BY <1>1, <1>2, ZenonT(30) DEF Installs
  <2> SUFFICES ASSUME NEW k \in DOMAIN snapshots
               PROVE  SnapshotContent(snapshots[k])' = SnapshotContent(snapshots[k])
    OBVIOUS
  <2>2. \A i \in DOMAIN snapshots[k] : heap'[snapshots[k][i]] = heap[snapshots[k][i]]
    BY <2>1, Zenon
  <2> QED BY <1>2, <2>2 DEF SnapshotContent, ChunkOf
<1>6. Frozen' = Frozen
  BY <1>2, <1>5 DEF Frozen
<1> QED BY <1>3, <1>4, <1>6

\* A snapshot freezes what is on the disk.
LEMMA SnapshotFreezes ==
    ASSUME Types, Filled, Snapshot
    PROVE  Content' = Content /\ Frozen' = Append(Frozen, Content)
<1> PICK n \in Nat : n = Len(snapshots)
  BY DEF Types
<1>1. UNCHANGED <<chunkSize, base, heap, chunks>>
  BY DEF Snapshot, made
<1>2. Content' = Content
  BY <1>1 DEF Content, Read, ChunkOf
<1>3. /\ DOMAIN snapshots' = 1..(n + 1) /\ DOMAIN snapshots = 1..n /\ n \in Nat
      /\ \A k \in 1..n : snapshots'[k] = snapshots[k]
      /\ snapshots'[n + 1] = [i \in DOMAIN chunks |-> chunks[i].buffer]
  BY TakenFacts
<1>4. \A k \in 1..n : SnapshotContent(snapshots[k])' = SnapshotContent(snapshots[k])
  BY <1>1, <1>3 DEF SnapshotContent, ChunkOf
<1>5. SnapshotContent(snapshots[n + 1])' = Content
  <2>1. SnapshotContent(snapshots[n + 1])' = [p \in Position |->
            IF ChunkOf(p) \in DOMAIN snapshots'[n + 1] THEN heap[snapshots'[n + 1][ChunkOf(p)]][p]
            ELSE base[p]]
    BY <1>1, <1>3 DEF SnapshotContent, ChunkOf
  <2> QED BY <1>3, <2>1 DEF Content, Read
<1>6. Frozen' = [k \in 1..(n + 1) |-> IF k = n + 1 THEN Content ELSE Frozen[k]]
  BY <1>3, <1>4, <1>5 DEF Frozen
<1>7. Frozen \in [1..n -> [Position -> Byte]] /\ Content \in [Position -> Byte]
  BY <1>3, ContentFacts DEF Frozen
<1>8. Frozen' = Append(Frozen, Content)
  <2> DEFINE T == [Position -> Byte]
             f == Frozen
             e == Content
             g == Frozen'
  <2>1. /\ f \in [1..n -> T] /\ e \in T /\ g \in [1..(n + 1) -> T]
        /\ g[n + 1] = e /\ \A k \in 1..n : g[k] = f[k]
    BY <1>6, <1>7
  <2> HIDE DEF T, f, e, g
  <2>2. g = Append(f, e)
    BY <2>1, AppendFunction
  <2> QED BY <2>2 DEF f, e, g
<1> QED BY <1>2, <1>8

\* A step of the overlay is one of the flat disk, or leaves it alone.
LEMMA StepRefines ==
    ASSUME Types, Filled, Room, [Next]_vars
    PROVE  [Abstract!Next]_(Abstract!vars)
<1> USE DEF Frozen
<1>1. CASE \E range \in SUBSET Position : \E data \in [range -> Byte] :
                ~sealed /\ Update(range, data)
  <2>1. ~sealed /\ sealed' = sealed
    BY <1>1 DEF Update
  <2>2. Content' \in [Position -> Byte] /\ Frozen' = Frozen
    BY <1>1, UpdateChanges
  <2> QED BY <2>1, <2>2 DEF Abstract!Next, Abstract!Change
<1>2. CASE Snapshot
  <2>1. ~sealed /\ sealed' = sealed
    BY <1>2 DEF Snapshot
  <2> QED BY <1>2, <2>1, SnapshotFreezes, Zenon DEF Abstract!Next, Abstract!Freeze
<1>3. ASSUME UNCHANGED <<made, heap, chunks, snapshots>>
      PROVE  Content' = Content /\ Frozen' = Frozen
  BY <1>3 DEF made, Content, Read, SnapshotContent, ChunkOf
<1>4. CASE \E h \in Holder : Acquire(h) \/ Release(h)
  BY <1>3, <1>4 DEF Acquire, Release, Abstract!vars
<1>5. CASE Commit
  BY <1>3, <1>5 DEF Commit, Abstract!Next, Abstract!Seal
<1>6. CASE UNCHANGED vars
  BY <1>3, <1>6 DEF vars, made, Abstract!vars
<1> QED BY <1>1, <1>2, <1>4, <1>5, <1>6, Steps

-----------------------------------------------------------------------------
(* Numbers of bytes, holders and buffers.                                  *)

INSTANCE FiniteSetTheorems

\* The device has Size positions, and no more chunks.
LEMMA DeviceFacts ==
    ASSUME Types
    PROVE  /\ IsFiniteSet(Position) /\ Cardinality(Position) = Size
           /\ IsFiniteSet(Index) /\ Cardinality(Index) \in Nat /\ Cardinality(Index) <= Size
<1>1. IsFiniteSet(Position) /\ Cardinality(Position) = Size
  BY FS_Interval, OverlayAssumption DEF Position
<1> DEFINE f == [p \in Position |-> ChunkOf(p)]
<1>2. f \in Surjection(Position, Index)
  BY DEF Surjection, Index
<1>3. IsFiniteSet(Index) /\ Cardinality(Index) <= Cardinality(Position)
  BY <1>1, <1>2, FS_Surjection
<1> QED BY <1>1, <1>3, FS_CardinalityType

\* Bytes counts the positions of chunks.
LEMMA BytesFacts == Measure
<1>1. IsFiniteSet(Position)
  BY FS_Interval, OverlayAssumption DEF Position
<1> DEFINE P(I) == {p \in Position : ChunkOf(p) \in I}
<1>2. \A I : P(I) \in SUBSET Position /\ Bytes(I) = Cardinality(P(I))
  BY DEF Bytes
<1> HIDE DEF P
<1>3. \A I : IsFiniteSet(P(I)) /\ Bytes(I) \in Nat
  BY <1>1, <1>2, FS_Subset, FS_CardinalityType, Zenon
<1>4. Bytes({}) = 0
  <2>1. P({}) = {}
    BY DEF P
  <2> QED BY <1>2, <2>1, FS_EmptySet, Zenon
<1>5. ASSUME NEW I, NEW J, NEW K, I \cap J = {}, K = I \cup J
      PROVE  Bytes(K) = Bytes(I) + Bytes(J)
  <2>1. P(K) = P(I) \cup P(J) /\ P(I) \cap P(J) = {}
    BY <1>5 DEF P
  <2>2. Cardinality(P(K)) = Cardinality(P(I)) + Cardinality(P(J)) - Cardinality({})
    BY <1>3, <2>1, FS_Union
  <2>3. Bytes(K) = Cardinality(P(K)) /\ Bytes(I) = Cardinality(P(I)) /\ Bytes(J) = Cardinality(P(J))
    BY <1>2
  <2> QED BY <1>3, <2>2, <2>3, FS_EmptySet
<1> QED BY <1>3, <1>4, <1>5 DEF Measure

\* The holders are finitely many.
LEMMA HolderCounts == Counts
<1>1. \A S \in SUBSET Holder : IsFiniteSet(S)
  BY FS_Subset, OverlayAssumption
<1>2. Cardinality({}) = 0
  BY FS_EmptySet
<1> SUFFICES ASSUME NEW S \in SUBSET Holder
             PROVE  /\ Cardinality(S) \in Nat /\ (Cardinality(S) = 0 => S = {})
                    /\ \A h \in Holder \ S : Cardinality(S \cup {h}) = Cardinality(S) + 1
  BY <1>2, Zenon DEF Counts
<1>3. Cardinality(S) \in Nat /\ (Cardinality(S) = 0 => S = {})
  BY <1>1, FS_CardinalityType, FS_EmptySet
<1>4. ASSUME NEW h \in Holder \ S PROVE Cardinality(S \cup {h}) = Cardinality(S) + 1
  BY <1>1, FS_AddElement
<1> QED BY <1>3, <1>4

\* A set fits into a larger one.
LEMMA InjectionExists ==
    ASSUME NEW S, NEW T, IsFiniteSet(S), IsFiniteSet(T), Cardinality(S) <= Cardinality(T)
    PROVE  \E new \in [S -> T] : IsInjective(new)
<1> PICK m \in Nat, n \in Nat : m = Cardinality(S) /\ n = Cardinality(T)
  BY FS_CardinalityType
<1>1. PICK f : f \in Bijection(1..m, S)
  BY FS_CardinalityType, Zenon DEF ExistsBijection
<1>2. PICK g : g \in Bijection(1..n, T)
  BY FS_CardinalityType, Zenon DEF ExistsBijection
<1>3. \A x \in S : \E k \in 1..m : f[k] = x
  BY <1>1 DEF Bijection, Surjection
<1>4. g \in [1..n -> T] /\ \A j, k \in 1..n : g[j] = g[k] => j = k
  BY <1>2 DEF Bijection, Injection, IsInjective
<1> DEFINE h == [x \in S |-> CHOOSE k \in 1..m : f[k] = x]
           new == [x \in S |-> g[h[x]]]
<1>5. \A x \in S : h[x] \in 1..m /\ f[h[x]] = x
  BY <1>3
<1>6. \A x \in S : h[x] \in 1..n
  BY <1>5
<1> HIDE DEF h
<1>7. new \in [S -> T]
  BY <1>4, <1>6
<1>8. ASSUME NEW x \in S, NEW y \in S, new[x] = new[y] PROVE x = y
  <2>1. h[x] = h[y]
    BY <1>4, <1>6, <1>8
  <2> QED BY <1>5, <2>1
<1>9. IsInjective(new)
  BY <1>7, <1>8 DEF IsInjective
<1> QED BY <1>7, <1>9

\* The buffers referred to: at most one for each chunk of the overlay and of
\* each snapshot.
LEMMA ReferencedBound ==
    ASSUME Types
    PROVE  /\ IsFiniteSet(Referenced(chunks, snapshots))
           /\ Cardinality(Referenced(chunks, snapshots)) \in Nat
           /\ Cardinality(Referenced(chunks, snapshots)) <= generation * Cardinality(Index)
<1> PICK m \in Nat : m = Len(snapshots) /\ generation = m + 1 /\ DOMAIN snapshots = 1..m
  BY DEF Types
<1> DEFINE D(k) == IF k = 0 THEN DOMAIN chunks ELSE DOMAIN snapshots[k]
           all == (0..m) \X Index
           uses == {c \in all : c[2] \in D(c[1])}
           f == [c \in uses |-> IF c[1] = 0 THEN chunks[c[2]].buffer ELSE snapshots[c[1]][c[2]]]
           R == Referenced(chunks, snapshots)
<1>1. IsFiniteSet(0..m) /\ Cardinality(0..m) = m + 1
  BY FS_Interval
<1>2. IsFiniteSet(all) /\ Cardinality(all) = (m + 1) * Cardinality(Index)
  BY <1>1, DeviceFacts, FS_Product, ZenonT(30)
<1>3. /\ IsFiniteSet(uses) /\ Cardinality(uses) <= Cardinality(all)
      /\ Cardinality(uses) \in Nat /\ Cardinality(all) \in Nat
  <2>1. uses \in SUBSET all
    OBVIOUS
  <2> QED BY <1>2, <2>1, FS_Subset, FS_CardinalityType, Zenon
<1>4. \A k \in 1..m : DOMAIN snapshots[k] \subseteq Index
  BY SnapshotFacts
<1>5. ASSUME NEW b \in R PROVE \E c \in uses : f[c] = b
  <2>1. CASE \E i \in DOMAIN chunks : b = chunks[i].buffer
    <3>1. PICK i \in DOMAIN chunks : b = chunks[i].buffer
      BY <2>1
    <3>2. <<0, i>> \in uses
      BY <3>1 DEF Types
    <3>3. f[<<0, i>>] = b
      BY <3>1, <3>2
    <3> QED BY <3>2, <3>3
  <2>2. CASE \E k \in 1..m : \E i \in DOMAIN snapshots[k] : b = snapshots[k][i]
    <3> PICK k \in 1..m : \E i \in DOMAIN snapshots[k] : b = snapshots[k][i]
      BY <2>2
    <3>1. PICK i \in DOMAIN snapshots[k] : b = snapshots[k][i]
      OBVIOUS
    <3>2. <<k, i>> \in uses
      BY <1>4, <3>1
    <3>3. f[<<k, i>>] = b
      BY <3>1, <3>2, SMTT(30)
    <3> QED BY <3>2, <3>3
  <2> QED BY <1>5, <2>1, <2>2 DEF Referenced, Range
<1>6. ASSUME NEW c \in uses PROVE f[c] \in R
  <2>1. CASE c[1] = 0
    BY <2>1, ReferencedFacts
  <2>2. CASE c[1] # 0
    <3>1. c[1] \in DOMAIN snapshots /\ c[2] \in DOMAIN snapshots[c[1]]
      BY <2>2, SMTT(30)
    <3> QED BY <2>2, <3>1, ReferencedFacts
  <2> QED BY <2>1, <2>2
<1>7. f \in Surjection(uses, R)
  <2>1. f \in [uses -> R]
    BY <1>6
  <2> QED BY <1>5, <2>1, ZenonT(30) DEF Surjection
<1> HIDE DEF R, uses, all, f
<1>8. IsFiniteSet(R) /\ Cardinality(R) <= Cardinality(uses)
  BY <1>3, <1>7, FS_Surjection
<1>9. Cardinality(R) \in Nat
  BY <1>8, FS_CardinalityType, Zenon
<1>10. Cardinality(R) <= Cardinality(all)
  BY <1>3, <1>8, <1>9
<1>11. Cardinality(R) <= generation * Cardinality(Index)
  BY <1>2, <1>10
<1> QED BY <1>8, <1>9, <1>11 DEF R

\* Products of numbers grow with their factors.
LEMMA ProductGrows ==
    ASSUME NEW a \in Nat, NEW b \in Nat, NEW c \in Nat, NEW d \in Nat, a <= b, c <= d
    PROVE  a * c <= b * d /\ a * c \in Nat /\ b * d \in Nat
<1>1. a * c <= b * c /\ a * c \in Nat
  OBVIOUS
<1>2. b * c <= b * d /\ b * d \in Nat /\ b * c \in Nat
  OBVIOUS
<1> QED BY <1>1, <1>2

\* There are always buffers for what is staged.
LEMMA RoomFacts == Types => Room
<1> SUFFICES ASSUME Types, NEW K \in SUBSET Index
             PROVE  \E new \in [K -> Buffer \ Referenced(chunks, snapshots)] : IsInjective(new)
  BY DEF Room
<1> DEFINE R == Referenced(chunks, snapshots)
           free == Buffer \ R
<1> PICK M \in Nat : M = MaxSnapshots[chunkSize]
  BY OverlayAssumption DEF Types
<1>1. generation \in Nat /\ generation <= M + 1
  BY DEF Types
<1>2. Cardinality(R) <= (M + 1) * Size /\ (M + 1) * Size \in Nat
  <2>1. /\ generation * Cardinality(Index) <= (M + 1) * Size
        /\ generation * Cardinality(Index) \in Nat /\ (M + 1) * Size \in Nat
    <3>1. M + 1 \in Nat /\ Size \in Nat
      BY OverlayAssumption
    <3> QED BY <1>1, <3>1, DeviceFacts, ProductGrows, Zenon
  <2> QED BY <2>1, ReferencedBound
<1>3. Cardinality(Buffer) \in Nat /\ Cardinality(Buffer) >= Size * (M + 2)
  BY FS_CardinalityType, OverlayAssumption DEF Types
<1>4. /\ IsFiniteSet(free) /\ Cardinality(free) = Cardinality(Buffer) - Cardinality(Buffer \cap R)
      /\ Cardinality(free) \in Nat
  BY FS_Difference, FS_CardinalityType, OverlayAssumption, Zenon
<1>5. Cardinality(Buffer \cap R) <= Cardinality(R) /\ Cardinality(Buffer \cap R) \in Nat
  <2>1. Buffer \cap R \in SUBSET R
    OBVIOUS
  <2> QED BY <2>1, ReferencedBound, FS_Subset, FS_CardinalityType, Zenon
<1>6. IsFiniteSet(K) /\ Cardinality(K) \in Nat /\ Cardinality(K) <= Size
  <2>1. IsFiniteSet(K) /\ Cardinality(K) <= Cardinality(Index) /\ Cardinality(K) \in Nat
    BY DeviceFacts, FS_Subset, FS_CardinalityType, Zenon
  <2> QED BY <2>1, DeviceFacts, OverlayAssumption
<1>7. Size * (M + 2) = (M + 1) * Size + Size /\ Size \in Nat
  BY OverlayAssumption
<1>8. Cardinality(R) \in Nat
  BY ReferencedBound
<1> HIDE DEF R, free
<1>9. Cardinality(K) <= Cardinality(free)
  BY <1>2, <1>3, <1>4, <1>5, <1>6, <1>7, <1>8
<1> QED BY <1>4, <1>6, <1>9, InjectionExists, Zenon DEF free, R

\* The bytes in snapshots are finitely many.
LEMMA PairsFinite ==
    ASSUME Types
    PROVE  IsFiniteSet(Pairs) /\ Cardinality(Pairs) \in Nat
<1> DEFINE all == (DOMAIN snapshots) \X Position
<1>1. IsFiniteSet(DOMAIN snapshots)
  <2>1. DOMAIN snapshots = 1..Len(snapshots) /\ Len(snapshots) \in Nat
    BY DEF Types
  <2> QED BY <2>1, FS_Interval
<1>2. IsFiniteSet(all)
  BY <1>1, DeviceFacts, FS_Product, ZenonT(30)
<1>3. Pairs \in SUBSET all
  BY DEF Pairs
<1> HIDE DEF all
<1> QED BY <1>2, <1>3, FS_Subset, FS_CardinalityType, Zenon

\* A snapshot adds the bytes of its chunks to the bytes in snapshots.
LEMMA PairsGrow ==
    ASSUME Types, Snapshot
    PROVE  /\ Cardinality(Pairs) \in Nat
           /\ Cardinality(Pairs)' = Cardinality(Pairs) + Bytes(DOMAIN chunks)
<1> PICK n \in Nat : n = Len(snapshots) + 1
  BY DEF Types
<1>1. chunkSize' = chunkSize
  BY DEF Snapshot, made
<1>2. /\ DOMAIN snapshots' = 1..n /\ DOMAIN snapshots = 1..(n - 1)
      /\ \A k \in DOMAIN snapshots : snapshots'[k] = snapshots[k]
      /\ DOMAIN snapshots'[n] = DOMAIN chunks
  BY TakenFacts
<1> DEFINE taken == {p \in Position : ChunkOf(p) \in DOMAIN chunks}
           added == {n} \X taken
           P == Pairs
           Q == Pairs'
<1>3. Q = {c \in (1..n) \X Position : ChunkOf(c[2]) \in DOMAIN snapshots'[c[1]]}
  BY <1>1, <1>2 DEF Pairs, ChunkOf
<1>4. P = {c \in (1..(n - 1)) \X Position : ChunkOf(c[2]) \in DOMAIN snapshots[c[1]]}
  BY <1>2 DEF Pairs
<1>5. Q = P \cup added /\ P \cap added = {}
  <2> HIDE DEF P, Q
  <2> QED BY <1>2, <1>3, <1>4
<1>6. IsFiniteSet(Position)
  BY DeviceFacts
<1>7. IsFiniteSet(P) /\ Cardinality(P) \in Nat
  BY PairsFinite
<1>8. IsFiniteSet(added) /\ Cardinality(added) = Bytes(DOMAIN chunks) /\ Cardinality(added) \in Nat
  <2>1. IsFiniteSet(taken) /\ Cardinality(taken) = Bytes(DOMAIN chunks)
    BY <1>6, FS_Subset DEF Bytes
  <2>2. IsFiniteSet({n}) /\ Cardinality({n}) = 1
    BY FS_Singleton, Zenon
  <2>3. Cardinality(taken) \in Nat
    BY <2>1, FS_CardinalityType, Zenon
  <2>4. IsFiniteSet(added) /\ Cardinality(added) = Cardinality({n}) * Cardinality(taken)
    BY <2>1, <2>2, FS_Product, Zenon
  <2> HIDE DEF taken, added
  <2> QED BY <2>1, <2>2, <2>3, <2>4
<1>9. Cardinality(Q) = Cardinality(P) + Cardinality(added) - Cardinality({})
  <2> HIDE DEF P, Q, added
  <2> QED BY <1>5, <1>7, <1>8, FS_Union
<1> HIDE DEF added
<1> QED BY <1>7, <1>8, <1>9, FS_EmptySet

\* No step copies a byte that it did not owe to a snapshot.
LEMMA CopiesKept ==
    ASSUME Types, Filled, DirtyExact, SharingTracked, Copies, Room, Measure, [Next]_vars
    PROVE  Copies'
<1>1. ASSUME UNCHANGED <<chunkSize, snapshots>> PROVE Cardinality(Pairs)' = Cardinality(Pairs)
  BY <1>1 DEF Pairs, ChunkOf
<1>2. ASSUME NEW range \in SUBSET Position, NEW data \in [range -> Byte], Update(range, data)
      PROVE  Copies'
  <2> PICK kept \in SUBSET Index, dropped \in SUBSET Index :
            \E new : Installs(Staged(range, data), range, data, kept, dropped, new)
    BY StagedFacts, Zenon
  <2>1. PICK new : Installs(Staged(range, data), range, data, kept, dropped, new)
    OBVIOUS
  <2>2. cowBytes' + Bytes(Stale)' <= cowBytes + Bytes(Stale)
    BY <1>2, <2>1, UpdateAccounts, Zenon
  <2>3. UNCHANGED <<chunkSize, snapshots>>
    BY <1>2, SMTT(30) DEF Update, made
  <2>4. cowBytes \in Nat /\ cowBytes' \in Nat
    BY <1>2, <2>1, UpdateTypes, ZenonT(30) DEF Types
  <2>5. /\ cowBytes + Bytes(Stale) \in Nat /\ cowBytes' + Bytes(Stale)' \in Nat
        /\ Cardinality(Pairs) \in Nat
    <3> PICK old, stale : old = Stale /\ stale = Stale'
      OBVIOUS
    <3>1. Bytes(Stale)' = Bytes(stale) /\ Bytes(Stale) = Bytes(old)
      BY <2>3 DEF Bytes, ChunkOf
    <3>2. Bytes(stale) \in Nat /\ Bytes(old) \in Nat
      BY DEF Measure
    <3> QED BY <2>4, <3>1, <3>2, PairsFinite
  <2> QED BY <1>1, <2>2, <2>3, <2>5 DEF Copies
<1>3. CASE Snapshot
  <2>1. Stale' = DOMAIN chunks
    <3>1. chunks' = chunks /\ generation' = generation + 1
      BY <1>3 DEF Snapshot
    <3>2. \A i \in DOMAIN chunks : chunks[i].generation # generation + 1
      BY DEF Types
    <3> QED BY <3>1, <3>2, Zenon DEF Stale
  <2>2. Bytes(Stale)' = Bytes(DOMAIN chunks) /\ cowBytes' = cowBytes
    BY <1>3, <2>1, Fixed, Zenon DEF Snapshot, made, Bytes
  <2>3. Bytes(Stale) \in Nat /\ Bytes(DOMAIN chunks) \in Nat /\ cowBytes \in Nat
    BY DEF Measure, Types
  <2> QED BY <1>3, <2>2, <2>3, PairsGrow DEF Copies
<1>4. ASSUME UNCHANGED <<made, chunks, generation, cowBytes, snapshots>> PROVE Copies'
  <2>1. Bytes(Stale)' = Bytes(Stale)
    BY <1>4 DEF made, Stale, Bytes, ChunkOf
  <2> QED BY <1>1, <1>4, <2>1 DEF Copies, made
<1>5. CASE \E h \in Holder : Acquire(h) \/ Release(h)
  BY <1>4, <1>5 DEF Acquire, Release
<1>6. CASE Commit
  BY <1>4, <1>6 DEF Commit
<1>7. CASE UNCHANGED vars
  BY <1>4, <1>7 DEF vars, made
<1> QED BY <1>2, <1>3, <1>5, <1>6, <1>7, Steps

-----------------------------------------------------------------------------
(* The theorems.                                                           *)

\* A new overlay satisfies the invariant.
LEMMA InvariantInit == Init => Invariant
<1> SUFFICES ASSUME Init PROVE Invariant
  OBVIOUS
<1>1. Types /\ Filled /\ Leasing /\ DirtyExact /\ SharingTracked
  BY StartFacts, BytesFacts, HolderCounts
<1>2. Copies
  <2>1. Stale = {} /\ cowBytes = 0
    BY DEF Init, Stale
  <2>2. Bytes(Stale) = 0
    BY <2>1, BytesFacts DEF Measure
  <2> QED BY <1>1, <2>1, <2>2, PairsFinite DEF Copies
<1> QED BY <1>1, <1>2 DEF Invariant

\* Every step keeps the invariant.
LEMMA InvariantStep == Invariant /\ [Next]_vars => Invariant'
<1> SUFFICES ASSUME Invariant, [Next]_vars PROVE Invariant'
  OBVIOUS
<1>1. /\ Types /\ Filled /\ Leasing /\ DirtyExact /\ SharingTracked /\ Copies
      /\ Room /\ Measure /\ Counts
  BY RoomFacts, BytesFacts, HolderCounts, Zenon DEF Invariant
<1>2. Types' /\ Filled' /\ Leasing' /\ DirtyExact' /\ SharingTracked'
  BY <1>1, StepKeeps, Zenon
<1>3. Copies'
  BY <1>1, CopiesKept, Zenon
<1> QED BY <1>2, <1>3, Zenon DEF Invariant

\* The chunks, buffers, snapshots and leases of an overlay are consistent: for
\* any device and chunk size, after any writes, snapshots and commits.
THEOREM OverlayInvariant == Spec => []Invariant
BY InvariantInit, InvariantStep, PTL DEF Spec

\* updateLocked accounts exactly for dirty bytes, sharing and copies.
THEOREM OverlayAccounts == Spec => []AccountsExact
<1>1. Invariant => AccountsExact
  <2> SUFFICES ASSUME Invariant PROVE AccountsExact
    BY SMTT(30)
  <2>1. TypeOK
    <3>1. dirtyBytes \in Nat
      BY BytesFacts DEF Invariant, DirtyExact, Measure
    <3>2. leases \in Nat
      BY HolderCounts DEF Invariant, Leasing, Held, Counts
    <3>3. \A k \in DOMAIN snapshots : DOMAIN snapshots[k] \subseteq Index
      BY SnapshotFacts DEF Invariant
    <3>4. DOMAIN snapshots = 1..Len(snapshots)
      BY DEF Invariant, Types
    <3> QED BY <3>1, <3>2, <3>3, <3>4 DEF TypeOK, Invariant, Types, Filled
  <2>2. CopiedOnce
    <3>1. cowBytes \in Nat /\ Bytes(Stale) \in Nat /\ Cardinality(Pairs) \in Nat
      BY BytesFacts, PairsFinite DEF Invariant, Types, Measure
    <3>2. cowBytes <= Cardinality(Pairs)
      BY <3>1 DEF Invariant, Copies
    <3> QED BY <3>2, ZenonT(30) DEF CopiedOnce, Pairs
  <2> QED BY <2>1, <2>2 DEF AccountsExact, Invariant
<1> QED BY <1>1, OverlayInvariant, PTL

\* Commit seals an overlay that nobody leases, and no lease is granted after.
THEOREM LeaseKeepsWritable == Spec => []LeasedIsWritable
<1>1. Invariant => LeasedIsWritable
  <2> SUFFICES ASSUME Invariant, sealed, NEW h \in Holder, lease[h] = "held" PROVE FALSE
    BY DEF LeasedIsWritable
  <2>1. Held \in SUBSET Holder /\ h \in Held
    BY DEF Held
  <2>2. Cardinality(Held) = 0
    BY DEF Invariant, Leasing
  <2> QED BY <2>1, <2>2, HolderCounts DEF Counts
<1> QED BY <1>1, OverlayInvariant, PTL

\* A write that succeeds has the effect of the same write to a flat disk.
THEOREM OverlayWrites == Spec => []WritesExact
<1>1. Invariant => WritesExact
  BY WritesFacts, RoomFacts, Zenon DEF Invariant
<1> QED BY <1>1, OverlayInvariant, PTL

\* The overlay is a flat disk with immutable snapshots: no write reaches a
\* buffer that a snapshot took, and a snapshot freezes what is on the disk.
THEOREM OverlayRefines == Spec => ImplementsFlatDisk
<1>1. Init => Abstract!Init
  <2> SUFFICES ASSUME Init PROVE Abstract!Init
    OBVIOUS
  <2>1. Types /\ Filled
    BY InvariantInit DEF Invariant
  <2>2. Frozen = <<>>
    BY DEF Init, Frozen
  <2> QED BY <2>1, <2>2, ContentFacts DEF Abstract!Init, Init, Frozen
<1>2. Invariant /\ [Next]_vars => [Abstract!Next]_(Abstract!vars)
  BY StepRefines, RoomFacts, Zenon DEF Invariant
<1> QED BY <1>1, <1>2, OverlayInvariant, PTL DEF Spec, ImplementsFlatDisk, Abstract!Spec

=============================================================================
