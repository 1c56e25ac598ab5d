--------------------------- MODULE OverlayExtents ---------------------------
(***************************************************************************)
(* The maps an overlay reports of itself (block/star/overlay.go): its      *)
(* allocation extents, which the NBD server passes on as block status, and *)
(* the dirty extents of its statistics.                                    *)
(***************************************************************************)
EXTENDS BlockOverlay, SequencesExt

Extent(offset, length, allocated) ==
    [offset |-> offset, length |-> length, allocated |-> allocated]

\* Mutant: two neighbours are merged whatever they are.
AppendExtent_Blind(out, e) ==
    IF e.length <= 0 THEN out
    ELSE IF out # <<>> /\ Last(out).offset + Last(out).length = e.offset
         THEN Append(Front(out), Extent(Last(out).offset, Last(out).length + e.length,
                                        Last(out).allocated))
         ELSE Append(out, e)

AppendExtent(out, e) ==
    IF e.length <= 0 THEN out
    ELSE IF /\ out # <<>>
            /\ Last(out).offset + Last(out).length = e.offset
            /\ Last(out).allocated = e.allocated
         THEN Append(Front(out), Extent(Last(out).offset, Last(out).length + e.length,
                                        e.allocated))
         ELSE Append(out, e)

\* A base may split its map anywhere: here, after every position.
BaseExtents(allocated, start, size) ==
    [k \in 1..size |-> Extent(start + k - 1, 1, start + k - 1 \in allocated)]

AppendBase(out, allocated, start, size) ==
    IF size <= 0 THEN out ELSE FoldLeft(AppendExtent, out, BaseExtents(allocated, start, size))

Larger(a, b) == IF a > b THEN a ELSE b
Smaller(a, b) == IF a < b THEN a ELSE b

\* overlayExtentMap: the base up to each dirty chunk, the chunk, the rest.
\* `allocated` is the set of positions the base reports as allocated.
ExtentMap(allocated, dirty, off, length) ==
    LET end == off + length
        indices == {i \in dirty : i * chunkSize < end /\ i * chunkSize + chunkSize > off}
        step(acc, i) ==
            LET start == i * chunkSize
                from == Larger(acc.position, start)
                to == Smaller(end, start + chunkSize)
            IN [out |-> AppendExtent(AppendBase(acc.out, allocated, acc.position, start - acc.position),
                                     Extent(from, to - from, TRUE)),
                position |-> Larger(from, to)]
        last == FoldLeft(step, [out |-> <<>>, position |-> off],
                         SetToSortSeq(indices, <))
    IN IF length = 0 THEN <<>>
       ELSE AppendBase(last.out, allocated, last.position, end - last.position)

DirtyRun(first, last) ==
    [offset |-> first * chunkSize,
     length |-> Smaller((last - first + 1) * chunkSize, Size - first * chunkSize)]

\* Stats: one extent for every maximal run of dirty chunks.
DirtyExtents(dirty) ==
    {DirtyRun(first, last) : <<first, last>> \in
        {run \in dirty \X dirty :
            /\ run[1] <= run[2] /\ run[1]..run[2] \subseteq dirty
            /\ run[1] - 1 \notin dirty /\ run[2] + 1 \notin dirty}}

-----------------------------------------------------------------------------
\* The extents of any range cover it without gap or overlap, in order and as
\* few as possible, and say "allocated" of exactly the positions that a
\* dirty chunk or the base holds.
ExtentsExact(allocated) ==
    \A off \in 0..Size : \A length \in 0..(Size - off) :
        LET e == ExtentMap(allocated, DOMAIN chunks, off, length) IN
        /\ length = 0 => e = <<>>
        /\ length > 0 =>
            /\ e[1].offset = off /\ Last(e).offset + Last(e).length = off + length
            /\ \A k \in 1..(Len(e) - 1) :
                /\ e[k + 1].offset = e[k].offset + e[k].length
                /\ e[k + 1].allocated # e[k].allocated
            /\ \A k \in 1..Len(e) :
                /\ e[k].length > 0
                /\ \A p \in e[k].offset..(e[k].offset + e[k].length - 1) :
                    e[k].allocated <=> p \in allocated \/ ChunkOf(p) \in DOMAIN chunks

\* The dirty extents that the statistics list add up to the dirty bytes.
DirtyExtentsExact ==
    dirtyBytes = FoldSet(LAMBDA e, sum : e.length + sum, 0, DirtyExtents(DOMAIN chunks))

\* Both maps an overlay gives of itself, to NBD clients and in its
\* statistics, describe the chunks it holds, whatever its base has allocated.
ExtentMapsExact ==
    /\ DirtyExtentsExact
    /\ \A allocated \in SUBSET Position : ExtentsExact(allocated)
=============================================================================
