-------------------------- MODULE ScsStorageProofs --------------------------
(***************************************************************************)
(* Steps outside an operation keep the inductive invariant of              *)
(* ScsRepository: the edits of workspaces, loads, Close, process crashes,  *)
(* power loss, Open by the sealed index or by scanning the file, and the   *)
(* start of an operation.  Before them, the lemmas: what the storage calls *)
(* do to the three images of the log (memory, file, disk), and what a step *)
(* that only extends the log preserves.                                    *)
(***************************************************************************)
EXTENDS ScsRecoveryProofs

-----------------------------------------------------------------------------
(* Records at the end of the log.                                          *)

\* So is a well-ordered log with one more placed record.
LEMMA ChildrenAppend ==
    ASSUME NEW l \in Seq(Record), NEW rec \in Record, ChildrenFirst(l),
           Placed(Append(l, rec), Len(l) + 1)
    PROVE  ChildrenFirst(Append(l, rec))
<1> DEFINE m == Append(l, rec)
<1>1. Len(m) = Len(l) + 1 /\ \A i \in 1..Len(l) : m[i] = l[i]
  BY AppendFacts
<1>2. ASSUME NEW i \in 1..Len(l) PROVE Placed(m, i)
  <2>1. Placed(l, i)
    BY DEF ChildrenFirst
  <2>2. \A j \in 1..i : l[j] = m[j]
    BY <1>1
  <2> HIDE DEF m
  <2> QED
    BY <2>1, <2>2, PlacedSame
<1>3. \A i \in 1..Len(m) : i \in 1..Len(l) \/ i = Len(l) + 1
  BY <1>1
<1> QED
  BY <1>2, <1>3 DEF ChildrenFirst

\* Every kind of record the repository appends is placed at the end of a log
\* that holds what it refers to.
LEMMA AppendPlaced ==
    ASSUME NEW l \in Seq(Record), ChildrenFirst(l)
    PROVE  /\ \A o \in Object : ChildrenFirst(Append(l, ObjectRec(o)))
           /\ ChildrenFirst(Append(l, RunRec))
           /\ \A s \in ID :
                (\A o \in s : Before(l, Len(l) + 1, ObjectRec(o))) =>
                    ChildrenFirst(Append(l, SnapRec(s)))
           /\ \A r \in Refs :
                (\A n \in Name : r[n] # None => Before(l, Len(l) + 1, SnapRec(r[n])))
                    => ChildrenFirst(Append(l, RefsRec(r)))
<1>1. ASSUME NEW rec \in Record, NEW x, Before(l, Len(l) + 1, x)
      PROVE Before(Append(l, rec), Len(l) + 1, x)
  BY <1>1, AppendFacts DEF Before
<1>2. \A rec \in Record : Append(l, rec)[Len(l) + 1] = rec
  BY AppendFacts
<1>3. ASSUME NEW o \in Object PROVE ChildrenFirst(Append(l, ObjectRec(o)))
  BY <1>2, RecordFacts, ChildrenAppend DEF Placed
<1>4. ChildrenFirst(Append(l, RunRec))
  BY <1>2, RecordFacts, ChildrenAppend DEF Placed
<1>5. ASSUME NEW s \in ID, \A o \in s : Before(l, Len(l) + 1, ObjectRec(o))
      PROVE ChildrenFirst(Append(l, SnapRec(s)))
  <2>1. SnapRec(s) \in Record /\ SnapRec(s).kind = "snapshot" /\ SnapRec(s).tree = s
    BY RecordFacts
  <2>2. Placed(Append(l, SnapRec(s)), Len(l) + 1)
    BY <1>1, <1>2, <1>5, <2>1 DEF Placed
  <2> QED
    BY <2>1, <2>2, ChildrenAppend
<1>6. ASSUME NEW r \in Refs,
             \A n \in Name : r[n] # None => Before(l, Len(l) + 1, SnapRec(r[n]))
      PROVE ChildrenFirst(Append(l, RefsRec(r)))
  <2>1. RefsRec(r) \in Record /\ RefsRec(r).kind = "refs" /\ RefsRec(r).refs = r
    BY RecordFacts
  <2>2. Placed(Append(l, RefsRec(r)), Len(l) + 1)
    BY <1>1, <1>2, <1>6, <2>1 DEF Placed
  <2> QED
    BY <2>1, <2>2, ChildrenAppend
<1> QED
  BY <1>3, <1>4, <1>5, <1>6

\* The two records that seal an index whose contents are all in the log.
LEMMA SealPlaced ==
    ASSUME NEW l \in Seq(Record), ChildrenFirst(l),
           NEW r \in Refs, NEW O \in ID, NEW S \in SUBSET ID,
           \A n \in Name : r[n] # None => r[n] \in S,
           \A o \in O : Before(l, Len(l) + 1, ObjectRec(o)),
           \A s \in S : Before(l, Len(l) + 1, SnapRec(s)) /\ s \subseteq O
    PROVE  /\ Append(Append(l, RootRec(r, O, S)), EndRec) \in Seq(Record)
           /\ Len(Append(Append(l, RootRec(r, O, S)), EndRec)) = Len(l) + 2
           /\ ChildrenFirst(Append(Append(l, RootRec(r, O, S)), EndRec))
           /\ \A i \in 1..Len(l) :
                Append(Append(l, RootRec(r, O, S)), EndRec)[i] = l[i]
<1> DEFINE root == RootRec(r, O, S)
<1> DEFINE m == Append(l, root)
<1>1. /\ root \in Record /\ root.kind = "root"
      /\ root.refs = r /\ root.objs = O /\ root.snaps = S
  BY RecordFacts
<1> HIDE DEF root
<1>2. /\ m \in Seq(Record) /\ Len(m) = Len(l) + 1
      /\ m[Len(l) + 1] = root
      /\ \A i \in 1..Len(l) : m[i] = l[i]
  BY <1>1, AppendFacts
<1>3. \A x : Before(l, Len(l) + 1, x) => Before(m, Len(l) + 1, x)
  BY <1>2 DEF Before
<1>4. Placed(m, Len(l) + 1)
  BY <1>1, <1>2, <1>3 DEF Placed
<1>5. ChildrenFirst(m)
  BY <1>1, <1>4, ChildrenAppend
<1> HIDE DEF m
<1>6. EndRec \in Record /\ EndRec.kind = "end"
  BY RecordFacts
<1>7. /\ Append(m, EndRec) \in Seq(Record) /\ Len(Append(m, EndRec)) = Len(m) + 1
      /\ Append(m, EndRec)[Len(m) + 1] = EndRec
      /\ \A i \in 1..Len(m) : Append(m, EndRec)[i] = m[i]
  BY <1>2, <1>6, AppendFacts
<1>8. Append(m, EndRec)[Len(l) + 1] = root
  BY <1>2, <1>7
<1>9. Placed(Append(m, EndRec), Len(m) + 1)
  BY <1>1, <1>2, <1>6, <1>7, <1>8 DEF Placed
<1>10. ChildrenFirst(Append(m, EndRec))
  BY <1>2, <1>5, <1>6, <1>9, ChildrenAppend
<1>11. /\ Append(m, EndRec) \in Seq(Record)
       /\ Len(Append(m, EndRec)) = Len(l) + 2
       /\ \A i \in 1..Len(l) : Append(m, EndRec)[i] = l[i]
  BY <1>2, <1>7
<1> QED
  BY <1>10, <1>11 DEF m, root

-----------------------------------------------------------------------------
(* What the storage calls do to the storage, and steps that extend the log.*)

\* A write, a flush or a failed write of a longer log keeps the images nested.
LEMMA WriteFacts ==
    ASSUME StorageType, Images, NEW m \in Seq(Record), Len(log) <= Len(m),
           Appended(m) \/ Flushed(m) \/ WriteFailed(m)
    PROVE  /\ StorageType' /\ Images'
           /\ log' = m /\ ndisk' = ndisk
           /\ Flushed(m) => nfile' = Len(m)
<1>1. log' = m /\ ndisk' = ndisk /\ dtorn' = dtorn
  BY DEF Appended, Flushed, WriteFailed
<1>2. faults' = faults \/ faults' = faults + 1
  BY DEF Appended, Flushed, WriteFailed, Fault
<1>3. nfile' = Len(m) \/ nfile' \in nfile..Len(m)
  BY ZenonT(60) DEF Appended, Flushed, WriteFailed, Spill
<1>4. torn' = FALSE \/ torn' \in BOOLEAN
  <2>1. Spill(Len(m)) => torn' \in BOOLEAN
    BY Zenon DEF Spill
  <2> QED
    BY <2>1, Zenon DEF Appended, Flushed, WriteFailed
<1>5. nfile' \in Nat /\ nfile <= nfile' /\ nfile' <= Len(m)
  BY <1>3 DEF StorageType, Images
<1>6. StorageType'
  <2>1. faults' \in Nat
    BY <1>2 DEF StorageType
  <2>2. torn' \in BOOLEAN
    BY <1>4, Zenon
  <2> QED
    BY <1>1, <1>5, <2>1, <2>2, Zenon DEF StorageType
<1>7. Images'
  BY <1>1, <1>5 DEF StorageType, Images
<1> QED
  BY <1>1, <1>6, <1>7 DEF Flushed

Extended ==
    /\ log' \in Seq(Record)
    /\ Len(log) <= Len(log')
    /\ \A i \in 1..Len(log) : log'[i] = log[i]

\* The IDs that have been promised to be durable.
Promised == (returned \cup {ws[w].snap : w \in Workspace}) \ {None}

\* What was in the log stays in it.
LEMMA LoggedKept ==
    ASSUME StorageType, Extended, NEW rec, Logged(rec)
    PROVE  Logged(rec)'
  BY DEF StorageType, Extended, Logged

\* Durable snapshots stay durable when the durable image grows.
LEMMA DurableKept ==
    ASSUME SnapshotsDurable, ndisk \in Nat, ndisk' \in Nat, ndisk <= ndisk',
           \A i \in 1..ndisk : log'[i] = log[i],
           Promised' \subseteq Promised
    PROVE  SnapshotsDurable'
<1>1. \A rec : OnDisk(rec) => OnDisk(rec)'
  BY DEF OnDisk
<1>2. \A id \in Promised : OnDisk(SnapRec(id)) /\ \A o \in id : OnDisk(ObjectRec(o))
  BY DEF SnapshotsDurable, Promised
<1>3. \A id \in Promised' : OnDisk(SnapRec(id))' /\ \A o \in id : OnDisk(ObjectRec(o))'
  BY <1>1, <1>2
<1> QED
  BY <1>3 DEF SnapshotsDurable, Promised

\* A failed write poisons the handle and keeps the rest of its memory.
LEMMA PoisonFacts ==
    ASSUME MemoryType, NEW m, WriteFailed(m)
    PROVE  MemoryType' /\ mode' = "poisoned" /\ op' = Idle /\ ws' = ws
           /\ objs' = objs /\ snaps' = snaps /\ refs' = refs
  BY RestingFacts, Zenon DEF MemoryType, WriteFailed

\* A write error at any point leaves a poisoned handle with an ordered log.
LEMMA PoisonStep ==
    ASSUME IndInv, NEW m \in Seq(Record), Len(log) <= Len(m),
           \A i \in 1..Len(log) : m[i] = log[i],
           ChildrenFirst(m), WriteFailed(m), SeenType', returned' = returned
    PROVE  IndInv'
<1>1. StorageType /\ MemoryType /\ Images
  BY TypeParts DEF IndInv, Nested, Images
<1>2. StorageType' /\ Images' /\ log' = m /\ ndisk' = ndisk
  BY <1>1, WriteFacts
<1>3. MemoryType' /\ mode' = "poisoned" /\ op' = Idle /\ ws' = ws
  BY <1>1, PoisonFacts
<1>4. TypeOK'
  BY <1>2, <1>3, TypeParts
<1>5. Nested'
  BY <1>2, <1>3 DEF Nested, Images
<1>6. ChildrenFirst(log)'
  BY <1>2 DEF ChildrenFirst, Placed, Before
<1>7. Remembered'
  BY <1>3 DEF Remembered
<1>8. Staged'
  BY <1>3, RestingFacts DEF Staged
<1>9. SnapshotsDurable'
  <2>1. Promised' \subseteq Promised
    BY <1>3 DEF Promised
  <2>2. \A i \in 1..ndisk : log'[i] = log[i]
    BY <1>1, <1>2 DEF Images, StorageType
  <2> QED
    BY <1>1, <1>2, <2>1, <2>2, DurableKept DEF IndInv, StorageType
<1> QED
  BY <1>4, <1>5, <1>6, <1>7, <1>8, <1>9 DEF IndInv

\* A step of an open handle that extends the log and promises nothing new.
LEMMA OpenStep ==
    ASSUME IndInv, mode' = "open", StorageType', MemoryType', SeenType', Images',
           Extended, ChildrenFirst(log)', Remembered', Staged',
           ndisk' = ndisk \/ ndisk <= ndisk', Promised' \subseteq Promised
    PROVE  IndInv'
<1>1. StorageType /\ TypeOK' /\ Images
  BY TypeParts, Zenon DEF IndInv, Nested, Images
<1>2. Nested'
  BY DEF Nested, Images
<1>3. \A i \in 1..ndisk : log'[i] = log[i]
  BY <1>1 DEF Images, StorageType, Extended
<1>4. SnapshotsDurable'
  BY <1>1, <1>3, DurableKept DEF IndInv, StorageType
<1> QED
  BY <1>1, <1>2, <1>4 DEF IndInv

\* A log with one more record extends the log, whatever happens to the rest.
LEMMA ExtendedBy ==
    ASSUME StorageType, NEW rec \in Record
    PROVE  /\ Append(log, rec) \in Seq(Record)
           /\ Len(log) <= Len(Append(log, rec))
           /\ \A i \in 1..Len(log) : Append(log, rec)[i] = log[i]
           /\ log' = Append(log, rec) => Extended /\ Logged(rec)'
<1>1. /\ Append(log, rec) \in Seq(Record)
      /\ Len(Append(log, rec)) = Len(log) + 1
      /\ \A i \in 1..Len(log) : Append(log, rec)[i] = log[i]
      /\ Append(log, rec)[Len(log) + 1] = rec
  BY AppendFacts DEF StorageType
<1>2. Len(log) \in Nat
  BY DEF StorageType
<1> HIDE DEF StorageType
<1>3. ASSUME log' = Append(log, rec) PROVE Extended /\ Logged(rec)'
  <2>1. Len(log') = Len(log) + 1 /\ log'[Len(log) + 1] = rec
    BY <1>1, <1>3
  <2>2. Logged(rec)'
    BY <2>1, <1>2 DEF Logged
  <2>3. Extended
    BY <1>1, <1>2, <1>3 DEF Extended
  <2> QED
    BY <2>2, <2>3
<1> QED
  BY <1>1, <1>2, <1>3

\* A step that leaves the log alone and keeps the images nested extends it.
LEMMA SameLog ==
    ASSUME IndInv, log' = log
    PROVE  /\ Extended /\ ChildrenFirst(log)'
           /\ UNCHANGED storage => StorageType' /\ Images' /\ ndisk' = ndisk
           /\ Flushed(log) => StorageType' /\ Images' /\ ndisk' = ndisk
                              /\ nfile' = Len(log)
<1>1. StorageType /\ Images
  BY TypeParts DEF IndInv, Nested, Images
<1>2. Extended
  BY <1>1, SMTT(60) DEF Extended, StorageType
<1>3. ChildrenFirst(log)'
  BY DEF IndInv, ChildrenFirst, Placed, Before
<1>4. ASSUME UNCHANGED storage PROVE StorageType' /\ Images' /\ ndisk' = ndisk
  BY <1>1, <1>4, Zenon DEF storage, StorageType, Images
<1>5. ASSUME Flushed(log)
      PROVE StorageType' /\ Images' /\ ndisk' = ndisk /\ nfile' = Len(log)
  BY <1>1, <1>5, WriteFacts DEF StorageType
<1> QED
  BY <1>2, <1>3, <1>4, <1>5

\* Replacing one workspace by a well-typed one.
LEMMA WorkspaceFacts ==
    ASSUME MemoryType, NEW w \in Workspace, NEW s \in WorkspaceState,
           ws' = [ws EXCEPT ![w] = s]
    PROVE  /\ ws' \in [Workspace -> WorkspaceState]
           /\ \A v \in Workspace :
                /\ ws'[v].root = IF v = w THEN s.root ELSE ws[v].root
                /\ ws'[v].snap = IF v = w THEN s.snap ELSE ws[v].snap
  BY DEF MemoryType

\* The fields of a workspace, one by one.
LEMMA WorkspaceFields ==
    ASSUME MemoryType, NEW w \in Workspace
    PROVE  /\ ws[w].state \in {"none", "live"}
           /\ ws[w].root \in ID
           /\ ws[w].snap \in {None} \cup ID
           /\ ws[w].name \in Name \cup {None}
           /\ ws[w].base \in {None} \cup ID
<1>1. ws[w] \in WorkspaceState
  BY DEF MemoryType
<1> QED
  BY <1>1 DEF WorkspaceState

\* At moves the operation in progress to another stage and nothing else.
LEMMA AtFacts ==
    ASSUME MemoryType,
           NEW stage \in {"idle", "save", "write1", "fsync1", "refs", "base",
                          "write2", "fsync2"}
    PROVE  /\ At(stage) \in Operation
           /\ At(stage).kind = op.kind /\ At(stage).stage = stage
           /\ At(stage).w = op.w /\ At(stage).name = op.name /\ At(stage).id = op.id
<1>1. /\ op.kind \in {"idle", "snapshot", "publish", "drop", "checkpoint", "close"}
      /\ op.w \in Workspace \cup {None} /\ op.name \in Name \cup {None}
      /\ op.id \in {None} \cup ID
  BY DEF MemoryType, Operation
<1> QED
  BY <1>1 DEF At, Op, Operation

\* A step that only moves the operation in progress.
LEMMA OpStep ==
    ASSUME IndInv, mode = "open", UNCHANGED <<storage, memory, ws, seen>>,
           op' \in Operation, Staged'
    PROVE  IndInv'
<1>1. StorageType /\ MemoryType /\ SeenType /\ SeenType'
  BY TypeParts DEF IndInv, seen, SeenType
<1>2. /\ mode' = "open" /\ objs' = objs /\ snaps' = snaps /\ refs' = refs
      /\ pending' = pending /\ fast' = fast /\ ws' = ws /\ returned' = returned
      /\ log' = log
  BY DEF memory, seen, storage
<1>3. /\ StorageType' /\ Images' /\ Extended /\ ChildrenFirst(log)'
      /\ ndisk' = ndisk
  BY <1>2, SameLog
<1>4. MemoryType'
  BY <1>1, <1>2, ZenonT(60) DEF MemoryType
<1>5. Remembered'
  BY <1>2 DEF IndInv, Remembered, Logged
<1>6. Promised' \subseteq Promised
  BY <1>2 DEF Promised
<1> QED
  BY <1>1, <1>2, <1>3, <1>4, <1>5, <1>6, OpenStep, Zenon

-----------------------------------------------------------------------------
(* Workspaces.                                                             *)

\* The edits of workspaces and the loads keep the invariant.
LEMMA EditSteps ==
    /\ IndInv
    /\ \/ \E o \in Object : Ingest(o)
       \/ \E w \in Workspace :
            \/ \E o \in Object : Write(w, o) \/ Delete(w, o)
            \/ Empty(w)
            \/ \E n \in Name : Checkout(w, n)
            \/ \E id \in snaps : Fork(w, id)
    => IndInv'
\* Ingest: a data record refers to nothing.
<1>IngestStep.
    ASSUME IndInv, NEW o \in Object, Ingest(o)
    PROVE  IndInv'
  <2> USE <1>IngestStep
  <2> DEFINE m == Append(log, ObjectRec(o))
  <2>1. StorageType /\ MemoryType /\ SeenType /\ Images /\ SeenType'
    BY TypeParts DEF IndInv, Nested, Images, Ingest, seen, SeenType
  <2>2. ObjectRec(o) \in Record
    BY RecordFacts
  <2>3. /\ m \in Seq(Record) /\ Len(log) <= Len(m)
        /\ \A i \in 1..Len(log) : m[i] = log[i]
        /\ log' = m => Extended /\ Logged(ObjectRec(o))'
    BY <2>1, <2>2, ExtendedBy
  <2>4. ChildrenFirst(m)
    BY <2>1, AppendPlaced DEF IndInv, StorageType
  <2> HIDE DEF m
  <2>5. CASE WriteFailed(m)
    BY <2>1, <2>3, <2>4, <2>5, PoisonStep DEF Ingest, seen
  <2>6. CASE /\ Appended(m)
             /\ objs' = objs \cup {o}
             /\ UNCHANGED <<mode, fast, refs, snaps, pending, ws, op>>
    <3>1. StorageType' /\ Images' /\ log' = m /\ ndisk' = ndisk
      BY <2>1, <2>3, <2>6, WriteFacts
    <3>2. MemoryType'
      BY <2>1, <2>6 DEF MemoryType, ID
    <3>3. mode = "open" /\ op = Idle /\ mode' = "open"
      BY <2>6 DEF Ingest, Ready
    <3>4. Remembered'
      BY <2>1, <2>3, <2>6, <3>1, <3>3, LoggedKept DEF IndInv, Remembered
    <3>5. Staged'
      BY <2>6, <3>3, RestingFacts, SMTT(60) DEF Staged
    <3>6. ChildrenFirst(log)'
      BY <2>4, <3>1 DEF ChildrenFirst, Placed, Before
    <3>7. Promised' \subseteq Promised
      BY <2>6 DEF Promised, Ingest, seen
    <3> QED
      BY <2>1, <2>3, <2>6, <3>1, <3>2, <3>3, <3>4, <3>5, <3>6, <3>7, OpenStep, Zenon
  <2> QED
    BY <2>5, <2>6 DEF Ingest, m

\* Workspace.write: the new tree is made of known objects.
<1>WriteStep.
    ASSUME IndInv, NEW w \in Workspace, NEW o \in Object, Write(w, o)
    PROVE  IndInv'
  <2> USE <1>WriteStep
  <2> DEFINE m == Append(log, ObjectRec(o))
  <2>1. StorageType /\ MemoryType /\ SeenType /\ Images /\ SeenType'
    BY TypeParts DEF IndInv, Nested, Images, Write, seen, SeenType
  <2>2. /\ mode = "open" /\ op = Idle /\ mode' = "open" /\ op' = Idle
        /\ objs' = objs \cup {o} /\ snaps' = snaps /\ refs' = refs
        /\ pending' = pending /\ fast' = fast /\ returned' = returned
        /\ ws' = [ws EXCEPT ![w] = WS(ws[w].state, ws[w].root \cup {o}, None,
                                     ws[w].name, ws[w].base)]
    BY DEF Write, Ready, seen, Edited
  <2>3. /\ StorageType' /\ Images' /\ Extended /\ ChildrenFirst(log)'
        /\ ndisk' = ndisk /\ Logged(ObjectRec(o))'
    <3>1. CASE o \in objs
      <4>1. UNCHANGED storage
        BY <3>1 DEF Write
      <4>2. Logged(ObjectRec(o))
        BY <2>2, <3>1 DEF IndInv, Remembered
      <4> QED
        BY <2>1, <4>1, <4>2, SameLog, LoggedKept DEF storage
    <3>2. CASE o \notin objs
      <4>1. Appended(m)
        BY <3>2 DEF Write
      <4>2. ObjectRec(o) \in Record
        BY RecordFacts
      <4>3. m \in Seq(Record) /\ Len(log) <= Len(m)
        BY <2>1, <4>2, ExtendedBy
      <4>4. StorageType' /\ Images' /\ log' = m /\ ndisk' = ndisk
        BY <2>1, <4>1, <4>3, WriteFacts, ZenonT(60)
      <4>5. Extended /\ Logged(ObjectRec(o))'
        BY <2>1, <4>2, <4>4, ExtendedBy
      <4>6. ChildrenFirst(m)
        BY <2>1, AppendPlaced DEF IndInv, StorageType
      <4>7. ChildrenFirst(log)'
        BY <4>4, <4>6 DEF ChildrenFirst, Placed, Before
      <4> QED
        BY <4>4, <4>5, <4>7
    <3> QED
      BY <3>1, <3>2
  <2>4. ws[w].root \cup {o} \in ID
    BY <2>1, WorkspaceFields DEF ID
  <2>5. /\ ws' \in [Workspace -> WorkspaceState]
        /\ \A v \in Workspace :
            /\ ws'[v].root = IF v = w THEN ws[w].root \cup {o} ELSE ws[v].root
            /\ ws'[v].snap = IF v = w THEN None ELSE ws[v].snap
    <3> DEFINE s == WS(ws[w].state, ws[w].root \cup {o}, None, ws[w].name, ws[w].base)
    <3>1. None \in {None} \cup ID
      OBVIOUS
    <3>2. s \in WorkspaceState /\ s.root = ws[w].root \cup {o} /\ s.snap = None
      <4>1. /\ ws[w].state \in {"none", "live"} /\ ws[w].name \in Name \cup {None}
            /\ ws[w].base \in {None} \cup ID
        BY <2>1, WorkspaceFields
      <4> QED
        BY <2>4, <3>1, <4>1 DEF WS, WorkspaceState
    <3>3. ws' = [ws EXCEPT ![w] = s]
      BY <2>2
    <3> HIDE DEF s
    <3> QED
      BY <2>1, <3>2, <3>3, WorkspaceFacts, ZenonT(60)
  <2>6. MemoryType'
    BY <2>1, <2>2, <2>5, SMTT(60) DEF MemoryType, ID
  <2>7. Remembered'
    <3>1. \A x \in objs' : Logged(ObjectRec(x))'
      BY <2>1, <2>2, <2>3, LoggedKept DEF IndInv, Remembered
    <3>2. \A x \in snaps' : Logged(SnapRec(x))' /\ x \subseteq objs'
      BY <2>1, <2>2, <2>3, LoggedKept DEF IndInv, Remembered
    <3>3. \A v \in Workspace : /\ ws'[v].root \subseteq objs'
                               /\ ws'[v].snap # None => ws'[v].snap = ws'[v].root
                                                        /\ ws'[v].snap \in snaps'
      BY <2>2, <2>5, ZenonT(60) DEF IndInv, Remembered
    <3> QED
      BY <2>2, <3>1, <3>2, <3>3, ZenonT(60) DEF IndInv, Remembered
  <2>8. Staged'
    BY <2>2, RestingFacts DEF Staged
  <2>9. Promised' \subseteq Promised
    BY <2>2, <2>5, ZenonT(60) DEF Promised
  <2> QED
    BY <2>1, <2>2, <2>3, <2>6, <2>7, <2>8, <2>9, OpenStep, Zenon

\* Delete, Empty, Checkout and Fork: a workspace gets a tree of known objects
\* and no memoized snapshot.
<1>ReplaceStep.
    ASSUME IndInv, Ready, NEW w \in Workspace, NEW s \in WorkspaceState,
           s.snap = None, s.root \subseteq objs, ws' = [ws EXCEPT ![w] = s],
           UNCHANGED <<memory, op, seen>>, UNCHANGED storage \/ Flushed(log)
    PROVE  IndInv'
  <2> USE <1>ReplaceStep
  <2>1. StorageType /\ MemoryType /\ SeenType /\ SeenType'
    BY TypeParts DEF IndInv, seen, SeenType
  <2>2. /\ mode = "open" /\ op = Idle /\ mode' = "open" /\ op' = Idle
        /\ objs' = objs /\ snaps' = snaps /\ refs' = refs
        /\ pending' = pending /\ fast' = fast /\ returned' = returned
    BY DEF Ready, memory, seen
  <2>3. log' = log
    BY DEF storage, Flushed
  <2>4. /\ StorageType' /\ Images' /\ Extended /\ ChildrenFirst(log)'
        /\ ndisk' = ndisk
    BY <2>3, SameLog
  <2>5. /\ ws' \in [Workspace -> WorkspaceState]
        /\ \A v \in Workspace :
            /\ ws'[v].root = IF v = w THEN s.root ELSE ws[v].root
            /\ ws'[v].snap = IF v = w THEN s.snap ELSE ws[v].snap
    BY <2>1, WorkspaceFacts, ZenonT(60)
  <2>6. MemoryType'
    BY <2>1, <2>2, <2>5 DEF MemoryType
  <2>7. Remembered'
    <3>1. \A x \in objs : Logged(ObjectRec(x))'
      BY <2>1, <2>2, <2>4, LoggedKept, ZenonT(60) DEF IndInv, Remembered
    <3>2. \A x \in snaps : Logged(SnapRec(x))' /\ x \subseteq objs
      BY <2>1, <2>2, <2>4, LoggedKept, SMTT(60) DEF IndInv, Remembered
    <3>3. \A v \in Workspace : /\ ws'[v].root \subseteq objs
                               /\ ws'[v].snap # None => ws'[v].snap = ws'[v].root
                                                        /\ ws'[v].snap \in snaps
      BY <2>2, <2>5, SMTT(60) DEF IndInv, Remembered
    <3> QED
      BY <2>2, <3>1, <3>2, <3>3 DEF IndInv, Remembered
  <2>8. Staged'
    BY <2>2, RestingFacts, SMTT(60) DEF Staged
  <2>9. Promised' \subseteq Promised
    BY <2>2, <2>5 DEF Promised
  <2> QED
    BY <2>1, <2>2, <2>4, <2>6, <2>7, <2>8, <2>9, OpenStep, Zenon

\* Workspace.Delete removes an object from the tree.
<1>DeleteStep.
    ASSUME IndInv, NEW w \in Workspace, NEW o \in Object, Delete(w, o)
    PROVE  IndInv'
  <2> USE <1>DeleteStep
  <2> DEFINE s == Edited(ws[w], ws[w].root \ {o})
  <2>1. MemoryType /\ Ready
    BY TypeParts DEF IndInv, Delete
  <2>2. /\ ws[w].state \in {"none", "live"} /\ ws[w].name \in Name \cup {None}
        /\ ws[w].base \in {None} \cup ID /\ ws[w].root \ {o} \in ID
    BY <2>1, WorkspaceFields DEF ID
  <2>3. s \in WorkspaceState /\ s.root = ws[w].root \ {o} /\ s.snap = None
    BY <2>2 DEF Edited, WS, WorkspaceState
  <2>4. s.root \subseteq objs
    BY <2>1, <2>3, ZenonT(60) DEF IndInv, Remembered, Ready
  <2>5. ws' = [ws EXCEPT ![w] = s] /\ UNCHANGED <<storage, memory, op, seen>>
    BY DEF Delete
  <2> HIDE DEF s
  <2> QED
    BY <2>1, <2>3, <2>4, <2>5, <1>ReplaceStep, ZenonT(60)

\* Repository.Empty starts with the empty tree.
<1>EmptyStep.
    ASSUME IndInv, NEW w \in Workspace, Empty(w)
    PROVE  IndInv'
  <2> USE <1>EmptyStep
  <2> DEFINE s == WS("live", {}, None, None, None)
  <2>1. s \in WorkspaceState /\ s.root = {} /\ s.snap = None
    BY DEF WS, WorkspaceState, ID
  <2>2. ws' = [ws EXCEPT ![w] = s] /\ UNCHANGED <<storage, memory, op, seen>> /\ Ready
    BY DEF Empty
  <2> HIDE DEF s
  <2> QED
    BY <2>1, <2>2, <1>ReplaceStep, ZenonT(60)

\* load reads back a snapshot whose objects are all known.
<1>LoadStep.
    ASSUME IndInv, NEW w \in Workspace,
           (\E n \in Name : Checkout(w, n)) \/ (\E id \in snaps : Fork(w, id))
    PROVE  IndInv'
  <2> USE <1>LoadStep
  <2>1. MemoryType /\ Ready
    BY TypeParts DEF IndInv, Checkout, Fork
  <2>2. ASSUME NEW id \in snaps, NEW n \in Name \cup {None},
               NEW b \in {None} \cup ID,
               ws' = [ws EXCEPT ![w] = Load(id, n, b)],
               Flushed(log), UNCHANGED <<memory, op, seen>>
        PROVE IndInv'
    <3> DEFINE s == Load(id, n, b)
    <3>1. id \in ID /\ id \subseteq objs
      BY <2>1 DEF IndInv, Remembered, Ready, MemoryType
    <3>2. s \in WorkspaceState /\ s.root = id /\ s.snap = None
      BY <3>1 DEF Load, WS, WorkspaceState
    <3> HIDE DEF s
    <3> QED
      BY <2>1, <2>2, <3>1, <3>2, <1>ReplaceStep, ZenonT(60) DEF s
  <2>3. ASSUME NEW n \in Name, Checkout(w, n) PROVE IndInv'
    <3>1. refs[n] \in snaps /\ refs[n] \in {None} \cup ID
      BY <2>1, <2>3 DEF IndInv, Remembered, Ready, Checkout, MemoryType, Refs
    <3> QED
      BY <2>2, <2>3, <3>1, ZenonT(60) DEF Checkout
  <2>4. ASSUME NEW id \in snaps, Fork(w, id) PROVE IndInv'
    BY <2>2, <2>4, ZenonT(60) DEF Fork
  <2> QED
    BY <2>3, <2>4
<1> QED
  BY <1>IngestStep, <1>WriteStep, <1>DeleteStep, <1>EmptyStep, <1>LoadStep, Zenon

-----------------------------------------------------------------------------
(* Close, crashes and Open.                                                *)

\* So do a read that fails, Close, and every way of losing the handle.
LEMMA LossSteps ==
    /\ IndInv
    /\ \/ ReadFails
       \/ ClosePoisoned \/ FsyncClose \/ CloseFlush \/ ProcessCrash \/ PowerLoss
    => IndInv'
\* A read that cannot flush poisons the handle and writes nothing new.
<1>ReadFailsStep.
    ASSUME IndInv, ReadFails
    PROVE  IndInv'
  <2> USE <1>ReadFailsStep
  <2>1. StorageType /\ SeenType /\ SeenType' /\ returned' = returned
    BY TypeParts DEF IndInv, ReadFails, seen, SeenType
  <2> QED
    BY <2>1, PoisonStep DEF IndInv, ReadFails, StorageType

\* Losing the handle keeps a prefix of the log and resets the memory.
<1>GoneFacts.
    ASSUME StorageType, NEW n \in Nat, n <= Len(log), Gone(n)
    PROVE  /\ log' \in Seq(Record) /\ Len(log') = n /\ nfile' = n
           /\ \A i \in 1..n : log'[i] = log[i]
           /\ MemoryType'
           /\ mode' = "closed" /\ op' = Idle /\ pending' = None
           /\ ws' = [w \in Workspace |-> Detached]
           /\ UNCHANGED seen
  <2> USE <1>GoneFacts
  <2>1. log' \in Seq(Record) /\ Len(log') = n /\ \A i \in 1..n : log'[i] = log[i]
    BY PrefixFacts DEF Gone, StorageType
  <2>2. MemoryType'
    <3>1. ws' \in [Workspace -> WorkspaceState]
      BY RestingFacts DEF Gone
    <3>2. refs' \in Refs /\ objs' \in ID /\ snaps' \in SUBSET ID
      BY DEF Gone, NoRefs, Refs, ID
    <3> QED
      BY <3>1, <3>2, RestingFacts, Zenon DEF Gone, MemoryType
  <2> QED
    BY <2>1, <2>2 DEF Gone

\* Losing the handle leaves an ordered file that covers the durable image.
<1>GoneStep.
    ASSUME IndInv, NEW n \in Nat, ndisk <= n, n <= Len(log), Gone(n),
           ndisk' \in Nat, ndisk <= ndisk', ndisk' <= n,
           faults' \in Nat, torn' \in BOOLEAN, dtorn' \in BOOLEAN
    PROVE  IndInv'
  <2> USE <1>GoneStep
  <2>1. StorageType /\ SeenType
    BY TypeParts DEF IndInv
  <2>2. /\ log' \in Seq(Record) /\ Len(log') = n /\ nfile' = n
        /\ \A i \in 1..n : log'[i] = log[i]
        /\ MemoryType'
        /\ mode' = "closed" /\ op' = Idle /\ pending' = None
        /\ ws' = [w \in Workspace |-> Detached]
        /\ UNCHANGED seen
    BY <2>1, <1>GoneFacts
  <2>3. TypeOK'
    <3>1. StorageType'
      BY <2>2, Zenon DEF StorageType
    <3>2. SeenType'
      BY <2>1, <2>2 DEF SeenType, seen
    <3> QED
      BY <2>2, <3>1, <3>2, TypeParts
  <2>4. Nested'
    BY <2>2 DEF Nested
  <2>5. ChildrenFirst(log)'
    <3>1. ChildrenFirst(SubSeq(log, 1, n))
      BY <2>1, ChildrenPrefix DEF IndInv, StorageType
    <3>2. log' = SubSeq(log, 1, n)
      BY DEF Gone
    <3> QED
      BY <3>1, <3>2, ZenonT(60) DEF ChildrenFirst, Placed, Before
  <2>6. Remembered'
    BY <2>2 DEF Remembered
  <2>7. Staged'
    BY <2>2, RestingFacts DEF Staged
  <2>8. SnapshotsDurable'
    <3>1. Promised' \subseteq Promised
      BY <2>2, RestingFacts DEF Promised, seen
    <3>2. \A i \in 1..ndisk : log'[i] = log[i]
      BY <2>1, <2>2 DEF StorageType
    <3> QED
      BY <2>1, <3>1, <3>2, DurableKept DEF IndInv, StorageType
  <2> QED
    BY <2>3, <2>4, <2>5, <2>6, <2>7, <2>8 DEF IndInv

\* However the handle is lost, the file keeps at least what was durable.
<1>GoneSteps.
    ASSUME IndInv,
           ClosePoisoned \/ FsyncClose \/ CloseFlush \/ ProcessCrash \/ PowerLoss
    PROVE  IndInv'
  <2> USE <1>GoneSteps
  <2>1. StorageType /\ Images /\ Len(log) \in Nat
    BY TypeParts DEF IndInv, Nested, Images, StorageType
  <2>2. faults' \in Nat
    <3>1. faults' = faults \/ faults' = faults + 1
      BY ZenonT(60) DEF ClosePoisoned, FsyncClose, CloseFlush, ProcessCrash, PowerLoss, Fault
    <3> QED
      BY <2>1, <3>1 DEF StorageType
  <2>3. CASE ClosePoisoned \/ ProcessCrash
    <3>1. Gone(nfile) /\ ndisk' = ndisk /\ torn' = torn /\ dtorn' = dtorn
      BY <2>3 DEF ClosePoisoned, ProcessCrash
    <3>2. torn' \in BOOLEAN /\ dtorn' \in BOOLEAN
      BY <2>1, <3>1, Zenon DEF StorageType
    <3> QED
      BY <2>1, <2>2, <3>1, <3>2, <1>GoneStep DEF StorageType, Images
  <2>4. CASE FsyncClose
    <3>1. Gone(nfile) /\ ndisk' = nfile /\ torn' = torn /\ dtorn' = FALSE
      BY <2>4 DEF FsyncClose
    <3>2. torn' \in BOOLEAN /\ dtorn' \in BOOLEAN
      BY <2>1, <3>1, Zenon DEF StorageType
    <3> QED
      BY <2>1, <2>2, <3>1, <3>2, <1>GoneStep DEF StorageType, Images
  <2>5. CASE CloseFlush
    <3>1. Gone(Len(log)) /\ ndisk' = ndisk /\ torn' = FALSE /\ dtorn' = dtorn
      BY <2>5 DEF CloseFlush
    <3>2. torn' \in BOOLEAN /\ dtorn' \in BOOLEAN
      BY <2>1, <3>1, Zenon DEF StorageType
    <3> QED
      BY <2>1, <2>2, <3>1, <3>2, <1>GoneStep DEF StorageType, Images
  <2>6. CASE PowerLoss
    <3>1. PICK n \in ndisk..nfile :
            /\ Gone(n) /\ ndisk' = n
            /\ torn' \in (IF n < nfile \/ torn \/ dtorn THEN BOOLEAN ELSE {FALSE})
            /\ dtorn' = torn'
      BY <2>6, ZenonT(60) DEF PowerLoss
    <3>2. torn' \in BOOLEAN /\ dtorn' \in BOOLEAN
      BY <3>1, Zenon
    <3>3. n \in Nat /\ ndisk <= n /\ n <= Len(log)
      BY <2>1 DEF StorageType, Images
    <3> QED
      BY <2>1, <2>2, <3>1, <3>2, <3>3, <1>GoneStep DEF StorageType, Images
  <2> QED
    BY <2>3, <2>4, <2>5, <2>6
<1> QED
  BY <1>ReadFailsStep, <1>GoneSteps, Zenon

\* What the sealed index of a well-ordered file holds is in the file.
LEMMA ManifestFacts ==
    ASSUME NEW l \in Seq(Record), ChildrenFirst(l), HasFastTail(l)
    PROVE  /\ Manifest(l).refs \in Refs
           /\ Manifest(l).objs \in ID /\ Manifest(l).snaps \in SUBSET ID
           /\ \A o \in Manifest(l).objs : \E i \in 1..Len(l) : l[i] = ObjectRec(o)
           /\ \A s \in Manifest(l).snaps : /\ \E i \in 1..Len(l) : l[i] = SnapRec(s)
                                           /\ s \subseteq Manifest(l).objs
           /\ ManifestValid(l)
<1> DEFINE k == Len(l) - 1
<1>1. Len(l) \in Nat /\ Len(l) > 1 /\ l[Len(l)].kind = "end" /\ k \in 1..Len(l)
  BY DEF HasFastTail
<1>2. Placed(l, Len(l)) /\ Placed(l, k)
  BY <1>1, SMTT(60) DEF ChildrenFirst
<1>3. l[k].kind = "root" /\ l[k] \in Record /\ Manifest(l) = l[k]
  <2>1. Placed(l, Len(l)) => (l[Len(l)].kind = "end" => l[Len(l) - 1].kind = "root")
    BY Zenon DEF Placed
  <2>2. l[k].kind = "root"
    BY <1>1, <1>2, <2>1
  <2>3. l[k] \in Record
    BY <1>1
  <2> QED
    BY <2>2, <2>3, Zenon DEF Manifest
<1>4. /\ \A n \in Name : l[k].refs[n] # None => l[k].refs[n] \in l[k].snaps
      /\ \A o \in l[k].objs : Before(l, k, ObjectRec(o))
      /\ \A s \in l[k].snaps : Before(l, k, SnapRec(s)) /\ s \subseteq l[k].objs
  BY <1>2, <1>3, ZenonT(60) DEF Placed
<1>5. l[k].refs \in Refs /\ l[k].objs \in ID /\ l[k].snaps \in SUBSET ID
  BY <1>3 DEF Record
<1>6. \A rec : Before(l, k, rec) => \E i \in 1..Len(l) : l[i] = rec
  BY <1>1, SMTT(60) DEF Before
<1> HIDE DEF k
<1> QED
  BY <1>3, <1>4, <1>5, <1>6, ZenonT(60) DEF ManifestValid

\* So does Open, by the sealed index or by scanning the file.
LEMMA OpenSteps ==
    ASSUME LastExists
    PROVE  IndInv /\ ((\E verify \in BOOLEAN : Open(verify)) \/ OpenFails) => IndInv'
\* What the physical scan of a well-ordered file finds is in the file.
<1>ScanFacts.
    ASSUME NEW l \in Seq(Record), ChildrenFirst(l)
    PROVE  /\ ScanRefs(l) \in Refs
           /\ ScanObjs(l) \in ID /\ ScanSnaps(l) \in SUBSET ID
           /\ \A o \in ScanObjs(l) : \E i \in 1..Len(l) : l[i] = ObjectRec(o)
           /\ \A s \in ScanSnaps(l) : /\ \E i \in 1..Len(l) : l[i] = SnapRec(s)
                                      /\ s \subseteq ScanObjs(l)
           /\ \A n \in Name : ScanRefs(l)[n] # None => ScanRefs(l)[n] \in ScanSnaps(l)
  <2> USE <1>ScanFacts
  <2>1. /\ ScanObjs(l) \in ID /\ ScanSnaps(l) \in SUBSET ID
        /\ \A o \in ScanObjs(l) : \E i \in 1..Len(l) : l[i] = ObjectRec(o)
        /\ \A s \in ScanSnaps(l) : \E i \in 1..Len(l) : l[i] = SnapRec(s)
    BY DEF ScanObjs, ScanSnaps, ID
  <2>2. \A i \in 1..Len(l) : \A rec : Before(l, i, rec) => \E j \in 1..Len(l) : l[j] = rec
    BY DEF Before
  <2>3. ASSUME NEW s \in ScanSnaps(l), NEW o \in s PROVE o \in ScanObjs(l)
    <3>1. PICK i \in 1..Len(l) : l[i] = SnapRec(s)
      BY <2>1
    <3>2. s \in ID /\ o \in Object
      BY <2>1, SMTT(60) DEF ID
    <3>3. l[i].kind = "snapshot" /\ l[i].tree = s
      BY <3>1, <3>2, RecordFacts, SMTT(60)
    <3>4. Before(l, i, ObjectRec(o))
      BY <3>3 DEF ChildrenFirst, Placed
    <3> QED
      BY <2>2, <3>2, <3>4 DEF ScanObjs
  <2>4. ScanRefs(l) \in Refs
        /\ \A n \in Name : ScanRefs(l)[n] # None => ScanRefs(l)[n] \in ScanSnaps(l)
    <3>1. CASE RootIndexes(l) = {}
      BY <3>1, SMTT(60) DEF ScanRefs, NoRefs, Refs
    <3>2. CASE RootIndexes(l) # {}
      <4>1. RootIndexes(l) \in SUBSET (1..Len(l)) /\ Len(l) \in Nat
        BY DEF RootIndexes
      <4>2. PICK i \in RootIndexes(l) : i = LastOf(RootIndexes(l))
        BY <3>2, <4>1, ZenonT(60) DEF LastExists
      <4>3. i \in 1..Len(l) /\ l[i].kind = "refs" /\ l[i] \in Record
        BY DEF RootIndexes
      <4>4. ScanRefs(l) = l[i].refs
        BY <3>2, <4>2 DEF ScanRefs
      <4>5. l[i].refs \in Refs
        BY <4>3 DEF Record
      <4>6. \A n \in Name : l[i].refs[n] # None => Before(l, i, SnapRec(l[i].refs[n]))
        BY <4>3, ZenonT(60) DEF ChildrenFirst, Placed
      <4>7. \A n \in Name : l[i].refs[n] # None => l[i].refs[n] \in ID
        BY <4>5 DEF Refs
      <4> QED
        BY <2>2, <4>3, <4>4, <4>5, <4>6, <4>7 DEF ScanSnaps
    <3> QED
      BY <3>1, <3>2, SMTT(60)
  <2> QED
    BY <2>1, <2>3, <2>4, ZenonT(60)

\* Open finds a memory that matches the file, by the index and by the scan.
<1>OpenReadsStep.
    ASSUME IndInv, NEW verify \in BOOLEAN, Open(verify)
    PROVE  IndInv'
  <2> USE <1>OpenReadsStep
  <2>1. StorageType /\ MemoryType /\ SeenType /\ SeenType' /\ Images
    BY TypeParts DEF IndInv, Nested, Images, Open, seen, SeenType
  <2>2. /\ mode = "closed" /\ mode' = "open" /\ log' = log /\ nfile' = nfile
        /\ faults' = faults /\ pending' = pending /\ ws' = ws /\ op' = op
        /\ returned' = returned /\ fast' \in BOOLEAN /\ torn' = FALSE
        /\ \/ ndisk' = nfile /\ dtorn' = FALSE
           \/ ndisk' = ndisk /\ dtorn' = dtorn
    <3>1. fast' = (HasFastTail(log) /\ ~torn /\ ~verify)
      BY DEF Open
    <3>2. fast' \in BOOLEAN
      BY <3>1, ZenonT(60)
    <3>3. /\ mode = "closed" /\ mode' = "open" /\ log' = log /\ nfile' = nfile
          /\ faults' = faults /\ pending' = pending /\ ws' = ws /\ op' = op
          /\ returned' = returned /\ torn' = FALSE
      BY DEF Open, seen
    <3>4. \/ ndisk' = nfile /\ dtorn' = FALSE
          \/ ndisk' = ndisk /\ dtorn' = dtorn
      BY ZenonT(60) DEF Open
    <3> QED
      BY <3>2, <3>3, <3>4, SMTT(60)
  <2>3. /\ refs' \in Refs /\ objs' \in ID /\ snaps' \in SUBSET ID
        /\ \A o \in objs' : Logged(ObjectRec(o))
        /\ \A s \in snaps' : Logged(SnapRec(s)) /\ s \subseteq objs'
        /\ \A n \in Name : refs'[n] # None => refs'[n] \in snaps'
    <3>1. log \in Seq(Record) /\ ChildrenFirst(log)
      BY <2>1, SMTT(60) DEF IndInv, StorageType
    <3>2. CASE HasFastTail(log) /\ ~torn /\ ~verify
      <4>1. /\ refs' = Manifest(log).refs /\ objs' = Manifest(log).objs
            /\ snaps' = Manifest(log).snaps
        BY <3>2, SMTT(60) DEF Open
      <4> QED
        BY <3>1, <3>2, <4>1, ManifestFacts, ZenonT(60) DEF Logged, ManifestValid
    <3>3. CASE ~(HasFastTail(log) /\ ~torn /\ ~verify)
      <4>1. refs' = ScanRefs(log) /\ objs' = ScanObjs(log) /\ snaps' = ScanSnaps(log)
        BY <3>3 DEF Open
      <4> QED
        BY <3>1, <4>1, <1>ScanFacts, SMTT(60) DEF Logged
    <3> QED
      BY <3>2, <3>3
  <2>4. StorageType'
    <3>1. dtorn' \in BOOLEAN /\ torn' \in BOOLEAN
      BY <2>1, <2>2, Zenon DEF StorageType
    <3>2. ndisk' \in Nat /\ nfile' \in Nat
      BY <2>1, <2>2 DEF StorageType
    <3> QED
      BY <2>1, <2>2, <3>1, <3>2, Zenon DEF StorageType
  <2>5. MemoryType'
    BY <2>1, <2>2, <2>3, ZenonT(60) DEF MemoryType
  <2>6. Images' /\ ndisk <= ndisk'
    BY <2>1, <2>2 DEF Images, StorageType
  <2>7. Extended /\ ChildrenFirst(log)'
    BY <2>2, SameLog
  <2>8. Remembered'
    <3>1. pending' = None /\ \A w \in Workspace : ws'[w].root = {} /\ ws'[w].snap = None
      BY <2>2, RestingFacts DEF IndInv, Nested
    <3>2. \A rec : Logged(rec) => Logged(rec)'
      BY <2>2, SMTT(60) DEF Logged
    <3> QED
      BY <2>3, <3>1, <3>2, SMTT(60) DEF Remembered
  <2>9. Staged'
    BY <2>2, RestingFacts, SMTT(60) DEF IndInv, Nested, Staged
  <2>10. Promised' \subseteq Promised
    BY <2>2 DEF Promised
  <2> QED
    BY <2>1, <2>2, <2>4, <2>5, <2>6, <2>7, <2>8, <2>9, <2>10, OpenStep, Zenon

\* An Open that cannot sync its trimmed file leaves it closed.
<1>OpenFailsStep.
    ASSUME IndInv, OpenFails
    PROVE  IndInv'
  <2> USE <1>OpenFailsStep
  <2>1. StorageType /\ MemoryType /\ SeenType /\ Images
    BY TypeParts DEF IndInv, Nested, Images
  <2>2. /\ log' = log /\ nfile' = nfile /\ dtorn' = dtorn /\ torn' = FALSE
        /\ ndisk' \in ndisk..nfile /\ faults' = faults
        /\ mode = "closed" /\ mode' = mode /\ op' = op /\ ws' = ws
        /\ pending' = pending /\ returned' = returned
    BY DEF OpenFails, memory, seen
  <2>3. ndisk' \in Nat /\ ndisk <= ndisk' /\ ndisk' <= nfile /\ faults' \in Nat
    BY <2>1, <2>2 DEF StorageType
  <2>4. StorageType'
    <3>1. torn' \in BOOLEAN
      BY <2>2, Zenon
    <3> QED
      BY <2>1, <2>2, <2>3, <3>1, Zenon DEF StorageType
  <2>5. MemoryType' /\ SeenType'
    BY <2>1, ZenonT(60) DEF OpenFails, memory, seen, MemoryType, SeenType
  <2>6. Nested'
    BY <2>1, <2>2, <2>3, SMTT(60) DEF IndInv, Nested, Images
  <2>7. ChildrenFirst(log)' /\ Remembered' /\ Staged'
    BY <2>2, SameLog, RestingFacts, ZenonT(60) DEF Remembered, Staged, IndInv, Nested
  <2>8. SnapshotsDurable'
    <3>1. Promised' \subseteq Promised
      BY <2>2 DEF Promised
    <3> QED
      BY <2>1, <2>2, <2>3, <3>1, DurableKept, SMTT(60) DEF IndInv, StorageType
  <2> QED
    BY <2>4, <2>5, <2>6, <2>7, <2>8, TypeParts, SMTT(60) DEF IndInv
<1> QED
  BY <1>OpenReadsStep, <1>OpenFailsStep, Zenon

-----------------------------------------------------------------------------
(* The start of an operation.                                              *)

\* So does the start of an operation.
LEMMA StartSteps ==
    /\ IndInv
    /\ \/ \E w \in Workspace : Snapshot(w) \/ \E n \in Name : Publish(w, n)
       \/ \E n \in Name, id \in ID : Drop(n, id)
       \/ Checkpoint \/ CloseUnsealed
    => IndInv'
\* The operation of Snapshot, field by field.
<1>SnapshotOp.
    ASSUME NEW w \in Workspace, NEW id \in {None} \cup ID
    PROVE  /\ Op("snapshot", "save", w, None, id) \in Operation
           /\ Op("snapshot", "save", w, None, id).kind = "snapshot"
           /\ Op("snapshot", "save", w, None, id).stage = "save"
           /\ Op("snapshot", "save", w, None, id).w = w
           /\ Op("snapshot", "save", w, None, id).id = id
  BY DEF Op, Operation

\* The operation of Publish.
<1>PublishOp.
    ASSUME NEW w \in Workspace, NEW n \in Name, NEW id \in {None} \cup ID,
           NEW stage \in {"save", "refs"}
    PROVE  /\ Op("publish", stage, w, n, id) \in Operation
           /\ Op("publish", stage, w, n, id).kind = "publish"
           /\ Op("publish", stage, w, n, id).stage = stage
           /\ Op("publish", stage, w, n, id).w = w
           /\ Op("publish", stage, w, n, id).name = n
           /\ Op("publish", stage, w, n, id).id = id
  BY DEF Op, Operation

\* Workspace.Snapshot starts with the tree of the workspace.
<1>SnapshotStarts.
    ASSUME IndInv, NEW w \in Workspace, Snapshot(w)
    PROVE  IndInv'
  <2> USE <1>SnapshotStarts
  <2>1. mode = "open" /\ UNCHANGED <<storage, memory, ws, seen>>
    BY SMTT(60) DEF Snapshot, Ready, Start
  <2>2. op' = Op("snapshot", "save", w, None, ws[w].root)
    BY SMTT(60) DEF Snapshot, Start
  <2>3. /\ op' \in Operation /\ op'.kind = "snapshot" /\ op'.stage = "save"
        /\ op'.w = w /\ op'.id = ws[w].root
    <3>1. MemoryType
      BY TypeParts, Zenon DEF IndInv
    <3>2. PICK id \in {None} \cup ID : id = ws[w].root
      BY <3>1, WorkspaceFields
    <3> DEFINE o == Op("snapshot", "save", w, None, id)
    <3>3. /\ o \in Operation /\ o.kind = "snapshot" /\ o.stage = "save"
          /\ o.w = w /\ o.id = id
      BY <1>SnapshotOp
    <3>4. op' = o
      BY <2>2, <3>2, Zenon
    <3> HIDE DEF o
    <3> QED
      BY <3>2, <3>3, <3>4
  <2>4. Staged'
    BY <2>1, <2>3, SMTT(30) DEF Staged
  <2> QED
    BY <2>1, <2>3, <2>4, OpStep, Zenon

\* So does Publish; a memoized snapshot is already saved.
<1>PublishStarts.
    ASSUME IndInv, NEW w \in Workspace, NEW n \in Name, Publish(w, n)
    PROVE  IndInv'
  <2> USE <1>PublishStarts
  <2> DEFINE stage == IF ws[w].snap = None THEN "save" ELSE "refs"
  <2>1. mode = "open" /\ UNCHANGED <<storage, memory, ws, seen>>
    BY SMTT(60) DEF Publish, Ready, Start
  <2>2. op' = Op("publish", stage, w, n, ws[w].root)
    BY SMTT(60) DEF Publish, Start
  <2>3. ws[w].snap # None => ws[w].snap = ws[w].root /\ ws[w].root \in snaps
    BY <2>1 DEF IndInv, Remembered
  <2>4. /\ op' \in Operation /\ op'.kind = "publish" /\ op'.stage = stage
        /\ op'.w = w /\ op'.name = n /\ op'.id = ws[w].root
    <3>1. MemoryType
      BY TypeParts, Zenon DEF IndInv
    <3>2. PICK id \in {None} \cup ID : id = ws[w].root
      BY <3>1, WorkspaceFields
    <3>3. stage \in {"save", "refs"}
      OBVIOUS
    <3> HIDE DEF stage
    <3> DEFINE o == Op("publish", stage, w, n, id)
    <3>4. /\ o \in Operation /\ o.kind = "publish" /\ o.stage = stage
          /\ o.w = w /\ o.name = n /\ o.id = id
      BY <3>3, <1>PublishOp
    <3>5. op' = o
      BY <2>2, <3>2, Zenon
    <3> HIDE DEF o
    <3> QED
      BY <3>2, <3>4, <3>5
  <2>5. Staged'
    <3>1. snaps' = snaps /\ ws' = ws
      BY <2>1 DEF memory
    <3> QED
      BY <2>3, <2>4, <3>1 DEF Staged
  <2> QED
    BY <2>1, <2>4, <2>5, OpStep, Zenon

\* Drop, Checkpoint and the sync of Close start without a workspace.
<1>OtherStarts.
    ASSUME IndInv, (\E n \in Name, id \in ID : Drop(n, id)) \/ Checkpoint \/ CloseUnsealed
    PROVE  IndInv'
  <2>1. IndInv
    BY <1>OtherStarts
  <2>2. ASSUME NEW n \in Name, NEW id \in ID, Drop(n, id) PROVE IndInv'
    <3>0. mode = "open" /\ UNCHANGED <<storage, memory, ws, seen>>
      BY <2>2 DEF Drop, Ready, Start
    <3>1. op' = Op("drop", "refs", None, n, id)
      BY <2>2 DEF Drop, Start
    <3>2. /\ op' \in Operation /\ op'.kind = "drop" /\ op'.stage = "refs"
          /\ op'.name = n
      BY <3>1 DEF Op, Operation
    <3>3. Staged'
      BY <3>2 DEF Staged
    <3> QED
      BY <2>1, <3>0, <3>2, <3>3, OpStep, Zenon
  <2>3. ASSUME Checkpoint \/ CloseUnsealed PROVE IndInv'
    <3>0. mode = "open" /\ UNCHANGED <<storage, memory, ws, seen>>
      BY <2>3 DEF Checkpoint, CloseUnsealed, Ready, Start
    <3>1. \E k \in {"checkpoint", "close"} : op' = Op(k, "write1", None, None, None)
      BY <2>3 DEF Checkpoint, CloseUnsealed, Start
    <3>2. op' \in Operation /\ op'.kind \in {"checkpoint", "close"} /\ op'.stage = "write1"
      BY <3>1 DEF Op, Operation
    <3>3. Staged'
      BY <3>2 DEF Staged
    <3> QED
      BY <2>1, <3>0, <3>2, <3>3, OpStep, Zenon
  <2> QED
    BY <1>OtherStarts, <2>2, <2>3, Zenon
<1> QED
  BY <1>SnapshotStarts, <1>PublishStarts, <1>OtherStarts, Zenon

=============================================================================
