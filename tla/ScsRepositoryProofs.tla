------------------------ MODULE ScsRepositoryProofs -------------------------
(***************************************************************************)
(* The steps of Snapshot, Publish, Drop and Checkpoint at their storage    *)
(* calls keep the inductive invariant of ScsRepository.  Then what         *)
(* follows, for any sets of objects, names and workspaces, both file       *)
(* formats, and logs, failures and crashes without limit (MaxLog and       *)
(* MaxFaults are any numbers).                                             *)
(***************************************************************************)
EXTENDS ScsStorageProofs

-----------------------------------------------------------------------------
(* A record at the end of the log.                                         *)

\* The appends of an operation, and the seal and flush of a sync, keep the
\* invariant.
LEMMA AppendSteps ==
    IndInv /\ (Save \/ AppendRefs \/ BuildFastIndex \/ SyncWrite) => IndInv'
\* What is in the log precedes whatever is appended next.
<1>LoggedBefore.
    ASSUME StorageType, NEW rec, Logged(rec)
    PROVE  Before(log, Len(log) + 1, rec)
  BY <1>LoggedBefore DEF StorageType, Logged, Before

\* One more record, appended by an open handle in the middle of an operation
\* whose workspaces and promises stay as they are.
<1>AppendStep.
    ASSUME IndInv, mode = "open", NEW rec \in Record, ChildrenFirst(Append(log, rec)),
           SeenType', returned' = returned,
           \/ WriteFailed(Append(log, rec))
           \/ /\ Appended(Append(log, rec))
              /\ MemoryType' /\ mode' = "open" /\ ws' = ws
              /\ Extended /\ Logged(rec)' => Remembered' /\ Staged'
    PROVE  IndInv'
  <2> USE <1>AppendStep
  <2> DEFINE m == Append(log, rec)
  <2>1. StorageType /\ MemoryType /\ Images
    BY TypeParts DEF IndInv, Nested, Images
  <2>2. /\ m \in Seq(Record) /\ Len(log) <= Len(m)
        /\ \A i \in 1..Len(log) : m[i] = log[i]
        /\ log' = m => Extended /\ Logged(rec)'
    BY <2>1, ExtendedBy
  <2> HIDE DEF m
  <2>3. CASE WriteFailed(m)
    BY <2>2, <2>3, PoisonStep, ZenonT(60) DEF m
  <2>4. CASE /\ Appended(m) /\ MemoryType' /\ mode' = "open" /\ ws' = ws
             /\ Extended /\ Logged(rec)' => Remembered' /\ Staged'
    <3>1. StorageType' /\ Images' /\ log' = m /\ ndisk' = ndisk
      BY <2>1, <2>2, <2>4, WriteFacts
    <3>2. ChildrenFirst(log)'
      BY <3>1, ZenonT(60) DEF ChildrenFirst, Placed, Before, m
    <3>3. Promised' \subseteq Promised
      BY <2>4 DEF Promised
    <3> QED
      BY <2>1, <2>2, <2>4, <3>1, <3>2, <3>3, OpenStep, Zenon
  <2> QED
    BY <2>3, <2>4 DEF m

\* save: the objects of a snapshot are in the log before it.
<1>SaveStep.
    ASSUME IndInv, Save
    PROVE  IndInv'
  <2> USE <1>SaveStep
  <2>1. /\ StorageType /\ MemoryType /\ SeenType /\ SeenType'
        /\ returned' = returned
    BY TypeParts DEF IndInv, Save, seen, SeenType
  <2>2. /\ mode = "open" /\ op.stage = "save" /\ op.kind \in {"snapshot", "publish"}
        /\ op.w \in Workspace /\ op.id = ws[op.w].root
        /\ op.kind = "publish" => op.name \in Name
    BY SMTT(60) DEF IndInv, Save, Staged
  <2>3. PICK id \in ID : id = op.id /\ id \subseteq objs
    BY <2>1, <2>2, WorkspaceFields DEF IndInv, Remembered
  <2>4. /\ At("write1") \in Operation /\ At("write1").kind = op.kind
        /\ At("write1").stage = "write1" /\ At("write1").w = op.w
        /\ At("write1").name = op.name /\ At("write1").id = op.id
    BY <2>1, AtFacts
  <2>5. ASSUME op' = At("write1"), ws' = ws, snaps' = snaps \cup {op.id}
        PROVE  Staged'
    BY <2>2, <2>4, <2>5 DEF Staged
  <2>6. CASE op.id \in snaps
    <3>1. /\ UNCHANGED <<storage, memory, ws, seen>> /\ op' = At("write1")
          /\ ws' = ws /\ snaps' = snaps \cup {op.id}
      BY <2>6 DEF Save, memory
    <3> QED
      BY <2>2, <2>4, <2>5, <3>1, OpStep
  <2>7. CASE op.id \notin snaps
    <3>1. SnapRec(id) \in Record
      BY <2>3, RecordFacts, SMTT(60)
    <3>2. \A o \in id : Before(log, Len(log) + 1, ObjectRec(o))
      BY <2>1, <2>2, <2>3, <1>LoggedBefore, ZenonT(60) DEF IndInv, Remembered
    <3>3. ChildrenFirst(Append(log, SnapRec(id)))
      BY <2>1, <2>3, <3>2, AppendPlaced DEF IndInv, StorageType
    <3>4. ASSUME Appended(Append(log, SnapRec(id))),
                 snaps' = snaps \cup {op.id}, op' = At("write1"),
                 UNCHANGED <<mode, fast, refs, objs, pending, ws>>
          PROVE  /\ MemoryType' /\ mode' = "open" /\ ws' = ws
                 /\ Extended /\ Logged(SnapRec(id))' => Remembered' /\ Staged'
      <4>1. MemoryType'
        BY <2>1, <2>3, <2>4, <3>4, SMTT(60) DEF MemoryType
      <4>2. ASSUME Extended, Logged(SnapRec(id))' PROVE Remembered'
        <5>1. \A x \in objs : Logged(ObjectRec(x))'
          BY <2>1, <2>2, <4>2, LoggedKept, SMTT(60) DEF IndInv, Remembered
        <5>2. \A x \in snaps' : Logged(SnapRec(x))' /\ x \subseteq objs
          BY <2>1, <2>2, <2>3, <3>4, <4>2, LoggedKept, SMTT(60) DEF IndInv, Remembered
        <5> QED
          BY <2>2, <3>4, <5>1, <5>2, SMTT(60) DEF IndInv, Remembered
      <4> QED
        BY <2>2, <2>5, <3>4, <4>1, <4>2, SMTT(60)
    <3>5. \/ WriteFailed(Append(log, SnapRec(id)))
          \/ /\ Appended(Append(log, SnapRec(id)))
             /\ snaps' = snaps \cup {op.id} /\ op' = At("write1")
             /\ UNCHANGED <<mode, fast, refs, objs, pending, ws>>
      BY <2>3, <2>7 DEF Save
    <3> QED
      BY <2>1, <2>2, <3>1, <3>3, <3>4, <3>5, <1>AppendStep, SMTT(60)
  <2> QED
    BY <2>6, <2>7

\* The refs record of Publish and Drop.
<1>AppendRefsStep.
    ASSUME IndInv, AppendRefs
    PROVE  IndInv'
  <2> USE <1>AppendRefsStep
  <2>1. mode = "open" /\ op.stage = "refs" /\ op.kind \in {"publish", "drop"}
    BY DEF IndInv, AppendRefs, Staged
  <2>2. PICK r \in Refs : /\ r = NewRefs
                          /\ \A n \in Name : r[n] # None => r[n] \in snaps
    BY <2>1, NewRefsFacts
  <2>3. /\ StorageType /\ MemoryType /\ SeenType /\ SeenType'
        /\ returned' = returned
    BY <2>2, TypeParts DEF IndInv, AppendRefs, SeenType
  <2>4. RefsRec(r) \in Record
    BY RecordFacts
  <2>5. ChildrenFirst(Append(log, RefsRec(r)))
    <3>1. \A n \in Name : r[n] # None => Before(log, Len(log) + 1, SnapRec(r[n]))
      BY <2>1, <2>2, <2>3, <1>LoggedBefore, ZenonT(60) DEF IndInv, Remembered
    <3> QED
      BY <2>3, <3>1, AppendPlaced, SMTT(60) DEF IndInv, StorageType
  <2>6. /\ At("write2") \in Operation /\ At("write2").kind = op.kind
        /\ At("write2").stage = "write2" /\ At("write2").w = op.w
        /\ At("write2").name = op.name /\ At("write2").id = op.id
    BY <2>3, AtFacts
  <2>7. ASSUME Appended(Append(log, RefsRec(r))),
               pending' = (IF fast THEN r ELSE pending), op' = At("write2"),
               UNCHANGED <<mode, fast, refs, objs, snaps, ws>>
        PROVE  /\ MemoryType' /\ mode' = "open" /\ ws' = ws
               /\ Extended /\ Logged(RefsRec(r))' => Remembered' /\ Staged'
    <3>1. pending' = r \/ pending' = pending
      BY <2>7, Zenon
    <3>2. MemoryType'
      BY <2>3, <2>6, <2>7, <3>1, SMTT(60) DEF MemoryType
    <3>3. Staged'
      BY <2>1, <2>6, <2>7, SMTT(60) DEF IndInv, Staged
    <3>4. ASSUME Extended PROVE Remembered'
      <4>1. \A x \in objs : Logged(ObjectRec(x))'
        BY <2>1, <2>3, <3>4, LoggedKept, SMTT(60) DEF IndInv, Remembered
      <4>2. \A x \in snaps : Logged(SnapRec(x))' /\ x \subseteq objs
        BY <2>1, <2>3, <3>4, LoggedKept, SMTT(60) DEF IndInv, Remembered
      <4>3. pending' # None => \A n \in Name : pending'[n] # None => pending'[n] \in snaps
        BY <2>1, <2>2, <3>1, SMTT(60) DEF IndInv, Remembered
      <4> QED
        BY <2>1, <2>7, <4>1, <4>2, <4>3, ZenonT(60) DEF IndInv, Remembered
    <3> QED
      BY <2>1, <2>7, <3>2, <3>3, <3>4
  <2>8. \/ WriteFailed(Append(log, RefsRec(r)))
        \/ /\ Appended(Append(log, RefsRec(r)))
           /\ pending' = (IF fast THEN r ELSE pending) /\ op' = At("write2")
           /\ UNCHANGED <<mode, fast, refs, objs, snaps, ws>>
    BY <2>2 DEF AppendRefs
  <2> QED
    BY <2>1, <2>3, <2>4, <2>5, <2>7, <2>8, <1>AppendStep, SMTT(60)

\* buildFastIndex: the base run refers to nothing.
<1>BuildFastIndexStep.
    ASSUME IndInv, BuildFastIndex
    PROVE  IndInv'
  <2> USE <1>BuildFastIndexStep
  <2>1. mode = "open" /\ op.stage = "base"
    BY DEF BuildFastIndex
  <2>2. /\ StorageType /\ MemoryType /\ SeenType /\ SeenType'
        /\ returned' = returned
    BY TypeParts DEF IndInv, BuildFastIndex, SeenType, seen
  <2>3. RunRec \in Record /\ ChildrenFirst(Append(log, RunRec))
    BY <2>2, RecordFacts, AppendPlaced DEF IndInv, StorageType
  <2>4. /\ At("write2") \in Operation /\ At("write2").kind = op.kind
        /\ At("write2").stage = "write2" /\ At("write2").w = op.w
        /\ At("write2").name = op.name /\ At("write2").id = op.id
    BY <2>2, AtFacts
  <2>5. ASSUME Appended(Append(log, RunRec)), fast' = TRUE, op' = At("write2"),
               UNCHANGED <<mode, refs, objs, snaps, pending, ws>>
        PROVE  /\ MemoryType' /\ mode' = "open" /\ ws' = ws
               /\ Extended /\ Logged(RunRec)' => Remembered' /\ Staged'
    <3>1. MemoryType'
      BY <2>2, <2>4, <2>5, SMTT(60) DEF MemoryType
    <3>2. Staged'
      BY <2>1, <2>4, <2>5, SMTT(60) DEF IndInv, Staged
    <3>3. ASSUME Extended PROVE Remembered'
      <4>1. \A x \in objs : Logged(ObjectRec(x))'
        BY <2>1, <2>2, <3>3, LoggedKept, SMTT(60) DEF IndInv, Remembered
      <4>2. \A x \in snaps : Logged(SnapRec(x))' /\ x \subseteq objs
        BY <2>1, <2>2, <3>3, LoggedKept, SMTT(60) DEF IndInv, Remembered
      <4> QED
        BY <2>1, <2>5, <4>1, <4>2, ZenonT(60) DEF IndInv, Remembered
    <3> QED
      BY <2>1, <2>5, <3>1, <3>2, <3>3
  <2> QED
    BY <2>1, <2>2, <2>3, <2>5, <1>AppendStep, ZenonT(60) DEF BuildFastIndex

\* sealFast: the manifest holds what the handle knows, all of it in the log.
<1>SealedFacts.
    ASSUME IndInv, mode = "open"
    PROVE  /\ SealedLog \in Seq(Record) /\ Len(log) <= Len(SealedLog)
           /\ \A i \in 1..Len(log) : SealedLog[i] = log[i]
           /\ ChildrenFirst(SealedLog)
  <2> USE <1>SealedFacts
  <2>1. StorageType /\ MemoryType
    BY TypeParts DEF IndInv
  <2>2. CASE ~(fast /\ ~Sealed)
    <3>1. SealedLog = log
      BY <2>2 DEF SealedLog
    <3> QED
      BY <2>1, <3>1 DEF IndInv, StorageType
  <2>3. CASE fast /\ ~Sealed
    <3>1. SealedLog = Append(Append(log, RootRec(SealRefs, objs, snaps)), EndRec)
      BY <2>3 DEF SealedLog
    <3>2. SealRefs \in Refs /\ \A n \in Name : SealRefs[n] # None => SealRefs[n] \in snaps
      BY <2>1, SMTT(60) DEF SealRefs, IndInv, Remembered, MemoryType
    <3>3. \A o \in objs : Before(log, Len(log) + 1, ObjectRec(o))
      BY <2>1, <1>LoggedBefore, SMTT(60) DEF IndInv, Remembered
    <3>4. \A s \in snaps : Before(log, Len(log) + 1, SnapRec(s)) /\ s \subseteq objs
      BY <2>1, <1>LoggedBefore DEF IndInv, Remembered
    <3>5. log \in Seq(Record) /\ ChildrenFirst(log) /\ objs \in ID /\ snaps \in SUBSET ID
      BY <2>1, SMTT(60) DEF IndInv, StorageType, MemoryType
    <3>6. /\ SealedLog \in Seq(Record) /\ Len(SealedLog) = Len(log) + 2
          /\ ChildrenFirst(SealedLog) /\ \A i \in 1..Len(log) : SealedLog[i] = log[i]
      BY <3>1, <3>2, <3>3, <3>4, <3>5, SealPlaced, SMTT(60)
    <3> QED
      BY <3>5, <3>6
  <2> QED
    BY <2>2, <2>3

\* sealFast and flush: everything appended is in the file.
<1>SyncWriteStep.
    ASSUME IndInv, SyncWrite
    PROVE  IndInv'
  <2> USE <1>SyncWriteStep
  <2>1. mode = "open" /\ op.stage \in {"write1", "write2"}
    BY DEF SyncWrite
  <2>2. /\ StorageType /\ MemoryType /\ SeenType /\ SeenType' /\ Images
        /\ returned' = returned
    BY TypeParts DEF IndInv, SyncWrite, SeenType, seen, Nested, Images
  <2>3. PICK m \in Seq(Record) :
          /\ m = SealedLog /\ Len(log) <= Len(m) /\ ChildrenFirst(m)
          /\ \A i \in 1..Len(log) : m[i] = log[i]
    BY <2>1, <1>SealedFacts
  <2>4. CASE WriteFailed(m)
    BY <2>2, <2>3, <2>4, PoisonStep, SMTT(60)
  <2>5. CASE /\ Flushed(m)
             /\ pending' = (IF Sealed THEN pending ELSE None)
             /\ op' = At(IF op.stage = "write1" THEN "fsync1" ELSE "fsync2")
             /\ UNCHANGED <<mode, fast, refs, objs, snaps, ws>>
    <3>1. /\ StorageType' /\ Images' /\ log' = m /\ ndisk' = ndisk
          /\ nfile' = Len(m)
      BY <2>2, <2>3, <2>5, WriteFacts
    <3>2. Extended
      BY <2>3, <3>1, SMTT(60) DEF Extended
    <3>3. ChildrenFirst(log)'
      BY <2>3, <3>1, SMTT(60) DEF ChildrenFirst, Placed, Before
    <3>4. /\ op' \in Operation /\ op'.kind = op.kind /\ op'.w = op.w
          /\ op'.name = op.name /\ op'.id = op.id
          /\ op'.stage = IF op.stage = "write1" THEN "fsync1" ELSE "fsync2"
      BY <2>2, <2>5, AtFacts
    <3>5. pending' = pending \/ pending' = None
      BY <2>5, Zenon
    <3>6. MemoryType'
      BY <2>2, <2>5, <3>4, <3>5, SMTT(60) DEF MemoryType
    <3>7. Staged'
      BY <2>1, <2>5, <3>1, <3>4, ZenonT(60) DEF IndInv, Staged
    <3>8. Remembered'
      <4>1. \A x \in objs : Logged(ObjectRec(x))'
        BY <2>1, <2>2, <3>2, LoggedKept, SMTT(60) DEF IndInv, Remembered
      <4>2. \A x \in snaps : Logged(SnapRec(x))' /\ x \subseteq objs
        BY <2>1, <2>2, <3>2, LoggedKept, SMTT(60) DEF IndInv, Remembered
      <4>3. pending' # None => \A n \in Name : pending'[n] # None => pending'[n] \in snaps
        BY <2>1, <3>5, SMTT(60) DEF IndInv, Remembered
      <4> QED
        BY <2>1, <2>5, <4>1, <4>2, <4>3, ZenonT(60) DEF IndInv, Remembered
    <3>9. Promised' \subseteq Promised
      BY <2>2, <2>5, SMTT(60) DEF Promised
    <3> QED
      BY <2>1, <2>2, <2>5, <3>1, <3>2, <3>3, <3>6, <3>7, <3>8, <3>9, OpenStep, Zenon
  <2> QED
    BY <2>3, <2>4, <2>5 DEF SyncWrite
<1> QED
  BY <1>SaveStep, <1>AppendRefsStep, <1>BuildFastIndexStep, <1>SyncWriteStep, Zenon

-----------------------------------------------------------------------------
(* The end of a sync.                                                      *)

\* So does the end of a sync.
LEMMA SyncSteps ==
    IndInv /\ (FsyncFails \/ FsyncSnapshot \/ FsyncRoot \/ FsyncCheckpoint) => IndInv'
\* After a sync everything the handle knows is durable.
<1>DurableGrown.
    ASSUME IndInv, mode = "open", nfile = Len(log), Durable,
           NEW id \in snaps, Promised' \subseteq Promised \cup {id}
    PROVE  SnapshotsDurable'
  <2> USE <1>DurableGrown
  <2>1. StorageType /\ Images /\ log' = log /\ ndisk' = Len(log)
    BY TypeParts DEF IndInv, Nested, Images, Durable
  <2>2. \A rec : Logged(rec) => OnDisk(rec)'
    BY <2>1 DEF Logged, OnDisk
  <2>3. \A rec : OnDisk(rec) => OnDisk(rec)'
    BY <2>1, SMTT(60) DEF OnDisk, StorageType, Images
  <2>4. \A s \in Promised : OnDisk(SnapRec(s)) /\ \A o \in s : OnDisk(ObjectRec(o))
    BY SMTT(60) DEF IndInv, SnapshotsDurable, Promised
  <2>5. Logged(SnapRec(id)) /\ \A o \in id : Logged(ObjectRec(o))
    BY ZenonT(60) DEF IndInv, Remembered
  <2>6. \A s \in Promised' : OnDisk(SnapRec(s))' /\ \A o \in s : OnDisk(ObjectRec(o))'
    BY <2>2, <2>3, <2>4, <2>5
  <2> QED
    BY <2>6 DEF SnapshotsDurable, Promised

\* A successful Sync keeps the log and its images.
<1>SyncFacts.
    ASSUME IndInv, Durable
    PROVE  /\ StorageType' /\ Images' /\ ndisk <= ndisk' /\ Extended
           /\ ChildrenFirst(log)' /\ log' = log /\ nfile' = nfile
           /\ \A rec : Logged(rec) => Logged(rec)'
  <2> USE <1>SyncFacts
  <2>1. StorageType /\ Images
    BY TypeParts DEF IndInv, Nested, Images
  <2>2. log' = log /\ nfile' = nfile /\ ndisk' = nfile
    BY DEF Durable
  <2>3. Extended /\ ChildrenFirst(log)'
    BY <2>2, SameLog
  <2>4. StorageType'
    BY <2>1, <2>2, Zenon DEF Durable, StorageType
  <2>5. Images' /\ ndisk <= ndisk'
    BY <2>1, <2>2 DEF Images, StorageType
  <2> QED
    BY <2>2, <2>3, <2>4, <2>5 DEF Logged

\* A failed Sync poisons the handle; the durable image only grows.
<1>FsyncFailsStep.
    ASSUME IndInv, FsyncFails
    PROVE  IndInv'
  <2> USE <1>FsyncFailsStep
  <2>1. StorageType /\ MemoryType /\ SeenType /\ SeenType' /\ Images
    BY TypeParts DEF IndInv, Nested, Images, FsyncFails, seen, SeenType
  <2>2. /\ ndisk' \in ndisk..nfile /\ log' = log /\ nfile' = nfile
        /\ faults' = faults + 1 /\ mode' = "poisoned" /\ op' = Idle /\ ws' = ws
        /\ returned' = returned
    BY DEF FsyncFails, Fault, seen
  <2>3. ndisk' \in Nat /\ ndisk <= ndisk' /\ ndisk' <= nfile /\ faults' \in Nat
    BY <2>1, <2>2 DEF StorageType
  <2>4. StorageType'
    BY <2>1, <2>2, <2>3, Zenon DEF StorageType, FsyncFails
  <2>5. MemoryType'
    BY <2>1, RestingFacts, Zenon DEF FsyncFails, MemoryType
  <2>6. Nested'
    BY <2>1, <2>2, <2>3, SMTT(60) DEF Nested, Images
  <2>7. ChildrenFirst(log)' /\ Remembered' /\ Staged'
    BY <2>2, SameLog, RestingFacts, ZenonT(60) DEF Remembered, Staged
  <2>8. SnapshotsDurable'
    <3>1. Promised' \subseteq Promised
      BY <2>2, SMTT(60) DEF Promised
    <3> QED
      BY <2>1, <2>2, <2>3, <3>1, DurableKept, SMTT(60) DEF IndInv, StorageType
  <2> QED
    BY <2>1, <2>4, <2>5, <2>6, <2>7, <2>8, TypeParts, SMTT(60) DEF IndInv

\* The memo, and the ID returned, are those of a snapshot just made durable.
<1>FsyncSnapshotStep.
    ASSUME IndInv, FsyncSnapshot
    PROVE  IndInv'
  <2> USE <1>FsyncSnapshotStep
  <2>1. StorageType /\ MemoryType /\ SeenType /\ Images
    BY TypeParts DEF IndInv, Nested, Images
  <2>2. /\ mode = "open" /\ op.stage = "fsync1" /\ op.kind \in {"snapshot", "publish"}
        /\ Durable /\ mode' = "open" /\ objs' = objs /\ snaps' = snaps /\ refs' = refs
        /\ pending' = pending /\ fast' = fast /\ acked' = acked /\ since' = since
    BY SMTT(60) DEF FsyncSnapshot, memory
  <2>3. PICK w \in Workspace, id \in ID :
          /\ w = op.w /\ id = op.id /\ id = ws[w].root /\ id \in snaps
          /\ nfile = Len(log) /\ (op.kind = "publish" => op.name \in Name)
    BY <2>1, <2>2, SMTT(60) DEF IndInv, Staged, MemoryType
  <2>4. /\ StorageType' /\ Images' /\ ndisk <= ndisk' /\ Extended
        /\ ChildrenFirst(log)' /\ log' = log /\ nfile' = nfile
        /\ \A rec : Logged(rec) => Logged(rec)'
    BY <2>2, <1>SyncFacts
  <2>5. /\ ws' \in [Workspace -> WorkspaceState]
        /\ \A v \in Workspace :
            /\ ws'[v].root = ws[v].root
            /\ ws'[v].snap = IF v = w THEN id ELSE ws[v].snap
    <3> DEFINE s == WS(ws[w].state, ws[w].root, id, ws[w].name, ws[w].base)
    <3>1. /\ ws[w].state \in {"none", "live"} /\ ws[w].name \in Name \cup {None}
          /\ ws[w].base \in {None} \cup ID /\ ws[w].root \in ID
      BY <2>1, WorkspaceFields
    <3>2. s \in WorkspaceState /\ s.root = ws[w].root /\ s.snap = id
      BY <3>1 DEF WS, WorkspaceState
    <3>3. ws' = [ws EXCEPT ![w] = s]
      BY <2>3, ZenonT(60) DEF FsyncSnapshot
    <3> HIDE DEF s
    <3> QED
      BY <2>1, <3>2, <3>3, WorkspaceFacts, ZenonT(60)
  <2>6. /\ op' \in Operation /\ SeenType' /\ returned' \subseteq returned \cup {id}
        /\ \/ op' = Idle
           \/ /\ op'.kind = "publish" /\ op'.stage = "refs" /\ op.kind = "publish"
              /\ op'.w = w /\ op'.name = op.name /\ op'.id = id
    <3>1. CASE op.kind = "publish"
      <4>1. op' = At("refs") /\ returned' = returned
        BY <3>1, SMTT(60) DEF FsyncSnapshot
      <4> QED
        BY <2>1, <2>2, <2>3, <3>1, <4>1, AtFacts, SMTT(60) DEF SeenType
    <3>2. CASE op.kind # "publish"
      <4>1. op' = Idle /\ returned' = returned \cup {op.id}
        BY <3>2 DEF FsyncSnapshot
      <4> QED
        BY <2>1, <2>2, <2>3, <4>1, RestingFacts, ZenonT(60) DEF SeenType
    <3> QED
      BY <3>1, <3>2, SMTT(60)
  <2>7. MemoryType'
    BY <2>1, <2>2, <2>5, <2>6, ZenonT(60) DEF MemoryType
  <2>8. Remembered'
    <3>1. \A x \in objs : Logged(ObjectRec(x))'
      BY <2>2, <2>4, SMTT(60) DEF IndInv, Remembered
    <3>2. \A x \in snaps : Logged(SnapRec(x))' /\ x \subseteq objs
      BY <2>2, <2>4, SMTT(60) DEF IndInv, Remembered
    <3>3. \A v \in Workspace : /\ ws'[v].root \subseteq objs
                               /\ ws'[v].snap # None => ws'[v].snap = ws'[v].root
                                                        /\ ws'[v].snap \in snaps
      BY <2>2, <2>3, <2>5, ZenonT(60) DEF IndInv, Remembered
    <3> QED
      BY <2>2, <3>1, <3>2, <3>3, ZenonT(60) DEF IndInv, Remembered
  <2>9. Staged'
    BY <2>2, <2>3, <2>5, <2>6, RestingFacts, ZenonT(60) DEF Staged
  <2>10. SnapshotsDurable'
    <3>1. Promised' \subseteq Promised \cup {id}
      BY <2>5, <2>6, SMTT(60) DEF Promised
    <3> QED
      BY <2>2, <2>3, <3>1, <1>DurableGrown, SMTT(60)
  <2> QED
    BY <2>2, <2>4, <2>6, <2>7, <2>8, <2>9, <2>10, TypeParts, SMTT(60) DEF IndInv, Nested, Images

\* Publish and Drop end: a root map of known snapshots enters the memory, and
\* the ID that Publish returns was memoized by its own snapshot.
<1>FsyncRootStep.
    ASSUME IndInv, FsyncRoot
    PROVE  IndInv'
  <2> USE <1>FsyncRootStep
  <2>1. StorageType /\ MemoryType /\ SeenType /\ Images
    BY TypeParts DEF IndInv, Nested, Images
  <2>2. /\ mode = "open" /\ op.stage = "fsync2" /\ op.kind \in {"publish", "drop"}
        /\ Durable /\ mode' = "open" /\ op' = Idle
        /\ objs' = objs /\ snaps' = snaps /\ refs' = NewRefs
        /\ pending' = pending /\ fast' = fast /\ acked' = NewRefs /\ since' = {}
    BY DEF FsyncRoot
  <2>3. NewRefs \in Refs /\ \A n \in Name : NewRefs[n] # None => NewRefs[n] \in snaps
    BY <2>2, NewRefsFacts
  <2>4. /\ StorageType' /\ Images' /\ ndisk <= ndisk' /\ Extended
        /\ ChildrenFirst(log)' /\ \A rec : Logged(rec) => Logged(rec)'
    BY <2>2, <1>SyncFacts, SMTT(60)
  <2>5. op.kind = "publish" =>
          /\ op.w \in Workspace /\ op.name \in Name
          /\ op.id \in ID /\ ws[op.w].snap = op.id
    BY <2>1, <2>2, SMTT(60) DEF IndInv, Staged, MemoryType
  <2>6. /\ ws' \in [Workspace -> WorkspaceState]
        /\ \A v \in Workspace : ws'[v].root = ws[v].root /\ ws'[v].snap = ws[v].snap
    <3>1. CASE op.kind = "publish"
      <4>1. PICK w \in Workspace : w = op.w
        BY <2>5, <3>1
      <4> DEFINE s == WS(ws[w].state, ws[w].root, ws[w].snap, op.name, op.id)
      <4>2. /\ ws[w].state \in {"none", "live"} /\ ws[w].root \in ID
            /\ ws[w].snap \in {None} \cup ID /\ op.name \in Name \cup {None}
            /\ op.id \in {None} \cup ID
        BY <2>1, <2>5, <3>1, WorkspaceFields, SMTT(30)
      <4>3. s \in WorkspaceState /\ s.root = ws[w].root /\ s.snap = ws[w].snap
        BY <4>2 DEF WS, WorkspaceState
      <4>4. ws' = [ws EXCEPT ![w] = s]
        BY <3>1, <4>1 DEF FsyncRoot
      <4> HIDE DEF s
      <4> QED
        BY <2>1, <4>3, <4>4, WorkspaceFacts, ZenonT(60)
    <3>2. CASE op.kind # "publish"
      BY <2>1, <3>2, SMTT(60) DEF FsyncRoot, MemoryType
    <3> QED
      BY <3>1, <3>2
  <2>7. /\ returned' = returned \/ (op.kind = "publish" /\ returned' = returned \cup {op.id})
        /\ SeenType'
    <3>1. returned' = returned \/ (op.kind = "publish" /\ returned' = returned \cup {op.id})
      BY DEF FsyncRoot
    <3> QED
      BY <2>1, <2>2, <2>3, <2>5, <3>1, SMTT(60) DEF SeenType
  <2>8. MemoryType'
    BY <2>1, <2>2, <2>3, <2>6, RestingFacts, SMTT(60) DEF MemoryType
  <2>9. Remembered'
    <3>1. \A x \in objs : Logged(ObjectRec(x))'
      BY <2>2, <2>4, SMTT(60) DEF IndInv, Remembered
    <3>2. \A x \in snaps : Logged(SnapRec(x))' /\ x \subseteq objs
      BY <2>2, <2>4, SMTT(60) DEF IndInv, Remembered
    <3> QED
      BY <2>2, <2>3, <2>6, <3>1, <3>2, ZenonT(60) DEF IndInv, Remembered
  <2>10. Staged'
    BY <2>2, RestingFacts, SMTT(60) DEF Staged
  <2>11. Promised' \subseteq Promised
    BY <2>5, <2>6, <2>7, SMTT(60) DEF Promised
  <2> QED
    BY <2>2, <2>4, <2>7, <2>8, <2>9, <2>10, <2>11, OpenStep, Zenon

\* A checkpoint promises nothing: it ends, or goes on to build the index.
<1>FsyncCheckpointStep.
    ASSUME IndInv, FsyncCheckpoint
    PROVE  IndInv'
  <2> USE <1>FsyncCheckpointStep
  <2>1. MemoryType /\ SeenType /\ SeenType'
    BY TypeParts DEF IndInv, FsyncCheckpoint, seen, SeenType
  <2>2. /\ mode = "open" /\ Durable /\ mode' = "open" /\ op.kind = "checkpoint"
        /\ objs' = objs /\ snaps' = snaps /\ refs' = refs /\ pending' = pending
        /\ fast' = fast /\ ws' = ws /\ returned' = returned
        /\ op' = At("base") \/ op' = Idle
    BY DEF FsyncCheckpoint, memory, seen
  <2>3. /\ StorageType' /\ Images' /\ ndisk <= ndisk' /\ Extended
        /\ ChildrenFirst(log)' /\ \A rec : Logged(rec) => Logged(rec)'
    BY <2>2, <1>SyncFacts, SMTT(60)
  <2>4. /\ op' \in Operation
        /\ op' = Idle \/ (op'.kind = "checkpoint" /\ op'.stage = "base")
    BY <2>1, <2>2, AtFacts, RestingFacts
  <2>5. MemoryType'
    BY <2>1, <2>2, <2>4, ZenonT(60) DEF MemoryType
  <2>6. Remembered'
    BY <2>2, <2>3, SMTT(60) DEF IndInv, Remembered
  <2>7. Staged'
    BY <2>4, RestingFacts, SMTT(60) DEF Staged
  <2>8. Promised' \subseteq Promised
    BY <2>2 DEF Promised
  <2> QED
    BY <2>1, <2>2, <2>3, <2>5, <2>6, <2>7, <2>8, OpenStep, Zenon
<1> QED
  BY <1>FsyncFailsStep, <1>FsyncSnapshotStep, <1>FsyncRootStep, <1>FsyncCheckpointStep, Zenon

-----------------------------------------------------------------------------
(* The theorems.                                                           *)

\* The file of a new repository.
LEMMA InitHolds ==
    ASSUME Init
    PROVE  IndInv
<1>1. StorageType
  <2>1. log \in Seq(Record) /\ nfile \in Nat /\ ndisk \in Nat /\ faults \in Nat
    BY DEF Init
  <2>2. torn \in BOOLEAN /\ dtorn \in BOOLEAN
    BY Zenon DEF Init
  <2> QED
    BY <2>1, <2>2, Zenon DEF StorageType
<1>2. MemoryType
  <2>1. refs \in Refs /\ objs \in ID /\ snaps \in SUBSET ID /\ op \in Operation
    BY RestingFacts, SMTT(60) DEF Init, NoRefs, Refs, ID
  <2>2. ws \in [Workspace -> WorkspaceState]
    BY RestingFacts DEF Init
  <2> QED
    BY <2>1, <2>2, ZenonT(60) DEF Init, MemoryType
<1>3. SeenType
  BY SMTT(60) DEF Init, SeenType, NoRefs, Refs
<1>4. Nested /\ ChildrenFirst(log) /\ Staged
  BY RestingFacts DEF Init, Nested, ChildrenFirst, Staged
<1>5. Remembered
  BY RestingFacts DEF Init, Remembered, NoRefs
<1>6. SnapshotsDurable
  BY RestingFacts DEF Init, SnapshotsDurable
<1> QED
  BY <1>1, <1>2, <1>3, <1>4, <1>5, <1>6, TypeParts, SMTT(30) DEF IndInv

\* Every step of the repository, of its users and of its environment keeps
\* the inductive invariant.
LEMMA NextKeeps ==
    ASSUME LastExists, IndInv, [Next]_vars
    PROVE  IndInv'
<1>1. CASE \/ \E o \in Object : Ingest(o)
           \/ \E w \in Workspace :
                \/ \E o \in Object : Write(w, o) \/ Delete(w, o)
                \/ Empty(w)
                \/ \E n \in Name : Checkout(w, n)
                \/ \E id \in snaps : Fork(w, id)
  BY <1>1, EditSteps, Zenon
<1>2. CASE \/ ReadFails
           \/ ClosePoisoned \/ FsyncClose \/ CloseFlush \/ ProcessCrash \/ PowerLoss
  BY <1>2, LossSteps, Zenon
<1>3. CASE (\E verify \in BOOLEAN : Open(verify)) \/ OpenFails
  BY <1>3, OpenSteps, Zenon
<1>4. CASE \/ \E w \in Workspace : Snapshot(w) \/ \E n \in Name : Publish(w, n)
           \/ \E n \in Name, id \in ID : Drop(n, id)
           \/ Checkpoint \/ CloseUnsealed
  BY <1>4, StartSteps, Zenon
<1>5. CASE Save \/ AppendRefs \/ BuildFastIndex \/ SyncWrite
  BY <1>5, AppendSteps, Zenon
<1>6. CASE FsyncFails \/ FsyncSnapshot \/ FsyncRoot \/ FsyncCheckpoint
  BY <1>6, SyncSteps, Zenon
<1>7. CASE UNCHANGED vars
  <2>1. TypeOK'
    BY <1>7, ZenonT(60) DEF vars, IndInv, TypeOK
  <2>2. Nested' /\ Remembered'
    BY <1>7, ZenonT(60) DEF vars, IndInv, Nested, Remembered, Logged
  <2>3. Staged'
    BY <1>7, ZenonT(60) DEF vars, IndInv, Staged
  <2>4. SnapshotsDurable'
    BY <1>7, ZenonT(60) DEF vars, IndInv, SnapshotsDurable, OnDisk
  <2>5. ChildrenFirst(log)'
    BY <1>7, SameLog DEF vars
  <2> QED
    BY <2>1, <2>2, <2>3, <2>4, <2>5, SMTT(30) DEF IndInv
<1> QED
  BY <1>1, <1>2, <1>3, <1>4, <1>5, <1>6, <1>7, ZenonT(30) DEF Next

LOCAL INSTANCE WellFoundedInduction

\* A nonempty set of positions has a last one.
LEMMA LastFacts == LastExists
<1> SUFFICES ASSUME NEW n \in Nat, NEW S \in SUBSET (1..n), S # {}
             PROVE  LastOf(S) \in S /\ \A j \in S : j <= LastOf(S)
  BY Zenon DEF LastExists
<1> DEFINE T == {n - i : i \in S}
<1>1. S \subseteq Nat /\ \A i \in S : n - i \in Nat
  OBVIOUS
<1>2. T \subseteq Nat /\ T # {}
  <2>1. \A t \in T : \E i \in S : t = n - i
    BY Zenon
  <2>2. \A i \in S : n - i \in T
    BY Zenon
  <2> HIDE DEF T
  <2> QED
    BY <1>1, <2>1, <2>2, ZenonT(60)
<1>3. \E x \in T : \A y \in T : ~(<<y, x>> \in OpToRel(<, Nat))
  BY <1>2, NatLessThanWellFounded, WFMin, Zenon
<1>4. PICK x \in T : \A y \in T : ~(y < x)
  BY <1>2, <1>3, ZenonT(60) DEF OpToRel
<1>5. PICK i \in S : x = n - i
  OBVIOUS
<1>6. \A j \in S : ~(n - j < x)
  BY <1>4
<1>7. \A j \in S : j <= i
  BY <1>1, <1>5, <1>6
<1> QED
  BY <1>7, ZenonT(60) DEF LastOf

\* The inductive invariant holds in every reachable state.
THEOREM Inductive == Spec => []IndInv
<1>1. IndInv /\ [Next]_vars => IndInv'
  BY NextKeeps, LastFacts
<1> QED
  BY <1>1, InitHolds, PTL DEF Spec

\* Type correctness of the repository, its storage and its users.
THEOREM TypeCorrect == Spec => []TypeOK
<1>1. IndInv => TypeOK
  BY DEF IndInv
<1> QED
  BY <1>1, Inductive, PTL

\* Whatever records are on the file, a snapshot follows its objects: load
\* never misses an object of a snapshot that recovery found.
THEOREM TreesSafe == Spec => []TreesComplete
<1>1. IndInv => TreesComplete
  BY DEF IndInv, TreesComplete, ChildrenFirst, Placed, Before
<1> QED
  BY <1>1, Inductive, PTL

\* Open never refuses a file of its own, whenever the process or the machine
\* stopped: no crash image has a root that names a missing snapshot.
THEOREM RecoverySafe == Spec => []AlwaysRecoverable
<1>1. ASSUME IndInv PROVE AlwaysRecoverable
  <2>1. StorageType /\ Images /\ ChildrenFirst(log)
    BY <1>1, TypeParts DEF IndInv, Nested, Images
  <2>2. ASSUME NEW k \in ndisk..nfile
        PROVE /\ RootsValid(SubSeq(log, 1, k))
              /\ HasFastTail(SubSeq(log, 1, k)) => ManifestValid(SubSeq(log, 1, k))
    <3> DEFINE l == SubSeq(log, 1, k)
    <3>1. k \in Nat /\ k <= Len(log) /\ log \in Seq(Record)
      BY <2>1 DEF StorageType, Images
    <3>2. l \in Seq(Record) /\ ChildrenFirst(l)
      BY <2>1, <3>1, PrefixFacts, ChildrenPrefix, SMTT(60)
    <3> HIDE DEF l
    <3>3. RootsValid(l)
      BY <3>2, SMTT(60) DEF RootsValid, ChildrenFirst, Placed, Before
    <3>4. HasFastTail(l) => ManifestValid(l)
      BY <3>2, ManifestFacts
    <3> QED
      BY <3>3, <3>4 DEF l
  <2> QED
    BY <2>2 DEF AlwaysRecoverable
<1> QED
  BY <1>1, Inductive, PTL

\* Every ID that Snapshot or Publish returned, and every memoized one, is on
\* disk with all its objects, through any failures, crashes and restarts.
THEOREM PromisesKept == Spec => []SnapshotsDurable
<1>1. IndInv => SnapshotsDurable
  BY DEF IndInv
<1> QED
  BY <1>1, Inductive, PTL

\* Recovery is exact, whenever and however often writes, syncs, processes and
\* machines fail: the maps of an idle handle, the sealed index and the scan
\* agree, and the roots found are those acknowledged last or attempted since.
THEOREM RecoveryIsExact == Spec => []RecoveryExact
<1>1. Init => RecInv
  BY InitExact
<1>2. IndInv /\ RecInv /\ [Next]_vars => RecInv'
  BY ExactKept, LastFacts
<1>3. IndInv /\ RecInv => RecoveryExact
  BY ExactKept, LastFacts
<1> QED BY <1>1, <1>2, <1>3, Inductive, PTL DEF Spec

\* No update is lost: a root in memory changes only when a Publish or a Drop
\* ends, over the version that it was checked against when it started.
THEOREM UpdatesKept == Spec => NoLostUpdate
<1>1. Init => Vetted
  BY InitExact
<1>2. IndInv /\ Vetted /\ [Next]_vars => Vetted'
  <2>1. ASSUME Vetted, UNCHANGED vars PROVE Vetted'
    BY <2>1, SMTT(30) DEF Vetted, vars
  <2> QED BY <2>1, NextVetted, SMTT(30)
<1>3. IndInv /\ Vetted /\ [Next]_vars =>
        [mode = "open" /\ mode' = "open" =>
           \A n \in Name : refs'[n] # refs[n] =>
              /\ op.name = n
              /\ \/ op.kind = "drop" /\ refs[n] = op.id
                 \/ /\ op.kind = "publish"
                    /\ refs[n] = IF ws[op.w].name = n THEN ws[op.w].base
                                                     ELSE None]_vars
  <2> SUFFICES ASSUME IndInv, Vetted, Next, mode = "open", mode' = "open",
                      NEW n \in Name, refs'[n] # refs[n]
               PROVE  /\ op.name = n
                      /\ \/ op.kind = "drop" /\ refs[n] = op.id
                         \/ /\ op.kind = "publish"
                            /\ refs[n] = IF ws[op.w].name = n THEN ws[op.w].base
                                                             ELSE None
    OBVIOUS
  <2>1. FsyncRoot
    BY NextVetted, SMTT(30)
  <2>2. refs' = NewRefs /\ op.kind \in {"publish", "drop"}
    BY <2>1, SMTT(30) DEF FsyncRoot
  <2>3. refs \in [Name -> {None} \cup ID]
    BY DEF IndInv, TypeOK, Refs
  <2>4. op.name = n
    BY <2>2, <2>3 DEF NewRefs
  <2> QED BY <2>2, <2>4 DEF Vetted
<1> QED BY <1>1, <1>2, <1>3, Inductive, PTL DEF Spec, NoLostUpdate

=============================================================================
