--------------------------- MODULE ScsRepository ----------------------------
(***************************************************************************)
(* The SCS repository (scs/repo): an append-only file of content-addressed *)
(* records, the named workspace roots it publishes, and what survives a    *)
(* failed write, a failed sync, a killed process or a power loss.          *)
(*                                                                         *)
(* Abstractions.  A file is an Object, a directory tree a set of objects,  *)
(* and the ID of a snapshot is its tree: IDs are digests of the content.   *)
(* Of the native records the model keeps the data records ("object"), the  *)
(* snapshot records, the refs records, the base run of a fast index and    *)
(* the two records that seal it: its manifest ("root", which carries what  *)
(* the index runs hold) and the tail locator ("end").                      *)
(*                                                                         *)
(* `log` is everything the handle has appended.  Its first nfile records   *)
(* are in the file, the rest still in the bufio.Writer; the first ndisk    *)
(* are durable.  torn says that the file ends in a part of a record, dtorn *)
(* that the durable image does.  Repository.mu is held by `op`, the        *)
(* operation between two of its storage calls.                             *)
(***************************************************************************)
EXTENDS Naturals, Sequences, FiniteSets

CONSTANTS
    Object,     \* contents of files
    Name,       \* workspace names
    Workspace,  \* Workspace values alive at one time
    None,       \* no ID, name or workspace
    Optimized,  \* TRUE: SCSREPO3 (buffered, indexed); FALSE: SCSREPO2
    MaxLog,     \* bound: records in the log
    MaxFaults   \* bound: failed calls and crashes

ASSUME RepositoryAssumption ==
    /\ None \notin Name \cup Workspace
    /\ \A id \in SUBSET Object : id # None
    /\ None \notin [Name -> {None} \cup SUBSET Object]
    /\ Optimized \in BOOLEAN
    /\ MaxLog \in Nat /\ MaxFaults \in Nat

VARIABLES
    log, nfile, ndisk, torn, dtorn, faults,          \* the storage
    mode, fast, refs, objs, snaps, pending,          \* Repository
    ws, op,                                          \* its users
    acked, since, returned                           \* observations

storage == <<log, nfile, ndisk, torn, dtorn, faults>>
memory == <<mode, fast, refs, objs, snaps, pending>>
seen == <<acked, since, returned>>
vars == <<log, nfile, ndisk, torn, dtorn, faults, mode, fast, refs, objs,
          snaps, pending, ws, op, acked, since, returned>>

ID == SUBSET Object
Refs == [Name -> {None} \cup ID]
NoRefs == [n \in Name |-> None]

ObjectRec(o) == [kind |-> "object", object |-> o]
SnapRec(id) == [kind |-> "snapshot", tree |-> id]
RefsRec(r) == [kind |-> "refs", refs |-> r]
RootRec(r, o, s) == [kind |-> "root", refs |-> r, objs |-> o, snaps |-> s]
RunRec == [kind |-> "run"]
EndRec == [kind |-> "end"]

Record ==
    [kind : {"object"}, object : Object]
    \cup [kind : {"snapshot"}, tree : ID]
    \cup [kind : {"refs"}, refs : Refs]
    \cup [kind : {"root"}, refs : Refs, objs : ID, snaps : SUBSET ID]
    \cup [kind : {"run", "end"}]

WS(state, root, snap, name, base) ==
    [state |-> state, root |-> root, snap |-> snap, name |-> name, base |-> base]
Detached == WS("none", {}, None, None, None)
WorkspaceState ==
    [state : {"none", "live"}, root : ID, snap : {None} \cup ID,
     name : Name \cup {None}, base : {None} \cup ID]

Op(kind, stage, w, name, id) ==
    [kind |-> kind, stage |-> stage, w |-> w, name |-> name, id |-> id]
Idle == Op("idle", "idle", None, None, None)
Operation ==
    [kind : {"idle", "snapshot", "publish", "drop", "checkpoint", "close"},
     stage : {"idle", "save", "write1", "fsync1", "refs", "base",
              "write2", "fsync2"},
     w : Workspace \cup {None}, name : Name \cup {None}, id : {None} \cup ID]

TypeOK ==
    /\ log \in Seq(Record)
    /\ nfile \in Nat /\ ndisk \in Nat /\ faults \in Nat
    /\ torn \in BOOLEAN /\ dtorn \in BOOLEAN
    /\ mode \in {"open", "poisoned", "closed"}
    /\ fast \in BOOLEAN
    /\ refs \in Refs
    /\ objs \in ID /\ snaps \in SUBSET ID
    /\ pending \in {None} \cup Refs
    /\ ws \in [Workspace -> WorkspaceState]
    /\ op \in Operation
    /\ acked \in Refs /\ since \in SUBSET Refs /\ returned \in SUBSET ID

Init ==
    /\ log = <<>> /\ nfile = 0 /\ ndisk = 0 /\ faults = 0
    /\ torn = FALSE /\ dtorn = FALSE
    /\ mode = "open"
    /\ fast = FALSE
    /\ refs = NoRefs
    /\ objs = {} /\ snaps = {}
    /\ pending = None
    /\ ws = [w \in Workspace |-> Detached]
    /\ op = Idle
    /\ acked = NoRefs /\ since = {} /\ returned = {}

-----------------------------------------------------------------------------
(* Recovery: what opening a file whose records are l finds.                *)

RootIndexes(l) == {i \in 1..Len(l) : l[i].kind = "refs"}

LastOf(S) == CHOOSE i \in S : \A j \in S : j <= i

\* scan: the last refs record wins
ScanRefs(l) ==
    IF RootIndexes(l) = {} THEN NoRefs ELSE l[LastOf(RootIndexes(l))].refs

ScanObjs(l) == {o \in Object : \E i \in 1..Len(l) : l[i] = ObjectRec(o)}
ScanSnaps(l) == {s \in ID : \E i \in 1..Len(l) : l[i] = SnapRec(s)}

\* loadFastIndex: only a tail locator at the very end of the file is used
HasFastTail(l) == Optimized /\ Len(l) > 1 /\ l[Len(l)].kind = "end"
Manifest(l) == l[Len(l) - 1]

RecoveredRefs(l) == IF HasFastTail(l) THEN Manifest(l).refs ELSE ScanRefs(l)

\* scan refuses a refs record whose snapshots do not precede it
RootsValid(l) ==
    \A i \in 1..Len(l) : l[i].kind = "refs" =>
        \A n \in Name : l[i].refs[n] # None =>
            \E j \in 1..(i - 1) : l[j] = SnapRec(l[i].refs[n])

\* loadFastIndex refuses a manifest with a root its runs do not hold
ManifestValid(l) ==
    \A n \in Name :
        Manifest(l).refs[n] # None => Manifest(l).refs[n] \in Manifest(l).snaps

-----------------------------------------------------------------------------
(* The storage calls.                                                      *)

Fault == faults < MaxFaults /\ faults' = faults + 1

\* How far the first n records of the log may have reached the file when a
\* buffered writer spills, or a write stops, at any byte.
Spill(n) ==
    /\ nfile' \in nfile..n
    /\ torn' \in (IF nfile' < n THEN BOOLEAN ELSE {FALSE})
    /\ (nfile' = nfile /\ torn) => torn'

\* appendEncoded: SCSREPO2 writes through, SCSREPO3 into the bufio.Writer
Appended(newlog) ==
    /\ log' = newlog
    /\ IF Optimized
       THEN Spill(Len(newlog))
       ELSE nfile' = Len(newlog) /\ torn' = FALSE
    /\ UNCHANGED <<ndisk, dtorn, faults>>

Flushed(newlog) ==
    /\ log' = newlog
    /\ nfile' = Len(newlog)
    /\ torn' = FALSE
    /\ UNCHANGED <<ndisk, dtorn, faults>>

\* A write or flush error poisons the handle and ends the operation.
WriteFailed(newlog) ==
    /\ Fault
    /\ log' = newlog
    /\ Spill(Len(newlog))
    /\ mode' = "poisoned"
    /\ op' = Idle
    /\ UNCHANGED <<ndisk, dtorn, fast, refs, objs, snaps, pending, ws>>

Ready == mode = "open" /\ op = Idle

\* An operation starts only when the bound leaves room for its n own records
\* and for the seals of the k syncs that follow them.
Fits(n, k) == Len(log) + n + (IF fast THEN 2 * k ELSE 0) <= MaxLog

-----------------------------------------------------------------------------
(* Workspace edits.                                                        *)

\* A block or body appended under Repository.mu: part of a streamed write
\* whose entry is not installed yet, or of one that fails afterwards.
Ingest(o) ==
    /\ Ready /\ Fits(1, 1)
    /\ o \notin objs
    /\ \/ /\ Appended(Append(log, ObjectRec(o)))
          /\ objs' = objs \cup {o}
          /\ UNCHANGED <<mode, fast, refs, snaps, pending, ws, op>>
       \/ WriteFailed(Append(log, ObjectRec(o)))
    /\ UNCHANGED seen

\* state.set: the new tree has no memoized snapshot
Edited(s, root) == WS(s.state, root, None, s.name, s.base)

\* Mutant: the body is taken for known without a look at the index.
Write_Unappended(w, o) ==
    /\ Ready
    /\ ws[w].state = "live"
    /\ ws' = [ws EXCEPT ![w] = Edited(@, @.root \cup {o})]
    /\ UNCHANGED <<storage, memory, op, seen>>

\* Workspace.write: append unless known, then state.set, which drops the
\* memoized snapshot
Write(w, o) ==
    /\ Ready
    /\ ws[w].state = "live"
    /\ IF o \in objs
       THEN UNCHANGED storage
       ELSE Fits(1, 1) /\ Appended(Append(log, ObjectRec(o)))
    /\ objs' = objs \cup {o}
    /\ ws' = [ws EXCEPT ![w] = Edited(@, @.root \cup {o})]
    /\ UNCHANGED <<mode, fast, refs, snaps, pending, op>>
    /\ UNCHANGED seen

Delete(w, o) ==
    /\ Ready
    /\ ws[w].state = "live"
    /\ o \in ws[w].root
    /\ ws' = [ws EXCEPT ![w] = Edited(@, @.root \ {o})]
    /\ UNCHANGED <<storage, memory, op, seen>>

Empty(w) ==
    /\ Ready
    /\ ws' = [ws EXCEPT ![w] = WS("live", {}, None, None, None)]
    /\ UNCHANGED <<storage, memory, op, seen>>

\* Mutant: a loaded workspace starts with its snapshot memoized.
Load_Memoized(id, n, base) == WS("live", id, id, n, base)

\* load: the tree is read back, which flushes the writer.  The memo stays
\* empty: what was read need not be durable.
Load(id, n, base) == WS("live", id, None, n, base)

Checkout(w, n) ==
    /\ Ready
    /\ refs[n] # None
    /\ Flushed(log)
    /\ ws' = [ws EXCEPT ![w] = Load(refs[n], n, refs[n])]
    /\ UNCHANGED <<memory, op, seen>>

Fork(w, id) ==
    /\ Ready
    /\ id \in snaps
    /\ Flushed(log)
    /\ ws' = [ws EXCEPT ![w] = Load(id, None, None)]
    /\ UNCHANGED <<memory, op, seen>>

\* getRaw and readFast flush before they read; the flush may fail.
ReadFails ==
    /\ Ready
    /\ nfile < Len(log)
    /\ WriteFailed(log)
    /\ UNCHANGED seen

-----------------------------------------------------------------------------
(* Snapshot, Publish, Drop and Checkpoint, between their storage calls.    *)

Start(kind, stage, w, n, id) ==
    /\ op' = Op(kind, stage, w, n, id)
    /\ UNCHANGED <<storage, memory, ws, seen>>

\* The operation in progress, at its next storage call.
At(stage) == Op(op.kind, stage, op.w, op.name, op.id)

\* snapshotLocked returns a memoized ID without any I/O.
Snapshot(w) ==
    /\ Ready
    /\ ws[w].state = "live"
    /\ ws[w].snap = None
    /\ Fits(1, 1)
    /\ Start("snapshot", "save", w, None, ws[w].root)

\* Mutant: the published root is not compared with the checkout's base.
MayPublish_Unchecked(w, n) == n = ws[w].name \/ refs[n] = None

\* Compare-and-swap on the checkout's own name; other names must be new.
MayPublish(w, n) ==
    IF n = ws[w].name THEN refs[n] = ws[w].base ELSE refs[n] = None

Publish(w, n) ==
    /\ Ready
    /\ ws[w].state = "live"
    /\ MayPublish(w, n)
    /\ Fits(IF ws[w].root \in snaps THEN 1 ELSE 2, 2)
    /\ Start("publish", IF ws[w].snap = None THEN "save" ELSE "refs",
             w, n, ws[w].root)

Drop(n, expected) ==
    /\ Ready
    /\ refs[n] # None
    /\ refs[n] = expected
    /\ Fits(1, 1)
    /\ Start("drop", "refs", None, n, expected)

Checkpoint ==
    /\ Ready
    /\ Len(log) + 3 <= MaxLog
    /\ Start("checkpoint", "write1", None, None, None)

\* Mutant: the record is taken for present.
Save_Unappended ==
    /\ mode = "open" /\ op.stage = "save"
    /\ op' = At("write1")
    /\ UNCHANGED <<storage, memory, ws, seen>>

\* save: the snapshot record, unless the repository has it already
Save ==
    /\ mode = "open" /\ op.stage = "save"
    /\ \/ /\ IF op.id \in snaps
             THEN UNCHANGED storage
             ELSE Appended(Append(log, SnapRec(op.id)))
          /\ snaps' = snaps \cup {op.id}
          /\ op' = At("write1")
          /\ UNCHANGED <<mode, fast, refs, objs, pending, ws>>
       \/ /\ op.id \notin snaps
          /\ WriteFailed(Append(log, SnapRec(op.id)))
    /\ UNCHANGED seen

\* Mutant: the map is built from scratch.
NewRefs_Rebuilt ==
    [NoRefs EXCEPT ![op.name] = IF op.kind = "publish" THEN op.id ELSE None]

NewRefs ==
    [refs EXCEPT ![op.name] = IF op.kind = "publish" THEN op.id ELSE None]

\* The refs record; a fast index remembers it for the manifest it seals next.
AppendRefs ==
    /\ mode = "open" /\ op.stage = "refs"
    /\ \/ /\ Appended(Append(log, RefsRec(NewRefs)))
          /\ pending' = IF fast THEN NewRefs ELSE pending
          /\ op' = At("write2")
          /\ UNCHANGED <<mode, fast, refs, objs, snaps, ws>>
       \/ WriteFailed(Append(log, RefsRec(NewRefs)))
    /\ since' = since \cup {NewRefs}
    /\ UNCHANGED <<acked, returned>>

\* buildFastIndex: the base run; from here on every sync maintains the index
BuildFastIndex ==
    /\ mode = "open" /\ op.stage = "base"
    /\ \/ /\ Appended(Append(log, RunRec))
          /\ fast' = TRUE
          /\ op' = At("write2")
          /\ UNCHANGED <<mode, refs, objs, snaps, pending, ws>>
       \/ WriteFailed(Append(log, RunRec))
    /\ UNCHANGED seen

-----------------------------------------------------------------------------
(* sync = sealFast; flush; Sync                                            *)

Sealed == fast /\ log # <<>> /\ log[Len(log)].kind = "end"

\* Mutant: the manifest repeats the root map in memory, not the pending one.
SealRefs_Stale == refs

SealRefs == IF pending = None THEN refs ELSE pending

\* sealFast: the manifest and its tail locator
SealedLog ==
    IF fast /\ ~Sealed
    THEN Append(Append(log, RootRec(SealRefs, objs, snaps)), EndRec)
    ELSE log

SyncWrite ==
    /\ mode = "open" /\ op.stage \in {"write1", "write2"}
    /\ \/ /\ Flushed(SealedLog)
          /\ pending' = IF Sealed THEN pending ELSE None
          /\ op' = At(IF op.stage = "write1" THEN "fsync1" ELSE "fsync2")
          /\ UNCHANGED <<mode, fast, refs, objs, snaps, ws>>
       \/ WriteFailed(SealedLog)
    /\ UNCHANGED seen

\* A failed Sync may still have made a part of the file durable.
FsyncFails ==
    /\ mode = "open" /\ op.stage \in {"fsync1", "fsync2"}
    /\ Fault
    /\ ndisk' \in ndisk..nfile
    /\ mode' = "poisoned"
    /\ op' = Idle
    /\ UNCHANGED <<log, nfile, torn, dtorn>>
    /\ UNCHANGED <<fast, refs, objs, snaps, pending, ws, seen>>

\* Mutant: sync flushes but does not fsync.
Durable_Unsynced == UNCHANGED storage

Durable ==
    /\ ndisk' = nfile
    /\ dtorn' = FALSE
    /\ UNCHANGED <<log, nfile, torn, faults>>

\* The memo is installed only after the sync.
FsyncSnapshot ==
    /\ mode = "open" /\ op.stage = "fsync1"
    /\ op.kind \in {"snapshot", "publish"}
    /\ Durable
    /\ ws' = [ws EXCEPT ![op.w] = WS(@.state, @.root, op.id, @.name, @.base)]
    /\ IF op.kind = "publish"
       THEN /\ op' = At("refs")
            /\ UNCHANGED returned
       ELSE /\ op' = Idle
            /\ returned' = returned \cup {op.id}
    /\ UNCHANGED <<memory, acked, since>>

\* The new root enters memory, and the caller is told, after the sync.
FsyncRoot ==
    /\ mode = "open" /\ op.stage = "fsync2"
    /\ op.kind \in {"publish", "drop"}
    /\ Durable
    /\ refs' = NewRefs
    /\ ws' = IF op.kind = "publish"
             THEN [ws EXCEPT ![op.w] =
                      WS(@.state, @.root, @.snap, op.name, op.id)]
             ELSE ws
    /\ op' = Idle
    /\ acked' = NewRefs
    /\ since' = {}
    /\ returned' = IF op.kind = "publish" THEN returned \cup {op.id}
                                          ELSE returned
    /\ UNCHANGED <<mode, fast, objs, snaps, pending>>

FsyncCheckpoint ==
    /\ mode = "open" /\ op.stage \in {"fsync1", "fsync2"}
    /\ op.kind = "checkpoint"
    /\ Durable
    /\ op' = IF Optimized /\ ~fast THEN At("base") ELSE Idle
    /\ UNCHANGED <<memory, ws, seen>>

-----------------------------------------------------------------------------
(* Close, crashes and Open.                                                *)

\* The handle is gone: what the file holds is all there is.
Gone(n) ==
    /\ log' = SubSeq(log, 1, n)
    /\ nfile' = n
    /\ mode' = "closed"
    /\ fast' = FALSE /\ refs' = NoRefs /\ objs' = {} /\ snaps' = {}
    /\ pending' = None
    /\ ws' = [w \in Workspace |-> Detached]
    /\ op' = Idle
    /\ UNCHANGED seen

\* A poisoned handle is closed without retrying any I/O; an unsealed fast
\* index is synced first; otherwise Close flushes and does not sync.
ClosePoisoned ==
    /\ mode = "poisoned"
    /\ Gone(nfile)
    /\ UNCHANGED <<ndisk, torn, dtorn, faults>>

CloseUnsealed ==
    /\ Ready
    /\ fast /\ ~Sealed
    /\ Start("close", "write1", None, None, None)

FsyncClose ==
    /\ mode = "open" /\ op.stage = "fsync1" /\ op.kind = "close"
    /\ Gone(nfile)
    /\ ndisk' = nfile
    /\ dtorn' = FALSE
    /\ UNCHANGED <<torn, faults>>

CloseFlush ==
    /\ Ready
    /\ ~fast \/ Sealed
    /\ Gone(Len(log))
    /\ torn' = FALSE
    /\ UNCHANGED <<ndisk, dtorn, faults>>

\* The process dies: the file keeps what was written to it.
ProcessCrash ==
    /\ mode # "closed"
    /\ Fault
    /\ Gone(nfile)
    /\ UNCHANGED <<ndisk, torn, dtorn>>

\* The machine dies: beyond what was synced, any prefix of the written bytes
\* may survive, and a trim that was not synced may be undone.
PowerLoss ==
    /\ Fault
    /\ \E n \in ndisk..nfile :
         /\ Gone(n)
         /\ ndisk' = n
         /\ torn' \in (IF n < nfile \/ torn \/ dtorn THEN BOOLEAN ELSE {FALSE})
         /\ dtorn' = torn'

\* open: by the sealed index when the file ends in one, else by a physical
\* scan, which removes a torn tail and syncs the result
Open(verify) ==
    LET useIndex == HasFastTail(log) /\ ~torn /\ ~verify IN
    /\ mode = "closed"
    /\ IF useIndex THEN ManifestValid(log) ELSE RootsValid(log)
    /\ mode' = "open"
    /\ fast' = useIndex
    /\ refs' = IF useIndex THEN Manifest(log).refs ELSE ScanRefs(log)
    /\ objs' = IF useIndex THEN Manifest(log).objs ELSE ScanObjs(log)
    /\ snaps' = IF useIndex THEN Manifest(log).snaps ELSE ScanSnaps(log)
    /\ torn' = FALSE
    /\ IF torn THEN ndisk' = nfile /\ dtorn' = FALSE
               ELSE UNCHANGED <<ndisk, dtorn>>
    /\ UNCHANGED <<log, nfile, faults, pending, ws, op, seen>>

\* trim truncates and then cannot sync: Open fails, the tail is gone only
\* from the visible file.  It takes an earlier fault to tear the file.
OpenFails ==
    /\ mode = "closed"
    /\ torn
    /\ torn' = FALSE
    /\ ndisk' \in ndisk..nfile
    /\ UNCHANGED <<log, nfile, dtorn, faults, memory, ws, op, seen>>

Next ==
    \/ \E o \in Object : Ingest(o)
    \/ \E w \in Workspace :
        \/ \E o \in Object : Write(w, o) \/ Delete(w, o)
        \/ Empty(w)
        \/ \E n \in Name : Checkout(w, n) \/ Publish(w, n)
        \/ \E id \in snaps : Fork(w, id)
        \/ Snapshot(w)
    \/ \E n \in Name, id \in ID : Drop(n, id)
    \/ ReadFails \/ Checkpoint
    \/ Save \/ AppendRefs \/ BuildFastIndex \/ SyncWrite
    \/ FsyncFails \/ FsyncSnapshot \/ FsyncRoot \/ FsyncCheckpoint
    \/ ClosePoisoned \/ CloseUnsealed \/ FsyncClose \/ CloseFlush
    \/ ProcessCrash \/ PowerLoss
    \/ \E verify \in BOOLEAN : Open(verify)
    \/ OpenFails

Spec == Init /\ [][Next]_vars

-----------------------------------------------------------------------------
(* Properties.                                                             *)

\* Every image a crash can leave, at any point of any operation, is one
\* Open accepts: no root names a snapshot the records before it lack, by the
\* physical scan and by the sealed index.
AlwaysRecoverable ==
    \A k \in ndisk..nfile :
        LET l == SubSeq(log, 1, k) IN
        RootsValid(l) /\ (HasFastTail(l) => ManifestValid(l))

\* A snapshot's objects precede it in the log, so load never fails on a
\* snapshot that recovery found.
TreesComplete ==
    \A i \in 1..Len(log) : log[i].kind = "snapshot" =>
        \A o \in log[i].tree : \E j \in 1..(i - 1) : log[j] = ObjectRec(o)

\* Whatever crash image is opened, with the index or without, the roots are
\* those of the last Publish or Drop that returned success, or those of one
\* that was attempted since and reported an error or never returned.
RecoveryOldOrAttempted ==
    \A k \in ndisk..nfile :
        RecoveredRefs(SubSeq(log, 1, k)) \in {acked} \cup since

\* The manifest of a sealed index and the physical scan find the same roots
\* and the same objects.
IndexAgreesWithScan ==
    \A k \in ndisk..nfile :
        LET l == SubSeq(log, 1, k) IN
        HasFastTail(l) =>
            /\ Manifest(l).refs = ScanRefs(l)
            /\ Manifest(l).objs = ScanObjs(l)
            /\ Manifest(l).snaps = ScanSnaps(l)

OnDisk(rec) == \E i \in 1..ndisk : log[i] = rec

\* An ID that Snapshot or Publish returned, and one a workspace memoized, is
\* durable together with all its objects, whatever failed afterwards.
SnapshotsDurable ==
    \A id \in (returned \cup {ws[w].snap : w \in Workspace}) \ {None} :
        OnDisk(SnapRec(id)) /\ \A o \in id : OnDisk(ObjectRec(o))

\* An open handle between operations knows exactly what its log holds, so
\* deduplication never skips a record that is not there.
MemoryMatchesLog ==
    mode = "open" /\ op = Idle =>
        refs = ScanRefs(log) /\ objs = ScanObjs(log) /\ snaps = ScanSnaps(log)

\* Recovery is exact: the maps of an idle handle, the physical scan and the
\* sealed index agree on what a log holds, and what a crash leaves is what was
\* acknowledged last or attempted since.
RecoveryExact == MemoryMatchesLog /\ IndexAgreesWithScan /\ RecoveryOldOrAttempted

\* A named root changes only over the version its publisher started from.
NoLostUpdate ==
    [][mode = "open" /\ mode' = "open" =>
         \A n \in Name : refs'[n] # refs[n] =>
            /\ op.name = n
            /\ \/ op.kind = "drop" /\ refs[n] = op.id
               \/ /\ op.kind = "publish"
                  /\ refs[n] = IF ws[op.w].name = n THEN ws[op.w].base
                                                   ELSE None]_vars

-----------------------------------------------------------------------------
(* The inductive invariant behind TreesComplete, AlwaysRecoverable and     *)
(* SnapshotsDurable.                                                       *)

Before(l, i, rec) == \E j \in 1..(i - 1) : l[j] = rec

\* Everything the record at i refers to precedes it.
Placed(l, i) ==
    /\ l[i].kind = "snapshot" =>
        \A o \in l[i].tree : Before(l, i, ObjectRec(o))
    /\ l[i].kind = "refs" => \A n \in Name :
        l[i].refs[n] # None => Before(l, i, SnapRec(l[i].refs[n]))
    /\ l[i].kind = "root" =>
        /\ \A n \in Name : l[i].refs[n] # None => l[i].refs[n] \in l[i].snaps
        /\ \A o \in l[i].objs : Before(l, i, ObjectRec(o))
        /\ \A s \in l[i].snaps : Before(l, i, SnapRec(s)) /\ s \subseteq l[i].objs
    /\ l[i].kind = "end" => i > 1 /\ l[i - 1].kind = "root"

ChildrenFirst(l) == \A i \in 1..Len(l) : Placed(l, i)

\* The images of the file are nested; a closed file has no users.
Nested ==
    /\ ndisk <= nfile /\ nfile <= Len(log)
    /\ mode # "open" => op = Idle
    /\ mode = "closed" =>
        /\ nfile = Len(log)
        /\ pending = None
        /\ ws = [w \in Workspace |-> Detached]

Logged(rec) == \E i \in 1..Len(log) : log[i] = rec

\* What an open handle takes for known is in its log.
Remembered ==
    mode = "open" =>
        /\ \A o \in objs : Logged(ObjectRec(o))
        /\ \A s \in snaps : Logged(SnapRec(s)) /\ s \subseteq objs
        /\ \A n \in Name : refs[n] # None => refs[n] \in snaps
        /\ pending # None =>
            \A n \in Name : pending[n] # None => pending[n] \in snaps
        /\ \A w \in Workspace :
            /\ ws[w].root \subseteq objs
            /\ ws[w].snap # None => ws[w].snap = ws[w].root /\ ws[w].snap \in snaps

\* How far the operation in progress has come.
Staged ==
    /\ op.stage \in {"save", "refs"} => op.kind \in {"snapshot", "publish", "drop"}
    /\ op.stage = "save" => op.kind # "drop"
    /\ op.stage = "refs" => op.kind # "snapshot"
    /\ op.stage = "base" => op.kind = "checkpoint"
    /\ op.kind \in {"publish", "drop"} => op.name \in Name
    /\ op.kind \in {"snapshot", "publish"} =>
        /\ op.w \in Workspace
        /\ op.id = ws[op.w].root
        /\ op.stage # "save" => op.id \in snaps
        /\ op.stage \in {"refs", "write2", "fsync2"} => ws[op.w].snap = op.id
    /\ op.stage \in {"fsync1", "fsync2"} => nfile = Len(log)

IndInv ==
    /\ TypeOK /\ Nested /\ ChildrenFirst(log) /\ Remembered /\ Staged
    /\ SnapshotsDurable

-----------------------------------------------------------------------------
(* What IndInv needs besides for RecoveryExact and NoLostUpdate.           *)

\* The operation's refs record is in the log, its map not yet in memory.
Recorded == op.kind \in {"publish", "drop"} /\ op.stage \in {"write2", "fsync2"}

\* What an open handle takes for known is all that its log holds, between the
\* refs record and its sync included; the map that the next manifest repeats
\* is the one recorded last.
Known ==
    mode = "open" =>
        /\ objs = ScanObjs(log) /\ snaps = ScanSnaps(log)
        /\ ScanRefs(log) = IF Recorded THEN NewRefs ELSE refs
        /\ pending # None => Recorded /\ op.stage = "write2"
        /\ Recorded /\ op.stage = "write2" =>
            /\ log # <<>> /\ log[Len(log)].kind = "refs"
            /\ pending = IF fast THEN NewRefs ELSE None

\* A manifest says what a scan of the log up to it finds.
Exact(l) ==
    \A i \in 1..Len(l) : l[i].kind = "root" =>
        /\ l[i].refs = ScanRefs(SubSeq(l, 1, i))
        /\ l[i].objs = ScanObjs(SubSeq(l, 1, i))
        /\ l[i].snaps = ScanSnaps(SubSeq(l, 1, i))

\* Whichever prefix from n records on is left, its roots are among A.
Tried(l, n, A) == \A k \in n..Len(l) : ScanRefs(SubSeq(l, 1, k)) \in A

RecInv == Known /\ Exact(log) /\ Tried(log, ndisk, {acked} \cup since)

\* The version in memory stays the one an update was checked against.
Vetted ==
    /\ op.kind = "publish" =>
        refs[op.name] = IF ws[op.w].name = op.name THEN ws[op.w].base ELSE None
    /\ op.kind = "drop" => refs[op.name] = op.id

-----------------------------------------------------------------------------
RootsLogged(n) ==
    LET isRoot(rec) == rec.kind = "refs"
        rs == SelectSeq(SubSeq(log, 1, n), isRoot)
    IN [i \in 1..Len(rs) |-> rs[i].refs]

Abstract == INSTANCE NamedRoots WITH
    history <- <<NoRefs>> \o RootsLogged(Len(log)),
    stable <- 1 + Len(RootsLogged(ndisk))

\* The repository implements the history of root maps of NamedRoots.
ImplementsNamedRoots == Abstract!Spec
=============================================================================
