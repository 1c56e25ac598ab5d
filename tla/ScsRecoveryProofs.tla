------------------------- MODULE ScsRecoveryProofs --------------------------
(***************************************************************************)
(* What a scan of the log finds, at every step of ScsRepository.  First    *)
(* the lemmas that all the proofs about it share: records and their order  *)
(* in the log, prefixes of it, resting values, types.  Then ExactKept: the *)
(* steps keep RecInv, the strengthening behind RecoveryExact, once IndInv  *)
(* is known to hold.  Then NextVetted: the version that an update was      *)
(* checked against stays in the map until the update ends.                 *)
(***************************************************************************)
EXTENDS ScsRepository, TLAPS

-----------------------------------------------------------------------------
(* Sequences, records and types.                                           *)

\* Appending keeps every earlier record in its place.
LEMMA AppendFacts ==
    ASSUME NEW S, NEW l \in Seq(S), NEW e \in S
    PROVE  /\ Append(l, e) \in Seq(S)
           /\ Len(Append(l, e)) = Len(l) + 1
           /\ \A i \in 1..Len(l) : Append(l, e)[i] = l[i]
           /\ Append(l, e)[Len(l) + 1] = e
  OBVIOUS

\* What a crash leaves is a prefix of what was appended.
LEMMA PrefixFacts ==
    ASSUME NEW S, NEW l \in Seq(S), NEW n \in Nat, n <= Len(l)
    PROVE  /\ SubSeq(l, 1, n) \in Seq(S)
           /\ Len(SubSeq(l, 1, n)) = n
           /\ \A i \in 1..n : SubSeq(l, 1, n)[i] = l[i]
  OBVIOUS

\* The constructors build records, and differ in their kinds.
LEMMA RecordFacts ==
    /\ \A o \in Object : ObjectRec(o) \in Record /\ ObjectRec(o).kind = "object"
    /\ \A s \in ID : SnapRec(s) \in Record /\ SnapRec(s).kind = "snapshot"
                     /\ SnapRec(s).tree = s
    /\ \A r \in Refs : RefsRec(r) \in Record /\ RefsRec(r).kind = "refs"
                       /\ RefsRec(r).refs = r
    /\ \A r \in Refs, o \in ID, s \in SUBSET ID :
        /\ RootRec(r, o, s) \in Record /\ RootRec(r, o, s).kind = "root"
        /\ RootRec(r, o, s).refs = r
        /\ RootRec(r, o, s).objs = o
        /\ RootRec(r, o, s).snaps = s
    /\ RunRec \in Record /\ RunRec.kind = "run"
    /\ EndRec \in Record /\ EndRec.kind = "end"
  BY DEF Record, ObjectRec, SnapRec, RefsRec, RootRec, RunRec, EndRec

\* No operation, and no workspace, is in progress in their resting values.
LEMMA RestingFacts ==
    /\ Idle \in Operation /\ Idle.kind = "idle" /\ Idle.stage = "idle"
    /\ Detached \in WorkspaceState /\ Detached.root = {} /\ Detached.snap = None
<1>1. Idle \in Operation /\ Idle.kind = "idle" /\ Idle.stage = "idle"
  BY DEF Idle, Op, Operation
<1>2. Detached.root = {} /\ Detached.snap = None
  BY DEF Detached, WS
<1>3. {} \in ID /\ None \in {None} \cup ID /\ None \in Name \cup {None}
  BY DEF ID
<1>4. Detached \in WorkspaceState
  BY <1>3 DEF Detached, WS, WorkspaceState
<1> QED
  BY <1>1, <1>2, <1>4

\* Whether a record is placed depends only on the log up to it.
LEMMA PlacedSame ==
    ASSUME NEW l, NEW m, NEW i \in Nat \ {0}, Placed(l, i),
           \A j \in 1..i : l[j] = m[j]
    PROVE  Placed(m, i)
<1>1. l[i] = m[i] /\ (i > 1 => l[i - 1] = m[i - 1])
  OBVIOUS
<1>2. \A rec : Before(l, i, rec) => Before(m, i, rec)
  BY DEF Before
<1> QED
  BY <1>1, <1>2 DEF Placed

\* A prefix of a well-ordered log is well ordered.
LEMMA ChildrenPrefix ==
    ASSUME NEW l \in Seq(Record), NEW n \in Nat, n <= Len(l), ChildrenFirst(l)
    PROVE  ChildrenFirst(SubSeq(l, 1, n))
<1> DEFINE m == SubSeq(l, 1, n)
<1>1. Len(m) = n /\ \A i \in 1..n : m[i] = l[i]
  BY PrefixFacts
<1>2. ASSUME NEW i \in 1..n PROVE Placed(m, i)
  <2>1. Placed(l, i)
    BY DEF ChildrenFirst
  <2>2. \A j \in 1..i : l[j] = m[j]
    BY <1>1
  <2> HIDE DEF m
  <2> QED
    BY <2>1, <2>2, PlacedSame
<1> QED
  BY <1>1, <1>2 DEF ChildrenFirst

StorageType ==
    /\ log \in Seq(Record)
    /\ nfile \in Nat /\ ndisk \in Nat /\ faults \in Nat
    /\ torn \in BOOLEAN /\ dtorn \in BOOLEAN

MemoryType ==
    /\ mode \in {"open", "poisoned", "closed"}
    /\ fast \in BOOLEAN
    /\ refs \in Refs
    /\ objs \in ID /\ snaps \in SUBSET ID
    /\ pending \in {None} \cup Refs
    /\ ws \in [Workspace -> WorkspaceState]
    /\ op \in Operation

SeenType == acked \in Refs /\ since \in SUBSET Refs /\ returned \in SUBSET ID

\* The durable image is a prefix of the file, the file of the log.
Images == ndisk <= nfile /\ nfile <= Len(log)

\* TypeOK splits into the types of the storage, the memory and the history.
LEMMA TypeParts ==
    /\ TypeOK <=> StorageType /\ MemoryType /\ SeenType
    /\ TypeOK' <=> StorageType' /\ MemoryType' /\ SeenType'
  BY Zenon DEF TypeOK, StorageType, MemoryType, SeenType

\* The root map a Publish or Drop writes names only snapshots in the log.
LEMMA NewRefsFacts ==
    ASSUME IndInv, mode = "open",
           op.kind \in {"publish", "drop"}, op.stage # "save"
    PROVE  /\ NewRefs \in Refs
           /\ \A n \in Name : NewRefs[n] # None => NewRefs[n] \in snaps
<1>1. MemoryType
  BY TypeParts DEF IndInv
<1>2. op.name \in Name /\ (op.kind = "publish" => op.id \in snaps)
  BY DEF IndInv, Staged
<1>3. \A n \in Name : refs[n] # None => refs[n] \in snaps
  BY DEF IndInv, Remembered
<1>4. refs \in [Name -> {None} \cup ID] /\ snaps \subseteq ID
  BY <1>1 DEF MemoryType, Refs
<1> QED
  BY <1>2, <1>3, <1>4 DEF NewRefs, Refs

-----------------------------------------------------------------------------
(* What recovery finds.                                                    *)

\* A nonempty set of positions has a last one.  The proof needs induction, so
\* it comes at the end, in ScsRepositoryProofs.
LastExists ==
    \A n \in Nat : \A S \in SUBSET (1..n) :
        S # {} => LastOf(S) \in S /\ \A j \in S : j <= LastOf(S)

\* Initially the log is empty, and nothing is known, recorded or acknowledged.
LEMMA InitExact ==
    ASSUME Init
    PROVE  RecInv /\ Vetted
<1>1. /\ log = <<>> /\ Len(log) = 0 /\ ndisk = 0 /\ op = Idle /\ refs = NoRefs
      /\ objs = {} /\ snaps = {} /\ pending = None /\ acked = NoRefs
  BY DEF Init
<1>2. ScanRefs(log) = NoRefs /\ ScanObjs(log) = {} /\ ScanSnaps(log) = {}
  <2>1. RootIndexes(log) = {}
    BY <1>1 DEF RootIndexes
  <2> QED BY <1>1, <2>1 DEF ScanRefs, ScanObjs, ScanSnaps
<1>3. Known
  BY <1>1, <1>2, RestingFacts DEF Known, Recorded
<1>4. Exact(log)
  BY <1>1 DEF Exact
<1>5. Tried(log, ndisk, {acked} \cup since)
  <2>1. \A k \in ndisk..Len(log) : SubSeq(log, 1, k) = log
    BY <1>1
  <2> QED BY <1>1, <1>2, <2>1, Zenon DEF Tried
<1>6. Vetted
  BY <1>1, RestingFacts DEF Vetted
<1> QED BY <1>3, <1>4, <1>5, <1>6 DEF RecInv

\* The invariant gives RecoveryExact, and every step keeps it.
LEMMA ExactKept ==
    ASSUME LastExists
    PROVE  /\ IndInv /\ RecInv => RecoveryExact
           /\ IndInv /\ RecInv /\ [Next]_vars => RecInv'
\* The last of a set of positions.
<1>LastFacts.
    ASSUME NEW n \in Nat, NEW S \in SUBSET (1..n), S # {}
    PROVE  LastOf(S) \in S /\ \A j \in S : j <= LastOf(S)
  BY <1>LastFacts DEF LastExists

\* Prefixes of longer and of shorter logs.
<1>PrefixSame.
    ASSUME NEW l \in Seq(Record), NEW m \in Seq(Record), NEW k \in Nat, k <= Len(l), k <= Len(m),
           \A i \in 1..k : m[i] = l[i]
    PROVE  SubSeq(m, 1, k) = SubSeq(l, 1, k)
  <2> USE <1>PrefixSame
  <2>1. /\ SubSeq(l, 1, k) = [i \in 1..k |-> l[i]]
        /\ SubSeq(m, 1, k) = [i \in 1..k |-> m[i]]
    OBVIOUS
  <2> QED BY <2>1

\* A record that is appended adds itself to what is found.
<1>ScanAppend.
    ASSUME NEW l \in Seq(Record), NEW e \in Record
    PROVE  /\ ScanRefs(Append(l, e)) = IF e.kind = "refs" THEN e.refs ELSE ScanRefs(l)
           /\ ScanObjs(Append(l, e)) = ScanObjs(l) \cup {o \in Object : e = ObjectRec(o)}
           /\ ScanSnaps(Append(l, e)) = ScanSnaps(l) \cup {s \in ID : e = SnapRec(s)}
  <2>0. Append(l, e) \in Seq(Record) /\ Len(l) \in Nat
    BY AppendFacts
  <2> PICK n \in Nat, m \in Seq(Record) : n = Len(l) /\ m = Append(l, e)
    BY <2>0, Zenon
  <2>1. Len(m) = n + 1 /\ m[n + 1] = e /\ \A i \in 1..n : m[i] = l[i]
    BY AppendFacts
  <2>2. ScanObjs(m) = ScanObjs(l) \cup {o \in Object : e = ObjectRec(o)}
    BY <2>1 DEF ScanObjs
  <2>3. ScanSnaps(m) = ScanSnaps(l) \cup {s \in ID : e = SnapRec(s)}
    BY <2>1 DEF ScanSnaps
  <2>4. ASSUME e.kind # "refs" PROVE ScanRefs(m) = ScanRefs(l)
    <3>1. RootIndexes(m) = RootIndexes(l)
      BY <2>1, <2>4 DEF RootIndexes
    <3>2. CASE RootIndexes(l) = {}
      BY <3>1, <3>2, Zenon DEF ScanRefs
    <3>3. CASE RootIndexes(l) # {}
      <4>1. RootIndexes(l) \in SUBSET (1..n)
        BY DEF RootIndexes
      <4>2. LastOf(RootIndexes(l)) \in 1..n
        BY <3>3, <4>1, <1>LastFacts, Zenon
      <4>3. m[LastOf(RootIndexes(l))] = l[LastOf(RootIndexes(l))]
        BY <2>1, <4>2
      <4> QED BY <3>1, <3>3, <4>3, Zenon DEF ScanRefs
    <3> QED BY <3>2, <3>3
  <2>5. ASSUME e.kind = "refs" PROVE ScanRefs(m) = e.refs
    <3>1. RootIndexes(m) \in SUBSET (1..(n + 1)) /\ n + 1 \in RootIndexes(m)
      BY <2>1, <2>5 DEF RootIndexes
    <3>2. LastOf(RootIndexes(m)) \in 1..(n + 1) /\ n + 1 <= LastOf(RootIndexes(m))
      <4>1. n + 1 \in Nat /\ RootIndexes(m) # {}
        BY <3>1
      <4> QED BY <3>1, <4>1, <1>LastFacts, Zenon
    <3>3. LastOf(RootIndexes(m)) = n + 1 /\ RootIndexes(m) # {}
      BY <3>1, <3>2
    <3> QED BY <2>1, <3>3, Zenon DEF ScanRefs
  <2> QED BY <2>2, <2>3, <2>4, <2>5

\* A prefix of a log, which is what a crash leaves.
<1>CutLog.
    ASSUME NEW l \in Seq(Record), NEW n \in Nat, n <= Len(l), NEW d \in Nat, NEW A
    PROVE  /\ Exact(l) => Exact(SubSeq(l, 1, n))
           /\ Tried(l, d, A) => Tried(SubSeq(l, 1, n), d, A)
  <2> USE <1>CutLog
  <2> PICK m \in Seq(Record) : m = SubSeq(l, 1, n)
    BY PrefixFacts, Zenon
  <2>1. Len(m) = n /\ \A i \in 1..n : m[i] = l[i]
    BY PrefixFacts
  <2>2. \A k \in 0..n : SubSeq(m, 1, k) = SubSeq(l, 1, k)
    BY <2>1, <1>PrefixSame
  <2>3. \A i \in 1..n : i \in 1..Len(l) /\ m[i] = l[i] /\ SubSeq(m, 1, i) = SubSeq(l, 1, i)
    BY <2>1, <2>2
  <2>4. \A k \in d..n : k \in d..Len(l) /\ SubSeq(m, 1, k) = SubSeq(l, 1, k)
    BY <2>2
  <2>5. Exact(l) => Exact(m)
    BY <2>1, <2>3, Zenon DEF Exact
  <2>6. Tried(l, d, A) => Tried(m, d, A)
    BY <2>1, <2>4, Zenon DEF Tried
  <2> QED BY <2>5, <2>6

\* What IndInv says of the storage.
<1>StorageFacts.
    ASSUME IndInv
    PROVE  /\ log \in Seq(Record) /\ Len(log) \in Nat /\ ndisk \in Nat /\ nfile \in Nat
           /\ ndisk <= nfile /\ nfile <= Len(log)
  BY <1>StorageFacts DEF IndInv, TypeOK, Nested

\* A record of one kind says nothing of the other.
<1>RecordsDiffer.
    /\ \A o \in Object : /\ {p \in Object : ObjectRec(o) = ObjectRec(p)} = {o}
                         /\ {s \in ID : ObjectRec(o) = SnapRec(s)} = {}
    /\ \A t \in ID : /\ {p \in Object : SnapRec(t) = ObjectRec(p)} = {}
                     /\ {s \in ID : SnapRec(t) = SnapRec(s)} = {t}
    /\ \A r \in Record : r.kind \notin {"object", "snapshot"} =>
                         /\ {p \in Object : r = ObjectRec(p)} = {}
                         /\ {s \in ID : r = SnapRec(s)} = {}
  <2>1. \A o \in Object : ObjectRec(o).kind = "object" /\ ObjectRec(o).object = o
    BY DEF ObjectRec
  <2>2. \A s \in ID : SnapRec(s).kind = "snapshot" /\ SnapRec(s).tree = s
    BY DEF SnapRec
  <2>3. \A o \in Object, s \in ID : ObjectRec(o) # SnapRec(s)
    BY <2>1, <2>2
  <2>4. \A o, p \in Object : ObjectRec(o) = ObjectRec(p) => o = p
    BY <2>1
  <2>5. \A s, t \in ID : SnapRec(s) = SnapRec(t) => s = t
    BY <2>2
  <2>6. ASSUME NEW o \in Object
        PROVE /\ {p \in Object : ObjectRec(o) = ObjectRec(p)} = {o}
              /\ {s \in ID : ObjectRec(o) = SnapRec(s)} = {}
    BY <2>3, <2>4
  <2>7. ASSUME NEW t \in ID
        PROVE /\ {p \in Object : SnapRec(t) = ObjectRec(p)} = {}
              /\ {s \in ID : SnapRec(t) = SnapRec(s)} = {t}
    BY <2>3, <2>5
  <2>8. ASSUME NEW r \in Record, r.kind \notin {"object", "snapshot"}
        PROVE /\ {p \in Object : r = ObjectRec(p)} = {}
              /\ {s \in ID : r = SnapRec(s)} = {}
    BY <2>1, <2>2, <2>8, SMTT(30)
  <2> QED BY <2>6, <2>7, <2>8

\* A sealed index says what a scan of the file finds.
<1>SealedIndexExact.
    ASSUME NEW l \in Seq(Record), ChildrenFirst(l), Exact(l), HasFastTail(l)
    PROVE  /\ Manifest(l).refs = ScanRefs(l)
           /\ Manifest(l).objs = ScanObjs(l) /\ Manifest(l).snaps = ScanSnaps(l)
  <2> USE <1>SealedIndexExact
  <2>1. Len(l) \in Nat /\ Len(l) > 1 /\ l[Len(l)].kind = "end"
    BY DEF HasFastTail
  <2>2. PICK n \in Nat \ {0} : Len(l) = n + 1
    BY <2>1
  <2>3. PICK e \in Record : e = l[n + 1] /\ e.kind = "end"
    BY <2>1, <2>2
  <2>4. PICK p \in Seq(Record) : p = SubSeq(l, 1, n)
    <3>1. n \in Nat /\ n <= Len(l)
      BY <2>2
    <3>2. SubSeq(l, 1, n) \in Seq(Record)
      BY <3>1, PrefixFacts, Zenon
    <3> QED BY <3>2, Zenon
  <2>5. l = Append(p, e)
    <3>1. Len(p) = n /\ \A i \in 1..n : p[i] = l[i]
      <4>1. n \in Nat /\ n <= Len(l)
        BY <2>2
      <4> QED BY <2>4, <4>1, PrefixFacts, Zenon
    <3>2. PICK q \in Seq(Record) : q = Append(p, e)
      BY AppendFacts, Zenon
    <3>3. Len(q) = n + 1 /\ \A i \in 1..(n + 1) : q[i] = l[i]
      <4>1. Len(q) = n + 1 /\ q[n + 1] = e /\ \A i \in 1..n : q[i] = p[i]
        BY <3>1, <3>2, AppendFacts
      <4>2. \A i \in 1..(n + 1) : i \in 1..n \/ i = n + 1
        OBVIOUS
      <4> QED BY <2>3, <3>1, <4>1, <4>2, Zenon
    <3>4. q = l
      BY <2>2, <3>3
    <3> QED BY <3>2, <3>4
  <2>6. Manifest(l) = l[n] /\ l[n].kind = "root" /\ n \in 1..Len(l)
    <3>1. Placed(l, n + 1)
      BY <2>2, SMTT(30) DEF ChildrenFirst
    <3>2. n + 1 > 1 /\ l[(n + 1) - 1].kind = "root"
      BY <2>3, <3>1, Zenon DEF Placed
    <3> QED BY <2>2, <3>2 DEF Manifest
  <2>7. l[n].refs = ScanRefs(p) /\ l[n].objs = ScanObjs(p) /\ l[n].snaps = ScanSnaps(p)
    BY <2>4, <2>6, Zenon DEF Exact
  <2>8. /\ ScanRefs(l) = IF e.kind = "refs" THEN e.refs ELSE ScanRefs(p)
        /\ ScanObjs(l) = ScanObjs(p) \cup {o \in Object : e = ObjectRec(o)}
        /\ ScanSnaps(l) = ScanSnaps(p) \cup {s \in ID : e = SnapRec(s)}
    BY <2>5, <1>ScanAppend, Zenon
  <2>9. {o \in Object : e = ObjectRec(o)} = {} /\ {s \in ID : e = SnapRec(s)} = {}
    BY <2>3, <1>RecordsDiffer
  <2> QED BY <2>3, <2>6, <2>7, <2>8, <2>9, ZenonT(30)

\* The invariant gives RecoveryExact: every image that a crash can leave is a
\* prefix of the log, with exact manifests, and its roots were tried.
<1>ExactImages.
    ASSUME IndInv, RecInv
    PROVE  RecoveryExact
  <2> USE <1>ExactImages
  <2>1. MemoryMatchesLog
    BY RestingFacts DEF MemoryMatchesLog, RecInv, Known, Recorded
  <2>2. ASSUME NEW k \in ndisk..nfile, NEW l, l = SubSeq(log, 1, k)
        PROVE /\ HasFastTail(l) => /\ Manifest(l).refs = ScanRefs(l)
                                   /\ Manifest(l).objs = ScanObjs(l)
                                   /\ Manifest(l).snaps = ScanSnaps(l)
              /\ ScanRefs(l) \in {acked} \cup since
    <3>1. k \in Nat /\ k <= Len(log) /\ k \in ndisk..Len(log) /\ log \in Seq(Record)
          /\ ndisk \in Nat
      BY <1>StorageFacts
    <3>2. l \in Seq(Record) /\ ChildrenFirst(l)
      BY <2>2, <3>1, PrefixFacts, ChildrenPrefix, Zenon DEF IndInv
    <3>3. Exact(l)
      BY <2>2, <3>1, <1>CutLog, Zenon DEF RecInv
    <3>4. ScanRefs(l) \in {acked} \cup since
      BY <2>2, <3>1, Zenon DEF RecInv, Tried
    <3> QED BY <3>2, <3>3, <3>4, <1>SealedIndexExact, Zenon
  <2>3. IndexAgreesWithScan
    BY <2>2, Zenon DEF IndexAgreesWithScan
  <2>4. RecoveryOldOrAttempted
    BY <2>2, Zenon DEF RecoveryOldOrAttempted, RecoveredRefs
  <2> QED BY <2>1, <2>3, <2>4, SMTT(30) DEF RecoveryExact

\* A longer log: a manifest has to say what is there.
<1>LongerLog.
    ASSUME NEW l \in Seq(Record), NEW e \in Record, NEW d \in Nat, NEW A,
           e.kind = "root" => /\ e.refs = ScanRefs(l)
                              /\ e.objs = ScanObjs(l) /\ e.snaps = ScanSnaps(l)
    PROVE  /\ Exact(l) => Exact(Append(l, e))
           /\ Tried(l, d, A) /\ ScanRefs(Append(l, e)) \in A => Tried(Append(l, e), d, A)
  <2> USE <1>LongerLog
  <2>0. Append(l, e) \in Seq(Record) /\ Len(l) \in Nat
    BY AppendFacts
  <2> PICK n \in Nat, m \in Seq(Record) : n = Len(l) /\ m = Append(l, e)
    BY <2>0, Zenon
  <2>1. Len(m) = n + 1 /\ m[n + 1] = e /\ \A i \in 1..n : m[i] = l[i]
    BY AppendFacts
  <2>2. \A k \in 0..n : SubSeq(m, 1, k) = SubSeq(l, 1, k)
    BY <2>1, <1>PrefixSame
  <2>3. SubSeq(m, 1, n + 1) = m
    BY <2>1
  <2>4. ASSUME Exact(l) PROVE Exact(m)
    <3> SUFFICES ASSUME NEW i \in 1..(n + 1), m[i].kind = "root"
                 PROVE  /\ m[i].refs = ScanRefs(SubSeq(m, 1, i))
                        /\ m[i].objs = ScanObjs(SubSeq(m, 1, i))
                        /\ m[i].snaps = ScanSnaps(SubSeq(m, 1, i))
      BY <2>1 DEF Exact
    <3>1. CASE i \in 1..n
      <4>1. i \in 1..Len(l) /\ m[i] = l[i] /\ SubSeq(m, 1, i) = SubSeq(l, 1, i)
        BY <2>1, <2>2, <3>1
      <4> QED BY <2>4, <4>1, Zenon DEF Exact
    <3>2. CASE i = n + 1
      <4>1. e.kind = "root" /\ m[i] = e /\ SubSeq(m, 1, i) = m
        BY <2>1, <2>3, <3>2, SMTT(30)
      <4>2. {o \in Object : e = ObjectRec(o)} = {} /\ {s \in ID : e = SnapRec(s)} = {}
        BY <4>1, RecordFacts, SMTT(30)
      <4>3. ScanRefs(m) = ScanRefs(l) /\ ScanObjs(m) = ScanObjs(l) /\ ScanSnaps(m) = ScanSnaps(l)
        <5>1. /\ ScanRefs(m) = IF e.kind = "refs" THEN e.refs ELSE ScanRefs(l)
              /\ ScanObjs(m) = ScanObjs(l) \cup {o \in Object : e = ObjectRec(o)}
              /\ ScanSnaps(m) = ScanSnaps(l) \cup {s \in ID : e = SnapRec(s)}
          BY <1>ScanAppend, Zenon
        <5> QED BY <4>1, <4>2, <5>1
      <4> QED BY <4>1, <4>3, ZenonT(30)
    <3> QED BY <3>1, <3>2, SMTT(30)
  <2>5. ASSUME Tried(l, d, A), ScanRefs(m) \in A PROVE Tried(m, d, A)
    <3> SUFFICES ASSUME NEW k \in d..(n + 1) PROVE ScanRefs(SubSeq(m, 1, k)) \in A
      BY <2>1 DEF Tried
    <3>1. CASE k \in d..n
      <4>1. k \in d..Len(l) /\ SubSeq(m, 1, k) = SubSeq(l, 1, k)
        BY <2>2, <3>1
      <4> QED BY <2>5, <4>1, Zenon DEF Tried
    <3>2. CASE k = n + 1
      BY <2>3, <2>5, <3>2, Zenon
    <3> QED BY <3>1, <3>2
  <2> QED BY <2>4, <2>5

\* The definitions, for the next state.
<1>PrimedScans.
    /\ ScanRefs(log)' = ScanRefs(log')
    /\ ScanObjs(log)' = ScanObjs(log')
    /\ ScanSnaps(log)' = ScanSnaps(log')
    /\ Exact(log)' <=> Exact(log')
    /\ Tried(log, ndisk, {acked} \cup since)' <=> Tried(log', ndisk', {acked'} \cup since')
  <2>1. ScanRefs(log)' = ScanRefs(log')
    BY Zenon DEF ScanRefs, RootIndexes, LastOf, NoRefs
  <2>2. ScanObjs(log)' = ScanObjs(log') /\ ScanSnaps(log)' = ScanSnaps(log')
    BY Zenon DEF ScanObjs, ScanSnaps, ObjectRec, SnapRec, ID
  <2>3. Exact(log)' <=> Exact(log')
    BY Zenon DEF Exact, ScanRefs, RootIndexes, LastOf, NoRefs, ScanObjs, ScanSnaps,
                 ObjectRec, SnapRec, ID
  <2>4. Tried(log, ndisk, {acked} \cup since)' <=> Tried(log', ndisk', {acked'} \cup since')
    BY Zenon DEF Tried, ScanRefs, RootIndexes, LastOf, NoRefs
  <2> QED BY <2>1, <2>2, <2>3, <2>4

\* Fewer images, and more roots that were tried.
<1>TriedWeaker.
    ASSUME NEW l, NEW d \in Nat, NEW e \in Nat, d <= e, Len(l) \in Nat,
           NEW A, NEW B, A \subseteq B, Tried(l, d, A)
    PROVE  Tried(l, e, B)
  <2> USE <1>TriedWeaker
  <2>1. \A k \in e..Len(l) : k \in d..Len(l)
    OBVIOUS
  <2> QED BY <2>1, Zenon DEF Tried

\* The log and the observations rest; the handle is lost, or keeps its maps
\* outside the last sync of an operation that records roots.
<1>RestStep.
    ASSUME IndInv, RecInv, log' = log, ndisk' \in Nat, ndisk <= ndisk',
           acked' = acked, since' = since,
           \/ mode' # "open"
           \/ /\ mode = "open" /\ ~Recorded /\ ~Recorded'
              /\ objs' = objs /\ snaps' = snaps /\ refs' = refs /\ pending' = pending
    PROVE  RecInv'
  <2> USE <1>RestStep
  <2>1. Known'
    BY <1>PrimedScans DEF RecInv, Known
  <2>2. Tried(log', ndisk', {acked'} \cup since')
    BY <1>StorageFacts, <1>TriedWeaker, SMTT(30) DEF RecInv
  <2> QED BY <2>1, <2>2, <1>PrimedScans, SMTT(30) DEF RecInv

\* A record that is no manifest joins the log, a root map after it was tried.
<1>AppendKeeps.
    ASSUME IndInv, RecInv, NEW rec \in Record, rec.kind # "root",
           log' = Append(log, rec), ndisk' = ndisk,
           acked' = acked, since \subseteq since',
           rec.kind = "refs" => rec.refs \in since'
    PROVE  /\ Exact(log') /\ Tried(log', ndisk', {acked'} \cup since')
           /\ ScanRefs(log') = IF rec.kind = "refs" THEN rec.refs ELSE ScanRefs(log)
           /\ ScanObjs(log') = ScanObjs(log) \cup {o \in Object : rec = ObjectRec(o)}
           /\ ScanSnaps(log') = ScanSnaps(log) \cup {s \in ID : rec = SnapRec(s)}
  <2> USE <1>AppendKeeps
  <2>1. /\ log \in Seq(Record) /\ Len(log) \in Nat /\ ndisk \in Nat /\ ndisk <= Len(log)
    BY <1>StorageFacts
  <2>2. /\ ScanRefs(log') = IF rec.kind = "refs" THEN rec.refs ELSE ScanRefs(log)
        /\ ScanObjs(log') = ScanObjs(log) \cup {o \in Object : rec = ObjectRec(o)}
        /\ ScanSnaps(log') = ScanSnaps(log) \cup {s \in ID : rec = SnapRec(s)}
    BY <2>1, <1>ScanAppend, Zenon
  <2> PICK A : A = {acked'} \cup since'
    BY ZenonT(30)
  <2>3. Tried(log, ndisk, A)
    BY <2>1, <1>TriedWeaker DEF RecInv
  <2>4. ScanRefs(log) \in A
    <3>1. Len(log) \in ndisk..Len(log) /\ SubSeq(log, 1, Len(log)) = log
      BY <2>1
    <3> QED BY <2>3, <3>1, Zenon DEF Tried
  <2>5. ScanRefs(log') \in A
    BY <2>2, <2>4
  <2>6. Exact(log') /\ Tried(log', ndisk', A)
    <3>1. Exact(log)
      BY DEF RecInv
    <3> QED BY <2>1, <2>3, <2>5, <3>1, <1>LongerLog, Zenon
  <2> QED BY <2>2, <2>6, Zenon

\* The handle is gone and the file keeps a prefix of the log.
<1>CutStep.
    ASSUME IndInv, RecInv, NEW n \in Nat, n <= Len(log), Gone(n),
           ndisk' \in Nat, ndisk <= ndisk'
    PROVE  RecInv'
  <2> USE <1>CutStep
  <2>1. /\ log' = SubSeq(log, 1, n) /\ mode' = "closed" /\ acked' = acked /\ since' = since
    BY DEF Gone, seen
  <2>2. Known'
    BY <2>1 DEF Known
  <2>3. log \in Seq(Record) /\ log' \in Seq(Record) /\ Len(log') \in Nat /\ ndisk \in Nat
    BY <2>1, <1>StorageFacts, PrefixFacts
  <2>4. Exact(log') /\ Tried(log', ndisk, {acked} \cup since)
    BY <2>1, <2>3, <1>CutLog, Zenon DEF RecInv
  <2>5. Tried(log', ndisk', {acked'} \cup since')
    BY <2>1, <2>3, <2>4, <1>TriedWeaker
  <2> QED BY <2>2, <2>4, <2>5, <1>PrimedScans DEF RecInv

\* Edits and loads.
<1>EditsExact.
    ASSUME IndInv, RecInv, NEW w \in Workspace,
           \/ \E o \in Object : Delete(w, o)
           \/ Empty(w)
           \/ \E n \in Name : Checkout(w, n)
           \/ \E id \in snaps : Fork(w, id)
    PROVE  RecInv'
  <2> USE <1>EditsExact
  <2>1. /\ mode = "open" /\ op = Idle /\ op' = Idle /\ UNCHANGED <<memory, seen>>
        /\ log' = log /\ ndisk' = ndisk
    <3>1. CASE \E o \in Object : Delete(w, o)
      BY <3>1, Zenon DEF Delete, Ready, storage
    <3>2. CASE Empty(w)
      BY <3>2, Zenon DEF Empty, Ready, storage
    <3>3. CASE \E n \in Name : Checkout(w, n)
      BY <3>3, Zenon DEF Checkout, Ready, Flushed
    <3>4. CASE \E id \in snaps : Fork(w, id)
      BY <3>4, Zenon DEF Fork, Ready, Flushed
    <3> QED BY <3>1, <3>2, <3>3, <3>4, Zenon
  <2>2. ~Recorded /\ ~Recorded'
    BY <2>1, RestingFacts DEF Recorded
  <2>3. ndisk' \in Nat /\ ndisk <= ndisk'
    BY <2>1, <1>StorageFacts
  <2>4. /\ acked' = acked /\ since' = since
        /\ objs' = objs /\ snaps' = snaps /\ refs' = refs /\ pending' = pending
    BY <2>1 DEF memory, seen
  <2> QED BY <2>1, <2>2, <2>3, <2>4, <1>RestStep, Zenon

\* A sync that fails, a read whose flush fails, an Open that fails.
<1>FailuresExact.
    ASSUME IndInv, RecInv, FsyncFails \/ ReadFails \/ OpenFails
    PROVE  RecInv'
  <2> USE <1>FailuresExact
  <2>1. /\ mode' # "open" /\ UNCHANGED seen /\ log' = log
        /\ ndisk' = ndisk \/ ndisk' \in ndisk..nfile
    BY DEF FsyncFails, ReadFails, OpenFails, WriteFailed, memory
  <2>2. ndisk' \in Nat /\ ndisk <= ndisk' /\ acked' = acked /\ since' = since
    BY <2>1, <1>StorageFacts DEF seen
  <2> QED BY <2>1, <2>2, <1>RestStep, Zenon

\* Close, a process that dies, a machine that dies.
<1>LossExact.
    ASSUME IndInv, RecInv,
           ClosePoisoned \/ FsyncClose \/ CloseFlush \/ ProcessCrash \/ PowerLoss
    PROVE  RecInv'
  <2> USE <1>LossExact
  <2>1. \E n \in Nat : /\ n <= Len(log) /\ Gone(n)
                       /\ ndisk' = ndisk \/ ndisk' = nfile \/ ndisk' \in ndisk..nfile
    <3>1. CASE ClosePoisoned \/ FsyncClose \/ ProcessCrash
      <4>1. Gone(nfile) /\ (ndisk' = ndisk \/ ndisk' = nfile)
        BY <3>1 DEF ClosePoisoned, FsyncClose, ProcessCrash
      <4> QED BY <4>1, <1>StorageFacts
    <3>2. CASE CloseFlush
      <4>1. Gone(Len(log)) /\ ndisk' = ndisk
        BY <3>2 DEF CloseFlush
      <4> QED BY <4>1, <1>StorageFacts
    <3>3. CASE PowerLoss
      <4>1. PICK n \in ndisk..nfile : Gone(n) /\ ndisk' = n
        BY <3>3 DEF PowerLoss
      <4> QED BY <4>1, <1>StorageFacts
    <3> QED BY <3>1, <3>2, <3>3
  <2>2. ndisk' \in Nat /\ ndisk <= ndisk'
    BY <2>1, <1>StorageFacts
  <2> QED BY <2>1, <2>2, <1>CutStep

\* An object, a snapshot or a base run is appended, or the attempt fails.
<1>GrowStep.
    ASSUME IndInv, RecInv, mode = "open", ~Recorded,
           NEW rec \in Record, rec.kind \notin {"refs", "root"},
           log' = Append(log, rec), ndisk' = ndisk, UNCHANGED seen,
           \/ mode' # "open"
           \/ /\ ~Recorded' /\ refs' = refs /\ pending' = pending
              /\ objs' = objs \cup {o \in Object : rec = ObjectRec(o)}
              /\ snaps' = snaps \cup {s \in ID : rec = SnapRec(s)}
    PROVE  RecInv'
  <2> USE <1>GrowStep
  <2>1. acked' = acked /\ since' = since
    BY DEF seen
  <2>2. /\ Exact(log') /\ Tried(log', ndisk', {acked'} \cup since')
        /\ ScanRefs(log') = ScanRefs(log)
        /\ ScanObjs(log') = ScanObjs(log) \cup {o \in Object : rec = ObjectRec(o)}
        /\ ScanSnaps(log') = ScanSnaps(log) \cup {s \in ID : rec = SnapRec(s)}
    BY <2>1, <1>AppendKeeps, ZenonT(30)
  <2>3. Known'
    BY <2>2, <1>PrimedScans DEF RecInv, Known
  <2> QED BY <2>2, <2>3, <1>PrimedScans DEF RecInv

\* Blocks of a streamed write.
<1>IngestExact.
    ASSUME IndInv, RecInv, NEW o \in Object, Ingest(o)
    PROVE  RecInv'
  <2> USE <1>IngestExact
  <2>1. ObjectRec(o) \in Record /\ ObjectRec(o).kind = "object"
    BY RecordFacts
  <2>2. mode = "open" /\ op = Idle /\ UNCHANGED seen
    BY DEF Ingest, Ready
  <2>3. ~Recorded
    BY <2>2, RestingFacts DEF Recorded
  <2>4. /\ log' = Append(log, ObjectRec(o)) /\ ndisk' = ndisk
        /\ \/ mode' = "poisoned"
           \/ /\ objs' = objs \cup {o} /\ op' = op /\ refs' = refs /\ snaps' = snaps
              /\ pending' = pending
    BY Zenon DEF Ingest, Appended, WriteFailed
  <2>5. op' = op => ~Recorded'
    BY <2>3 DEF Recorded
  <2>6. \/ mode' # "open"
        \/ /\ ~Recorded' /\ refs' = refs /\ pending' = pending
           /\ objs' = objs \cup {p \in Object : ObjectRec(o) = ObjectRec(p)}
           /\ snaps' = snaps \cup {s \in ID : ObjectRec(o) = SnapRec(s)}
    BY <2>4, <2>5, <1>RecordsDiffer
  <2>7. ObjectRec(o).kind \notin {"refs", "root"}
    BY <2>1
  <2> QED BY <2>1, <2>2, <2>3, <2>4, <2>6, <2>7, <1>GrowStep, ZenonT(30)

\* A write appends its body unless it is known.
<1>WriteExact.
    ASSUME IndInv, RecInv, NEW w \in Workspace, NEW o \in Object, Write(w, o)
    PROVE  RecInv'
  <2> USE <1>WriteExact
  <2>1. ObjectRec(o) \in Record /\ ObjectRec(o).kind = "object"
    BY RecordFacts, SMTT(30)
  <2>2. /\ mode = "open" /\ op = Idle /\ op' = Idle /\ UNCHANGED seen
        /\ objs' = objs \cup {o} /\ refs' = refs /\ snaps' = snaps /\ pending' = pending
    BY ZenonT(30) DEF Write, Ready
  <2>3. ~Recorded /\ ~Recorded'
    BY <2>2, RestingFacts DEF Recorded
  <2>4. CASE o \in objs
    <3>1. log' = log /\ ndisk' = ndisk /\ objs' = objs
      BY <2>2, <2>4, Zenon DEF Write, storage
    <3>2. ndisk' \in Nat /\ ndisk <= ndisk' /\ acked' = acked /\ since' = since
      BY <2>2, <3>1, <1>StorageFacts DEF seen
    <3> QED BY <2>2, <2>3, <3>1, <3>2, <1>RestStep, Zenon
  <2>5. CASE o \notin objs
    <3>1. log' = Append(log, ObjectRec(o)) /\ ndisk' = ndisk
      BY <2>5, Zenon DEF Write, Appended
    <3>2. /\ objs' = objs \cup {p \in Object : ObjectRec(o) = ObjectRec(p)}
          /\ snaps' = snaps \cup {s \in ID : ObjectRec(o) = SnapRec(s)}
      BY <2>2, <1>RecordsDiffer
    <3>3. ObjectRec(o).kind \notin {"refs", "root"}
      BY <2>1, SMTT(30)
    <3> QED BY <2>1, <2>2, <2>3, <3>1, <3>2, <3>3, <1>GrowStep, ZenonT(30)
  <2> QED BY <2>4, <2>5, SMTT(30)

\* Open, by the sealed index or by the scan.
<1>OpenExact.
    ASSUME IndInv, RecInv, NEW verify \in BOOLEAN, Open(verify)
    PROVE  RecInv'
  <2> USE <1>OpenExact
  <2>1. /\ mode = "closed" /\ log' = log /\ UNCHANGED seen /\ pending' = pending /\ op' = op
        /\ ndisk' = nfile \/ ndisk' = ndisk
    BY DEF Open
  <2>2. ndisk' \in Nat /\ ndisk <= ndisk'
    BY <2>1, <1>StorageFacts
  <2>3. pending = None /\ op = Idle
    BY <2>1 DEF IndInv, Nested
  <2>4. ~Recorded'
    BY <2>1, <2>3, RestingFacts DEF Recorded
  <2>5. refs' = ScanRefs(log) /\ objs' = ScanObjs(log) /\ snaps' = ScanSnaps(log)
    <3>1. HasFastTail(log) => /\ Manifest(log).refs = ScanRefs(log)
                              /\ Manifest(log).objs = ScanObjs(log)
                              /\ Manifest(log).snaps = ScanSnaps(log)
      BY <1>StorageFacts, <1>SealedIndexExact, SMTT(30) DEF IndInv, RecInv
    <3> QED BY <3>1, Zenon DEF Open
  <2>6. Known'
    BY <2>1, <2>3, <2>4, <2>5, <1>PrimedScans, ZenonT(30) DEF Known
  <2>7. Tried(log', ndisk', {acked'} \cup since')
    BY <2>1, <2>2, <1>StorageFacts, <1>TriedWeaker DEF RecInv, seen
  <2>8. Exact(log')
    BY <2>1 DEF RecInv
  <2> QED BY <2>6, <2>7, <2>8, <1>PrimedScans, SMTT(30) DEF RecInv

\* The first step of an operation records nothing.
<1>StartsExact.
    ASSUME IndInv, RecInv,
           \/ \E w \in Workspace : Snapshot(w) \/ \E n \in Name : Publish(w, n)
           \/ \E n \in Name, id \in ID : Drop(n, id)
           \/ Checkpoint \/ CloseUnsealed
    PROVE  RecInv'
  <2> USE <1>StartsExact
  <2>1. PICK kind, stage, w, n, id :
          stage \in {"save", "refs", "write1"} /\ Start(kind, stage, w, n, id)
    BY SMTT(30) DEF Snapshot, Publish, Drop, Checkpoint, CloseUnsealed
  <2>2. mode = "open" /\ op = Idle
    BY DEF Snapshot, Publish, Drop, Checkpoint, CloseUnsealed, Ready
  <2>3. op'.stage = stage /\ UNCHANGED <<memory, seen>> /\ log' = log /\ ndisk' = ndisk
    BY <2>1, SMTT(30) DEF Start, Op, storage
  <2>4. ~Recorded /\ ~Recorded'
    BY <2>1, <2>2, <2>3, RestingFacts DEF Recorded
  <2>5. ndisk' \in Nat /\ ndisk <= ndisk' /\ acked' = acked /\ since' = since
    BY <2>3, <1>StorageFacts DEF seen
  <2>6. objs' = objs /\ snaps' = snaps /\ refs' = refs /\ pending' = pending
    BY <2>3 DEF memory
  <2> QED BY <2>2, <2>3, <2>4, <2>5, <2>6, <1>RestStep, Zenon

\* The stages an operation passes.
<1>StageFacts.
    ASSUME IndInv, NEW stage \in {"save", "write1", "fsync1", "refs", "base", "write2", "fsync2"},
           op' = At(stage)
    PROVE  /\ op'.kind = op.kind /\ op'.stage = stage /\ op'.w = op.w
           /\ op'.name = op.name /\ op'.id = op.id
           /\ refs' = refs => NewRefs' = NewRefs
  <2> USE <1>StageFacts
  <2>1. /\ op'.kind = op.kind /\ op'.stage = stage /\ op'.w = op.w
        /\ op'.name = op.name /\ op'.id = op.id
    BY DEF At, Op
  <2>2. refs' = refs => NewRefs' = NewRefs
    BY <2>1 DEF NewRefs
  <2> QED BY <2>1, <2>2

\* A snapshot record, unless it is known.
<1>SaveExact.
    ASSUME IndInv, RecInv, Save
    PROVE  RecInv'
  <2> USE <1>SaveExact
  <2>1. mode = "open" /\ op.stage = "save" /\ UNCHANGED seen
    BY DEF Save
  <2>2. op.id \in ID
    <3>1. op.kind \in {"snapshot", "publish"} /\ op.w \in Workspace /\ op.id = ws[op.w].root
      BY <2>1 DEF IndInv, Staged
    <3> QED BY <3>1, SMTT(30) DEF IndInv, TypeOK, WorkspaceState
  <2>3. PICK rec \in Record : rec = SnapRec(op.id) /\ rec.kind = "snapshot"
    BY <2>2, RecordFacts
  <2>4. ~Recorded /\ (op' = At("write1") => ~Recorded')
    BY <2>1, <1>StageFacts DEF Recorded
  <2>5. CASE mode' = "open" /\ op.id \in snaps
    <3>1. UNCHANGED storage /\ snaps' = snaps /\ op' = At("write1")
          /\ refs' = refs /\ objs' = objs /\ pending' = pending
      BY <2>5 DEF Save, WriteFailed
    <3>2. /\ log' = log /\ ndisk' \in Nat /\ ndisk <= ndisk'
          /\ acked' = acked /\ since' = since
      BY <2>1, <3>1, <1>StorageFacts DEF storage, seen
    <3> QED BY <2>1, <2>4, <3>1, <3>2, <1>RestStep, Zenon
  <2>6. CASE mode' # "open" \/ op.id \notin snaps
    <3>1. /\ log' = Append(log, rec) /\ ndisk' = ndisk
          /\ \/ mode' # "open"
             \/ /\ op' = At("write1") /\ refs' = refs /\ objs' = objs /\ pending' = pending
                /\ snaps' = snaps \cup {op.id}
      BY <2>1, <2>3, <2>6 DEF Save, Appended, WriteFailed
    <3>2. \/ mode' # "open"
          \/ /\ ~Recorded' /\ refs' = refs /\ pending' = pending
             /\ objs' = objs \cup {o \in Object : rec = ObjectRec(o)}
             /\ snaps' = snaps \cup {s \in ID : rec = SnapRec(s)}
      BY <2>2, <2>3, <2>4, <3>1, <1>RecordsDiffer
    <3>3. rec.kind \notin {"refs", "root"}
      BY <2>3
    <3> QED BY <2>1, <2>4, <3>1, <3>2, <3>3, <1>GrowStep, ZenonT(30)
  <2> QED BY <2>5, <2>6

\* The base run of a fast index.
<1>BuildExact.
    ASSUME IndInv, RecInv, BuildFastIndex
    PROVE  RecInv'
  <2> USE <1>BuildExact
  <2>1. mode = "open" /\ op.stage = "base" /\ UNCHANGED seen
    BY DEF BuildFastIndex
  <2>2. RunRec \in Record /\ RunRec.kind = "run"
    BY RecordFacts
  <2>3. op.kind = "checkpoint"
    BY <2>1 DEF IndInv, Staged
  <2>4. ~Recorded /\ (op' = At("write2") => ~Recorded')
    BY <2>1, <2>3, <1>StageFacts DEF Recorded
  <2>5. /\ log' = Append(log, RunRec) /\ ndisk' = ndisk
        /\ \/ mode' # "open"
           \/ /\ op' = At("write2") /\ refs' = refs /\ objs' = objs /\ pending' = pending
              /\ snaps' = snaps
    BY DEF BuildFastIndex, Appended, WriteFailed
  <2>6. \/ mode' # "open"
        \/ /\ ~Recorded' /\ refs' = refs /\ pending' = pending
           /\ objs' = objs \cup {o \in Object : RunRec = ObjectRec(o)}
           /\ snaps' = snaps \cup {s \in ID : RunRec = SnapRec(s)}
    BY <2>2, <2>4, <2>5, <1>RecordsDiffer
  <2>7. RunRec.kind \notin {"refs", "root"}
    BY <2>2
  <2> QED BY <2>1, <2>2, <2>4, <2>5, <2>6, <2>7, <1>GrowStep, ZenonT(30)

\* What sealFast writes for the roots is what the log says.
<1>SealRefsExact.
    ASSUME IndInv, RecInv, mode = "open", op.stage \in {"write1", "write2"}
    PROVE  /\ fast => SealRefs = ScanRefs(log)
           /\ Sealed => pending = None
  <2> USE <1>SealRefsExact
  <2>1. /\ ScanRefs(log) = IF Recorded THEN NewRefs ELSE refs
        /\ pending # None => Recorded /\ op.stage = "write2"
        /\ Recorded /\ op.stage = "write2" =>
              /\ log # <<>> /\ log[Len(log)].kind = "refs"
              /\ pending = IF fast THEN NewRefs ELSE None
    BY DEF RecInv, Known
  <2>2. Recorded => op.stage = "write2"
    BY DEF Recorded
  <2>3. Recorded => NewRefs \in Refs
    BY NewRefsFacts DEF Recorded
  <2>4. Recorded => NewRefs # None
    BY <2>3, RepositoryAssumption DEF Refs, ID
  <2>5. fast => SealRefs = ScanRefs(log)
    BY <2>1, <2>2, <2>4, Zenon DEF SealRefs
  <2>6. Sealed => pending = None
    BY <2>1, <2>2 DEF Sealed
  <2> QED BY <2>5, <2>6, SMTT(30)

\* Sealing the index changes nothing that a scan finds.
<1>SealKeeps.
    ASSUME IndInv, RecInv, mode = "open", op.stage \in {"write1", "write2"}
    PROVE  /\ Exact(SealedLog) /\ Tried(SealedLog, ndisk, {acked} \cup since)
           /\ ScanRefs(SealedLog) = ScanRefs(log)
           /\ ScanObjs(SealedLog) = ScanObjs(log)
           /\ ScanSnaps(SealedLog) = ScanSnaps(log)
  <2> USE <1>SealKeeps
  <2>0. /\ log \in Seq(Record) /\ Len(log) \in Nat /\ ndisk \in Nat /\ ndisk <= Len(log)
        /\ Exact(log) /\ Tried(log, ndisk, {acked} \cup since)
        /\ objs = ScanObjs(log) /\ snaps = ScanSnaps(log)
    BY <1>StorageFacts DEF RecInv, Known
  <2>1. CASE ~(fast /\ ~Sealed)
    BY <2>0, <2>1 DEF SealedLog
  <2>2. CASE fast /\ ~Sealed
    <3>1. PICK r \in Record : r = RootRec(SealRefs, objs, snaps)
      <4>1. SealRefs \in Refs /\ objs \in ID /\ snaps \in SUBSET ID
        BY DEF IndInv, TypeOK, SealRefs
      <4> QED BY <4>1, RecordFacts
    <3>2. /\ r.kind = "root" /\ r.refs = ScanRefs(log)
          /\ r.objs = ScanObjs(log) /\ r.snaps = ScanSnaps(log)
      BY <2>0, <2>2, <3>1, <1>SealRefsExact DEF RootRec
    <3>3. PICK l \in Seq(Record) : l = Append(log, r)
      BY <2>0, AppendFacts, Zenon
    <3>4. SealedLog = Append(l, EndRec)
      BY <2>2, <3>1, <3>3, Zenon DEF SealedLog
    <3>5. EndRec \in Record /\ EndRec.kind = "end"
      BY RecordFacts
    <3>6. \A e \in Record : e.kind \in {"root", "end"} =>
            {o \in Object : e = ObjectRec(o)} = {} /\ {s \in ID : e = SnapRec(s)} = {}
      BY RecordFacts
    <3>7. /\ ScanRefs(l) = ScanRefs(log) /\ ScanObjs(l) = ScanObjs(log)
          /\ ScanSnaps(l) = ScanSnaps(log)
      <4>1. /\ ScanRefs(l) = IF r.kind = "refs" THEN r.refs ELSE ScanRefs(log)
            /\ ScanObjs(l) = ScanObjs(log) \cup {o \in Object : r = ObjectRec(o)}
            /\ ScanSnaps(l) = ScanSnaps(log) \cup {s \in ID : r = SnapRec(s)}
        BY <2>0, <3>3, <1>ScanAppend, Zenon
      <4> QED BY <3>2, <3>6, <4>1
    <3>8. /\ ScanRefs(SealedLog) = ScanRefs(log) /\ ScanObjs(SealedLog) = ScanObjs(log)
          /\ ScanSnaps(SealedLog) = ScanSnaps(log)
      <4>1. /\ ScanRefs(SealedLog) = IF EndRec.kind = "refs" THEN EndRec.refs ELSE ScanRefs(l)
            /\ ScanObjs(SealedLog) = ScanObjs(l) \cup {o \in Object : EndRec = ObjectRec(o)}
            /\ ScanSnaps(SealedLog) = ScanSnaps(l) \cup {s \in ID : EndRec = SnapRec(s)}
        BY <3>4, <3>5, <1>ScanAppend, Zenon
      <4> QED BY <3>5, <3>6, <3>7, <4>1
    <3>9. ScanRefs(log) \in {acked} \cup since
      <4>1. Len(log) \in ndisk..Len(log) /\ SubSeq(log, 1, Len(log)) = log
        BY <2>0
      <4> QED BY <2>0, <4>1, Zenon DEF Tried
    <3>10. Exact(l) /\ Tried(l, ndisk, {acked} \cup since)
      BY <2>0, <3>2, <3>3, <3>7, <3>9, <1>LongerLog, Zenon
    <3>11. Exact(SealedLog) /\ Tried(SealedLog, ndisk, {acked} \cup since)
      <4>1. EndRec.kind # "root"
        BY <3>5
      <4> QED BY <2>0, <3>4, <3>5, <3>8, <3>9, <3>10, <4>1, <1>LongerLog, Zenon
    <3> QED BY <3>8, <3>11
  <2> QED BY <2>1, <2>2, SMTT(30)

\* The refs record: from here on the log has the new roots, the map in memory
\* the old ones.
<1>AppendRefsExact.
    ASSUME IndInv, RecInv, AppendRefs
    PROVE  RecInv'
  <2> USE <1>AppendRefsExact
  <2>1. mode = "open" /\ op.stage = "refs" /\ op.kind \in {"publish", "drop"}
    BY DEF IndInv, AppendRefs, Staged
  <2>2. ~Recorded
    BY <2>1 DEF Recorded
  <2>3. PICK r \in Refs : r = NewRefs
    BY <2>1, NewRefsFacts
  <2>4. PICK rec \in Record : rec = RefsRec(r) /\ rec.kind = "refs" /\ rec.refs = r
    BY RecordFacts
  <2>5. /\ log' = Append(log, rec) /\ ndisk' = ndisk /\ acked' = acked
        /\ since' = since \cup {r}
        /\ \/ mode' # "open"
           \/ /\ pending' = (IF fast THEN r ELSE pending) /\ op' = At("write2")
              /\ fast' = fast /\ refs' = refs /\ objs' = objs /\ snaps' = snaps
    BY <2>3, <2>4, Zenon DEF AppendRefs, Appended, WriteFailed
  <2>6. /\ Exact(log') /\ Tried(log', ndisk', {acked'} \cup since')
        /\ ScanRefs(log') = r
        /\ ScanObjs(log') = ScanObjs(log) \cup {o \in Object : rec = ObjectRec(o)}
        /\ ScanSnaps(log') = ScanSnaps(log) \cup {s \in ID : rec = SnapRec(s)}
    <3>1. rec.kind # "root" /\ since \subseteq since' /\ rec.refs \in since'
      BY <2>4, <2>5
    <3> QED BY <2>4, <2>5, <3>1, <1>AppendKeeps, ZenonT(30)
  <2>7. ScanObjs(log') = ScanObjs(log) /\ ScanSnaps(log') = ScanSnaps(log)
    BY <2>4, <2>6, <1>RecordsDiffer, SMTT(30)
  <2>8. ASSUME mode' = "open" PROVE Known'
    <3>1. /\ pending' = (IF fast THEN r ELSE pending) /\ op' = At("write2")
          /\ fast' = fast /\ refs' = refs /\ objs' = objs /\ snaps' = snaps
      BY <2>5, <2>8, SMTT(30)
    <3>2. op'.kind = op.kind /\ op'.stage = "write2" /\ NewRefs' = r
      BY <2>3, <3>1, <1>StageFacts
    <3>3. Recorded'
      BY <2>1, <3>2 DEF Recorded
    <3>4. objs = ScanObjs(log) /\ snaps = ScanSnaps(log) /\ pending = None
      BY <2>1, <2>2 DEF RecInv, Known
    <3>5. log' # <<>> /\ log'[Len(log')].kind = "refs"
      BY <2>4, <2>5, <1>StorageFacts, AppendFacts
    <3> QED BY <2>6, <2>7, <3>1, <3>2, <3>3, <3>4, <3>5, <1>PrimedScans, ZenonT(30) DEF Known
  <2>9. Known'
    BY <2>8 DEF Known
  <2> QED BY <2>6, <2>9, <1>PrimedScans, SMTT(30) DEF RecInv

\* Sealing and flushing: the pending map goes into the manifest.
<1>SyncWriteExact.
    ASSUME IndInv, RecInv, SyncWrite
    PROVE  RecInv'
  <2> USE <1>SyncWriteExact
  <2>1. mode = "open" /\ op.stage \in {"write1", "write2"} /\ acked' = acked /\ since' = since
    BY DEF SyncWrite, seen
  <2>2. /\ log' = SealedLog /\ ndisk' = ndisk
        /\ \/ mode' # "open"
           \/ /\ pending' = (IF Sealed THEN pending ELSE None)
              /\ op' = At(IF op.stage = "write1" THEN "fsync1" ELSE "fsync2")
              /\ refs' = refs /\ objs' = objs /\ snaps' = snaps
    BY Zenon DEF SyncWrite, Flushed, WriteFailed
  <2>3. /\ Exact(log') /\ Tried(log', ndisk', {acked'} \cup since')
        /\ ScanRefs(log') = ScanRefs(log)
        /\ ScanObjs(log') = ScanObjs(log) /\ ScanSnaps(log') = ScanSnaps(log)
    BY <2>1, <2>2, <1>SealKeeps, ZenonT(30)
  <2>4. ASSUME mode' = "open" PROVE Known'
    <3>1. refs' = refs /\ objs' = objs /\ snaps' = snaps /\ pending' = None
      BY <2>1, <2>2, <2>4, <1>SealRefsExact
    <3>2. PICK stage \in {"fsync1", "fsync2"} :
            stage = (IF op.stage = "write1" THEN "fsync1" ELSE "fsync2") /\ op' = At(stage)
      BY <2>1, <2>2, <2>4
    <3>3. op'.kind = op.kind /\ op'.stage = stage /\ NewRefs' = NewRefs
      BY <3>1, <3>2, <1>StageFacts
    <3>4. (Recorded' <=> Recorded) /\ op'.stage # "write2"
      BY <2>1, <3>2, <3>3 DEF Recorded
    <3>5. /\ objs = ScanObjs(log) /\ snaps = ScanSnaps(log)
          /\ ScanRefs(log) = IF Recorded THEN NewRefs ELSE refs
      BY <2>1 DEF RecInv, Known
    <3> QED BY <2>3, <3>1, <3>3, <3>4, <3>5, <1>PrimedScans DEF Known
  <2>5. Known'
    BY <2>4 DEF Known
  <2> QED BY <2>3, <2>5, <1>PrimedScans DEF RecInv

\* The sync of a snapshot and of a checkpoint.
<1>FsyncExact.
    ASSUME IndInv, RecInv, FsyncSnapshot \/ FsyncCheckpoint
    PROVE  RecInv'
  <2> USE <1>FsyncExact
  <2>1. /\ mode = "open" /\ UNCHANGED memory /\ log' = log /\ ndisk' = nfile
        /\ acked' = acked /\ since' = since
        /\ op.stage = "fsync1" \/ op.kind = "checkpoint"
        /\ op' = Idle \/ op' = At("refs") \/ op' = At("base")
    BY DEF FsyncSnapshot, FsyncCheckpoint, Durable, seen
  <2>2. ~Recorded /\ ~Recorded'
    BY <2>1, <1>StageFacts, RestingFacts DEF Recorded
  <2>3. ndisk' \in Nat /\ ndisk <= ndisk'
    BY <2>1, <1>StorageFacts
  <2>4. objs' = objs /\ snaps' = snaps /\ refs' = refs /\ pending' = pending
    BY <2>1 DEF memory
  <2> QED BY <2>1, <2>2, <2>3, <2>4, <1>RestStep, Zenon

\* The sync of a root: memory, the log and the caller agree again.
<1>FsyncRootExact.
    ASSUME IndInv, RecInv, FsyncRoot
    PROVE  RecInv'
  <2> USE <1>FsyncRootExact
  <2>1. /\ mode = "open" /\ op.stage = "fsync2" /\ op.kind \in {"publish", "drop"}
        /\ log' = log /\ ndisk' = nfile /\ refs' = NewRefs /\ op' = Idle
        /\ acked' = NewRefs /\ since' = {}
        /\ objs' = objs /\ snaps' = snaps /\ pending' = pending
    BY DEF FsyncRoot, Durable
  <2>2. Recorded /\ ~Recorded'
    BY <2>1, RestingFacts DEF Recorded
  <2>3. /\ objs = ScanObjs(log) /\ snaps = ScanSnaps(log) /\ ScanRefs(log) = NewRefs
        /\ pending = None
    BY <2>1, <2>2 DEF RecInv, Known
  <2>4. Known'
    BY <2>1, <2>2, <2>3, <1>PrimedScans, ZenonT(30) DEF Known
  <2>5. nfile = Len(log)
    BY <2>1 DEF IndInv, Staged
  <2>6. Tried(log', ndisk', {acked'} \cup since')
    <3>1. \A k \in ndisk'..Len(log') : SubSeq(log', 1, k) = log
      BY <2>1, <2>5, <1>StorageFacts
    <3>2. ScanRefs(log) \in {acked'} \cup since'
      BY <2>1, <2>3
    <3> QED BY <3>1, <3>2, Zenon DEF Tried
  <2>7. Exact(log')
    BY <2>1 DEF RecInv
  <2> QED BY <2>4, <2>6, <2>7, <1>PrimedScans DEF RecInv

\* Every step keeps what recovery finds exact.
<1>NextExact.
    ASSUME IndInv, RecInv, [Next]_vars
    PROVE  RecInv'
  <2> USE <1>NextExact
  <2>1. CASE UNCHANGED vars
    <3>1. /\ log' = log /\ ndisk' = ndisk /\ acked' = acked /\ since' = since
          /\ mode' = mode /\ objs' = objs /\ snaps' = snaps /\ refs' = refs
          /\ pending' = pending /\ fast' = fast /\ op' = op
      BY <2>1 DEF vars
    <3>2. (Recorded' <=> Recorded) /\ NewRefs' = NewRefs
      BY <3>1, SMTT(30) DEF Recorded, NewRefs
    <3>3. Known'
      BY <3>1, <3>2, <1>PrimedScans, SMTT(30) DEF RecInv, Known
    <3>4. Exact(log') /\ Tried(log', ndisk', {acked'} \cup since')
      BY <3>1 DEF RecInv
    <3> QED BY <3>3, <3>4, <1>PrimedScans, SMTT(30) DEF RecInv
  <2>2. ASSUME NEW o \in Object, Ingest(o) PROVE RecInv'
    BY <2>2, <1>IngestExact
  <2>3. ASSUME NEW w \in Workspace, NEW o \in Object, Write(w, o) PROVE RecInv'
    BY <2>3, <1>WriteExact
  <2>4. ASSUME NEW w \in Workspace,
               \/ \E o \in Object : Delete(w, o)
               \/ Empty(w)
               \/ \E n \in Name : Checkout(w, n)
               \/ \E id \in snaps : Fork(w, id)
        PROVE RecInv'
    BY <2>4, <1>EditsExact
  <2>5. CASE \/ \E w \in Workspace : Snapshot(w) \/ \E n \in Name : Publish(w, n)
             \/ \E n \in Name, id \in ID : Drop(n, id)
             \/ Checkpoint \/ CloseUnsealed
    BY <2>5, <1>StartsExact
  <2>6. CASE FsyncFails \/ ReadFails \/ OpenFails
    BY <2>6, <1>FailuresExact
  <2>7. CASE ClosePoisoned \/ FsyncClose \/ CloseFlush \/ ProcessCrash \/ PowerLoss
    BY <2>7, <1>LossExact
  <2>8. CASE Save \/ BuildFastIndex \/ AppendRefs \/ SyncWrite
    BY <2>8, <1>SaveExact, <1>BuildExact, <1>AppendRefsExact, <1>SyncWriteExact
  <2>9. CASE FsyncSnapshot \/ FsyncCheckpoint \/ FsyncRoot
    BY <2>9, <1>FsyncExact, <1>FsyncRootExact
  <2>10. ASSUME NEW verify \in BOOLEAN, Open(verify) PROVE RecInv'
    BY <2>10, <1>OpenExact
  <2> QED
    BY <2>1, <2>2, <2>3, <2>4, <2>5, <2>6, <2>7, <2>8, <2>9, <2>10, ZenonT(30) DEF Next

<1> QED BY <1>ExactImages, <1>NextExact

-----------------------------------------------------------------------------
(* The version an update was vetted against.                               *)

\* The map of an open handle changes only where a vetted update ends.
LEMMA NextVetted ==
    IndInv /\ Vetted /\ Next =>
        /\ Vetted'
        /\ mode = "open" /\ mode' = "open" => refs' = refs \/ FsyncRoot
\* Publish and Drop start with the version in the map that they expect.
<1>StartsVetted.
    ASSUME IndInv,
           \/ \E w \in Workspace : Snapshot(w) \/ \E n \in Name : Publish(w, n)
           \/ \E n \in Name, id \in ID : Drop(n, id)
           \/ Checkpoint \/ CloseUnsealed
    PROVE  Vetted' /\ refs' = refs
  <2>1. CASE Checkpoint \/ CloseUnsealed \/ \E w \in Workspace : Snapshot(w)
    <3>1. op'.kind \in {"checkpoint", "close", "snapshot"} /\ refs' = refs
      BY <2>1, SMTT(30) DEF Checkpoint, CloseUnsealed, Snapshot, Start, Op, memory
    <3> QED BY <3>1, SMTT(30) DEF Vetted
  <2>2. ASSUME NEW w \in Workspace, NEW n \in Name, Publish(w, n) PROVE Vetted' /\ refs' = refs
    <3>1. op'.kind = "publish" /\ op'.w = w /\ op'.name = n /\ refs' = refs /\ ws' = ws
      BY <2>2, ZenonT(30) DEF Publish, Start, Op, memory
    <3>2. refs[n] = IF ws[w].name = n THEN ws[w].base ELSE None
      BY <2>2, ZenonT(30) DEF Publish, MayPublish
    <3> QED BY <3>1, <3>2, SMTT(30) DEF Vetted
  <2>3. ASSUME NEW n \in Name, NEW id \in ID, Drop(n, id) PROVE Vetted' /\ refs' = refs
    <3>1. op'.kind = "drop" /\ op'.name = n /\ op'.id = id /\ refs' = refs /\ refs[n] = id
      BY <2>3 DEF Drop, Start, Op, memory
    <3> QED BY <3>1, ZenonT(30) DEF Vetted
  <2> QED BY <1>StartsVetted, <2>1, <2>2, <2>3, Zenon

\* It stays there: no other operation runs, and a memoized snapshot leaves the
\* name and the base of the workspace alone.
<1>StagesVetted.
    ASSUME IndInv, Vetted,
           \/ Save \/ BuildFastIndex \/ AppendRefs \/ SyncWrite
           \/ FsyncSnapshot \/ FsyncCheckpoint
    PROVE  Vetted' /\ refs' = refs
  <2>1. /\ refs' = refs
        /\ \/ op' = Idle
           \/ \E stage \in {"write1", "fsync1", "refs", "base", "write2", "fsync2"} :
                 op' = At(stage)
        /\ \/ ws' = ws
           \/ ws' = [ws EXCEPT ![op.w] = WS(@.state, @.root, op.id, @.name, @.base)]
    <3>1. CASE Save
      BY <3>1, SMTT(30) DEF Save, WriteFailed, memory
    <3>2. CASE BuildFastIndex
      BY <3>2, SMTT(30) DEF BuildFastIndex, WriteFailed, memory
    <3>3. CASE AppendRefs
      BY <3>3, SMTT(30) DEF AppendRefs, WriteFailed, memory
    <3>4. CASE SyncWrite
      BY <3>4, SMTT(30) DEF SyncWrite, WriteFailed, memory
    <3>5. CASE FsyncSnapshot
      BY <3>5, SMTT(30) DEF FsyncSnapshot, memory
    <3>6. CASE FsyncCheckpoint
      BY <3>6, SMTT(30) DEF FsyncCheckpoint, memory
    <3> QED BY <1>StagesVetted, <3>1, <3>2, <3>3, <3>4, <3>5, <3>6, Zenon
  <2>2. op.kind = "publish" => op.w \in Workspace
    BY <1>StagesVetted DEF IndInv, Staged
  <2>3. op.kind = "publish" => /\ ws'[op.w].name = ws[op.w].name
                               /\ ws'[op.w].base = ws[op.w].base
    <3>1. CASE ws' = ws
      BY <3>1
    <3>2. CASE ws' = [ws EXCEPT ![op.w] = WS(@.state, @.root, op.id, @.name, @.base)]
      <4>1. ws \in [Workspace -> WorkspaceState]
        BY <1>StagesVetted DEF IndInv, TypeOK
      <4> QED BY <2>2, <3>2, <4>1, SMTT(30) DEF WS
    <3> QED BY <2>1, <3>1, <3>2, Zenon
  <2>4. CASE op' = Idle
    <3>1. Vetted'
      BY <2>4, RestingFacts, Zenon DEF Vetted
    <3> QED BY <2>1, <3>1
  <2>5. ASSUME NEW stage \in {"write1", "fsync1", "refs", "base", "write2", "fsync2"},
               op' = At(stage)
        PROVE Vetted'
    <3>1. op'.kind = op.kind /\ op'.w = op.w /\ op'.name = op.name /\ op'.id = op.id
      BY <2>5 DEF At, Op
    <3> QED BY <1>StagesVetted, <2>1, <2>2, <2>3, <3>1 DEF Vetted
  <2> QED BY <2>1, <2>4, <2>5, Zenon

\* Every other step ends the operation or leaves the handle idle.
<1>OthersVetted.
    ASSUME IndInv,
           \/ \E o \in Object : Ingest(o)
           \/ \E w \in Workspace :
                \/ \E o \in Object : Write(w, o) \/ Delete(w, o)
                \/ Empty(w)
                \/ \E n \in Name : Checkout(w, n)
                \/ \E id \in snaps : Fork(w, id)
           \/ ReadFails \/ FsyncFails \/ FsyncRoot
           \/ ClosePoisoned \/ FsyncClose \/ CloseFlush \/ ProcessCrash \/ PowerLoss
           \/ \E verify \in BOOLEAN : Open(verify)
           \/ OpenFails
    PROVE  /\ Vetted'
           /\ mode = "open" /\ mode' = "open" => refs' = refs \/ FsyncRoot
  <2>1. \/ op' = Idle /\ (mode' # "open" \/ refs' = refs \/ FsyncRoot)
        \/ mode = "closed" /\ op' = op
    <3>1. CASE \/ \E o \in Object : Ingest(o)
               \/ \E w \in Workspace :
                    \/ \E o \in Object : Write(w, o) \/ Delete(w, o)
                    \/ Empty(w)
                    \/ \E n \in Name : Checkout(w, n)
                    \/ \E id \in snaps : Fork(w, id)
      BY <3>1, ZenonT(30) DEF Ingest, Write, Delete, Empty, Checkout, Fork, Ready, WriteFailed,
                              memory
    <3>2. CASE ReadFails \/ FsyncFails \/ FsyncRoot
      BY <3>2, ZenonT(30) DEF ReadFails, FsyncFails, FsyncRoot, WriteFailed
    <3>3. CASE ClosePoisoned \/ FsyncClose \/ CloseFlush \/ ProcessCrash \/ PowerLoss
      BY <3>3, ZenonT(30) DEF ClosePoisoned, FsyncClose, CloseFlush, ProcessCrash, PowerLoss, Gone
    <3>4. CASE OpenFails \/ \E verify \in BOOLEAN : Open(verify)
      BY <3>4 DEF OpenFails, Open
    <3> QED BY <1>OthersVetted, <3>1, <3>2, <3>3, <3>4, Zenon
  <2>2. mode = "closed" => op = Idle
    BY <1>OthersVetted DEF IndInv, Nested
  <2>3. op' = Idle
    BY <2>1, <2>2, SMTT(30)
  <2>4. Vetted'
    BY <2>3, RestingFacts, Zenon DEF Vetted
  <2> QED BY <2>1, <2>4
<1> SUFFICES ASSUME IndInv, Vetted, Next
             PROVE  /\ Vetted'
                    /\ mode = "open" /\ mode' = "open" => refs' = refs \/ FsyncRoot
  OBVIOUS
<1>1. CASE \/ \E w \in Workspace : Snapshot(w) \/ \E n \in Name : Publish(w, n)
           \/ \E n \in Name, id \in ID : Drop(n, id)
           \/ Checkpoint \/ CloseUnsealed
  BY <1>1, <1>StartsVetted
<1>2. CASE \/ Save \/ BuildFastIndex \/ AppendRefs \/ SyncWrite
           \/ FsyncSnapshot \/ FsyncCheckpoint
  BY <1>2, <1>StagesVetted
<1>3. CASE \/ \E o \in Object : Ingest(o)
           \/ \E w \in Workspace :
                \/ \E o \in Object : Write(w, o) \/ Delete(w, o)
                \/ Empty(w)
                \/ \E n \in Name : Checkout(w, n)
                \/ \E id \in snaps : Fork(w, id)
           \/ ReadFails \/ FsyncFails \/ FsyncRoot
           \/ ClosePoisoned \/ FsyncClose \/ CloseFlush \/ ProcessCrash \/ PowerLoss
           \/ \E verify \in BOOLEAN : Open(verify)
           \/ OpenFails
  BY <1>3, <1>OthersVetted, ZenonT(30)
<1> QED BY <1>1, <1>2, <1>3, ZenonT(30) DEF Next

=============================================================================
