---------------------------- MODULE MirrorCache -----------------------------
(***************************************************************************)
(* The mirror cache (storage/native/mirror.go): Open returns a verified    *)
(* file of the cache directory or downloads it from one of several mirrors *)
(* into a partial file, which later attempts, other mirrors and other      *)
(* calls resume and which a rename publishes.                              *)
(*                                                                         *)
(* One object is modelled.  Its bytes are cells that are "good" or "bad",  *)
(* and its digest fits a file exactly when that file is Payload.  What a   *)
(* Validate callback decides is left open.  Files are inodes named by at   *)
(* most two directory entries, since an open file outlives its name.       *)
(* Mirrors and the disk are external.  A mirror is honest, or commits one  *)
(* of MaxFaults faults; a crash may spoil what was not synced and may undo *)
(* the last rename.                                                        *)
(***************************************************************************)
EXTENDS Integers, Sequences, FiniteSets

CONSTANTS
    Opener,      \* callers of Open, one call at a time each
    Cache,       \* MirrorCache values that share the directory
    Using,       \* the cache each opener calls
    Size,        \* request.Size of each opener, -1 when unknown
    Validated,   \* openers whose request has a Validate callback
    Pinned,      \* whether the requests name the digest
    Length,      \* length of the object
    Maximum,     \* request.MaximumBytes
    Ranges,      \* whether a mirror may honour ranges, may ignore them
    Inode, None,
    MaxTries,    \* URLs times passes of one Open
    MaxFaults,   \* bound: faults of mirrors, and cancellations
    MaxCrashes   \* bound: crashes

ASSUME MirrorAssumption ==
    /\ Using \in [Opener -> Cache]
    /\ Size \in [Opener -> -1..Maximum] /\ Validated \subseteq Opener
    /\ Pinned \in BOOLEAN /\ Ranges \subseteq BOOLEAN
    /\ Length \in 1..Maximum /\ MaxTries \in Nat \ {0}
    /\ Cardinality(Inode) >= Cardinality(Opener) + 2
    /\ None \notin Inode \cup Opener

VARIABLES
    content, synced,       \* inodes
    partialAt, objectAt,   \* the two directory entries
    lock,                  \* objectLock of each cache
    pc, fd, tries,         \* Open: its partial file and the tries left
    hashed, body, broken,  \* downloadFrom: hasher, response body and its end
    reader, result,        \* what Open returned
    faults, crashes

disk == <<content, synced, partialAt, objectAt>>
copy == <<hashed, body, broken>>
vars == <<content, synced, partialAt, objectAt, lock, pc, fd, tries, hashed, body,
          broken, reader, result, faults, crashes>>

Payload == [i \in 1..Length |-> "good"]
Bad(n) == [i \in 1..n |-> "bad"]

Init ==
    /\ content = [i \in Inode |-> <<>>] /\ synced = [i \in Inode |-> FALSE]
    /\ partialAt = None /\ objectAt = None
    /\ lock = [c \in Cache |-> None]
    /\ pc = [o \in Opener |-> "idle"] /\ fd = [o \in Opener |-> None]
    /\ tries = [o \in Opener |-> 0]
    /\ hashed = [o \in Opener |-> <<>>] /\ body = [o \in Opener |-> <<>>]
    /\ broken = [o \in Opener |-> FALSE]
    /\ reader = [o \in Opener |-> None] /\ result = [o \in Opener |-> "none"]
    /\ faults = 0 /\ crashes = 0

Goto(o, label) == pc' = [pc EXCEPT ![o] = label]
Truncate(i) == content' = [content EXCEPT ![i] = <<>>]

\* Bytes the request allows: its size, or the maximum when that is unknown.
Limit(o) == IF Size[o] >= 0 THEN Size[o] ELSE Maximum

Sized(o, n) == n <= Maximum /\ (Size[o] >= 0 => n = Size[o])

\* Open leaves: the lock is released and the partial file is closed.
Leave(o, i, how) ==
    /\ Goto(o, "idle")
    /\ lock' = [lock EXCEPT ![Using[o]] = None]
    /\ fd' = [fd EXCEPT ![o] = None]
    /\ hashed' = [hashed EXCEPT ![o] = <<>>] /\ body' = [body EXCEPT ![o] = <<>>]
    /\ broken' = [broken EXCEPT ![o] = FALSE]
    /\ reader' = [reader EXCEPT ![o] = i] /\ result' = [result EXCEPT ![o] = how]

\* One mirror failed: the next one is tried, unless it was the last.
TryNext(o) ==
    IF tries[o] = 1
    THEN Leave(o, None, "failed") /\ tries' = [tries EXCEPT ![o] = 0]
    ELSE /\ Goto(o, "try")
         /\ tries' = [tries EXCEPT ![o] = @ - 1]
         /\ hashed' = [hashed EXCEPT ![o] = <<>>] /\ body' = [body EXCEPT ![o] = <<>>]
         /\ broken' = [broken EXCEPT ![o] = FALSE]
         /\ UNCHANGED <<lock, fd, reader, result>>

-----------------------------------------------------------------------------
(* Open.                                                                   *)

Open(o) ==
    /\ pc[o] = "idle" /\ reader[o] = None
    /\ lock[Using[o]] = None
    /\ lock' = [lock EXCEPT ![Using[o]] = o]
    /\ Goto(o, "check")
    /\ UNCHANGED <<disk, fd, tries, copy, reader, result, faults, crashes>>

\* What the Validate callback may decide.
Verdict(o) == IF o \in Validated THEN BOOLEAN ELSE {TRUE}

\* openVerifiedCacheFile, up to the callback.
Verified(o, i) ==
    /\ i # None
    /\ Sized(o, Len(content[i]))
    /\ Pinned => content[i] = Payload

\* A verified object is returned, another one is removed.
Check(o) ==
    /\ pc[o] = "check"
    /\ \E valid \in Verdict(o) :
       IF Verified(o, objectAt) /\ valid
       THEN Leave(o, objectAt, "file") /\ UNCHANGED objectAt
       ELSE Goto(o, "open") /\ objectAt' = None /\ UNCHANGED <<lock, fd, copy, reader, result>>
    /\ UNCHANGED <<content, synced, partialAt, tries, faults, crashes>>

Used == {partialAt, objectAt} \cup {fd[o] : o \in Opener} \cup {reader[o] : o \in Opener}

\* The partial file of an earlier call is reused, or one is created.
OpenPartial(o) ==
    /\ pc[o] = "open"
    /\ IF partialAt # None
       THEN UNCHANGED <<content, synced, partialAt>> /\ fd' = [fd EXCEPT ![o] = partialAt]
       ELSE LET i == CHOOSE i \in Inode : i \notin Used IN
            /\ partialAt' = i
            /\ Truncate(i) /\ synced' = [synced EXCEPT ![i] = FALSE]
            /\ fd' = [fd EXCEPT ![o] = i]
    /\ Goto(o, "try")
    /\ tries' = [tries EXCEPT ![o] = MaxTries]
    /\ UNCHANGED <<objectAt, lock, copy, reader, result, faults, crashes>>

Cancel(o) ==
    /\ pc[o] = "try"
    /\ faults < MaxFaults
    /\ faults' = faults + 1
    /\ Leave(o, None, "cancelled")
    /\ UNCHANGED <<disk, tries, crashes>>

-----------------------------------------------------------------------------
(* downloadFrom.                                                           *)

\* The partial file needs no request: only a pinned digest proves that.
Complete(o, f) == Pinned /\ f = Payload /\ (Size[o] < 0 \/ Len(f) = Size[o])

\* Up to the request: an oversized file is reset and the rest is hashed.
Request(o) ==
    LET f == IF Len(content[fd[o]]) > Limit(o) THEN <<>> ELSE content[fd[o]] IN
    /\ pc[o] = "try"
    /\ content' = [content EXCEPT ![fd[o]] = f]
    /\ synced' = [synced EXCEPT ![fd[o]] = @ /\ f = content[fd[o]]]
    /\ IF Complete(o, f)
       THEN \E valid \in Verdict(o) :
            IF valid
            THEN Goto(o, "sync") /\ UNCHANGED <<lock, fd, tries, copy, reader, result>>
            ELSE TryNext(o)
       ELSE /\ Goto(o, "respond")
            /\ hashed' = [hashed EXCEPT ![o] = f]
            /\ UNCHANGED <<lock, fd, tries, body, broken, reader, result>>
    /\ UNCHANGED <<partialAt, objectAt, faults, crashes>>

\* Status 200 restarts the file, 206 continues at the offset asked for.
Accept(o, status, bytes, cut) ==
    /\ IF status = 200
       THEN Truncate(fd[o]) /\ synced' = [synced EXCEPT ![fd[o]] = FALSE]
            /\ hashed' = [hashed EXCEPT ![o] = <<>>]
       ELSE UNCHANGED <<content, synced, hashed>>
    /\ body' = [body EXCEPT ![o] = bytes]
    /\ broken' = [broken EXCEPT ![o] = cut]
    /\ Goto(o, "copy")
    /\ UNCHANGED <<partialAt, objectAt, lock, fd, tries, reader, result>>

Refuse(o) == TryNext(o) /\ UNCHANGED disk

\* A response whose Content-Length exceeds what is left is refused; 200 has
\* truncated the file by then.
TooLong(o, status) ==
    /\ IF status = 200 THEN Truncate(fd[o]) /\ synced' = [synced EXCEPT ![fd[o]] = FALSE]
       ELSE UNCHANGED <<content, synced>>
    /\ TryNext(o)
    /\ UNCHANGED <<partialAt, objectAt>>

Answer(o, status, bytes, cut) ==
    LET offset == IF status = 200 THEN 0 ELSE Len(hashed[o]) IN
    IF offset + Len(bytes) > Limit(o)
    THEN TooLong(o, status) \/ Accept(o, status, bytes, cut)
    ELSE Accept(o, status, bytes, cut)

\* An honest mirror that honours ranges, or does not: bytes beyond the end
\* of the object are answered with status 416.
Respond(o) ==
    /\ pc[o] = "respond"
    /\ \E ranges \in Ranges :
          IF ranges /\ hashed[o] # <<>>
          THEN IF Len(hashed[o]) < Length
               THEN Answer(o, 206, SubSeq(Payload, Len(hashed[o]) + 1, Length), FALSE)
               ELSE Refuse(o)
          ELSE Answer(o, 200, Payload, FALSE)
    /\ UNCHANGED <<faults, crashes>>

\* A faulty mirror: no answer, other bytes, or bytes that stop early with or
\* without an error.
Misbehave(o) ==
    /\ pc[o] = "respond"
    /\ faults < MaxFaults
    /\ faults' = faults + 1
    /\ \/ Refuse(o)
       \/ \E status \in {200, 206}, cut \in BOOLEAN, n \in 0..Maximum + 1 :
             /\ status = 206 => hashed[o] # <<>>
             /\ LET offset == IF status = 200 THEN 0 ELSE Len(hashed[o]) IN
                \/ Answer(o, status, Bad(n), cut)
                \/ offset + n <= Length /\ Answer(o, status, SubSeq(Payload, offset + 1, offset + n), cut)
    /\ UNCHANGED crashes

\* A byte goes to the file at the position of the hasher, and to the hasher.
CopyByte(o) ==
    LET at == Len(hashed[o]) + 1
        old == content[fd[o]] IN
    /\ pc[o] = "copy"
    /\ body[o] # <<>> /\ at <= Limit(o) + 1
    /\ content' = [content EXCEPT ![fd[o]] =
          [i \in 1..(IF at > Len(old) THEN at ELSE Len(old)) |->
              IF i = at THEN Head(body[o]) ELSE IF i <= Len(old) THEN old[i] ELSE "bad"]]
    /\ synced' = [synced EXCEPT ![fd[o]] = FALSE]
    /\ hashed' = [hashed EXCEPT ![o] = Append(@, Head(body[o]))]
    /\ body' = [body EXCEPT ![o] = Tail(@)]
    /\ UNCHANGED <<partialAt, objectAt, lock, pc, fd, tries, broken, reader, result,
                   faults, crashes>>

\* The copy ends: at an error the partial file stays for the next attempt.
CopyEnds(o) ==
    /\ pc[o] = "copy"
    /\ body[o] = <<>> \/ Len(hashed[o]) = Limit(o) + 1
    /\ IF broken[o] /\ body[o] = <<>>
       THEN TryNext(o)
       ELSE Goto(o, "verify") /\ UNCHANGED <<lock, fd, tries, copy, reader, result>>
    /\ UNCHANGED <<disk, faults, crashes>>

DigestFits(o) == Pinned => hashed[o] = Payload

\* The checks in order.  Too many bytes, a wrong digest and a rejection reset
\* the partial file; a wrong size keeps it.
Verify(o) ==
    LET n == Len(hashed[o]) IN
    /\ pc[o] = "verify"
    /\ \/ /\ n <= Limit(o) /\ Sized(o, n) /\ DigestFits(o)
          /\ Goto(o, "sync")
          /\ UNCHANGED <<content, synced, lock, fd, tries, copy, reader, result>>
       \/ /\ n <= Limit(o) /\ ~Sized(o, n)
          /\ TryNext(o)
          /\ UNCHANGED <<content, synced>>
       \/ /\ n > Limit(o) \/ (Sized(o, n) /\ (~DigestFits(o) \/ FALSE \in Verdict(o)))
          /\ Truncate(fd[o]) /\ synced' = [synced EXCEPT ![fd[o]] = FALSE]
          /\ TryNext(o)
    /\ UNCHANGED <<partialAt, objectAt, faults, crashes>>

-----------------------------------------------------------------------------
(* Publication.                                                            *)

\* Mutant: the file is renamed without being synced.
Sync_Skipped(o) ==
    /\ pc[o] = "sync"
    /\ Goto(o, "rename")
    /\ UNCHANGED <<disk, lock, fd, tries, copy, reader, result, faults, crashes>>

Sync(o) ==
    /\ pc[o] = "sync"
    /\ synced' = [synced EXCEPT ![fd[o]] = TRUE]
    /\ Goto(o, "rename")
    /\ UNCHANGED <<content, partialAt, objectAt, lock, fd, tries, copy, reader, result,
                   faults, crashes>>

\* Close and Rename, of whatever file has the partial name by now.
Rename(o) ==
    /\ pc[o] = "rename"
    /\ IF partialAt = None
       THEN Leave(o, None, "failed") /\ UNCHANGED <<partialAt, objectAt>>
       ELSE /\ objectAt' = partialAt /\ partialAt' = None
            /\ Goto(o, "reopen")
            /\ fd' = [fd EXCEPT ![o] = None]
            /\ UNCHANGED <<lock, copy, reader, result>>
    /\ UNCHANGED <<content, synced, tries, faults, crashes>>

\* The published file is verified once more; the partial name is removed.
Reopen(o) ==
    /\ pc[o] = "reopen"
    /\ partialAt' = None
    /\ \E valid \in Verdict(o) :
       IF Verified(o, objectAt) /\ valid
       THEN Leave(o, objectAt, "file")
       ELSE Leave(o, None, "failed")
    /\ UNCHANGED <<content, synced, objectAt, tries, faults, crashes>>

CloseReader(o) ==
    /\ reader[o] # None
    /\ reader' = [reader EXCEPT ![o] = None]
    /\ UNCHANGED <<disk, lock, pc, fd, tries, copy, result, faults, crashes>>

\* Every process dies.  A file that was not synced is intact, lost or zeroed.
Crash ==
    /\ crashes < MaxCrashes
    /\ crashes' = crashes + 1
    /\ \E spoilt \in SUBSET {i \in Inode : ~synced[i]}, zero \in BOOLEAN :
          content' = [i \in Inode |-> IF i \notin spoilt THEN content[i]
                                      ELSE IF zero THEN Bad(Len(content[i])) ELSE <<>>]
    /\ synced' = [i \in Inode |-> TRUE]
    /\ \/ UNCHANGED <<partialAt, objectAt>>
       \/ objectAt # None /\ partialAt = None /\ partialAt' = objectAt /\ objectAt' = None
    /\ lock' = [c \in Cache |-> None]
    /\ pc' = [o \in Opener |-> "idle"] /\ fd' = [o \in Opener |-> None]
    /\ tries' = [o \in Opener |-> 0]
    /\ hashed' = [o \in Opener |-> <<>>] /\ body' = [o \in Opener |-> <<>>]
    /\ broken' = [o \in Opener |-> FALSE]
    /\ reader' = [o \in Opener |-> None] /\ result' = [o \in Opener |-> "none"]
    /\ UNCHANGED faults

Progress(o) ==
    \/ Open(o) \/ Check(o) \/ OpenPartial(o) \/ Request(o) \/ Respond(o)
    \/ CopyByte(o) \/ CopyEnds(o) \/ Verify(o) \/ Sync(o) \/ Rename(o) \/ Reopen(o)

Next ==
    \/ \E o \in Opener : Progress(o) \/ Cancel(o) \/ Misbehave(o) \/ CloseReader(o)
    \/ Crash

\* Callers that were refused call again, and Open runs on.
Fairness == \A o \in Opener : WF_vars(Progress(o))

Spec == Init /\ [][Next]_vars
LiveSpec == Spec /\ Fairness

-----------------------------------------------------------------------------
\* "Only a fully verified file is atomically published": with a pinned digest
\* the object and every reader that Open returned hold the requested bytes,
\* whatever mirrors sent and wherever downloads, validation or the machine
\* stopped.  It holds for callers that share one MirrorCache, whose lock
\* serves them in turn.  Callers with a cache each, as mirror_file makes one
\* per call, write the same partial file at once, and it fails.
VerifiedStays ==
    Pinned => \A i \in ({objectAt} \cup {reader[o] : o \in Opener}) \ {None} :
                 content[i] = Payload

\* "Do not ask for bytes beyond EOF and get stuck on HTTP 416": when mirrors
\* behave in the end, a call with a pinned digest is served in the end.  It
\* fails: a wrong partial file of the full length is never reset.
EventuallyServed == \A o \in Opener : <>(result[o] = "file")

=============================================================================
