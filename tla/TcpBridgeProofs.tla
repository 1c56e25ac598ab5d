-------------------------- MODULE TcpBridgeProofs ---------------------------
(***************************************************************************)
(* No wake-up of the bridge is lost and no byte is lost or moved, for any  *)
(* capacity of the channel, any connection and any number of bytes.        *)
(***************************************************************************)
EXTENDS TcpBridge, TLAPS

Contents == {d \in [Side -> Seq(Nat)] : \A s \in Side : Len(d[s]) <= Maximum}

\* The channel: buffers within their capacity, in a checkpoint too.
MemoryTypes ==
    /\ data \in Contents
    /\ closedEnd \in [Side -> BOOLEAN]
    /\ changed \in [Side -> SUBSET Copy]
    /\ saved = NoCheckpoint \/ \E d \in Contents, e \in [Side -> BOOLEAN] : saved = <<d, e>>

\* The bridge: what it holds are bytes.
BridgeTypes ==
    /\ DOMAIN copy = Copy
    /\ bytes \in [Copy -> Seq(Nat)]
    /\ copy["out"] = "write" => bytes["out"] # <<>>
    /\ room \in Nat
    /\ fromClient \in Seq(Nat)
    /\ guestSent \in Nat /\ clientSent \in Nat

\* A notification that somebody holds is current: nothing has happened to the
\* buffer since it was handed out.
Current ==
    /\ "out" \in changed[0] => data[0] = <<>> /\ ~Closed(0)
    /\ "in" \in changed[1] => ~Closed(0)
    /\ "in" \in changed[1] /\ copy["in"] = "write" => room = Capacity(0)
    /\ "in" \in changed[1] /\ copy["in"] = "wait" => Capacity(0) = 0

IndInv == MemoryTypes /\ BridgeTypes /\ Current

\* Initially nobody waits.
LEMMA InitInv == Init => IndInv
BY MaximumAssumption
   DEF Init, MemoryInit, IndInv, MemoryTypes, BridgeTypes, Current, Contents, Side, Copy

-----------------------------------------------------------------------------
(* The operations of the channel.                                          *)

\* Appending to a buffer.
LEMMA AppendFacts ==
    ASSUME NEW s \in Seq(Nat), NEW t \in Seq(Nat)
    PROVE  s \o t \in Seq(Nat) /\ Len(s \o t) = Len(s) + Len(t) /\ (t = <<>> => s \o t = s)
OBVIOUS

\* A prefix, and what is left of a buffer after it.
LEMMA PrefixFacts ==
    ASSUME NEW s \in Seq(Nat), NEW n \in 0..Len(s)
    PROVE  /\ SubSeq(s, 1, n) \in Seq(Nat) /\ Len(SubSeq(s, 1, n)) = n
           /\ SubSeq(s, n + 1, Len(s)) \in Seq(Nat)
           /\ Len(SubSeq(s, n + 1, Len(s))) = Len(s) - n
OBVIOUS

\* A byte more in a sequence, or a byte less.
LEMMA ByteFacts ==
    ASSUME NEW s \in Seq(Nat), NEW b \in Nat
    PROVE  /\ Append(s, b) \in Seq(Nat) /\ <<b>> \in Seq(Nat) /\ Len(<<b>>) = 1
           /\ s # <<>> => /\ Tail(s) \in Seq(Nat)
                          /\ Len(s) # 1 => Tail(s) # <<>>
                          /\ Len(s) >= 1
<1>1. Append(s, b) \in Seq(Nat) /\ <<b>> \in Seq(Nat) /\ Len(<<b>>) = 1
  OBVIOUS
<1>2. s # <<>> => Tail(s) \in Seq(Nat) /\ Len(Tail(s)) = Len(s) - 1 /\ Len(s) >= 1
  OBVIOUS
<1>3. ASSUME s # <<>>, Len(s) # 1 PROVE Tail(s) # <<>>
  <2>1. Len(Tail(s)) # 0
    BY <1>2, <1>3
  <2>2. Len(<<>>) = 0
    OBVIOUS
  <2> QED BY ONLY Zenon, <2>1, <2>2
<1> QED BY <1>1, <1>2, <1>3

\* Read takes bytes from one buffer and frees those who wait for its room.
LEMMA ReadFacts ==
    ASSUME MemoryTypes, NEW s \in Side, NEW n \in 0..Len(data[s]), Read(s, n)
    PROVE  /\ MemoryTypes'
           /\ data'[1 - s] = data[1 - s] /\ closedEnd' = closedEnd
           /\ changed'[s] = {} /\ changed'[1 - s] = changed[1 - s]
<1>1. /\ SubSeq(data[s], n + 1, Len(data[s])) \in Seq(Nat)
      /\ Len(SubSeq(data[s], n + 1, Len(data[s]))) <= Maximum
  BY PrefixFacts, MaximumAssumption DEF MemoryTypes, Contents
<1>2. data' \in Contents
  BY Zenon, <1>1 DEF Read, MemoryTypes, Contents
<1> QED BY <1>2 DEF Read, notify, MemoryTypes, Contents, Side

\* Write adds bytes to the buffer of the peer, and frees those who wait
\* for them unless there are none.
LEMMA WriteFacts ==
    ASSUME MemoryTypes, NEW s \in Side, NEW b \in Seq(Nat), Len(b) <= Capacity(s), Write(s, b)
    PROVE  /\ MemoryTypes'
           /\ data'[s] = data[s] /\ closedEnd' = closedEnd
           /\ changed'[s] = changed[s]
           /\ \/ changed'[1 - s] = {}
              \/ changed' = changed /\ data'[1 - s] = data[1 - s]
<1>1. PICK q \in Side : q = 1 - s /\ q # s /\ Peer(s) = q
  BY DEF Side, Peer
<1>2. /\ data[q] \o b \in Seq(Nat)
      /\ Len(data[q] \o b) <= Maximum
      /\ b = <<>> => data[q] \o b = data[q]
  BY <1>1, AppendFacts, MaximumAssumption DEF MemoryTypes, Contents, Capacity
<1>3. data' \in Contents /\ data'[s] = data[s] /\ data'[q] = data[q] \o b
  BY Zenon, <1>1, <1>2 DEF Write, MemoryTypes, Contents
<1> QED BY Zenon, <1>1, <1>2, <1>3 DEF Write, notify, MemoryTypes

\* Closing an end frees everybody, unless it was closed before.
LEMMA CloseFacts ==
    ASSUME MemoryTypes, NEW s \in Side, CloseEnd(s)
    PROVE  /\ MemoryTypes' /\ data' = data
           /\ \/ \A q \in Side : changed'[q] = {}
              \/ changed' = changed /\ closedEnd' = closedEnd
BY DEF CloseEnd, notify, MemoryTypes

\* So does restoring a checkpoint.
LEMMA RestoreFacts ==
    ASSUME MemoryTypes, Restore
    PROVE  MemoryTypes' /\ \A q \in Side : changed'[q] = {}
BY DEF Restore, notify, MemoryTypes, NoCheckpoint

-----------------------------------------------------------------------------
(* The steps.                                                              *)

\* The goroutines that serve, stop and close.
LEMMA ServeSteps ==
    ASSUME IndInv, StopMark \/ StopClose \/ Accept \/ AcceptFails \/ Register \/ FirstFinished \/ Served
                   \/ Close \/ CloseReturns
    PROVE  IndInv'
<1>1. CASE StopClose
  <2>1. CloseEnd(0) /\ UNCHANGED <<copy, held, fromClient, outside>>
    BY <1>1 DEF StopClose
  <2>2. MemoryTypes' /\ BridgeTypes'
    BY <2>1, CloseFacts DEF IndInv, BridgeTypes, held, outside, Side
  <2>3. Current'
    BY <2>1, CloseFacts DEF IndInv, Current, Closed, Capacity, Peer, held, Side
  <2> QED BY <2>2, <2>3 DEF IndInv
<1>2. CASE StopMark \/ Accept \/ AcceptFails \/ FirstFinished \/ Served \/ Close \/ CloseReturns
  <2>1. UNCHANGED <<memory, copy, held, fromClient, outside>>
    BY <1>2 DEF StopMark, Accept, AcceptFails, FirstFinished, Served, Close, CloseReturns, conn
  <2> QED BY <2>1 DEF IndInv, MemoryTypes, BridgeTypes, Current, Closed, Capacity, memory, held,
                      outside
<1>3. CASE Register
  BY <1>3 DEF Register, IndInv, MemoryTypes, BridgeTypes, Current, Closed, Capacity, memory, held,
              outside, Copy
<1> QED BY <1>1, <1>2, <1>3

\* The copy to the client asks for its notification before it reads.
LEMMA OutSteps ==
    ASSUME IndInv, Out
    PROVE  IndInv'
<1>1. CASE OutCheck
  <2>1. MemoryTypes' /\ BridgeTypes'
    <3>1. MemoryTypes'
      BY SMTT(30), <1>1 DEF IndInv, MemoryTypes, OutCheck, ReadReady, memory, Side
    <3>2. BridgeTypes'
      BY SMTT(30), <1>1 DEF IndInv, BridgeTypes, OutCheck, Step, held, conn, outside, Copy
    <3> QED BY <3>1, <3>2
  <2>2. Current'
    <3>1. UNCHANGED <<data, closedEnd, room>> /\ changed'[1] = changed[1]
      BY <1>1 DEF IndInv, MemoryTypes, OutCheck, ReadReady, memory, held, Side
    <3>2. copy'["in"] = copy["in"]
      BY <1>1 DEF IndInv, BridgeTypes, OutCheck, Step, Copy
    <3>3. "out" \in changed'[0] => data[0] = <<>> /\ ~Closed(0)
      BY <1>1 DEF IndInv, MemoryTypes, Current, OutCheck, ReadReady, memory, Side
    <3> QED BY <3>1, <3>2, <3>3 DEF IndInv, Current, Closed, Capacity
  <2> QED BY <2>1, <2>2 DEF IndInv
<1>2. CASE OutRead
  <2>1. CASE UNCHANGED <<memory, bytes>>
    BY <1>2, <2>1 DEF IndInv, MemoryTypes, BridgeTypes, Current, OutRead, ReadFails, ReadBlocks,
                      Step, Closed, Capacity, memory, conn, outside, Copy
  <2>2. CASE /\ ~ReadFails(0) /\ ~ReadBlocks(0) /\ Read(0, Len(data[0])) /\ Step("out", "write")
             /\ bytes' = [bytes EXCEPT !["out"] = data[0]]
    <3>1. data[0] \in Seq(Nat) /\ data[0] # <<>> /\ Len(data[0]) \in 0..Len(data[0])
      BY <2>2 DEF ReadBlocks, IndInv, MemoryTypes, Contents, Side
    <3>2. /\ MemoryTypes' /\ data'[1] = data[1] /\ closedEnd' = closedEnd
          /\ changed'[0] = {} /\ changed'[1] = changed[1]
      BY <2>2, <3>1, ReadFacts DEF IndInv, Side
    <3>3. BridgeTypes'
      BY <1>2, <2>2, <3>1 DEF IndInv, BridgeTypes, OutRead, Step, conn, outside, Copy
    <3>4. Current'
      BY <1>2, <2>2, <3>2 DEF IndInv, BridgeTypes, Current, OutRead, Step, Closed, Capacity, Peer,
                              Copy
    <3> QED BY <3>2, <3>3, <3>4 DEF IndInv
  <2> QED BY <1>2, <2>1, <2>2 DEF OutRead
<1>3. CASE OutWait
  BY <1>3 DEF IndInv, MemoryTypes, BridgeTypes, Current, OutWait, Step, Closed, Capacity, memory,
              held, conn, outside, Copy
<1>4. CASE OutWrite
  <2>1. /\ Tail(bytes["out"]) \in Seq(Nat)
        /\ Len(bytes["out"]) # 1 => Tail(bytes["out"]) # <<>>
    BY Zenon, <1>4, ByteFacts DEF IndInv, BridgeTypes, OutWrite, Copy
  <2>2. BridgeTypes'
    BY ZenonT(60), <1>4, <2>1 DEF IndInv, BridgeTypes, OutWrite, Step, outside, Copy
  <2>3. MemoryTypes' /\ Current'
    BY <1>4 DEF IndInv, MemoryTypes, BridgeTypes, Current, OutWrite, Step, Closed, Capacity, memory,
                Copy
  <2> QED BY <2>2, <2>3 DEF IndInv
<1> QED BY <1>1, <1>2, <1>3, <1>4 DEF Out

\* The copy from the client writes within the room that it saw, unless a
\* restored checkpoint freed it first.
LEMMA InSteps ==
    ASSUME IndInv, In
    PROVE  IndInv'
<1>1. CASE InRecv
  BY ZenonT(30), <1>1 DEF IndInv, MemoryTypes, BridgeTypes, Current, InRecv, Step, Closed, Capacity, memory,
              outside, Copy
<1>2. CASE InCapacity
  <2>1. Capacity(0) \in Nat
    BY MaximumAssumption DEF IndInv, MemoryTypes, Contents, Capacity, Peer, Side
  <2>2. MemoryTypes' /\ BridgeTypes'
    BY <1>2, <2>1 DEF IndInv, MemoryTypes, BridgeTypes, InCapacity, Step, WriteCapacity, Peer,
                      memory, conn, outside, Copy, Side
  <2>3. data' = data /\ closedEnd' = closedEnd /\ (changed'[0] = changed[0])
    BY <1>2 DEF IndInv, MemoryTypes, InCapacity, WriteCapacity, Peer, memory, Side
  <2>4. UNCHANGED <<Capacity(0), Closed(0)>>
    BY <2>3 DEF Capacity, Closed
  <2>5. ASSUME stopped \/ Closed(0) PROVE Current'
    BY <1>2, <2>3, <2>4, <2>5 DEF IndInv, BridgeTypes, Current, InCapacity, Step, memory, Copy
  <2>6. ASSUME ~(stopped \/ Closed(0)) PROVE Current'
    BY <1>2, <2>3, <2>4, <2>6 DEF IndInv, BridgeTypes, Current, InCapacity, Step, Copy
  <2> QED BY <2>2, <2>5, <2>6 DEF IndInv
<1>3. CASE InWrite
  <2>1. /\ Part \in Seq(Nat) /\ Len(Part) \in 0..Len(bytes["in"]) /\ Len(Part) <= room
        /\ SubSeq(bytes["in"], Len(Part) + 1, Len(bytes["in"])) \in Seq(Nat)
    <3>1. PICK n \in 0..Len(bytes["in"]) : Part = SubSeq(bytes["in"], 1, n) /\ n <= room
      <4>1. Len(bytes["in"]) \in Nat /\ room \in Nat
        BY DEF IndInv, BridgeTypes, Copy
      <4>2. CASE Len(bytes["in"]) < room
        BY <4>1, <4>2 DEF Part
      <4>3. CASE ~(Len(bytes["in"]) < room)
        BY <4>1, <4>3 DEF Part
      <4> QED BY <4>2, <4>3
    <3> QED BY <3>1, PrefixFacts DEF IndInv, BridgeTypes, Copy
  <2>2. CASE UNCHANGED <<memory, bytes>> /\ Closed(0) /\ Step("in", "end")
    BY <1>3, <2>2 DEF IndInv, MemoryTypes, BridgeTypes, Current, InWrite, Step, Closed, Capacity,
                      memory, conn, outside, Copy
  <2>3. CASE UNCHANGED <<memory, bytes>> /\ Len(Part) > Capacity(0) /\ Step("in", "wait")
    <3>1. "in" \notin changed[1]
      <4>1. Capacity(0) \in Nat
        BY MaximumAssumption DEF IndInv, MemoryTypes, Contents, Capacity, Peer, Side
      <4> QED BY <1>3, <2>1, <2>3, <4>1 DEF IndInv, Current, InWrite
    <3> QED BY <1>3, <2>3, <3>1
            DEF IndInv, MemoryTypes, BridgeTypes, Current, InWrite, Step, Closed, Capacity, memory,
                conn, outside, Copy
  <2>4. CASE /\ Len(Part) <= Capacity(0) /\ Write(0, Part) /\ Step("in", "check")
             /\ bytes' = [bytes EXCEPT !["in"] = SubSeq(@, Len(Part) + 1, Len(@))]
    <3>1. /\ MemoryTypes' /\ data'[0] = data[0] /\ closedEnd' = closedEnd
          /\ changed'[0] = changed[0]
          /\ changed'[1] = {} \/ changed'[1] = changed[1]
      BY <2>1, <2>4, WriteFacts DEF IndInv, Side
    <3>2. BridgeTypes'
      BY SMTT(30), <1>3, <2>1, <2>4 DEF IndInv, BridgeTypes, InWrite, Step, conn, outside, Copy
    <3>3. Current'
      BY <2>4, <3>1 DEF IndInv, BridgeTypes, Current, Step, Closed, Peer, Copy
    <3> QED BY <3>1, <3>2, <3>3 DEF IndInv
  <2> QED BY <1>3, <2>2, <2>3, <2>4 DEF InWrite
<1>4. CASE InWait
  BY <1>4 DEF IndInv, MemoryTypes, BridgeTypes, Current, InWait, Step, Closed, Capacity, memory,
              held, conn, outside, Copy
<1> QED BY <1>1, <1>2, <1>3, <1>4 DEF In

\* The client never touches the channel; the guest reads, writes, closes and
\* restores it, and frees those who wait for what it changed.
LEMMA OutsideSteps ==
    ASSUME IndInv,
           \/ ClientConnects \/ ClientSends \/ ClientReceives \/ ClientCloses
           \/ GuestSends \/ GuestReceives \/ GuestCloses \/ GuestCaptures \/ GuestRestores
    PROVE  IndInv'
<1>1. CASE ClientConnects \/ ClientReceives \/ ClientCloses
  BY <1>1 DEF ClientConnects, ClientReceives, ClientCloses, IndInv, MemoryTypes, BridgeTypes,
              Current, Closed, Capacity, memory, held, outside
<1>2. CASE ClientSends
  <2>1. Append(fromClient, clientSent + 1) \in Seq(Nat) /\ clientSent + 1 \in Nat
    BY ByteFacts DEF IndInv, BridgeTypes
  <2> QED BY SMTT(30), <1>2, <2>1 DEF ClientSends, IndInv, MemoryTypes, BridgeTypes, Current, Closed,
                            Capacity, memory, held
<1>3. CASE GuestSends
  <2>1. <<guestSent + 1>> \in Seq(Nat) /\ Len(<<guestSent + 1>>) <= Capacity(1)
    <3>1. guestSent + 1 \in Nat /\ Capacity(1) \in Nat /\ Capacity(1) > 0
      BY <1>3, MaximumAssumption
         DEF GuestSends, IndInv, MemoryTypes, BridgeTypes, Contents, Capacity, Peer, Side
    <3> QED BY <3>1
  <2>2. /\ MemoryTypes' /\ data'[1] = data[1] /\ closedEnd' = closedEnd
        /\ changed'[1] = changed[1]
        /\ changed'[0] = {} \/ (changed' = changed /\ data'[0] = data[0])
    <3> DEFINE b == <<guestSent + 1>>
    <3>1. b \in Seq(Nat) /\ Len(b) <= Capacity(1) /\ Write(1, b) /\ MemoryTypes
      BY <1>3, <2>1 DEF GuestSends, IndInv
    <3>2. 1 \in Side /\ 1 - 1 = 0
      BY DEF Side
    <3> HIDE DEF b
    <3> QED BY <3>1, <3>2, WriteFacts
  <2>3. BridgeTypes'
    BY <1>3 DEF GuestSends, IndInv, BridgeTypes, bridge, held, conn
  <2>4. Current'
    BY <1>3, <2>2 DEF GuestSends, IndInv, Current, Closed, Capacity, Peer, bridge, held
  <2> QED BY <2>2, <2>3, <2>4 DEF IndInv
<1>4. CASE GuestReceives
  <2>1. 1 \in 0..Len(data[1])
    <3>1. data[1] \in Seq(Nat) /\ data[1] # <<>>
      BY <1>4 DEF GuestReceives, ReadBlocks, IndInv, MemoryTypes, Contents, Side
    <3> QED BY <3>1, ByteFacts
  <2>2. /\ MemoryTypes' /\ data'[0] = data[0] /\ closedEnd' = closedEnd
        /\ changed'[1] = {} /\ changed'[0] = changed[0]
    BY <1>4, <2>1, ReadFacts DEF GuestReceives, IndInv, Side
  <2>3. BridgeTypes' /\ Current'
    BY <1>4, <2>2 DEF GuestReceives, IndInv, BridgeTypes, Current, Closed, Peer, bridge, held, conn
  <2> QED BY <2>2, <2>3 DEF IndInv
<1>5. CASE GuestCloses
  BY <1>5, CloseFacts DEF GuestCloses, IndInv, BridgeTypes, Current, Closed, Capacity, Peer, Side,
                          bridge, held, conn, outside
<1>6. CASE GuestCaptures
  <2>1. MemoryTypes'
    BY <1>6 DEF GuestCaptures, CaptureCheckpoint, IndInv, MemoryTypes
  <2> QED BY <1>6, <2>1 DEF GuestCaptures, CaptureCheckpoint, IndInv, BridgeTypes, Current, Closed,
                            Capacity, bridge, held, conn, outside
<1>7. CASE GuestRestores
  BY <1>7, RestoreFacts DEF GuestRestores, IndInv, BridgeTypes, Current, Side, bridge, held, conn
<1> QED BY <1>1, <1>2, <1>3, <1>4, <1>5, <1>6, <1>7

-----------------------------------------------------------------------------
\* The invariant holds in every state of the bridge.
THEOREM Inductive == Spec => []IndInv
<1>1. Init => IndInv
  BY InitInv
<1>2. IndInv /\ [Next]_vars => IndInv'
  <2>1. IndInv /\ UNCHANGED vars => IndInv'
    BY DEF vars, IndInv, MemoryTypes, BridgeTypes, Current, Closed, Capacity, memory, held, conn,
           outside
  <2>2. IndInv /\ Next => IndInv'
    BY ServeSteps, OutSteps, InSteps, OutsideSteps DEF Next
  <2> QED BY <2>1, <2>2
<1> QED BY <1>1, <1>2, PTL DEF Spec

\* No copy of the bridge sleeps through bytes, room, a close or a restored
\* checkpoint, whatever the capacity of the channel and of the connection.
THEOREM SleepersSafe == Spec => []SleepersHaveReason
<1>1. IndInv => SleepersHaveReason
  BY DEF IndInv, Current, SleepersHaveReason
<1> QED BY <1>1, Inductive, PTL

-----------------------------------------------------------------------------
(* The order of bytes.                                                     *)

\* A part of a stream: the bytes after the first n.
Run(s, n) == \A i \in 1..Len(s) : s[i] = n + i

\* The four places the n bytes of one direction are in, from those that have
\* arrived to those that have come least far.
Pipe(a, b, c, d, n) ==
    \E x, y, z \in Nat :
        /\ Len(a) = x /\ x + Len(b) = y /\ y + Len(c) = z /\ z + Len(d) = n
        /\ Run(a, 0) /\ Run(b, x) /\ Run(c, y) /\ Run(d, z)

\* Two parts that follow each other are one.
LEMMA RunJoin ==
    ASSUME NEW s \in Seq(Nat), NEW t \in Seq(Nat), NEW n \in Nat, NEW m \in Nat,
           m = n + Len(s), Run(s, n), Run(t, m)
    PROVE  Run(s \o t, n)
<1>1. /\ Len(s) \in Nat /\ Len(t) \in Nat /\ Len(s \o t) = Len(s) + Len(t)
      /\ \A i \in 1..Len(s) : (s \o t)[i] = s[i]
      /\ \A i \in (Len(s) + 1)..(Len(s) + Len(t)) : (s \o t)[i] = t[i - Len(s)]
  OBVIOUS
<1> QED BY <1>1 DEF Run

\* A part can be cut anywhere.
LEMMA RunCut ==
    ASSUME NEW s \in Seq(Nat), NEW k \in 0..Len(s), NEW n \in Nat, NEW m \in Nat,
           m = n + k, Run(s, n)
    PROVE  Run(SubSeq(s, 1, k), n) /\ Run(SubSeq(s, k + 1, Len(s)), m)
<1> DEFINE p == SubSeq(s, 1, k)
           q == SubSeq(s, k + 1, Len(s))
<1>1. Len(s) \in Nat /\ Len(p) = k /\ \A i \in 1..k : p[i] = s[i]
  OBVIOUS
<1>2. Len(q) = Len(s) - k /\ \A i \in 1..(Len(s) - k) : q[i] = s[k + i]
  OBVIOUS
<1> HIDE DEF p, q
<1>3. ASSUME NEW i \in 1..Len(p) PROVE p[i] = n + i
  <2>1. i \in 1..Len(s) /\ p[i] = s[i]
    BY <1>1
  <2> QED BY <2>1 DEF Run
<1>4. ASSUME NEW i \in 1..Len(q) PROVE q[i] = m + i
  <2>1. k + i \in 1..Len(s) /\ q[i] = s[k + i]
    BY <1>1, <1>2
  <2>2. s[k + i] = n + (k + i)
    BY <2>1 DEF Run
  <2> QED BY <1>1, <1>2, <2>1, <2>2
<1> QED BY SMTT(30), <1>3, <1>4 DEF Run, p, q

\* One byte is a prefix of one byte.
LEMMA ByteCut ==
    ASSUME NEW s \in Seq(Nat), NEW t \in Seq(Nat), t # <<>>
    PROVE  /\ 1 \in 0..Len(t)
           /\ Append(s, Head(t)) = s \o SubSeq(t, 1, 1) /\ Tail(t) = SubSeq(t, 1 + 1, Len(t))
<1>1. 1 \in 0..Len(t)
  OBVIOUS
<1>2. Append(s, Head(t)) = s \o SubSeq(t, 1, 1)
  OBVIOUS
<1>3. Tail(t) = SubSeq(t, 1 + 1, Len(t))
  OBVIOUS
<1> QED BY <1>1, <1>2, <1>3

\* Without its only byte a sequence is empty.
LEMMA LastByte ==
    ASSUME NEW t \in Seq(Nat), Len(t) = 1
    PROVE  Tail(t) = <<>>
<1>1. t # <<>>
  <2>1. Len(<<>>) = 0
    OBVIOUS
  <2>2. Len(t) # 0
    OBVIOUS
  <2> QED BY ONLY <2>1, <2>2
<1>2. Tail(t) \in Seq(Nat) /\ Len(Tail(t)) = 0
  BY <1>1
<1>3. \A u \in Seq(Nat) : Len(u) = 0 => u = <<>>
  OBVIOUS
<1> QED BY ONLY Zenon, <1>2, <1>3

\* The next byte enters a direction.
LEMMA PipeEnter ==
    ASSUME NEW a \in Seq(Nat), NEW b \in Seq(Nat), NEW c \in Seq(Nat), NEW d \in Seq(Nat),
           NEW n \in Nat, Pipe(a, b, c, d, n)
    PROVE  Pipe(a, b, c, d \o <<n + 1>>, n + 1)
<1> DEFINE e == <<n + 1>>
<1>1. e \in Seq(Nat) /\ Len(e) = 1 /\ e[1] = n + 1
  OBVIOUS
<1> HIDE DEF e
<1>2. PICK x, y, z \in Nat :
        /\ Len(a) = x /\ x + Len(b) = y /\ y + Len(c) = z /\ z + Len(d) = n
        /\ Run(a, 0) /\ Run(b, x) /\ Run(c, y) /\ Run(d, z)
  BY DEF Pipe
<1>3. Run(e, n)
  BY <1>1 DEF Run
<1>4. Run(d \o e, z)
  BY <1>1, <1>2, <1>3, RunJoin
<1>5. z + Len(d \o e) = n + 1
  <2>1. Len(d \o e) = Len(d) + Len(e)
    BY Zenon, <1>1, AppendFacts
  <2>2. \A l, m \in Nat : z + l = n /\ m = l + 1 => z + m = n + 1
    OBVIOUS
  <2>3. Len(d) \in Nat /\ Len(d \o e) \in Nat
    BY <1>1, AppendFacts
  <2>4. Len(d \o e) = Len(d) + 1
    BY ONLY <1>1, <2>1
  <2> QED BY ONLY Zenon, <1>2, <2>2, <2>3, <2>4
<1>6. Pipe(a, b, c, d \o e, n + 1)
  BY ZenonT(30), <1>2, <1>4, <1>5 DEF Pipe
<1> QED BY <1>6 DEF e

\* Bytes move from the second place to the first.
LEMMA PipeArrive ==
    ASSUME NEW a \in Seq(Nat), NEW b \in Seq(Nat), NEW c \in Seq(Nat), NEW d \in Seq(Nat),
           NEW n \in Nat, Pipe(a, b, c, d, n), NEW k \in 0..Len(b)
    PROVE  Pipe(a \o SubSeq(b, 1, k), SubSeq(b, k + 1, Len(b)), c, d, n)
<1> DEFINE p == SubSeq(b, 1, k)
           q == SubSeq(b, k + 1, Len(b))
<1>1. PICK x, y, z \in Nat :
        /\ Len(a) = x /\ x + Len(b) = y /\ y + Len(c) = z /\ z + Len(d) = n
        /\ Run(a, 0) /\ Run(b, x) /\ Run(c, y) /\ Run(d, z)
  BY DEF Pipe
<1>2. PICK w \in Nat : w = x + k
  OBVIOUS
<1>3. p \in Seq(Nat) /\ Len(p) = k /\ q \in Seq(Nat) /\ Len(q) = Len(b) - k
  BY PrefixFacts
<1>4. Run(p, x) /\ Run(q, w)
  BY <1>1, <1>2, RunCut
<1> HIDE DEF p, q
<1>5. Run(a \o p, 0)
  BY SMTT(30), <1>1, <1>3, <1>4, RunJoin
<1>6. Len(a \o p) = w /\ w + Len(q) = y
  <2>1. Len(a \o p) = Len(a) + Len(p)
    BY Zenon, <1>3, AppendFacts
  <2>2. \A l, m \in Nat : x + l = y /\ m = l - k => w + m = y
    BY <1>2
  <2>3. Len(b) \in Nat /\ Len(q) \in Nat
    BY <1>3
  <2>4. Len(a \o p) = w
    BY ONLY <1>1, <1>2, <1>3, <2>1
  <2> QED BY ONLY Zenon, <1>1, <1>3, <2>2, <2>3, <2>4
<1>7. Pipe(a \o p, q, c, d, n)
  BY ZenonT(30), <1>1, <1>4, <1>5, <1>6 DEF Pipe
<1> QED BY <1>7 DEF p, q

\* Bytes move from the third place to the second.
LEMMA PipeAdvance ==
    ASSUME NEW a \in Seq(Nat), NEW b \in Seq(Nat), NEW c \in Seq(Nat), NEW d \in Seq(Nat),
           NEW n \in Nat, Pipe(a, b, c, d, n), NEW k \in 0..Len(c)
    PROVE  Pipe(a, b \o SubSeq(c, 1, k), SubSeq(c, k + 1, Len(c)), d, n)
<1> DEFINE p == SubSeq(c, 1, k)
           q == SubSeq(c, k + 1, Len(c))
<1>1. PICK x, y, z \in Nat :
        /\ Len(a) = x /\ x + Len(b) = y /\ y + Len(c) = z /\ z + Len(d) = n
        /\ Run(a, 0) /\ Run(b, x) /\ Run(c, y) /\ Run(d, z)
  BY DEF Pipe
<1>2. PICK w \in Nat : w = y + k
  OBVIOUS
<1>3. p \in Seq(Nat) /\ Len(p) = k /\ q \in Seq(Nat) /\ Len(q) = Len(c) - k
  BY PrefixFacts
<1>4. Run(p, y) /\ Run(q, w)
  BY <1>1, <1>2, RunCut
<1> HIDE DEF p, q
<1>5. Run(b \o p, x)
  BY <1>1, <1>3, <1>4, RunJoin
<1>6. x + Len(b \o p) = w /\ w + Len(q) = z
  <2>1. Len(b \o p) = Len(b) + Len(p)
    BY Zenon, <1>3, AppendFacts
  <2>2. /\ \A l, m \in Nat : x + l = y /\ m = l + k => x + m = w
        /\ \A l, m \in Nat : y + l = z /\ m = l - k => w + m = z
    BY <1>2
  <2>3. Len(b) \in Nat /\ Len(b \o p) \in Nat /\ Len(c) \in Nat /\ Len(q) \in Nat
    BY <1>3, AppendFacts
  <2>4. Len(b \o p) = Len(b) + k
    BY ONLY <1>3, <2>1
  <2> QED BY ONLY Zenon, <1>1, <1>3, <2>2, <2>3, <2>4
<1>7. Pipe(a, b \o p, q, d, n)
  BY ZenonT(30), <1>1, <1>4, <1>5, <1>6 DEF Pipe
<1> QED BY <1>7 DEF p, q

\* All bytes move from the last place to the third, when that is empty.
LEMMA PipeFill ==
    ASSUME NEW a \in Seq(Nat), NEW b \in Seq(Nat), NEW d \in Seq(Nat),
           NEW n \in Nat, Pipe(a, b, <<>>, d, n)
    PROVE  Pipe(a, b, d, <<>>, n)
<1>1. PICK x, y, z \in Nat :
        /\ Len(a) = x /\ x + Len(b) = y /\ y + Len(<<>>) = z /\ z + Len(d) = n
        /\ Run(a, 0) /\ Run(b, x) /\ Run(<<>>, y) /\ Run(d, z)
  BY DEF Pipe
<1>2. y = z /\ n + Len(<<>>) = n /\ Run(<<>>, n)
  BY <1>1 DEF Run
<1> QED BY <1>1, <1>2 DEF Pipe

\* What has arrived are the first bytes.
LEMMA PipeExact ==
    ASSUME NEW a \in Seq(Nat), NEW b \in Seq(Nat), NEW c \in Seq(Nat), NEW d \in Seq(Nat),
           NEW n \in Nat, Pipe(a, b, c, d, n)
    PROVE  FirstBytes(a, n)
BY DEF Pipe, Run, FirstBytes

\* Where the bytes are, until a checkpoint is restored.
Inward == Pipe(guestGot, data[1], bytes["in"], fromClient, clientSent)
Outward == Pipe(clientGot, toClient, bytes["out"], data[0], guestSent)

\* The copy to the client reads only when it holds nothing.
Emptied ==
    /\ copy["out"] \in {"off", "check", "read", "wait"} => bytes["out"] = <<>>
    /\ server \in {"accept", "register"} => copy["out"] = "off"

Stream ==
    /\ toClient \in Seq(Nat) /\ guestGot \in Seq(Nat) /\ clientGot \in Seq(Nat)
    /\ Emptied
    /\ ~restored => Inward /\ Outward

\* The sequences and numbers that the places of a byte are.
LEMMA StreamTypes ==
    ASSUME IndInv, Stream
    PROVE  /\ \A s \in {guestGot, data[1], bytes["in"], fromClient, clientGot, toClient,
                        bytes["out"], data[0]} : s \in Seq(Nat)
           /\ clientSent \in Nat /\ guestSent \in Nat
BY DEF IndInv, MemoryTypes, BridgeTypes, Stream, Contents, Side, Copy

\* Steps that move no byte.
LEMMA StillSteps ==
    ASSUME IndInv, Stream,
           \/ StopMark \/ StopClose \/ Accept \/ AcceptFails \/ Register \/ FirstFinished \/ Served
           \/ Close \/ CloseReturns \/ OutCheck \/ OutWait \/ InCapacity \/ InWait
           \/ ClientConnects \/ ClientCloses \/ GuestCloses \/ GuestCaptures
    PROVE  Stream'
<1>1. UNCHANGED <<data, bytes, toClient, fromClient, outside>>
  BY DEF StopMark, StopClose, CloseEnd, Accept, AcceptFails, Register, FirstFinished, Served, Close,
         CloseReturns, OutCheck, ReadReady, OutWait, InCapacity, WriteCapacity, InWait,
         ClientConnects, ClientCloses, GuestCloses, GuestCaptures, CaptureCheckpoint, memory,
         held, conn, bridge
<1>2. Emptied'
  BY Zenon, <1>1 DEF IndInv, BridgeTypes, Stream, Emptied, Step, Copy, StopMark, StopClose, Accept, AcceptFails,
              Register, FirstFinished, Served, Close, CloseReturns, OutCheck, OutWait, InCapacity,
              InWait, ClientConnects, ClientCloses, GuestCloses, GuestCaptures, bridge
<1> QED BY <1>1, <1>2 DEF Stream, Inward, Outward, outside

\* Bytes on their way to the client.
LEMMA OutwardSteps ==
    ASSUME IndInv, Stream, OutRead \/ OutWrite \/ ClientReceives \/ GuestSends
    PROVE  Stream'
<1>1. CASE OutRead
  <2>1. CASE UNCHANGED <<memory, bytes>>
    <3>1. Emptied'
      BY <1>1, <2>1 DEF IndInv, BridgeTypes, Stream, Emptied, OutRead, Step, Copy
    <3> QED BY SMTT(30), <1>1, <2>1, <3>1 DEF Stream, Inward, Outward, OutRead, memory, conn, outside
  <2>2. CASE /\ bytes' = [bytes EXCEPT !["out"] = data[0]] /\ Read(0, Len(data[0]))
             /\ Step("out", "write")
    <3>1. /\ bytes'["out"] = data[0] /\ bytes'["in"] = bytes["in"] /\ bytes["out"] = <<>>
          /\ data'[1] = data[1] /\ data'[0] = SubSeq(data[0], Len(data[0]) + 1, Len(data[0]))
      BY <1>1, <2>2 DEF IndInv, MemoryTypes, Contents, BridgeTypes, Stream, Emptied, OutRead, Read,
                        Copy, Side
    <3>2. data'[0] = <<>>
      BY SMTT(30), <3>1, StreamTypes
    <3>3. Emptied'
      BY <1>1, <2>2 DEF IndInv, BridgeTypes, Stream, Emptied, OutRead, Step, Copy
    <3>4. ~restored => Pipe(clientGot, toClient, data[0], <<>>, guestSent)
      BY <3>1, StreamTypes, PipeFill DEF Stream, Outward
    <3> QED BY Zenon, <1>1, <3>1, <3>2, <3>3, <3>4 DEF Stream, Inward, Outward, OutRead, conn, outside
  <2> QED BY <1>1, <2>1, <2>2 DEF OutRead
<1>2. CASE OutWrite
  <2>1. CASE UNCHANGED <<bytes, toClient>>
    <3>1. Emptied'
      BY <1>2, <2>1 DEF IndInv, BridgeTypes, Stream, Emptied, OutWrite, Step, Copy
    <3> QED BY <1>2, <2>1, <3>1 DEF Stream, Inward, Outward, OutWrite, memory, outside
  <2>2. CASE /\ toClient' = Append(toClient, Head(bytes["out"]))
             /\ bytes' = [bytes EXCEPT !["out"] = Tail(@)]
             /\ Step("out", IF Len(bytes["out"]) = 1 THEN "check" ELSE "write")
    <3>1. /\ bytes'["out"] = Tail(bytes["out"]) /\ bytes'["in"] = bytes["in"]
          /\ bytes["out"] # <<>>
      BY <1>2, <2>2 DEF IndInv, BridgeTypes, OutWrite, Copy
    <3>2. /\ 1 \in 0..Len(bytes["out"])
          /\ toClient' = toClient \o SubSeq(bytes["out"], 1, 1)
          /\ bytes'["out"] = SubSeq(bytes["out"], 1 + 1, Len(bytes["out"]))
      BY Zenon, <2>2, <3>1, StreamTypes, ByteCut
    <3>3. ~restored => Pipe(clientGot, toClient', bytes'["out"], data[0], guestSent)
      <4>1. ASSUME ~restored
            PROVE  Pipe(clientGot, toClient \o SubSeq(bytes["out"], 1, 1),
                        SubSeq(bytes["out"], 1 + 1, Len(bytes["out"])), data[0], guestSent)
        BY ZenonT(30), <3>2, <4>1, StreamTypes, PipeAdvance DEF Stream, Outward
      <4> QED BY ONLY <3>2, <4>1
    <3>4. toClient' \in Seq(Nat)
      BY <3>2, StreamTypes, PrefixFacts, AppendFacts
    <3>5. Len(bytes["out"]) = 1 => bytes'["out"] = <<>>
      BY <3>1, StreamTypes, LastByte
    <3>6. Emptied'
      BY SMTT(30), <1>2, <2>2, <3>5 DEF IndInv, BridgeTypes, Stream, Emptied, OutWrite, Step, Copy
    <3> QED BY <1>2, <3>1, <3>3, <3>4, <3>6 DEF Stream, Inward, Outward, OutWrite, memory, outside
  <2> QED BY <1>2, <2>1, <2>2 DEF OutWrite
<1>3. CASE ClientReceives
  <2>1. /\ 1 \in 0..Len(toClient) /\ clientGot' = clientGot \o SubSeq(toClient, 1, 1)
        /\ toClient' = SubSeq(toClient, 1 + 1, Len(toClient))
    BY <1>3, StreamTypes, ByteCut DEF ClientReceives
  <2>2. ~restored => Pipe(clientGot', toClient', bytes["out"], data[0], guestSent)
    BY Zenon, <2>1, StreamTypes, PipeArrive DEF Stream, Outward
  <2>3. clientGot' \in Seq(Nat) /\ toClient' \in Seq(Nat)
    BY SMTT(30), <2>1, StreamTypes, PrefixFacts, AppendFacts
  <2> QED BY SMTT(30), <1>3, <2>2, <2>3 DEF Stream, Emptied, Inward, Outward, ClientReceives, memory, held
<1>4. CASE GuestSends
  <2>1. data'[0] = data[0] \o <<guestSent + 1>> /\ data'[1] = data[1]
    BY <1>4 DEF IndInv, MemoryTypes, Contents, GuestSends, Write, Peer, Side
  <2>2. ~restored => Pipe(clientGot, toClient, bytes["out"], data'[0], guestSent + 1)
    <3>1. ASSUME ~restored
          PROVE  Pipe(clientGot, toClient, bytes["out"], data[0] \o <<guestSent + 1>>, guestSent + 1)
      BY SMTT(30), <3>1, StreamTypes, PipeEnter DEF Stream, Outward
    <3> QED BY SMTT(30), <2>1, <3>1
  <2> QED BY <1>4, <2>1, <2>2 DEF Stream, Emptied, Inward, Outward, GuestSends, bridge, held, conn
<1> QED BY <1>1, <1>2, <1>3, <1>4

\* Bytes on their way to the guest.
LEMMA InwardSteps ==
    ASSUME IndInv, Stream, InRecv \/ InWrite \/ ClientSends \/ GuestReceives
    PROVE  Stream'
<1>1. CASE InRecv
  <2>1. Emptied'
    BY SMTT(30), <1>1 DEF IndInv, BridgeTypes, Stream, Emptied, InRecv, Step, Copy
  <2>2. CASE UNCHANGED <<bytes, fromClient>>
    BY SMTT(30), <1>1, <2>1, <2>2 DEF Stream, Inward, Outward, InRecv, memory, outside
  <2>3. CASE bytes' = [bytes EXCEPT !["in"] = fromClient] /\ fromClient' = <<>>
    <3>1. /\ bytes'["in"] = fromClient /\ bytes'["out"] = bytes["out"] /\ bytes["in"] = <<>>
      BY SMTT(30), <1>1, <2>3 DEF IndInv, BridgeTypes, InRecv, Copy
    <3>2. ~restored => Pipe(guestGot, data[1], fromClient, <<>>, clientSent)
      BY <3>1, StreamTypes, PipeFill DEF Stream, Inward
    <3> QED BY <1>1, <2>1, <2>3, <3>1, <3>2 DEF Stream, Inward, Outward, InRecv, memory, outside
  <2> QED BY <1>1, <2>2, <2>3 DEF InRecv
<1>2. CASE InWrite
  <2>1. Emptied'
    BY SMTT(30), <1>2 DEF IndInv, BridgeTypes, Stream, Emptied, InWrite, Step, Copy
  <2>2. CASE UNCHANGED <<memory, bytes>>
    BY SMTT(30), <1>2, <2>1, <2>2 DEF Stream, Inward, Outward, InWrite, memory, conn, outside
  <2>3. CASE /\ Write(0, Part)
             /\ bytes' = [bytes EXCEPT !["in"] = SubSeq(@, Len(Part) + 1, Len(@))]
    <3>1. PICK k \in 0..Len(bytes["in"]) : Part = SubSeq(bytes["in"], 1, k) /\ Len(Part) = k
      <4>1. Len(bytes["in"]) \in Nat /\ room \in Nat
        BY DEF IndInv, BridgeTypes, Copy
      <4>2. PICK k \in 0..Len(bytes["in"]) : Part = SubSeq(bytes["in"], 1, k)
        <5>1. CASE Len(bytes["in"]) < room
          BY <4>1, <5>1 DEF Part
        <5>2. CASE ~(Len(bytes["in"]) < room)
          BY <4>1, <5>2 DEF Part
        <5> QED BY <5>1, <5>2
      <4>3. Len(SubSeq(bytes["in"], 1, k)) = k
        BY Zenon, StreamTypes, PrefixFacts
      <4> QED BY ONLY Zenon, <4>2, <4>3
    <3>2. /\ data'[1] = data[1] \o SubSeq(bytes["in"], 1, k) /\ data'[0] = data[0]
      BY SMTT(30), <2>3, <3>1 DEF IndInv, MemoryTypes, Contents, Write, Peer, Side
    <3>3. /\ bytes'["in"] = SubSeq(bytes["in"], k + 1, Len(bytes["in"]))
          /\ bytes'["out"] = bytes["out"]
      BY Zenon, <2>3, <3>1 DEF IndInv, BridgeTypes, Copy
    <3>4. ~restored => Pipe(guestGot, data'[1], bytes'["in"], fromClient, clientSent)
      <4>1. ASSUME ~restored
            PROVE  Pipe(guestGot, data[1] \o SubSeq(bytes["in"], 1, k),
                        SubSeq(bytes["in"], k + 1, Len(bytes["in"])), fromClient, clientSent)
        BY Zenon, <4>1, StreamTypes, PipeAdvance DEF Stream, Inward
      <4> QED BY ONLY <3>2, <3>3, <4>1
    <3> QED BY <1>2, <2>1, <3>2, <3>3, <3>4 DEF Stream, Inward, Outward, InWrite, conn, outside
  <2> QED BY <1>2, <2>2, <2>3 DEF InWrite
<1>3. CASE ClientSends
  <2>1. ASSUME ~restored
        PROVE  Pipe(guestGot, data[1], bytes["in"], Append(fromClient, clientSent + 1), clientSent + 1)
    <3>1. Pipe(guestGot, data[1], bytes["in"], fromClient \o <<clientSent + 1>>, clientSent + 1)
      BY ZenonT(30), <2>1, StreamTypes, PipeEnter DEF Stream, Inward
    <3>2. Append(fromClient, clientSent + 1) = fromClient \o <<clientSent + 1>>
      <4>1. fromClient \in Seq(Nat) /\ clientSent \in Nat
        BY StreamTypes
      <4> QED BY <4>1
    <3> QED BY ONLY Zenon, <3>1, <3>2
  <2> QED BY <1>3, <2>1 DEF Stream, Emptied, Inward, Outward, ClientSends, memory, held
<1>4. CASE GuestReceives
  <2>1. data[1] # <<>>
    BY <1>4 DEF GuestReceives, ReadBlocks
  <2>2. /\ guestGot' = Append(guestGot, Head(data[1])) /\ data'[0] = data[0]
        /\ data'[1] = SubSeq(data[1], 1 + 1, Len(data[1]))
    BY <1>4 DEF IndInv, MemoryTypes, Contents, GuestReceives, Read, Side
  <2>3. 1 \in 0..Len(data[1]) /\ guestGot' = guestGot \o SubSeq(data[1], 1, 1)
    BY Zenon, <2>1, <2>2, StreamTypes, ByteCut
  <2>4. ~restored => Pipe(guestGot', data'[1], bytes["in"], fromClient, clientSent)
    <3>1. ASSUME ~restored
          PROVE  Pipe(guestGot \o SubSeq(data[1], 1, 1), SubSeq(data[1], 1 + 1, Len(data[1])),
                      bytes["in"], fromClient, clientSent)
      BY Zenon, <2>3, <3>1, StreamTypes, PipeArrive DEF Stream, Inward
    <3> QED BY ONLY Zenon, <2>2, <2>3, <3>1
  <2>5. guestGot' \in Seq(Nat)
    BY SMTT(30), <2>3, StreamTypes, PrefixFacts, AppendFacts
  <2> QED BY <1>4, <2>2, <2>4, <2>5 DEF Stream, Emptied, Inward, Outward, GuestReceives, bridge,
                                        held, conn
<1> QED BY <1>1, <1>2, <1>3, <1>4

\* Client and guest receive the bytes that were sent, in order and with none
\* missing in the middle, whatever the capacities and whoever closes.
THEOREM StreamSafe == Spec => []StreamExact
<1>1. Init => Stream
  <2> SUFFICES ASSUME Init PROVE Stream
    OBVIOUS
  <2>1. Pipe(<<>>, <<>>, <<>>, <<>>, 0)
    BY DEF Pipe, Run
  <2> QED BY <2>1 DEF Init, MemoryInit, Stream, Emptied, Inward, Outward, Copy, Side
<1>2. IndInv /\ Stream /\ [Next]_vars => Stream'
  <2> SUFFICES ASSUME IndInv, Stream, [Next]_vars PROVE Stream'
    BY SMTT(30)
  <2>1. CASE UNCHANGED vars
    BY ZenonT(30), <2>1 DEF vars, Stream, Emptied, Inward, Outward
  <2>2. CASE GuestRestores
    BY <2>2 DEF GuestRestores, Stream, Emptied, bridge, held, conn
  <2> QED BY <2>1, <2>2, StillSteps, OutwardSteps, InwardSteps DEF Next, Out, In
<1>3. IndInv /\ Stream => StreamExact
  BY Zenon, StreamTypes, PipeExact DEF Stream, Inward, Outward, StreamExact
<1> QED BY <1>1, <1>2, <1>3, Inductive, PTL DEF Spec

=============================================================================
