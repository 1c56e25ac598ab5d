--------------------------- MODULE SwitchQmpProofs --------------------------
(***************************************************************************)
(* Safety of the Ethernet switch and of the QMP client, for any number of  *)
(* ports and calls: where frames go and in which order, who is owed which  *)
(* reply and who holds the write slot.  The two do not interact: no        *)
(* theorem is about both.                                                  *)
(***************************************************************************)
EXTENDS EthernetSwitch, QmpClient, TLAPS

-----------------------------------------------------------------------------
(* EthernetSwitch: where frames go, and in which order.                   *)


\* A queue that takes a frame at its tail is a queue of frames, one longer.
LEMMA FrameAppended ==
    ASSUME NEW S, NEW q \in Seq(S), NEW e \in S
    PROVE  /\ Append(q, e) \in Seq(S)
           /\ Len(Append(q, e)) = Len(q) + 1
           /\ \A i \in 1..Len(q) : Append(q, e)[i] = q[i]
           /\ Append(q, e)[Len(q) + 1] = e
  OBVIOUS

\* Taking the head of a queue shifts every later frame by one.
LEMMA FrameTaken ==
    ASSUME NEW S, NEW q \in Seq(S), q # <<>>
    PROVE  /\ Head(q) \in S
           /\ Tail(q) \in Seq(S)
           /\ Len(Tail(q)) = Len(q) - 1
           /\ Head(q) = q[1]
           /\ Len(q) >= 1
           /\ \A i \in 1..Len(Tail(q)) : Tail(q)[i] = q[i + 1]
  OBVIOUS

\* Send stores, in the table and in the queues, values of their types.
LEMMA SendTypes ==
    ASSUME SwitchTypeOK, SwitchAssumption, NEW p \in Port,
           NEW src \in Mac, NEW dst \in Mac
    PROVE  /\ Learn(p, src) \in [Mac -> Port \cup {NoPort}]
           /\ [src |-> src, dst |-> dst, from |-> p, seq |-> nsent + 1] \in Frame
  BY DEF SwitchTypeOK, Learn, Frame

\* Type correctness of the switch: no operation leaves a port both connected
\* and closed, a table entry without a port or a malformed queue.
THEOREM SwitchTypes == SwitchSpec => []SwitchTypeOK
<1>1. SwitchInit => SwitchTypeOK
  BY DEF SwitchInit, SwitchTypeOK
<1>2. SwitchTypeOK /\ [SwitchNext]_switchVars => SwitchTypeOK'
  <2> SUFFICES ASSUME SwitchTypeOK, [SwitchNext]_switchVars PROVE SwitchTypeOK'
    OBVIOUS
  <2> USE SwitchAssumption
  <2>1. CASE UNCHANGED switchVars
    BY <2>1 DEF SwitchTypeOK, switchVars
  <2>2. ASSUME NEW p \in Port, Connect(p) PROVE SwitchTypeOK'
    BY <2>2 DEF SwitchTypeOK, Connect
  <2>3. ASSUME NEW p \in Port, NEW src \in Mac, NEW dst \in Mac, Send(p, src, dst)
        PROVE SwitchTypeOK'
    <3> DEFINE frame == [src |-> src, dst |-> dst, from |-> p, seq |-> nsent + 1]
    <3>1. frame \in Frame
      BY SendTypes
    <3>2. \A q \in Port : Append(queue[q], frame) \in Seq(Frame)
      BY <3>1, FrameAppended DEF SwitchTypeOK
    <3>3. queue' \in [Port -> Seq(Frame)]
      BY <3>2, <2>3 DEF SwitchTypeOK, Send
    <3>4. {learned', seen'} \subseteq [Mac -> Port \cup {NoPort}]
      BY <2>3, SendTypes DEF Send, SwitchTypeOK
    <3> QED
      BY <2>3, <3>3, <3>4 DEF SwitchTypeOK, Send
  <2>4. ASSUME NEW p \in Port, Receive(p) PROVE SwitchTypeOK'
    <3>1. queue[p] \in Seq(Frame) /\ queue[p] # <<>>
      BY <2>4 DEF SwitchTypeOK, Receive
    <3>2. Tail(queue[p]) \in Seq(Frame) /\ Head(queue[p]) \in Frame
      BY <3>1, FrameTaken
    <3>3. Head(queue[p]).seq \in Nat
      BY <3>2 DEF Frame
    <3> QED
      BY <2>4, <3>2, <3>3 DEF SwitchTypeOK, Receive, Dequeue
  <2>5. ASSUME NEW p \in Port, ClosePort(p) PROVE SwitchTypeOK'
    BY <2>5 DEF SwitchTypeOK, ClosePort, Purge
  <2> QED
    BY <2>1, <2>2, <2>3, <2>4, <2>5 DEF SwitchNext
<1> QED
  BY <1>1, <1>2, PTL DEF SwitchSpec

\* Close purges what it disconnects and Send learns only connected ports, so
\* the table never steers a frame to a guest that has gone.
THEOREM LearnedSafe == SwitchSpec => []LearnedPortsConnected
<1>1. SwitchInit => LearnedPortsConnected
  BY DEF SwitchInit, LearnedPortsConnected
<1>2. SwitchTypeOK /\ LearnedPortsConnected /\ [SwitchNext]_switchVars => LearnedPortsConnected'
  <2> SUFFICES ASSUME SwitchTypeOK, LearnedPortsConnected, [SwitchNext]_switchVars
               PROVE LearnedPortsConnected'
    OBVIOUS
  <2> USE SwitchAssumption DEF SwitchTypeOK, LearnedPortsConnected
  <2>1. CASE UNCHANGED switchVars
    BY <2>1 DEF switchVars
  <2>2. ASSUME NEW p \in Port, Connect(p) \/ Receive(p)
        PROVE LearnedPortsConnected'
    BY <2>2 DEF Connect, Receive
  <2>3. ASSUME NEW p \in Port, NEW src \in Mac, NEW dst \in Mac, Send(p, src, dst)
        PROVE LearnedPortsConnected'
    BY <2>3 DEF Send, Learn
  <2>4. ASSUME NEW p \in Port, ClosePort(p) PROVE LearnedPortsConnected'
    BY <2>4 DEF ClosePort, Purge
  <2> QED
    BY <2>1, <2>2, <2>3, <2>4 DEF SwitchNext
<1> QED
  BY <1>1, <1>2, SwitchTypes, PTL DEF SwitchSpec

\* Send never queues a frame on the port it came from.
THEOREM EchoFree == SwitchSpec => []NoEcho
<1>1. SwitchInit => NoEcho
  BY DEF SwitchInit, NoEcho
<1>2. SwitchTypeOK /\ NoEcho /\ [SwitchNext]_switchVars => NoEcho'
  <2> SUFFICES ASSUME SwitchTypeOK, NoEcho, [SwitchNext]_switchVars,
                      NEW r \in Port, NEW i \in DOMAIN queue'[r]
               PROVE queue'[r][i].from # r
    BY DEF NoEcho
  <2>0. queue[r] \in Seq(Frame)
    BY DEF SwitchTypeOK
  <2>1. ASSUME queue'[r] = queue[r] PROVE queue'[r][i].from # r
    BY <2>1 DEF NoEcho
  <2>2. ASSUME NEW p \in Port, NEW src \in Mac, NEW dst \in Mac, Send(p, src, dst)
        PROVE queue'[r][i].from # r
    <3> DEFINE frame == [src |-> src, dst |-> dst, from |-> p, seq |-> nsent + 1]
    <3>1. CASE r # p /\ queue'[r] = Append(queue[r], frame)
      <4>1. frame \in Frame
        BY SendTypes, SwitchAssumption
      <4>2. i \in 1..(Len(queue[r]) + 1)
        BY <3>1, <4>1, <2>0, FrameAppended
      <4>3. CASE i = Len(queue[r]) + 1
        BY <4>3, <4>1, <3>1, <2>0, FrameAppended
      <4>4. CASE i \in 1..Len(queue[r])
        <5>1. queue'[r][i] = queue[r][i]
          BY <4>4, <4>1, <3>1, <2>0, FrameAppended
        <5> QED
          BY <5>1, <4>4, <2>0 DEF NoEcho
      <4> QED
        BY <4>2, <4>3, <4>4, <2>0
    <3> QED
      BY <3>1, <2>1, <2>2 DEF Send, Peers, SwitchTypeOK
  <2>3. ASSUME NEW p \in Port, Receive(p) PROVE queue'[r][i].from # r
    <3>1. CASE p = r
      <4>1. queue'[r] = Tail(queue[r]) /\ queue[r] # <<>>
        BY <2>3, <3>1 DEF Receive, Dequeue, SwitchTypeOK
      <4>2. i + 1 \in 1..Len(queue[r]) /\ queue'[r][i] = queue[r][i + 1]
        BY <4>1, <2>0, FrameTaken
      <4> QED
        BY <4>2, <2>0 DEF NoEcho
    <3> QED
      BY <3>1, <2>1, <2>3 DEF Receive, SwitchTypeOK
  <2>4. ASSUME NEW p \in Port, ClosePort(p) PROVE queue'[r][i].from # r
    BY <2>4, <2>1 DEF ClosePort, SwitchTypeOK
  <2> QED
    BY <2>1, <2>2, <2>3, <2>4 DEF SwitchNext, switchVars, Connect
<1> QED
  BY <1>1, <1>2, SwitchTypes, PTL DEF SwitchSpec

(* The order of frames.                                                    *)

\* Serial numbers rise along a queue, above low and up to high.
Ordered(q, low, high) ==
    /\ \A i \in DOMAIN q : q[i].seq > low /\ q[i].seq <= high
    /\ \A i, j \in DOMAIN q : i < j => q[i].seq < q[j].seq

\* Every queue is ordered above what its port has received, and nothing is
\* numbered beyond the last Send.
Stamped == \A p \in Port : last[p] <= nsent /\ Ordered(queue[p], last[p], nsent)

\* The frames of a queue are numbered.
LEMMA Numbered ==
    ASSUME NEW q \in Seq(Frame)
    PROVE  DOMAIN q = 1..Len(q) /\ \A i \in DOMAIN q : q[i].seq \in Nat
<1>1. DOMAIN q = 1..Len(q) /\ \A i \in DOMAIN q : q[i] \in Frame
  OBVIOUS
<1>2. \A g \in Frame : g.seq \in Nat
  BY DEF Frame
<1> QED BY <1>1, <1>2

\* A queue stays ordered when a frame is numbered that it has no room for.
LEMMA OrderedNext ==
    ASSUME NEW q \in Seq(Frame), NEW low \in Nat, NEW high \in Nat, Ordered(q, low, high)
    PROVE  Ordered(q, low, high + 1)
BY Numbered DEF Ordered

\* A frame with the next number can be added at the end.
LEMMA OrderedAppend ==
    ASSUME NEW q \in Seq(Frame), NEW low \in Nat, NEW high \in Nat, low <= high,
           Ordered(q, low, high), NEW f \in Frame, f.seq = high + 1
    PROVE  Ordered(Append(q, f), low, high + 1)
<1> DEFINE a == Append(q, f)
<1>1. /\ DOMAIN q = 1..Len(q) /\ DOMAIN a = 1..(Len(q) + 1) /\ Len(q) \in Nat
      /\ a[Len(q) + 1] = f /\ \A i \in 1..Len(q) : a[i] = q[i]
  BY FrameAppended
<1>2. \A i \in 1..Len(q) : q[i].seq \in Nat
  BY <1>1, Numbered
<1> HIDE DEF a
<1>3. \A i \in DOMAIN a : a[i].seq > low /\ a[i].seq <= high + 1
  BY <1>1, <1>2 DEF Ordered
<1>4. ASSUME NEW i \in DOMAIN a, NEW j \in DOMAIN a, i < j PROVE a[i].seq < a[j].seq
  <2>1. i \in 1..Len(q)
    BY <1>1, <1>4
  <2>2. CASE j = Len(q) + 1
    BY <1>1, <1>2, <2>1, <2>2 DEF Ordered
  <2>3. CASE j \in 1..Len(q)
    BY <1>1, <1>4, <2>1, <2>3 DEF Ordered
  <2> QED BY <1>1, <1>4, <2>2, <2>3
<1> QED BY <1>3, <1>4 DEF Ordered, a

\* Without its first frame a queue is ordered above that frame.
LEMMA OrderedTail ==
    ASSUME NEW q \in Seq(Frame), NEW low \in Nat, NEW high \in Nat,
           Ordered(q, low, high), q # <<>>
    PROVE  Head(q).seq <= high /\ Ordered(Tail(q), Head(q).seq, high)
<1> DEFINE t == Tail(q)
<1>1. /\ DOMAIN q = 1..Len(q) /\ Len(q) \in Nat /\ Len(q) >= 1 /\ Head(q) = q[1]
      /\ DOMAIN t = 1..(Len(q) - 1)
      /\ \A i \in 1..(Len(q) - 1) : t[i] = q[i + 1]
  BY FrameTaken
<1> HIDE DEF t
<1>2. q[1].seq <= high
  BY <1>1 DEF Ordered
<1>3. ASSUME NEW i \in DOMAIN t PROVE t[i].seq > q[1].seq /\ t[i].seq <= high
  <2>1. i + 1 \in DOMAIN q /\ 1 \in DOMAIN q /\ 1 < i + 1 /\ t[i] = q[i + 1]
    BY <1>1
  <2>2. q[1].seq \in Nat /\ q[i + 1].seq \in Nat
    BY <2>1, Numbered
  <2> QED BY <2>1, <2>2 DEF Ordered
<1>4. ASSUME NEW i \in DOMAIN t, NEW j \in DOMAIN t, i < j PROVE t[i].seq < t[j].seq
  <2>1. i + 1 \in DOMAIN q /\ j + 1 \in DOMAIN q /\ i + 1 < j + 1
        /\ t[i] = q[i + 1] /\ t[j] = q[j + 1]
    BY <1>1, <1>4
  <2> QED BY <2>1 DEF Ordered
<1> QED BY <1>1, <1>2, <1>3, <1>4 DEF Ordered, t

\* Frames sent later have higher numbers and are added at the end of each
\* queue that has room, so a guest receives frames in the order of Send.
THEOREM OrderSafe == SwitchSpec => []DeliveredInOrder
<1>1. SwitchInit => Stamped
  BY DEF SwitchInit, Stamped, Ordered
<1>2. SwitchTypeOK /\ Stamped /\ [SwitchNext]_switchVars => Stamped'
  <2> SUFFICES ASSUME SwitchTypeOK, Stamped, [SwitchNext]_switchVars, NEW r \in Port
               PROVE  (last[r] <= nsent /\ Ordered(queue[r], last[r], nsent))'
    BY DEF Stamped
  <2>0. /\ queue[r] \in Seq(Frame) /\ last[r] \in Nat /\ nsent \in Nat
        /\ last[r] <= nsent /\ Ordered(queue[r], last[r], nsent)
    BY DEF SwitchTypeOK, Stamped
  <2>1. CASE UNCHANGED <<queue, last, nsent>>
    BY <2>0, <2>1
  <2>2. ASSUME NEW p \in Port, NEW src \in Mac, NEW dst \in Mac, Send(p, src, dst)
        PROVE  (last[r] <= nsent /\ Ordered(queue[r], last[r], nsent))'
    <3> DEFINE frame == [src |-> src, dst |-> dst, from |-> p, seq |-> nsent + 1]
    <3>1. frame \in Frame /\ frame.seq = nsent + 1
      BY SendTypes, SwitchAssumption
    <3>2. /\ last' = last /\ nsent' = nsent + 1
          /\ queue'[r] = queue[r] \/ queue'[r] = Append(queue[r], frame)
      BY <2>2 DEF Send
    <3> HIDE DEF frame
    <3>3. Ordered(Append(queue[r], frame), last[r], nsent + 1)
      BY <2>0, <3>1, OrderedAppend
    <3>4. Ordered(queue[r], last[r], nsent + 1)
      BY <2>0, OrderedNext
    <3>5. last'[r] <= nsent'
      BY <2>0, <3>2
    <3>6. Ordered(queue'[r], last'[r], nsent')
      BY Zenon, <3>2, <3>3, <3>4
    <3> QED BY <3>5, <3>6
  <2>3. ASSUME NEW p \in Port, Receive(p)
        PROVE  (last[r] <= nsent /\ Ordered(queue[r], last[r], nsent))'
    <3>1. CASE p # r
      BY <2>0, <2>3, <3>1 DEF Receive, SwitchTypeOK
    <3>2. CASE p = r
      <4>1. /\ queue[r] # <<>> /\ nsent' = nsent
            /\ queue'[r] = Tail(queue[r]) /\ last'[r] = Head(queue[r]).seq
        BY <2>3, <3>2 DEF Receive, Dequeue, SwitchTypeOK
      <4> QED BY <2>0, <4>1, OrderedTail
    <3> QED BY <3>1, <3>2
  <2>4. ASSUME NEW p \in Port, ClosePort(p)
        PROVE  (last[r] <= nsent /\ Ordered(queue[r], last[r], nsent))'
    <3>1. last' = last /\ nsent' = nsent /\ (queue'[r] = queue[r] \/ queue'[r] = <<>>)
      BY <2>4 DEF ClosePort, SwitchTypeOK
    <3>2. Ordered(<<>>, last[r], nsent)
      BY DEF Ordered
    <3> QED BY <2>0, <3>1, <3>2
  <2> QED BY <2>1, <2>2, <2>3, <2>4 DEF SwitchNext, switchVars, Connect
<1>3. Stamped => DeliveredInOrder
  BY DEF Stamped, Ordered, DeliveredInOrder
<1> QED BY <1>1, <1>2, <1>3, SwitchTypes, PTL DEF SwitchSpec

\* The table names, for each address it knows, the port it was last seen on,
\* and it knows no group address.
Following ==
    \A m \in Mac : learned[m] # NoPort => learned[m] = seen[m] /\ m \notin Group

\* Send learns an address it knows wherever it comes from, and Close forgets
\* the addresses of its port, so the table follows every station it knows.
THEOREM TableFollows == SwitchSpec => []Following
<1>1. SwitchInit => Following
  BY DEF SwitchInit, Following
<1>2. SwitchTypeOK /\ Following /\ [SwitchNext]_switchVars => Following'
  <2> SUFFICES ASSUME SwitchTypeOK, Following, [SwitchNext]_switchVars PROVE Following'
    OBVIOUS
  <2> USE SwitchAssumption DEF SwitchTypeOK, Following
  <2>1. CASE UNCHANGED <<learned, seen>>
    BY <2>1
  <2>2. ASSUME NEW p \in Port, NEW src \in Mac, NEW dst \in Mac, Send(p, src, dst)
        PROVE  Following'
    BY <2>2 DEF Send, Learn
  <2>3. ASSUME NEW p \in Port, ClosePort(p) PROVE Following'
    BY <2>3 DEF ClosePort, Purge
  <2> QED BY <2>1, <2>2, <2>3 DEF SwitchNext, switchVars, Connect, Receive
<1> QED BY <1>1, <1>2, SwitchTypes, PTL DEF SwitchSpec

\* Only Send makes a queue longer, by its frame, and for an address it knows
\* only on the port of the table it has just updated, where the station is.
THEOREM FollowsSafe == SwitchSpec => UnicastFollowsStation
<1>1. ASSUME SwitchTypeOK, Following', [SwitchNext]_switchVars, NEW q \in Port,
             Len(queue'[q]) > Len(queue[q])
      PROVE  LET f == queue'[q][Len(queue'[q])] IN
             f.dst \notin Group /\ learned'[f.dst] # NoPort => q = seen'[f.dst]
  <2>0. queue[q] \in Seq(Frame) /\ Len(queue[q]) \in Nat
    BY <1>1 DEF SwitchTypeOK
  <2>1. CASE queue'[q] = queue[q]
    BY <1>1, <2>0, <2>1
  <2>2. ASSUME NEW p \in Port, NEW src \in Mac, NEW dst \in Mac, Send(p, src, dst),
               queue'[q] # queue[q]
        PROVE  LET f == queue'[q][Len(queue'[q])] IN
               f.dst \notin Group /\ learned'[f.dst] # NoPort => q = seen'[f.dst]
    <3> DEFINE frame == [src |-> src, dst |-> dst, from |-> p, seq |-> nsent + 1]
    <3>1. q \in Peers(p, dst, learned') /\ queue'[q] = Append(queue[q], frame)
      BY <2>2 DEF Send
    <3>2. queue'[q][Len(queue'[q])] = frame
      <4>1. frame \in Frame
        BY <1>1, SendTypes, SwitchAssumption
      <4> QED BY <2>0, <3>1, <4>1, FrameAppended
    <3>3. dst \notin Group /\ learned'[dst] # NoPort => q = learned'[dst]
      BY <3>1 DEF Peers
    <3> QED BY <1>1, <3>2, <3>3 DEF Following
  <2>3. ASSUME NEW p \in Port, Receive(p), queue'[q] # queue[q] PROVE FALSE
    <3>1. queue[q] # <<>> /\ queue'[q] = Tail(queue[q])
      BY <1>1, <2>3 DEF Receive, Dequeue, SwitchTypeOK
    <3>2. Len(Tail(queue[q])) = Len(queue[q]) - 1
      BY <2>0, <3>1, FrameTaken
    <3> QED BY <1>1, <2>0, <3>1, <3>2
  <2>4. ASSUME NEW p \in Port, ClosePort(p), queue'[q] # queue[q] PROVE FALSE
    <3>1. queue'[q] = <<>>
      BY <1>1, <2>4 DEF ClosePort, SwitchTypeOK
    <3> QED BY <1>1, <2>0, <3>1
  <2> QED BY <1>1, <2>1, <2>2, <2>3, <2>4 DEF SwitchNext, switchVars, Connect
<1>2. SwitchTypeOK /\ Following' /\ [SwitchNext]_switchVars =>
        [\A q \in Port :
            Len(queue'[q]) > Len(queue[q]) =>
                LET f == queue'[q][Len(queue'[q])] IN
                f.dst \notin Group /\ learned'[f.dst] # NoPort => q = seen'[f.dst]]_switchVars
  BY <1>1
<1> QED BY <1>2, SwitchTypes, TableFollows, PTL DEF SwitchSpec, UnicastFollowsStation

-----------------------------------------------------------------------------
(* QmpClient: who is owed which reply, who holds the write slot.           *)

QmpTypes ==
    /\ DOMAIN pc = Process
    /\ pending \subseteq Call /\ taken \subseteq Call
    /\ reply \in [Call -> {"empty", "closed"} \cup Call]
    /\ result \in [Call -> {"none", "closed", "cancelled", "write"} \cup Call]
    /\ handing = Nothing \/ \E c \in Call : handing = [to |-> c, value |-> c]
    /\ pc[Reader] = "hand" => handing # Nothing

\* A call that something is owed to, by the pending map, the reader or fail,
\* or whose reply channel is full.
Expects(c) == c \in pending \/ c \in taken \/ handing.to = c \/ reply[c] # "empty"

\* The ways to be owed a message exclude each other, start with Register, and
\* fail is the only one to take calls from the map, once.
OwedOnce ==
    /\ \A c \in pending : c \notin taken /\ handing.to # c /\ reply[c] = "empty"
    /\ \A c \in taken : handing.to # c /\ reply[c] = "empty"
    /\ \A c \in Call : handing.to = c => reply[c] = "empty"
    /\ \A c \in Call :
          Expects(c) => pc[Caller(c)] \notin {"idle", "acquire", "recheck", "register"}
    /\ taken # {} => closed # "no"

\* The write slot belongs to the call between Acquire and Release, and a
\* callback lives inside that section.
WriteSlot ==
    /\ \A c \in Call :
          pc[Caller(c)] \in {"recheck", "register", "encode", "stop", "fail", "tell",
                             "close", "release"} => writes = c
    /\ \A c \in Call :
          pc[Callback(c)] \in {"armed", "fail", "tell", "close"} =>
              pc[Caller(c)] \in {"encode", "stop"}

QmpInv == QmpTypes /\ OwedOnce /\ WriteSlot

\* Every step of the client, its callers and QEMU keeps the invariant.
THEOREM QmpInductive ==
    Spec => []QmpInv
<1> USE QmpAssumption DEF QmpAssumption, QmpTypes, Expects
\* The goroutines of different calls, and those of one call, are different.
<1>Goroutines.
    /\ \A c \in Call : Caller(c) \in Process /\ Callback(c) \in Process
    /\ Reader \in Process /\ Closer \in Process
    /\ \A c, d \in Call : /\ Caller(c) = Caller(d) => c = d
                          /\ Callback(c) = Callback(d) => c = d
                          /\ Caller(c) # Callback(d)
    /\ \A c \in Call : /\ Caller(c) \notin {Reader, Closer}
                       /\ Callback(c) \notin {Reader, Closer}
    /\ Reader # Closer
    /\ \A p \in Process : \/ p \in {Reader, Closer}
                              \/ \E c \in Call : p = Caller(c) \/ p = Callback(c)
    /\ \A c \in Call : Role(Caller(c)) = "call" /\ Role(Callback(c)) = "callback"
    /\ Role(Reader) = "reader" /\ Role(Closer) = "close"
  BY DEF Caller, Callback, Reader, Closer, Process, Role

\* Initially nothing is owed and nobody writes.
<1>QmpInit.
    Init => QmpInv
  BY <1>Goroutines
     DEF Init, QmpInv, OwedOnce, WriteSlot, Nothing

\* shutdown: fail takes the pending calls once, and serves what it took.
<1>ShutdownSteps.
    ASSUME QmpInv, NEW p \in Process,
           Fail(p) \/ Tell(p) \/ CloseChannel(p)
    PROVE  QmpInv'
  <2>0. QmpInv
    BY <1>ShutdownSteps, Zenon
  <2> USE <2>0
  <2> USE <1>Goroutines DEF Goto
  <2>1. CASE Fail(p)
    BY <2>1 DEF QmpInv, OwedOnce, WriteSlot, Fail
  <2>2. CASE Tell(p)
    BY <2>2 DEF QmpInv, OwedOnce, WriteSlot, Tell
  <2>3. CASE CloseChannel(p)
    BY <2>3 DEF QmpInv, OwedOnce, WriteSlot, CloseChannel
  <2> QED BY <1>ShutdownSteps, <2>1, <2>2, <2>3

\* A call up to its entry in the pending map.
<1>EntrySteps.
    ASSUME QmpInv, NEW c \in Call,
           Begin(c) \/ Acquire(c) \/ Recheck(c) \/ Register(c)
    PROVE  QmpInv'
  <2>0. QmpInv
    BY <1>EntrySteps, Zenon
  <2> USE <2>0
  <2> USE <1>Goroutines DEF Goto
  <2>1. CASE Begin(c)
    BY <2>1 DEF QmpInv, OwedOnce, WriteSlot, Begin, Leave
  <2>2. CASE Acquire(c)
    BY <2>2 DEF QmpInv, OwedOnce, WriteSlot, Acquire, Leave
  <2>3. CASE Recheck(c)
    BY <2>3 DEF QmpInv, OwedOnce, WriteSlot, Recheck, Leave
  <2>4. CASE Register(c)
    BY <2>4 DEF QmpInv, OwedOnce, WriteSlot, Register, Leave
  <2> QED BY <1>EntrySteps, <2>1, <2>2, <2>3, <2>4

\* The write of a command, its callback and the release of the slot.
<1>WriteSteps.
    ASSUME QmpInv, NEW c \in Call,
           \/ Encode(c) \/ EncodeFails(c) \/ CallbackStarts(c)
           \/ Stop(c) \/ Release(c)
    PROVE  QmpInv'
  <2>0. QmpInv
    BY <1>WriteSteps, Zenon
  <2> USE <2>0
  <2> USE <1>Goroutines DEF Goto
  <2>1. CASE Encode(c)
    BY <2>1 DEF QmpInv, OwedOnce, WriteSlot, Encode
  <2>2. CASE EncodeFails(c)
    BY <2>2 DEF QmpInv, OwedOnce, WriteSlot, EncodeFails
  <2>3. CASE CallbackStarts(c)
    BY <2>3 DEF QmpInv, OwedOnce, WriteSlot, CallbackStarts
  <2>4. CASE Stop(c)
    BY <2>4 DEF QmpInv, OwedOnce, WriteSlot, Stop
  <2>5. CASE Release(c)
    BY <2>5 DEF QmpInv, OwedOnce, WriteSlot, Release, Leave
  <2> QED BY <1>WriteSteps, <2>1, <2>2, <2>3, <2>4, <2>5

\* A call that waits for its reply, and leaves.
<1>ReplySteps.
    ASSUME QmpInv, NEW c \in Call,
           Wait(c) \/ RemovePending(c) \/ Cancel(c)
    PROVE  QmpInv'
  <2>0. QmpInv
    BY <1>ReplySteps, Zenon
  <2> USE <2>0
  <2> USE <1>Goroutines DEF Goto
  <2>1. CASE Wait(c)
    BY <2>1 DEF QmpInv, OwedOnce, WriteSlot, Wait, Leave
  <2>2. CASE RemovePending(c)
    BY <2>2 DEF QmpInv, OwedOnce, WriteSlot, RemovePending
  <2>3. CASE Cancel(c)
    BY <2>3 DEF QmpInv, OwedOnce, WriteSlot, Cancel
  <2> QED BY <1>ReplySteps, <2>1, <2>2, <2>3

\* The reader takes a call from the map and hands over its reply.
<1>ReaderSteps.
    ASSUME QmpInv,
           Greeting \/ (\E c \in Call : Decode(c)) \/ Hand \/ DecodeFails
    PROVE  QmpInv'
  <2>0. QmpInv
    BY <1>ReaderSteps, Zenon
  <2> USE <2>0
  <2> USE <1>Goroutines DEF Goto
  <2>1. CASE Greeting
    BY <2>1 DEF QmpInv, OwedOnce, WriteSlot, Greeting
  <2>2. ASSUME NEW c \in Call, Decode(c) PROVE QmpInv'
    BY <2>2 DEF QmpInv, OwedOnce, WriteSlot, Decode, Nothing
  <2>3. CASE Hand
    BY <2>3 DEF QmpInv, OwedOnce, WriteSlot, Hand, Nothing
  <2>4. CASE DecodeFails
    BY <2>4 DEF QmpInv, OwedOnce, WriteSlot, DecodeFails
  <2> QED BY <1>ReaderSteps, <2>1, <2>2, <2>3, <2>4

\* Close.
<1>CloseSteps.
    ASSUME QmpInv, Close \/ CloseReturns
    PROVE  QmpInv'
  <2>0. QmpInv
    BY <1>CloseSteps, Zenon
  <2> USE <2>0
  <2> USE <1>Goroutines DEF Goto
  <2>1. CASE Close
    BY <2>1 DEF QmpInv, OwedOnce, WriteSlot, Close
  <2>2. CASE CloseReturns
    BY <2>2 DEF QmpInv, OwedOnce, WriteSlot, CloseReturns
  <2> QED BY <1>CloseSteps, <2>1, <2>2

<1>1. ASSUME QmpInv, [Next]_vars PROVE QmpInv'
  <2>1. CASE UNCHANGED vars
    BY <1>1, <2>1 DEF QmpInv, OwedOnce, WriteSlot, vars
  <2>2. CASE Next
    BY <1>1, <2>1, <2>2, <1>ShutdownSteps, <1>EntrySteps, <1>WriteSteps, <1>ReplySteps,
       <1>ReaderSteps, <1>CloseSteps
       DEF Next, Shutdown, Steps, Quiet
  <2> QED BY <1>1, <2>1, <2>2
<1> QED BY <1>1, <1>QmpInit, PTL DEF Spec

\* A cancellation fails the session only while its call owns the write slot.
THEOREM CancelSafe ==
    Spec => CancelHitsOwnWrite
<1>1. ASSUME QmpInv, [Next]_vars
      PROVE  [\A c \in Call : pc[Callback(c)] = "fail" /\ pc'[Callback(c)] # "fail"
                                => writes = c]_vars
  BY <1>1 DEF QmpInv, QmpTypes, WriteSlot
<1> QED BY <1>1, QmpInductive, PTL DEF Spec, CancelHitsOwnWrite

-----------------------------------------------------------------------------
(* What is counted.                                                        *)
INSTANCE FiniteSetTheorems

\* Learning one address adds at most one entry, and only below the limit;
\* purging only removes entries: the table stays within its limit.
THEOREM TableSafe == SwitchSpec => []TableBounded
<1>1. SwitchInit => TableBounded
  <2> SUFFICES ASSUME SwitchInit PROVE TableBounded
    OBVIOUS
  <2>1. Known(learned) = {}
    BY DEF SwitchInit, Known
  <2> QED
    BY <2>1, FS_EmptySet, SwitchAssumption DEF TableBounded
<1>2. SwitchTypeOK /\ TableBounded /\ [SwitchNext]_switchVars => TableBounded'
  <2> SUFFICES ASSUME SwitchTypeOK, TableBounded, [SwitchNext]_switchVars PROVE TableBounded'
    OBVIOUS
  <2>1. IsFiniteSet(Known(learned)) /\ Cardinality(Known(learned)) \in Nat
    <3>1. Known(learned) \subseteq Mac
      BY DEF Known
    <3> QED
      BY <3>1, FS_Subset, FS_CardinalityType, SwitchAssumption
  <2>2. ASSUME learned' = learned PROVE TableBounded'
    BY <2>2 DEF TableBounded, Known
  <2>3. ASSUME NEW p \in Port, NEW src \in Mac, NEW dst \in Mac, Send(p, src, dst)
        PROVE TableBounded'
    <3>1. CASE learned' = learned
      BY <3>1, <2>2
    <3>2. CASE learned' # learned
      <4>1. /\ learned' = [learned EXCEPT ![src] = p]
            /\ \/ Cardinality(Known(learned)) < MaxLearned
               \/ learned[src] # NoPort
        BY <2>3, <3>2 DEF Send, Learn
      <4>2. Known(learned') = Known(learned) \cup {src}
        BY <4>1, SwitchAssumption DEF SwitchTypeOK, Known
      <4>3. Cardinality(Known(learned) \cup {src}) =
              IF src \in Known(learned) THEN Cardinality(Known(learned))
                                        ELSE Cardinality(Known(learned)) + 1
        BY Zenon, <2>1, FS_AddElement
      <4>4. src \in Known(learned) <=> learned[src] # NoPort
        BY DEF Known
      <4>5. Cardinality(Known(learned) \cup {src}) <= MaxLearned
        <5>1. CASE src \in Known(learned)
          BY <5>1, <4>3 DEF TableBounded
        <5>2. CASE src \notin Known(learned)
          <6>1. Cardinality(Known(learned)) < MaxLearned
            BY <5>2, <4>1, <4>4
          <6> QED
            BY <6>1, <5>2, <4>3, <2>1, SwitchAssumption
        <5> QED
          BY <5>1, <5>2
      <4> QED
        BY <4>2, <4>5 DEF TableBounded
    <3> QED
      BY <3>1, <3>2
  <2>4. ASSUME NEW p \in Port, ClosePort(p) PROVE TableBounded'
    <3>1. Known(learned') \subseteq Known(learned)
      BY <2>4 DEF ClosePort, Purge, Known
    <3>2. Cardinality(Known(learned')) \in Nat
          /\ Cardinality(Known(learned')) <= Cardinality(Known(learned))
      BY <3>1, <2>1, FS_Subset, FS_CardinalityType
    <3> QED
      BY <3>2, <2>1, SwitchAssumption DEF TableBounded
  <2> QED
    BY <2>2, <2>3, <2>4 DEF SwitchNext, switchVars, Connect, Receive
<1> QED
  BY <1>1, <1>2, SwitchTypes, PTL DEF SwitchSpec

\* Every reply channel is owed at most one message, so that its one slot is
\* enough, with any number of calls, cancellations, late replies and failures.
THEOREM RepliesSafe ==
    Spec => []AnsweredOnce
<1>1. ASSUME QmpInv PROVE AnsweredOnce
  <2> SUFFICES ASSUME NEW c \in Call PROVE Cardinality(Owed(c)) <= 1
    BY DEF AnsweredOnce
  <2>1. \A m, n \in Owed(c) : m = n
    BY <1>1 DEF QmpInv, QmpTypes, Expects, OwedOnce, Owed
  <2>2. CASE Owed(c) = {}
    BY <2>2, FS_EmptySet
  <2>3. ASSUME NEW m \in Owed(c) PROVE Cardinality(Owed(c)) <= 1
    <3>1. Owed(c) = {m}
      BY <2>1, <2>3
    <3>2. Cardinality({m}) = 1
      BY ONLY FS_Singleton
    <3> QED BY <3>1, <3>2
  <2> QED BY <2>2, <2>3
<1> QED BY <1>1, QmpInductive, PTL

=============================================================================
