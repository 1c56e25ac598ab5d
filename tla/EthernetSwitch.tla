--------------------------- MODULE EthernetSwitch ---------------------------
(***************************************************************************)
(* The learning Ethernet switch that joins guests (vmm/ethernet/switch.go).*)
(* Every operation runs under Switch.mu, so each one is a single action.   *)
(*                                                                         *)
(* A frame is abstracted to its two addresses; `from` (the port it entered *)
(* on), `seq` (its position in the order of Sends) and the variables seen  *)
(* and last are observations that no guard of an action reads.             *)
(***************************************************************************)
EXTENDS Naturals, Sequences, FiniteSets

CONSTANTS
    Port,        \* every port that is ever connected
    Mac,         \* station addresses
    Group,       \* the multicast and broadcast addresses among them
    MaxQueue,    \* frames a port queues (256 in the code)
    MaxLearned,  \* addresses the switch learns (1024 in the code)
    MaxSends,    \* bound: frames sent in one behaviour
    NoPort       \* no port

ASSUME SwitchAssumption ==
    /\ Group \subseteq Mac
    /\ IsFiniteSet(Mac)
    /\ MaxQueue \in Nat \ {0}
    /\ MaxLearned \in Nat \ {0}
    /\ MaxSends \in Nat
    /\ NoPort \notin Port

VARIABLES
    ports,        \* Switch.ports: the connected ports
    closedPorts,  \* the ports whose closed flag is set
    learned,      \* Switch.learned: the port an address was last seen on
    queue,        \* Port.queue
    nsent,        \* how many frames were accepted by Send
    seen,         \* the connected port each address last sent a frame from
    last          \* per port, the seq of the last frame Receive returned

switchVars == <<ports, closedPorts, learned, queue, nsent, seen, last>>

Frame == [src : Mac, dst : Mac, from : Port, seq : Nat]

SwitchTypeOK ==
    /\ ports \subseteq Port
    /\ closedPorts \subseteq Port \ ports
    /\ {learned, seen} \subseteq [Mac -> Port \cup {NoPort}]
    /\ queue \in [Port -> Seq(Frame)]
    /\ nsent \in Nat
    /\ last \in [Port -> Nat]

SwitchInit ==
    /\ ports = {}
    /\ closedPorts = {}
    /\ learned = [m \in Mac |-> NoPort] /\ seen = learned
    /\ queue = [p \in Port |-> <<>>]
    /\ nsent = 0
    /\ last = [p \in Port |-> 0]

Known(table) == {m \in Mac : table[m] # NoPort}

Connect(p) ==
    /\ p \notin ports \cup closedPorts
    /\ ports' = ports \cup {p}
    /\ UNCHANGED <<closedPorts, learned, queue, nsent, seen, last>>

\* Mutant: a full table takes nothing, not even a station that has moved.
Learn_Full(p, src) ==
    IF src \notin Group /\ Cardinality(Known(learned)) < MaxLearned
    THEN [learned EXCEPT ![src] = p]
    ELSE learned

\* The table after a frame from `src` entered on p: group sources are not
\* learned, and a full table only refreshes the addresses it already holds.
Learn(p, src) ==
    IF /\ src \notin Group
       /\ \/ Cardinality(Known(learned)) < MaxLearned
          \/ learned[src] # NoPort
    THEN [learned EXCEPT ![src] = p]
    ELSE learned

\* The peers a frame is queued on: flooded, unless it is unicast to an
\* address the table (already updated by this frame) knows.
Peers(p, dst, table) ==
    {peer \in ports \ {p} :
        \/ dst \in Group
        \/ table[dst] = NoPort
        \/ peer = table[dst]}

Send(p, src, dst) ==
    LET table == Learn(p, src)
        frame == [src |-> src, dst |-> dst, from |-> p, seq |-> nsent + 1]
    IN /\ nsent < MaxSends
       /\ p \in ports \cup closedPorts
       /\ p \notin closedPorts
       /\ learned' = table
       /\ queue' = [q \in Port |->
                      IF q \in Peers(p, dst, table) /\ Len(queue[q]) < MaxQueue
                      THEN Append(queue[q], frame)
                      ELSE queue[q]]
       /\ nsent' = nsent + 1
       /\ seen' = [seen EXCEPT ![src] = p]
       /\ UNCHANGED <<ports, closedPorts, last>>

\* Mutant: Receive takes the newest frame.
Dequeue_Newest(q) == <<q[Len(q)], SubSeq(q, 1, Len(q) - 1)>>
Dequeue(q) == <<Head(q), Tail(q)>>

\* Receive on a closed port finds the queue Close emptied and returns nil.
Receive(p) ==
    /\ queue[p] # <<>>
    /\ queue' = [queue EXCEPT ![p] = Dequeue(queue[p])[2]]
    /\ last' = [last EXCEPT ![p] = Dequeue(queue[p])[1].seq]
    /\ UNCHANGED <<ports, closedPorts, learned, nsent, seen>>

\* The table once p is gone; mutant: Close forgets to purge it.
Purge_Skipped(p) == learned
Purge(p) == [m \in Mac |-> IF learned[m] = p THEN NoPort ELSE learned[m]]

ClosePort(p) ==
    /\ p \in ports \cup closedPorts
    /\ closedPorts' = closedPorts \cup {p}
    /\ queue' = [queue EXCEPT ![p] = <<>>]
    /\ ports' = ports \ {p}
    /\ learned' = Purge(p)
    /\ seen' = [m \in Mac |-> IF seen[m] = p THEN NoPort ELSE seen[m]]
    /\ UNCHANGED <<nsent, last>>

SwitchNext ==
    \E p \in Port :
        \/ Connect(p)
        \/ \E src, dst \in Mac : Send(p, src, dst)
        \/ Receive(p)
        \/ ClosePort(p)

SwitchSpec == SwitchInit /\ [][SwitchNext]_switchVars

-----------------------------------------------------------------------------
\* Close purges the table and a closed port cannot Send, so a learned address
\* always names a port that can still be delivered to: no frame is steered
\* to a guest that has gone (Send and Close, in any order, by any ports).
LearnedPortsConnected ==
    \A m \in Mac : learned[m] # NoPort => learned[m] \in ports

\* However many source addresses the guests use, and however they move
\* between ports, Send keeps the table within its limit.
TableBounded == Cardinality(Known(learned)) <= MaxLearned

\* A guest receives frames in the order they were sent, each at most once,
\* even when Send drops some of them on a full queue.
DeliveredInOrder ==
    \A p \in Port :
        LET q == queue[p] IN
        /\ \A i \in DOMAIN q : q[i].seq > last[p]
        /\ \A i, j \in DOMAIN q : i < j => q[i].seq < q[j].seq

\* No guest receives its own frame back, whatever the table says of it.
NoEcho ==
    \A p \in Port : \A i \in DOMAIN queue[p] : queue[p][i].from # p

\* A frame to a station the table knows is queued on no port but the one that
\* station last sent from, even when it has moved between ports while the
\* table was full, when other guests used and gave up its address, or when
\* the frame is the very one by which it moves (Send learns, then routes).
UnicastFollowsStation ==
    [][\A q \in Port :
          Len(queue'[q]) > Len(queue[q]) =>
              LET f == queue'[q][Len(queue'[q])] IN
              f.dst \notin Group /\ learned'[f.dst] # NoPort => q = seen'[f.dst]]_switchVars

=============================================================================
