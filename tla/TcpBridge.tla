------------------------------ MODULE TcpBridge -----------------------------
(***************************************************************************)
(* The bridge between an in-memory channel and one TCP connection          *)
(* (channel/native/tcp.go).  serve accepts a client and copies both ways:  *)
(* "out" from end 0 of the channel to the client, "in" from the client to  *)
(* end 0.  Close, or the end of either copy, stops the bridge.             *)
(*                                                                         *)
(* The client and the guest at end 1 are external: they send numbered      *)
(* bytes, receive when they like, and may close.  The guest may restore a  *)
(* checkpoint of the channel.                                              *)
(***************************************************************************)
EXTENDS MemoryChannel, FiniteSets

CONSTANTS
    MaxBytes,      \* bound: bytes sent by client and guest together
    Socket,        \* bytes the connection holds in each direction
    Checkpoints    \* whether the guest captures and restores the channel

ASSUME BridgeAssumption ==
    {MaxBytes, Socket} \subseteq Nat \ {0} /\ Checkpoints \in BOOLEAN

VARIABLES
    server,                    \* serve
    copy,                      \* the step of each copy
    bytes, room,               \* what each copy holds, room "in" was told of
    stop,                      \* how far stop has come
    closer,                    \* a caller of Close
    connection,                \* state of the connection
    toClient, fromClient,      \* bytes on the connection
    guestSent, guestGot, clientSent, clientGot, restored

held == <<bytes, room>>
conn == <<connection, toClient, fromClient>>
outside == <<guestSent, guestGot, clientSent, clientGot, restored>>
vars == <<data, closedEnd, changed, saved, server, copy, bytes, room, stop, closer,
          connection, toClient, fromClient, guestSent, guestGot, clientSent, clientGot, restored>>

Copy == {"out", "in"}

Init ==
    /\ MemoryInit
    /\ server = "accept" /\ stop = "no" /\ closer = "idle"
    /\ copy = [c \in Copy |-> "off"] /\ bytes = [c \in Copy |-> <<>>] /\ room = 0
    /\ connection = "none" /\ toClient = <<>> /\ fromClient = <<>>
    /\ guestSent = 0 /\ clientSent = 0 /\ guestGot = <<>> /\ clientGot = <<>>
    /\ restored = FALSE

Step(c, label) == copy' = [copy EXCEPT ![c] = label]
stopped == stop # "no"

-----------------------------------------------------------------------------
(* stop and serve.                                                         *)

\* stop marks the bridge closed and takes the client it knows of ...
StopMark ==
    /\ stop = "no"
    /\ closer = "called" \/ server = "stop" \/ server = "stopEarly"
    /\ stop' = IF server \in {"copy", "stop"} THEN "client" ELSE "noclient"
    /\ UNCHANGED <<memory, server, copy, held, closer, conn, outside>>

\* ... and closes the listener, that client and the channel.
StopClose ==
    /\ stop \in {"client", "noclient"}
    /\ connection' = IF stop = "client" \/ connection = "queued" THEN "closed" ELSE connection
    /\ stop' = "done"
    /\ CloseEnd(0)
    /\ UNCHANGED <<server, copy, held, closer, toClient, fromClient, outside>>

Accept ==
    /\ server = "accept"
    /\ connection = "queued"
    /\ connection' = "accepted"
    /\ server' = "register"
    /\ UNCHANGED <<memory, copy, held, stop, closer, toClient, fromClient, outside>>

\* Accepting fails, as it must once the listener is closed.
AcceptFails ==
    /\ server = "accept"
    /\ server' = "stopEarly"
    /\ UNCHANGED <<memory, copy, held, stop, closer, conn, outside>>

\* Mutant: a client accepted while the bridge stops is served.
Register_Late ==
    /\ server = "register"
    /\ connection' = "open"
    /\ server' = "copy"
    /\ copy' = [c \in Copy |-> "check"]
    /\ UNCHANGED <<memory, held, stop, closer, toClient, fromClient, outside>>

\* Under the lock: a client accepted while the bridge stops is closed.
Register ==
    /\ server = "register"
    /\ IF stopped
       THEN connection' = "closed" /\ server' = "stopEarly" /\ UNCHANGED copy
       ELSE connection' = "open" /\ server' = "copy" /\ copy' = [c \in Copy |-> "check"]
    /\ UNCHANGED <<memory, held, stop, closer, toClient, fromClient, outside>>

\* serve waits for one copy, stops, and waits for the other.
FirstFinished ==
    /\ server = "copy"
    /\ \E c \in Copy : copy[c] = "end"
    /\ server' = "stop"
    /\ UNCHANGED <<memory, copy, held, stop, closer, conn, outside>>

Served ==
    /\ stop = "done"
    /\ \/ server = "stop" /\ (\A c \in Copy : copy[c] = "end")
       \/ server = "stopEarly"
    /\ server' = "done"
    /\ UNCHANGED <<memory, copy, held, stop, closer, conn, outside>>

Close ==
    /\ closer = "idle"
    /\ closer' = "called"
    /\ UNCHANGED <<memory, server, copy, held, stop, conn, outside>>

CloseReturns ==
    /\ closer = "called"
    /\ stop = "done" /\ server = "done"
    /\ closer' = "returned"
    /\ UNCHANGED <<memory, server, copy, held, stop, conn, outside>>

-----------------------------------------------------------------------------
(* bridgeStream.Read and the copy to the client.                           *)

OutCheck ==
    /\ copy["out"] = "check"
    /\ IF stopped THEN Step("out", "end") /\ UNCHANGED memory
                  ELSE Step("out", "read") /\ ReadReady("out", 0)
    /\ UNCHANGED <<server, held, stop, closer, conn, outside>>

OutRead ==
    /\ copy["out"] = "read"
    /\ \/ ReadFails(0) /\ Step("out", "end") /\ UNCHANGED <<memory, bytes>>
       \/ ReadBlocks(0) /\ Step("out", "wait") /\ UNCHANGED <<memory, bytes>>
       \/ /\ ~ReadFails(0) /\ ~ReadBlocks(0)
          /\ bytes' = [bytes EXCEPT !["out"] = data[0]]
          /\ Read(0, Len(data[0]))
          /\ Step("out", "write")
    /\ UNCHANGED <<server, room, stop, closer, conn, outside>>

OutWait ==
    /\ copy["out"] = "wait"
    /\ \/ stopped /\ Step("out", "end")
       \/ "out" \notin changed[0] /\ Step("out", "check")
    /\ UNCHANGED <<memory, server, held, stop, closer, conn, outside>>

OutWrite ==
    /\ copy["out"] = "write"
    /\ \/ connection # "open" /\ Step("out", "end") /\ UNCHANGED <<bytes, toClient>>
       \/ /\ connection \in {"open", "ended"} /\ Len(toClient) < Socket
          /\ toClient' = Append(toClient, Head(bytes["out"]))
          /\ bytes' = [bytes EXCEPT !["out"] = Tail(@)]
          /\ Step("out", IF Len(bytes["out"]) = 1 THEN "check" ELSE "write")
    /\ UNCHANGED <<memory, server, room, stop, closer, connection, fromClient, outside>>

-----------------------------------------------------------------------------
(* The copy from the client and bridgeStream.Write.                        *)

InRecv ==
    /\ copy["in"] = "check" /\ bytes["in"] = <<>>
    /\ \/ /\ connection = "closed" \/ (connection = "ended" /\ fromClient = <<>>)
          /\ Step("in", "end")
          /\ UNCHANGED <<bytes, fromClient>>
       \/ /\ connection # "closed" /\ fromClient # <<>>
          /\ bytes' = [bytes EXCEPT !["in"] = fromClient]
          /\ fromClient' = <<>>
          /\ UNCHANGED copy
    /\ UNCHANGED <<memory, server, room, stop, closer, connection, toClient, outside>>

\* The room is asked for with the notification; without room it is awaited.
InCapacity ==
    /\ copy["in"] = "check" /\ bytes["in"] # <<>>
    /\ IF stopped \/ Closed(0)
       THEN Step("in", "end") /\ UNCHANGED <<memory, room>>
       ELSE /\ WriteCapacity("in", 0)
            /\ room' = Capacity(0)
            /\ Step("in", IF Capacity(0) = 0 THEN "wait" ELSE "write")
    /\ UNCHANGED <<server, bytes, stop, closer, conn, outside>>

Part == SubSeq(bytes["in"], 1, IF Len(bytes["in"]) < room THEN Len(bytes["in"]) ELSE room)

\* Mutant: everything held counts as written.
InWrite_Whole ==
    /\ copy["in"] = "write"
    /\ Write(0, Part)
    /\ bytes' = [bytes EXCEPT !["in"] = <<>>]
    /\ Step("in", "check")
    /\ UNCHANGED <<server, room, stop, closer, conn, outside>>

\* As much as there was room for is written, unless a checkpoint restored
\* since has taken room away.
InWrite ==
    /\ copy["in"] = "write"
    /\ \/ Closed(0) /\ Step("in", "end") /\ UNCHANGED <<memory, bytes>>
       \/ ~Closed(0) /\ Len(Part) > Capacity(0) /\ Step("in", "wait") /\ UNCHANGED <<memory, bytes>>
       \/ /\ ~Closed(0) /\ Len(Part) <= Capacity(0)
          /\ Write(0, Part)
          /\ bytes' = [bytes EXCEPT !["in"] = SubSeq(@, Len(Part) + 1, Len(@))]
          /\ Step("in", "check")
    /\ UNCHANGED <<server, room, stop, closer, conn, outside>>

InWait ==
    /\ copy["in"] = "wait"
    /\ \/ stopped /\ Step("in", "end")
       \/ "in" \notin changed[1] /\ Step("in", "check")
    /\ UNCHANGED <<memory, server, held, stop, closer, conn, outside>>

-----------------------------------------------------------------------------
(* The client and the guest (external).                                    *)

ClientConnects ==
    /\ connection = "none" /\ stop # "done"
    /\ connection' = "queued"
    /\ UNCHANGED <<memory, server, copy, held, stop, closer, toClient, fromClient, outside>>

ClientSends ==
    /\ connection \in {"queued", "accepted", "open"}
    /\ clientSent + guestSent < MaxBytes /\ Len(fromClient) < Socket
    /\ clientSent' = clientSent + 1
    /\ fromClient' = Append(fromClient, clientSent + 1)
    /\ UNCHANGED <<memory, server, copy, held, stop, closer, connection, toClient, guestSent,
                   guestGot, clientGot, restored>>

ClientReceives ==
    /\ toClient # <<>>
    /\ clientGot' = Append(clientGot, Head(toClient))
    /\ toClient' = Tail(toClient)
    /\ UNCHANGED <<memory, server, copy, held, stop, closer, connection, fromClient, guestSent,
                   guestGot, clientSent, restored>>

ClientCloses ==
    /\ connection = "open"
    /\ connection' = "ended"
    /\ UNCHANGED <<memory, server, copy, held, stop, closer, toClient, fromClient, outside>>

bridge == <<server, copy, held, stop, closer, conn>>

GuestSends ==
    /\ ~Closed(1) /\ clientSent + guestSent < MaxBytes /\ Capacity(1) > 0
    /\ Write(1, <<guestSent + 1>>)
    /\ guestSent' = guestSent + 1
    /\ UNCHANGED <<bridge, guestGot, clientSent, clientGot, restored>>

GuestReceives ==
    /\ ~ReadFails(1) /\ ~ReadBlocks(1)
    /\ guestGot' = Append(guestGot, Head(data[1]))
    /\ Read(1, 1)
    /\ UNCHANGED <<bridge, guestSent, clientSent, clientGot, restored>>

GuestCloses ==
    /\ ~closedEnd[1]
    /\ CloseEnd(1)
    /\ UNCHANGED <<bridge, outside>>

GuestCaptures ==
    /\ Checkpoints /\ saved = NoCheckpoint
    /\ CaptureCheckpoint
    /\ UNCHANGED <<bridge, outside>>

GuestRestores ==
    /\ ~restored
    /\ Restore
    /\ restored' = TRUE
    /\ UNCHANGED <<bridge, guestSent, guestGot, clientSent, clientGot>>

Out == OutCheck \/ OutRead \/ OutWait \/ OutWrite
In == InRecv \/ InCapacity \/ InWrite \/ InWait

Next ==
    \/ StopMark \/ StopClose \/ Accept \/ AcceptFails \/ Register \/ FirstFinished \/ Served
    \/ Close \/ CloseReturns \/ Out \/ In
    \/ ClientConnects \/ ClientSends \/ ClientReceives \/ ClientCloses
    \/ GuestSends \/ GuestReceives \/ GuestCloses \/ GuestCaptures \/ GuestRestores

Spec == Init /\ [][Next]_vars

\* The goroutines of the bridge go on while they can; client and guest need not.
Fairness ==
    /\ WF_vars(StopMark) /\ WF_vars(StopClose)
    /\ WF_vars(Accept \/ (stop = "done" /\ AcceptFails) \/ Register \/ FirstFinished \/ Served)
    /\ WF_vars(CloseReturns)
    /\ WF_vars(Out) /\ WF_vars(In)

LiveSpec == Spec /\ Fairness

-----------------------------------------------------------------------------
FirstBytes(got, sent) == Len(got) <= sent /\ \A i \in 1..Len(got) : got[i] = i

\* Client and guest receive what the other one sent, in order, with nothing
\* missing in the middle, however buffers fill and whoever closes (a restored
\* checkpoint brings bytes back that were read since).
StreamExact ==
    ~restored => FirstBytes(guestGot, clientSent) /\ FirstBytes(clientGot, guestSent)

\* A copy that sleeps has a reason to: no byte for it, or no room, in an open
\* channel, even when the channel was read, written, closed or restored
\* between its attempt and its sleep.
SleepersHaveReason ==
    /\ copy["out"] = "wait" /\ "out" \in changed[0] => data[0] = <<>> /\ ~Closed(0)
    /\ copy["in"] = "wait" /\ "in" \in changed[1] => Capacity(0) = 0 /\ ~Closed(0)

\* Close returns, with every goroutine of the bridge ended and the connection
\* closed, whatever client and guest do or fail to do.
CloseEnds == closer = "called" ~>
    closer = "returned" /\ (\A c \in Copy : copy[c] \in {"off", "end"}) /\ connection \in {"none", "closed"}

=============================================================================
