----------------------------- MODULE QmpClient ------------------------------
(***************************************************************************)
(* The QMP client of the QEMU backend (vmm/qemu/qmp.go): concurrent calls  *)
(* share one transport.  The write slot orders the commands, one reader    *)
(* correlates the replies, and whoever meets an error first fails every    *)
(* pending call and closes the transport.                                  *)
(*                                                                         *)
(* A call stands for the id it draws from the atomic counter, and for the  *)
(* contents of its reply.  QEMU is external: it may answer a command it    *)
(* has received at any time, more than once or never.  Asynchronous events *)
(* go to the callback of the driver and touch nothing here.                *)
(***************************************************************************)
EXTENDS Naturals, FiniteSets

CONSTANTS
    Call,      \* the calls made of the client, qmp_capabilities among them
    None

ASSUME QmpAssumption ==
    /\ IsFiniteSet(Call)
    /\ \A c \in Call : c \notin {None, "none", "empty", "closed", "cancelled", "write"}

VARIABLES
    pc,         \* goroutines: calls, their AfterFunc callbacks, reader, Close
    cancelled,  \* calls whose context is done
    writes,     \* holder of the write slot
    pending,    \* calls in the pending map
    closed,     \* qmpClient.closed; the channel done is closed with it
    taken,      \* reply channels fail took from the map and has not served
    open,       \* the transport
    sent,       \* commands QEMU has received whole
    failed,     \* calls whose Encode returned an error
    handing,    \* reply the reader is about to send, and to whom
    reply,      \* the buffered reply channel of each call
    result      \* what each call returned

vars == <<pc, cancelled, writes, pending, closed, taken, open, sent, failed,
          handing, reply, result>>

Caller(c) == <<c, "call">>
Callback(c) == <<c, "callback">>
Reader == <<None, "reader">>
Closer == <<None, "close">>
Process == (Call \X {"call", "callback"}) \cup {Reader, Closer}

Nothing == [to |-> None, value |-> None]

Init ==
    /\ pc = [p \in Process |-> IF p = Reader THEN "greeting" ELSE "idle"]
    /\ cancelled = {} /\ writes = None /\ pending = {}
    /\ closed = "no" /\ taken = {} /\ open = TRUE
    /\ sent = {} /\ failed = {} /\ handing = Nothing
    /\ reply = [c \in Call |-> "empty"]
    /\ result = [c \in Call |-> "none"]

Goto(p, label) == pc' = [pc EXCEPT ![p] = label]

\* A call leaves with a value or an error; removePending is still to run.
Leave(c, value) ==
    /\ Goto(Caller(c), "remove")
    /\ result' = [result EXCEPT ![c] = value]

-----------------------------------------------------------------------------
(* shutdown, run by a call, a callback, the reader or Close.               *)

Role(p) == p[2]

\* Mutant: the map stays in place after its channels were taken.
Fail_Kept(p) ==
    /\ pc[p] = "fail"
    /\ IF closed # "no"
       THEN Goto(p, "close") /\ UNCHANGED <<closed, taken, pending>>
       ELSE Goto(p, "tell") /\ closed' = Role(p) /\ taken' = pending
            /\ UNCHANGED pending
    /\ UNCHANGED <<cancelled, writes, open, sent, failed, handing, reply, result>>

\* fail under the mutex: the first error wins and takes the pending calls.
Fail(p) ==
    /\ pc[p] = "fail"
    /\ IF closed # "no"
       THEN Goto(p, "close") /\ UNCHANGED <<closed, taken, pending>>
       ELSE Goto(p, "tell") /\ closed' = Role(p) /\ taken' = pending /\ pending' = {}
    /\ UNCHANGED <<cancelled, writes, open, sent, failed, handing, reply, result>>

\* fail after the mutex: one send on each channel taken, in map order (any).
Tell(p) ==
    /\ pc[p] = "tell"
    /\ \/ /\ taken = {}
          /\ Goto(p, "close")
          /\ UNCHANGED <<taken, reply>>
       \/ \E c \in taken :
             /\ reply[c] = "empty"
             /\ reply' = [reply EXCEPT ![c] = "closed"]
             /\ taken' = taken \ {c}
             /\ UNCHANGED pc
    /\ UNCHANGED <<cancelled, writes, pending, closed, open, sent, failed, handing, result>>

\* The once-only Close of the transport; the caller of shutdown continues.
CloseChannel(p) ==
    /\ pc[p] = "close"
    /\ open' = FALSE
    /\ Goto(p, [call |-> "release", callback |-> "done", reader |-> "exit",
                close |-> "await"][Role(p)])
    /\ UNCHANGED <<cancelled, writes, pending, closed, taken, sent, failed, handing,
                   reply, result>>

-----------------------------------------------------------------------------
(* Call.  newQMPClient returns the client after the greeting.              *)

Begin(c) ==
    /\ pc[Caller(c)] = "idle"
    /\ pc[Reader] # "greeting"
    /\ IF c \in cancelled THEN Leave(c, "cancelled")
       ELSE Goto(Caller(c), "acquire") /\ UNCHANGED result
    /\ UNCHANGED <<cancelled, writes, pending, closed, taken, open, sent, failed,
                   handing, reply>>

\* Mutant: a queued caller waits for the slot or the end of the session only.
Acquire_Deaf(c) ==
    /\ pc[Caller(c)] = "acquire"
    /\ \/ writes = None /\ writes' = c /\ Goto(Caller(c), "recheck") /\ UNCHANGED result
       \/ closed # "no" /\ Leave(c, "closed") /\ UNCHANGED writes
    /\ UNCHANGED <<cancelled, pending, closed, taken, open, sent, failed, handing, reply>>

\* The select on the write slot, the context and done.
Acquire(c) ==
    /\ pc[Caller(c)] = "acquire"
    /\ \/ /\ writes = None
          /\ writes' = c
          /\ Goto(Caller(c), "recheck")
          /\ UNCHANGED result
       \/ /\ c \in cancelled
          /\ Leave(c, "cancelled")
          /\ UNCHANGED writes
       \/ /\ closed # "no"
          /\ Leave(c, "closed")
          /\ UNCHANGED writes
    /\ UNCHANGED <<cancelled, pending, closed, taken, open, sent, failed, handing, reply>>

Recheck(c) ==
    /\ pc[Caller(c)] = "recheck"
    /\ IF c \in cancelled
       THEN Leave(c, "cancelled") /\ writes' = None
       ELSE Goto(Caller(c), "register") /\ UNCHANGED <<writes, result>>
    /\ UNCHANGED <<cancelled, pending, closed, taken, open, sent, failed, handing, reply>>

\* The entry in the pending map, and the callback armed with the context.
Register(c) ==
    /\ pc[Caller(c)] = "register"
    /\ IF closed # "no"
       THEN Leave(c, "closed") /\ writes' = None /\ UNCHANGED pending
       ELSE /\ pending' = pending \cup {c}
            /\ pc' = [pc EXCEPT ![Caller(c)] = "encode", ![Callback(c)] = "armed"]
            /\ UNCHANGED <<writes, result>>
    /\ UNCHANGED <<cancelled, closed, taken, open, sent, failed, handing, reply>>

\* Encode blocks as long as QEMU takes no bytes.
Encode(c) ==
    /\ pc[Caller(c)] = "encode"
    /\ open
    /\ sent' = sent \cup {c}
    /\ Goto(Caller(c), "stop")
    /\ UNCHANGED <<cancelled, writes, pending, closed, taken, open, failed, handing,
                   reply, result>>

\* Encode fails when the transport breaks or is closed under it.
EncodeFails(c) ==
    /\ pc[Caller(c)] = "encode"
    /\ failed' = failed \cup {c}
    /\ Goto(Caller(c), "stop")
    /\ UNCHANGED <<cancelled, writes, pending, closed, taken, open, sent, handing,
                   reply, result>>

CallbackStarts(c) ==
    /\ pc[Callback(c)] = "armed"
    /\ c \in cancelled
    /\ Goto(Callback(c), "fail")
    /\ UNCHANGED <<cancelled, writes, pending, closed, taken, open, sent, failed,
                   handing, reply, result>>

\* Mutant: the callback is not joined.
Stop_Unjoined(c) ==
    /\ pc[Caller(c)] = "stop"
    /\ Goto(Caller(c), IF c \in failed THEN "fail" ELSE "release")
    /\ UNCHANGED <<cancelled, writes, pending, closed, taken, open, sent, failed,
                   handing, reply, result>>

\* stop() disarms the callback, or the call waits until it has run.
Stop(c) ==
    /\ pc[Caller(c)] = "stop"
    /\ pc[Callback(c)] \in {"armed", "done"}
    /\ pc' = [pc EXCEPT ![Caller(c)] = IF c \in failed THEN "fail" ELSE "release",
                        ![Callback(c)] = "done"]
    /\ UNCHANGED <<cancelled, writes, pending, closed, taken, open, sent, failed,
                   handing, reply, result>>

Release(c) ==
    /\ pc[Caller(c)] = "release"
    /\ writes' = None
    /\ IF c \in cancelled THEN Leave(c, "cancelled")
       ELSE IF c \in failed THEN Leave(c, "write")
       ELSE Goto(Caller(c), "wait") /\ UNCHANGED result
    /\ UNCHANGED <<cancelled, pending, closed, taken, open, sent, failed, handing, reply>>

\* The select on the reply channel, the context and done.
Wait(c) ==
    /\ pc[Caller(c)] = "wait"
    /\ \/ /\ reply[c] # "empty"
          /\ Leave(c, reply[c])
          /\ reply' = [reply EXCEPT ![c] = "empty"]
       \/ /\ c \in cancelled
          /\ Leave(c, "cancelled")
          /\ UNCHANGED reply
       \/ /\ closed # "no"
          /\ Leave(c, "closed")
          /\ UNCHANGED reply
    /\ UNCHANGED <<cancelled, writes, pending, closed, taken, open, sent, failed, handing>>

RemovePending(c) ==
    /\ pc[Caller(c)] = "remove"
    /\ pending' = pending \ {c}
    /\ Goto(Caller(c), "returned")
    /\ UNCHANGED <<cancelled, writes, closed, taken, open, sent, failed, handing,
                   reply, result>>

-----------------------------------------------------------------------------
(* readLoop.                                                               *)

Greeting ==
    /\ pc[Reader] = "greeting"
    /\ open
    /\ Goto(Reader, "decode")
    /\ UNCHANGED <<cancelled, writes, pending, closed, taken, open, sent, failed,
                   handing, reply, result>>

\* A reply with the id of c, while c is pending; others are dropped.
Decode(c) ==
    /\ pc[Reader] = "decode" /\ open
    /\ c \in sent /\ c \in pending
    /\ pending' = pending \ {c}
    /\ handing' = [to |-> c, value |-> c]
    /\ Goto(Reader, "hand")
    /\ UNCHANGED <<cancelled, writes, closed, taken, open, sent, failed, reply, result>>

\* The send on the reply channel, after the mutex is released.
Hand ==
    /\ pc[Reader] = "hand"
    /\ reply[handing.to] = "empty"
    /\ reply' = [reply EXCEPT ![handing.to] = handing.value]
    /\ handing' = Nothing
    /\ Goto(Reader, "decode")
    /\ UNCHANGED <<cancelled, writes, pending, closed, taken, open, sent, failed, result>>

\* Decode fails: QEMU is gone, the text is damaged or the transport closed.
DecodeFails ==
    /\ pc[Reader] \in {"greeting", "decode"}
    /\ Goto(Reader, "fail")
    /\ UNCHANGED <<cancelled, writes, pending, closed, taken, open, sent, failed,
                   handing, reply, result>>

-----------------------------------------------------------------------------
(* Close, and the contexts of the callers.                                 *)

Close ==
    /\ pc[Closer] = "idle"
    /\ Goto(Closer, "fail")
    /\ UNCHANGED <<cancelled, writes, pending, closed, taken, open, sent, failed,
                   handing, reply, result>>

CloseReturns ==
    /\ pc[Closer] = "await"
    /\ pc[Reader] = "exit"
    /\ Goto(Closer, "returned")
    /\ UNCHANGED <<cancelled, writes, pending, closed, taken, open, sent, failed,
                   handing, reply, result>>

Cancel(c) ==
    /\ c \notin cancelled
    /\ pc[Caller(c)] # "returned"
    /\ cancelled' = cancelled \cup {c}
    /\ UNCHANGED <<pc, writes, pending, closed, taken, open, sent, failed, handing,
                   reply, result>>

\* Everything has returned and no callback is left to start.
Quiet ==
    /\ \A c \in Call : pc[Caller(c)] = "returned" /\ pc[Callback(c)] \in {"idle", "done"}
    /\ pc[Reader] = "exit" /\ pc[Closer] = "returned"
    /\ UNCHANGED vars

Shutdown(p) == Fail(p) \/ Tell(p) \/ CloseChannel(p)

Steps(c) ==
    \/ Begin(c) \/ Acquire(c) \/ Recheck(c) \/ Register(c)
    \/ (~open /\ EncodeFails(c))
    \/ CallbackStarts(c) \/ Stop(c) \/ Release(c) \/ Wait(c) \/ RemovePending(c)

Next ==
    \/ \E p \in Process : Shutdown(p)
    \/ \E c \in Call : Steps(c) \/ Encode(c) \/ EncodeFails(c) \/ Decode(c) \/ Cancel(c)
    \/ Greeting \/ Hand \/ DecodeFails
    \/ Close \/ CloseReturns
    \/ Quiet

\* Goroutines that can go on do.  QEMU need not read, answer or exit: only a
\* closed transport is sure to end Encode and Decode.
Fairness ==
    /\ \A p \in Process : WF_vars(Shutdown(p))
    /\ \A c \in Call : WF_vars(Steps(c))
    /\ WF_vars(Hand)
    /\ WF_vars(~open /\ DecodeFails)
    /\ WF_vars(CloseReturns)

Spec == Init /\ [][Next]_vars
LiveSpec == Spec /\ Fairness

-----------------------------------------------------------------------------
\* The messages a reply channel holds or is owed.
Owed(c) ==
    {m \in {"map", "reader", "fail", "buffer"} :
        \/ m = "map" /\ c \in pending
        \/ m = "reader" /\ handing.to = c
        \/ m = "fail" /\ c \in taken
        \/ m = "buffer" /\ reply[c] # "empty"}

\* Every reply channel is owed at most one message, by the map, the reader or
\* fail, and nothing more once it holds one: its single buffer slot suffices,
\* so neither the reader nor fail ever blocks on a caller that has left.
AnsweredOnce == \A c \in Call : Cardinality(Owed(c)) <= 1

\* "A late callback cannot close a subsequent caller's transport": a
\* cancellation fails the session only while the cancelled call still owns
\* the write slot.
CancelHitsOwnWrite ==
    [][\A c \in Call : pc[Callback(c)] = "fail" /\ pc'[Callback(c)] # "fail" => writes = c]_vars

\* A cancelled call returns, even when QEMU reads nothing and answers nothing,
\* and so does Close.
CallsEnd ==
    /\ \A c \in Call : (c \in cancelled /\ pc[Caller(c)] # "idle") ~> pc[Caller(c)] = "returned"
    /\ pc[Closer] = "fail" ~> pc[Closer] = "returned"

=============================================================================
