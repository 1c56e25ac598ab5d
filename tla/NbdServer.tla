----------------------------- MODULE NbdServer ------------------------------
(***************************************************************************)
(* The NBD server (block/nbd/server.go) from serve to its return: the      *)
(* lease of the device, the goroutine that closes the channel of a         *)
(* cancelled connection, and the transmission phase, in which one reader   *)
(* executes mutations itself and hands the other requests to workers.      *)
(*                                                                         *)
(* A request is its number on the connection.  Its kind is "read" for all  *)
(* that workers execute (read, block status, cache hint, unknown), "write" *)
(* for a mutation with a payload and "bare" for one without (flush, trim,  *)
(* write zeroes).  Frames, option haggling and the contents of replies are *)
(* left out; a request the server rejects gets an error reply like one     *)
(* whose device call fails.                                                *)
(***************************************************************************)
EXTENDS Integers, Sequences, FiniteSets, Functions

CONSTANTS
    Worker,
    Buffer,          \* buffers: one per request and pool slot are enough
    None,
    MaxConnections,  \* bound: calls of serve
    MaxRequests      \* bound: requests on a connection

ASSUME ServerAssumption ==
    /\ Worker # {} /\ IsFiniteSet(Worker) /\ IsFiniteSet(Buffer)
    /\ MaxConnections \in Nat /\ MaxRequests \in Nat
    /\ None \notin Buffer /\ None \notin Int
    /\ Cardinality(Buffer) > MaxRequests + Cardinality(Worker)

VARIABLES
    conn, active, cancel, closing,        \* nbdServerValue, callers of close
    cancelled, asked,                     \* contexts done; closed by a caller
    lease, open, wire,                    \* Serve: device lease, channel, writer
    main, kinds,                          \* the reader; requests received
    queue, qclosed, jobs, stop, fatal,    \* readJobs, its WaitGroup, workerCtx
    worker, pool, held,                   \* workers; buffers free and in use
    applied, observed, replies, result

server == <<conn, active, cancel, closing, cancelled, asked>>
jobsVars == <<queue, qclosed, jobs, stop, fatal>>
buffers == <<pool, held>>
effects == <<applied, observed, replies>>
vars == <<conn, active, cancel, closing, cancelled, asked, lease, open, wire,
          main, kinds, queue, qclosed, jobs, stop, fatal, worker, pool, held,
          applied, observed, replies, result>>

Request == 1..MaxRequests
Idle == [pc |-> "idle", req |-> None, ok |-> FALSE, failed |-> FALSE]
Resting == [pc |-> "idle", req |-> None, ok |-> FALSE, err |-> "none"]

TypeOK ==
    /\ conn \in 0..MaxConnections /\ active \in BOOLEAN
    /\ cancel \in {None} \cup 1..conn /\ closing \in {None} \cup 1..conn
    /\ cancelled \subseteq 1..conn /\ asked \subseteq 1..conn
    /\ lease \in BOOLEAN /\ open \in BOOLEAN /\ wire \in {"ok", "broken"}
    /\ main.pc \in {"idle", "negotiate", "check", "read", "payload", "barrier", "busy",
                    "reply", "enqueue", "close", "drain", "return", "left"}
    /\ main.req \in {None} \cup Request /\ main.ok \in BOOLEAN
    /\ main.err \in {"none", "failed", "cancelled"}
    /\ kinds \in Seq({"read", "write", "bare"}) /\ Len(kinds) <= MaxRequests
    /\ queue \in Seq(Request) /\ Len(queue) <= Cardinality(Worker)
    /\ qclosed \in BOOLEAN /\ stop \in BOOLEAN /\ fatal \in BOOLEAN
    /\ jobs \in Nat
    /\ worker \in [Worker -> [pc : {"idle", "busy", "reply", "fail", "exit"},
                              req : {None} \cup Request, ok : BOOLEAN, failed : BOOLEAN]]
    /\ pool \in Seq(Buffer) /\ held \in [Request -> {None} \cup Buffer]
    /\ applied \subseteq Request
    /\ observed \in [Request -> {None} \cup SUBSET Request]
    /\ replies \in [Request -> {"none", "ok", "error"}]
    /\ result \in {"none", "nil", "failed", "cancelled", "fatal"}

Init ==
    /\ conn = 0 /\ active = FALSE /\ cancel = None /\ closing = None
    /\ cancelled = {} /\ asked = {}
    /\ lease = FALSE /\ open = FALSE /\ wire = "ok"
    /\ main = Resting
    /\ kinds = <<>>
    /\ queue = <<>> /\ qclosed = FALSE /\ jobs = 0 /\ stop = FALSE /\ fatal = FALSE
    /\ worker = [w \in Worker |-> Idle]
    /\ pool = <<>> /\ held = [r \in Request |-> None]
    /\ applied = {} /\ observed = [r \in Request |-> None]
    /\ replies = [r \in Request |-> "none"]
    /\ result = "none"

-----------------------------------------------------------------------------
(* nbdServerValue: serve and close.                                        *)

\* serveBuiltin up to the negotiation: one connection at a time.  Acquire of
\* the device may refuse.
Serve ==
    /\ ~active
    /\ conn < MaxConnections
    /\ conn' = conn + 1
    /\ active' = TRUE
    /\ cancel' = conn + 1
    /\ \/ /\ lease' = TRUE /\ open' = TRUE /\ result' = "none"
          /\ main' = [Resting EXCEPT !.pc = "negotiate"]
       \/ /\ lease' = FALSE /\ open' = FALSE /\ result' = "failed"
          /\ main' = [Resting EXCEPT !.pc = "left"]
    /\ wire' = "ok"
    /\ kinds' = <<>>
    /\ queue' = <<>> /\ qclosed' = FALSE /\ jobs' = 0 /\ stop' = FALSE /\ fatal' = FALSE
    /\ worker' = [w \in Worker |-> Idle]
    /\ applied' = {} /\ observed' = [r \in Request |-> None]
    /\ replies' = [r \in Request |-> "none"]
    /\ UNCHANGED <<closing, cancelled, asked, pool, held>>

\* closeBuiltin: the cancel function is fetched under the mutex ...
CloseCall ==
    /\ closing = None
    /\ closing' = cancel
    /\ asked' = IF cancel = None THEN asked ELSE asked \cup {cancel}
    /\ UNCHANGED <<conn, active, cancel, cancelled, lease, open, wire, main, kinds,
                   jobsVars, worker, buffers, effects, result>>

\* Mutant: the mutex is dropped and the current cancel function is called.
CloseCancels_Current ==
    /\ closing # None
    /\ closing' = None
    /\ cancelled' = IF cancel = None THEN cancelled ELSE cancelled \cup {cancel}
    /\ stop' = (stop \/ cancel = conn)
    /\ UNCHANGED <<conn, active, cancel, asked, lease, open, wire, main, kinds,
                   queue, qclosed, jobs, fatal, worker, buffers, effects, result>>

\* ... and called after it was released, perhaps on an older connection.
CloseCancels ==
    /\ closing # None
    /\ closing' = None
    /\ cancelled' = cancelled \cup {closing}
    /\ stop' = (stop \/ closing = conn)
    /\ UNCHANGED <<conn, active, cancel, asked, lease, open, wire, main, kinds,
                   queue, qclosed, jobs, fatal, worker, buffers, effects, result>>

\* The goroutine of Serve.
Watch ==
    /\ lease /\ open /\ main.pc # "left"
    /\ conn \in cancelled
    /\ open' = FALSE
    /\ UNCHANGED <<server, lease, wire, main, kinds, jobsVars, worker, buffers,
                   effects, result>>

\* negotiate: a transmission follows, or the client aborts, or it fails.
Negotiate ==
    /\ main.pc = "negotiate"
    /\ \/ main' = [main EXCEPT !.pc = "check"] /\ open /\ UNCHANGED result
       \/ main' = [main EXCEPT !.pc = "return"] /\ result' = "nil" /\ open
       \/ main' = [main EXCEPT !.pc = "return"] /\ result' = "failed"
    /\ UNCHANGED <<server, lease, open, wire, kinds, jobsVars, worker, buffers, effects>>

\* Serve's deferred calls, in their order, then the end of serveBuiltin.
Return ==
    /\ main.pc = "return"
    /\ main' = [main EXCEPT !.pc = "left"]
    /\ open' = FALSE
    /\ lease' = FALSE
    /\ UNCHANGED <<server, wire, kinds, jobsVars, worker, buffers, effects, result>>

Left ==
    /\ main.pc = "left"
    /\ main' = [main EXCEPT !.pc = "idle"]
    /\ active' = FALSE
    /\ cancel' = None
    /\ cancelled' = cancelled \cup {conn}
    /\ UNCHANGED <<conn, closing, asked, lease, open, wire, kinds, jobsVars, worker,
                   buffers, effects, result>>

-----------------------------------------------------------------------------
(* Buffers and replies.                                                    *)

NewBuffer == CHOOSE b \in Buffer : b \notin Range(pool) /\ \A r \in Request : held[r] # b

\* A pooled buffer is taken, or is too small and lost; else a new one.
AcquireBuffer(r) ==
    \/ /\ pool # <<>>
       /\ held' = [held EXCEPT ![r] = Head(pool)]
       /\ pool' = Tail(pool)
    \/ /\ held' = [held EXCEPT ![r] = NewBuffer]
       /\ pool' = IF pool = <<>> THEN pool ELSE Tail(pool)

ReleaseBuffer(r) ==
    /\ pool' = IF held[r] # None /\ Len(pool) < Cardinality(Worker)
               THEN Append(pool, held[r]) ELSE pool
    /\ held' = [held EXCEPT ![r] = None]

\* A reply is written and flushed under the writer's mutex.  The writer
\* keeps the first error.
Sent(r, ok) ==
    /\ wire = "ok" /\ open
    /\ replies' = [replies EXCEPT ![r] = IF ok THEN "ok" ELSE "error"]
    /\ UNCHANGED wire

NotSent ==
    /\ wire' = "broken"
    /\ UNCHANGED replies

-----------------------------------------------------------------------------
(* transmit: the workers.                                                  *)

Take(w) ==
    /\ worker[w].pc = "idle" /\ ~worker[w].failed
    /\ queue # <<>>
    /\ queue' = Tail(queue)
    /\ \/ AcquireBuffer(Head(queue))
       \/ UNCHANGED buffers
    /\ worker' = [worker EXCEPT ![w].pc = "busy", ![w].req = Head(queue)]
    /\ UNCHANGED <<server, lease, open, wire, main, kinds, qclosed, jobs, stop, fatal,
                   effects, result>>

\* Mutant: a dropped job is never done.
Skip_Undone(w) ==
    /\ worker[w].pc = "idle" /\ worker[w].failed
    /\ queue # <<>>
    /\ queue' = Tail(queue)
    /\ UNCHANGED <<server, lease, open, wire, main, kinds, qclosed, jobs, stop, fatal,
                   worker, buffers, effects, result>>

\* A worker that has failed drops what is left.
Skip(w) ==
    /\ worker[w].pc = "idle" /\ worker[w].failed
    /\ queue # <<>>
    /\ queue' = Tail(queue)
    /\ jobs' = jobs - 1
    /\ UNCHANGED <<server, lease, open, wire, main, kinds, qclosed, stop, fatal, worker,
                   buffers, effects, result>>

Finish(w) ==
    /\ worker[w].pc = "busy"
    /\ \E ok \in BOOLEAN : worker' = [worker EXCEPT ![w].pc = "reply", ![w].ok = ok]
    /\ observed' = [observed EXCEPT ![worker[w].req] = applied]
    /\ UNCHANGED <<server, lease, open, wire, main, kinds, jobsVars, buffers, applied,
                   replies, result>>

\* The buffer goes back and the job is done before a failure is announced.
Reply(w) ==
    /\ worker[w].pc = "reply"
    /\ \/ /\ Sent(worker[w].req, worker[w].ok)
          /\ worker' = [worker EXCEPT ![w] = Idle]
       \/ /\ NotSent
          /\ worker' = [worker EXCEPT ![w] = [Idle EXCEPT !.pc = "fail"]]
    /\ ReleaseBuffer(worker[w].req)
    /\ jobs' = jobs - 1
    /\ UNCHANGED <<server, lease, open, main, kinds, queue, qclosed, stop, fatal, applied,
                   observed, result>>

Fail(w) ==
    /\ worker[w].pc = "fail"
    /\ worker' = [worker EXCEPT ![w] = [Idle EXCEPT !.failed = TRUE]]
    /\ fatal' = TRUE
    /\ stop' = TRUE
    /\ open' = FALSE
    /\ UNCHANGED <<server, lease, wire, main, kinds, queue, qclosed, jobs, buffers,
                   effects, result>>

Exit(w) ==
    /\ worker[w].pc = "idle"
    /\ qclosed /\ queue = <<>>
    /\ worker' = [worker EXCEPT ![w].pc = "exit"]
    /\ UNCHANGED <<server, lease, open, wire, main, kinds, jobsVars, buffers, effects,
                   result>>

-----------------------------------------------------------------------------
(* transmit: the reader.                                                   *)

\* The loop ends with the given error.
Break(err) == main' = [main EXCEPT !.pc = "close", !.req = None, !.err = err]
To(pc) == main' = [main EXCEPT !.pc = pc]

Check ==
    /\ main.pc = "check"
    /\ IF stop THEN Break("cancelled") ELSE To("read")
    /\ UNCHANGED <<server, lease, open, wire, kinds, jobsVars, worker, buffers, effects,
                   result>>

\* jobs.Add, before the job is sent
Counted(kind) == IF kind = "read" THEN jobs + 1 ELSE jobs

\* Requests read ahead can still arrive after the channel was closed.
Receive(kind) ==
    LET r == Len(kinds) + 1 IN
    /\ main.pc = "read"
    /\ r <= MaxRequests
    /\ kinds' = Append(kinds, kind)
    /\ main' = [main EXCEPT !.req = r,
                            !.pc = CASE kind = "read" -> "enqueue"
                                     [] kind = "write" -> "payload"
                                     [] kind = "bare" -> "barrier"]
    /\ jobs' = Counted(kind)
    /\ IF kind = "write" THEN AcquireBuffer(r) ELSE UNCHANGED buffers
    /\ UNCHANGED <<server, lease, open, wire, queue, qclosed, stop, fatal, worker,
                   effects, result>>

\* End of file or a disconnect; a broken frame, a timeout or an oversized
\* write.
ReadEnds ==
    /\ main.pc = "read"
    /\ Break("none") \/ Break("failed")
    /\ UNCHANGED <<server, lease, open, wire, kinds, jobsVars, worker, buffers, effects,
                   result>>

Payload ==
    /\ main.pc = "payload"
    /\ \/ To("barrier") /\ UNCHANGED buffers
       \/ Break("failed") /\ ReleaseBuffer(main.req)
    /\ UNCHANGED <<server, lease, open, wire, kinds, jobsVars, worker, effects, result>>

\* Mutant: the mutation starts when the queue is empty.
Barrier_QueueOnly == queue = <<>>

\* jobs.Wait
Barrier == jobs = 0

Enter ==
    /\ main.pc = "barrier"
    /\ Barrier
    /\ IF stop THEN Break("cancelled") /\ ReleaseBuffer(main.req)
               ELSE To("busy") /\ UNCHANGED buffers
    /\ UNCHANGED <<server, lease, open, wire, kinds, jobsVars, worker, effects, result>>

\* The device call, and the flush of a forced write, which may fail alone.
Execute ==
    /\ main.pc = "busy"
    /\ \E ok \in BOOLEAN, change \in {{}, {main.req}} :
        /\ ok => change # {}
        /\ main' = [main EXCEPT !.pc = "reply", !.ok = ok]
        /\ applied' = applied \cup change
    /\ UNCHANGED <<server, lease, open, wire, kinds, jobsVars, worker, buffers, observed,
                   replies, result>>

Answer ==
    /\ main.pc = "reply"
    /\ \/ /\ Sent(main.req, main.ok)
          /\ main' = [main EXCEPT !.pc = "check", !.req = None]
       \/ NotSent /\ Break("failed")
    /\ ReleaseBuffer(main.req)
    /\ UNCHANGED <<server, lease, open, kinds, jobsVars, worker, applied, observed, result>>

Enqueue ==
    /\ main.pc = "enqueue"
    /\ \/ /\ Len(queue) < Cardinality(Worker)
          /\ queue' = Append(queue, main.req)
          /\ main' = [main EXCEPT !.pc = "check", !.req = None]
          /\ UNCHANGED jobs
       \/ /\ stop
          /\ jobs' = jobs - 1
          /\ Break("cancelled")
          /\ UNCHANGED queue
    /\ UNCHANGED <<server, lease, open, wire, kinds, qclosed, stop, fatal, worker, buffers,
                   effects, result>>

CloseQueue ==
    /\ main.pc = "close"
    /\ qclosed' = TRUE
    /\ To("drain")
    /\ UNCHANGED <<server, lease, open, wire, kinds, queue, jobs, stop, fatal, worker,
                   buffers, effects, result>>

\* Mutant: only the jobs are waited for.
Drained_Jobs == jobs = 0

\* jobs.Wait, workers.Wait
Drained == jobs = 0 /\ \A w \in Worker : worker[w].pc = "exit"

EndTransmission ==
    /\ main.pc = "drain"
    /\ Drained
    /\ result' = IF fatal THEN "fatal"
                 ELSE IF \/ main.err = "none"
                         \/ main.err = "cancelled" /\ conn \notin cancelled
                 THEN "nil" ELSE main.err
    /\ stop' = TRUE
    /\ To("return")
    /\ UNCHANGED <<server, lease, open, wire, kinds, queue, qclosed, jobs, fatal, worker,
                   buffers, effects>>

-----------------------------------------------------------------------------
\* What the goroutines do by themselves: device calls return.
WorkerRuns(w) == Take(w) \/ Skip(w) \/ Finish(w) \/ Fail(w) \/ Exit(w)
ReaderRuns ==
    \/ Check \/ Enter \/ Execute \/ Enqueue \/ CloseQueue
    \/ EndTransmission \/ Return \/ Left

\* A reply is written when the client reads it, or once the write must fail.
WorkerStep(w) == WorkerRuns(w) \/ Reply(w)
ReaderStep == ReaderRuns \/ Answer
WriteFails == ~open \/ wire = "broken"

\* What the reader does when the client acts, or once the channel is closed.
ClientStep == Negotiate \/ ReadEnds \/ Payload

Next ==
    \/ Serve \/ CloseCall \/ CloseCancels \/ Watch
    \/ ReaderStep
    \/ ClientStep
    \/ \E kind \in {"read", "write", "bare"} : Receive(kind)
    \/ \E w \in Worker : WorkerStep(w)

\* Goroutines run.  A client may send nothing and read nothing for ever, since
\* only reads have a deadline and that is optional; a closed channel fails
\* every read and write.
Fairness ==
    /\ WF_vars(CloseCancels) /\ WF_vars(Watch)
    /\ WF_vars(ReaderRuns) /\ WF_vars(WriteFails /\ Answer)
    /\ WF_vars(~open /\ ClientStep)
    /\ \A w \in Worker : WF_vars(WorkerRuns(w)) /\ WF_vars(WriteFails /\ Reply(w))

Spec == Init /\ [][Next]_vars /\ Fairness

-----------------------------------------------------------------------------
(* Properties.                                                             *)

\* A read sees every mutation sent before it on the connection and none that
\* was sent after it, although reads run concurrently.
ReadsInOrder ==
    \A r \in Request : observed[r] # None => observed[r] = {m \in applied : m < r}

\* A connection that ends without an error has answered all it received.
AllAnswered ==
    result = "nil" => \A r \in 1..Len(kinds) : replies[r] # "none"

\* No buffer serves two requests, or is in the pool while it serves one.
BufferExclusive ==
    /\ IsInjective(pool)
    /\ \A r \in Request : held[r] # None =>
        /\ held[r] \notin Range(pool)
        /\ \A q \in Request \ {r} : held[q] # held[r]

\* The device is used only under its lease.
LeaseCovers ==
    main.pc = "busy" \/ (\E w \in Worker : worker[w].pc = "busy") => lease

\* Every request is executed under the lease with a buffer of its own, and a
\* connection that ends well has answered it.
RequestsServed == TypeOK /\ AllAnswered /\ BufferExclusive /\ LeaseCovers

\* A call of close ends the connection it found, never a later one.
CloseHitsOwn == active /\ conn \in cancelled => conn \in asked

\* No reply of a worker waits for the client for ever.
RepliesTaken == \A w \in Worker : []<>(worker[w].pc # "reply")

\* close and a failed worker end the connection whatever its client does: the
\* workers finish and serve returns although the client neither sends nor
\* reads.  When the client ends it, by a disconnect or a bad frame, serve
\* returns provided the client goes on reading the replies still due: jobs.Wait
\* waits for them and their writes have no deadline.
ConnectionEnds ==
    /\ active /\ (conn \in cancelled \/ ~open) ~> ~active
    /\ RepliesTaken => (main.pc = "close" ~> ~active)

=============================================================================
