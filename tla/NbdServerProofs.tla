--------------------------- MODULE NbdServerProofs --------------------------
(***************************************************************************)
(* Safety of the NBD server, for any workers and any numbers of requests   *)
(* and connections: what a read sees, what each connection answers, which  *)
(* buffer serves which request, and what close ends.                       *)
(***************************************************************************)
EXTENDS NbdServer, TLAPS

Kinds == {"read", "write", "bare"}
Loop == {"check", "read", "payload", "barrier", "busy", "reply", "enqueue", "close", "drain"}
Holding == {"payload", "barrier", "busy", "reply", "enqueue"}

MainState ==
    [pc : Loop \cup {"idle", "negotiate", "return", "left"}, req : {None} \cup Request,
     ok : BOOLEAN, err : {"none", "failed", "cancelled"}]

WorkerState ==
    [pc : {"idle", "busy", "reply", "fail", "exit"}, req : {None} \cup Request,
     ok : BOOLEAN, failed : BOOLEAN]

ServerTypes ==
    /\ conn \in Nat /\ conn <= MaxConnections /\ active \in BOOLEAN
    /\ cancel \in {None} \cup 1..conn /\ closing \in {None} \cup 1..conn
    /\ cancelled \subseteq 1..conn /\ asked \subseteq 1..conn

LinkTypes ==
    /\ lease \in BOOLEAN /\ open \in BOOLEAN /\ wire \in {"ok", "broken"}
    /\ result \in {"none", "nil", "failed", "cancelled", "fatal"}

KindsTypes == kinds \in Seq(Kinds) /\ Len(kinds) <= MaxRequests
QueueTypes == queue \in Seq(Request) /\ Len(queue) <= Cardinality(Worker)
FlagTypes == qclosed \in BOOLEAN /\ stop \in BOOLEAN /\ fatal \in BOOLEAN

EffectTypes ==
    /\ applied \subseteq Request
    /\ observed \in [Request -> {None} \cup SUBSET Request]
    /\ replies \in [Request -> {"none", "ok", "error"}]

\* The types of all but the buffers and the count of jobs.
Types ==
    /\ ServerTypes /\ LinkTypes /\ KindsTypes /\ QueueTypes /\ FlagTypes /\ EffectTypes
    /\ main \in MainState
    /\ worker \in [Worker -> WorkerState]

\* The buffers.
Pooled ==
    /\ pool \in Seq(Buffer) /\ Len(pool) <= Cardinality(Worker)
    /\ held \in [Request -> {None} \cup Buffer]
    /\ BufferExclusive

\* A buffer that nobody uses.
Spare == \E b \in Buffer : b \notin Range(pool) /\ \A r \in Request : held[r] # b

\* Workers that have a request.
Busy == {w \in Worker : worker[w].pc \in {"busy", "reply"}}

\* What the steps use about numbers of workers.
Counts ==
    /\ Cardinality(Worker) \in Nat /\ Cardinality({}) = 0
    /\ \A S \in SUBSET Worker :
        /\ Cardinality(S) \in Nat /\ (Cardinality(S) = 0 => S = {})
        /\ \A w \in Worker \ S : Cardinality(S \cup {w}) = Cardinality(S) + 1

\* A worker that has a request has one that it was given, and the reader
\* holds one on its way from Receive to the queue, the reply or the end.  It
\* runs for a connection.
Assigned ==
    /\ main.pc # "idle" => conn > 0
    /\ \A w \in Busy : worker[w].req \in Request
    /\ main.pc \in Holding <=> main.req # None

Base == Types /\ Pooled /\ Assigned

\* The reader holds the last request received.
Reading ==
    /\ main.req # None => main.req = Len(kinds) /\ Len(kinds) > 0
    /\ main.req # None => (main.pc = "enqueue" <=> kinds[main.req] = "read")
    /\ main.pc = "negotiate" => kinds = <<>>

\* Requests that wait or are with workers are reads that were received, and
\* jobs counts them and the one about to be queued.
Handed ==
    /\ \A r \in Range(queue) : r <= Len(kinds) /\ kinds[r] = "read"
    /\ \A w \in Busy : worker[w].req <= Len(kinds) /\ kinds[worker[w].req] = "read"
    /\ jobs = Len(queue) + Cardinality(Busy) + (IF main.pc = "enqueue" THEN 1 ELSE 0)
    /\ main.pc = "busy" => jobs = 0

\* Outside the loop of transmit no request is left.  The lease is held from
\* Serve to Return.
Phases ==
    /\ main.pc \notin Loop => queue = <<>> /\ \A w \in Worker : worker[w].pc \in {"idle", "exit"}
    /\ main.pc \in Loop \cup {"negotiate", "return"} => lease

Flow == Reading /\ Handed /\ Phases

\* Mutations were received, and before every read that is not over.
Ordered ==
    /\ \A m \in applied : m <= Len(kinds) /\ kinds[m] # "read"
    /\ \A r \in Range(queue), m \in applied : m < r
    /\ \A w \in Busy : \A m \in applied : m < worker[w].req
    /\ \A r \in Request : observed[r] # None => r <= Len(kinds) /\ kinds[r] = "read"
    /\ ReadsInOrder

\* A context ends by close, a failure or EndTransmission, and an error of the
\* reader has ended its loop.
Causes ==
    /\ \A w \in Worker : worker[w].failed => fatal
    /\ stop /\ main.pc \in Loop \cup {"negotiate"} => conn \in cancelled \/ fatal
    /\ main.err = "cancelled" => conn \in cancelled \/ fatal
    /\ main.err # "none" => main.pc \in {"close", "drain", "return", "left", "idle"}

\* Why the loop may end although a request has no reply.
Excused ==
    fatal \/ main.err # "none" \/ (\E w \in Worker : worker[w].pc = "fail")

\* Nothing that was received is forgotten.
Kept ==
    \A r \in 1..Len(kinds) :
        \/ replies[r] # "none" \/ r \in Range(queue) \/ main.req = r \/ Excused
        \/ \E w \in Busy : worker[w].req = r

Outcome ==
    /\ Kept
    /\ main.pc = "negotiate" => result = "none"
    /\ result = "nil" => main.pc \in {"return", "left", "idle"}
    /\ AllAnswered

\* A caller of close holds the function of a connection it found.
Closing ==
    /\ closing # None => closing \in asked
    /\ CloseHitsOwn

-----------------------------------------------------------------------------
(* Sequences and cardinalities.                                            *)

\* Appending to a sequence.
LEMMA AppendFacts ==
    ASSUME NEW S, NEW q \in Seq(S), NEW e \in S
    PROVE  /\ Append(q, e) \in Seq(S) /\ Len(Append(q, e)) = Len(q) + 1
           /\ \A i \in 1..Len(q) : Append(q, e)[i] = q[i]
           /\ Append(q, e)[Len(q) + 1] = e
           /\ Range(Append(q, e)) = Range(q) \cup {e}
<1>1. /\ Append(q, e) \in Seq(S) /\ Len(Append(q, e)) = Len(q) + 1
      /\ \A i \in 1..Len(q) : Append(q, e)[i] = q[i]
      /\ Append(q, e)[Len(q) + 1] = e
  OBVIOUS
<1>2. DOMAIN q = 1..Len(q) /\ DOMAIN Append(q, e) = 1..(Len(q) + 1) /\ Len(q) \in Nat
  OBVIOUS
<1>3. ASSUME NEW n \in Nat PROVE 1..(n + 1) = 1..n \cup {n + 1}
  BY <1>3
<1>4. Range(Append(q, e)) = Range(q) \cup {e}
  BY <1>1, <1>2, <1>3 DEF Range
<1> QED BY <1>1, <1>4

\* Taking the first element of a sequence.
LEMMA TailFacts ==
    ASSUME NEW S, NEW q \in Seq(S), q # <<>>
    PROVE  /\ Tail(q) \in Seq(S) /\ Len(Tail(q)) = Len(q) - 1 /\ Len(q) > 0
           /\ Head(q) \in S /\ Head(q) \in Range(q)
           /\ Range(q) = Range(Tail(q)) \cup {Head(q)}
           /\ \A i \in 1..Len(Tail(q)) : Tail(q)[i] = q[i + 1]
<1>1. /\ Tail(q) \in Seq(S) /\ Len(Tail(q)) = Len(q) - 1 /\ Len(q) > 0 /\ Len(q) \in Nat
      /\ Head(q) = q[1] /\ Head(q) \in S
      /\ \A i \in 1..Len(Tail(q)) : Tail(q)[i] = q[i + 1]
  OBVIOUS
<1>2. DOMAIN q = 1..Len(q) /\ DOMAIN Tail(q) = 1..(Len(q) - 1)
  BY <1>1
<1>3. ASSUME NEW x \in Range(q) PROVE x \in Range(Tail(q)) \cup {Head(q)}
  <2>1. PICK i \in 1..Len(q) : x = q[i]
    BY <1>2, <1>3 DEF Range
  <2>2. CASE i = 1
    BY <1>1, <2>1, <2>2
  <2>3. CASE i # 1
    <3>1. i - 1 \in 1..(Len(q) - 1) /\ (i - 1) + 1 = i
      BY <1>1, <2>1, <2>3
    <3>2. Tail(q)[i - 1] = x
      BY <1>1, <2>1, <3>1
    <3> QED BY <1>2, <3>1, <3>2, Zenon DEF Range
  <2> QED BY <2>2, <2>3
<1>4. ASSUME NEW x \in Range(Tail(q)) PROVE x \in Range(q)
  <2>1. PICK i \in 1..(Len(q) - 1) : x = Tail(q)[i]
    BY <1>2, <1>4 DEF Range
  <2>2. i + 1 \in 1..Len(q) /\ x = q[i + 1]
    BY <1>1, <2>1
  <2> QED BY <1>2, <2>2 DEF Range
<1>5. Head(q) \in Range(q)
  BY <1>1, <1>2 DEF Range
<1> QED BY <1>1, <1>3, <1>4, <1>5

\* A sequence without repetitions keeps that without its first element, which
\* is not in the rest, and with an element that it did not have.
LEMMA InjectiveFacts ==
    ASSUME NEW S, NEW q \in Seq(S), IsInjective(q)
    PROVE  /\ q # <<>> => IsInjective(Tail(q)) /\ Head(q) \notin Range(Tail(q))
           /\ \A e \in S : e \notin Range(q) => IsInjective(Append(q, e))
<1>1. ASSUME q # <<>> PROVE IsInjective(Tail(q)) /\ Head(q) \notin Range(Tail(q))
  <2>1. /\ DOMAIN q = 1..Len(q) /\ DOMAIN Tail(q) = 1..(Len(q) - 1) /\ Len(q) \in Nat
        /\ Len(q) > 0 /\ Head(q) = q[1] /\ \A i \in 1..(Len(q) - 1) : Tail(q)[i] = q[i + 1]
    BY <1>1
  <2>2. \A i \in 1..(Len(q) - 1) : i + 1 \in 1..Len(q) /\ i + 1 # 1
    BY <2>1
  <2>3. 1 \in 1..Len(q)
    BY <2>1
  <2>4. ASSUME NEW a \in 1..(Len(q) - 1), NEW b \in 1..(Len(q) - 1), Tail(q)[a] = Tail(q)[b]
        PROVE  a = b
    <3>1. q[a + 1] = q[b + 1]
      BY <2>1, <2>4
    <3>2. a + 1 = b + 1
      BY <2>1, <2>2, <3>1 DEF IsInjective
    <3> QED BY <3>2
  <2>5. \A i \in 1..(Len(q) - 1) : Tail(q)[i] # q[1]
    BY <2>1, <2>2, <2>3 DEF IsInjective
  <2> QED BY <2>1, <2>4, <2>5 DEF IsInjective, Range
<1>2. ASSUME NEW e \in S, e \notin Range(q) PROVE IsInjective(Append(q, e))
  <2>1. /\ DOMAIN q = 1..Len(q) /\ DOMAIN Append(q, e) = 1..(Len(q) + 1) /\ Len(q) \in Nat
        /\ \A i \in 1..Len(q) : Append(q, e)[i] = q[i]
        /\ Append(q, e)[Len(q) + 1] = e
    OBVIOUS
  <2>2. \A i \in 1..(Len(q) + 1) : i \in 1..Len(q) \/ i = Len(q) + 1
    BY <2>1
  <2>3. \A i \in 1..Len(q) : q[i] # e
    BY <1>2, <2>1 DEF Range
  <2> QED BY <2>1, <2>2, <2>3 DEF IsInjective
<1> QED BY <1>1, <1>2

\* A request gets a buffer that no other request has.
LEMMA AcquireKeeps ==
    ASSUME Counts, Pooled, Spare, NEW r \in Request, AcquireBuffer(r)
    PROVE  Pooled'
<1>1. CASE pool # <<>> /\ held' = [held EXCEPT ![r] = Head(pool)] /\ pool' = Tail(pool)
  <2>1. /\ Tail(pool) \in Seq(Buffer) /\ Len(Tail(pool)) = Len(pool) - 1
        /\ Head(pool) \in Buffer /\ Head(pool) \in Range(pool)
        /\ Range(pool) = Range(Tail(pool)) \cup {Head(pool)}
    BY <1>1, TailFacts DEF Pooled
  <2>2. IsInjective(Tail(pool)) /\ Head(pool) \notin Range(Tail(pool))
    BY <1>1, InjectiveFacts DEF Pooled, BufferExclusive
  <2>3. pool' \in Seq(Buffer) /\ Len(pool') <= Cardinality(Worker)
    BY <1>1, <2>1 DEF Counts, Pooled
  <2>4. held' \in [Request -> {None} \cup Buffer]
    BY <1>1, <2>1 DEF Pooled
  <2>5. BufferExclusive'
    BY <1>1, <2>1, <2>2 DEF Pooled, BufferExclusive
  <2> QED BY <2>3, <2>4, <2>5 DEF Pooled
<1>2. CASE /\ held' = [held EXCEPT ![r] = NewBuffer]
           /\ pool' = IF pool = <<>> THEN pool ELSE Tail(pool)
  <2>1. /\ NewBuffer \in Buffer /\ NewBuffer \notin Range(pool)
        /\ \A q \in Request : held[q] # NewBuffer
    BY DEF Spare, NewBuffer
  <2>2. /\ pool' \in Seq(Buffer) /\ Len(pool') <= Cardinality(Worker)
        /\ Range(pool') \subseteq Range(pool) /\ IsInjective(pool')
    <3>1. CASE pool = <<>>
      BY <1>2, <3>1 DEF Pooled, BufferExclusive
    <3>2. CASE pool # <<>>
      <4>1. /\ Tail(pool) \in Seq(Buffer) /\ Len(Tail(pool)) = Len(pool) - 1
            /\ Range(pool) = Range(Tail(pool)) \cup {Head(pool)}
        BY <3>2, TailFacts DEF Pooled
      <4>2. IsInjective(Tail(pool))
        BY <3>2, InjectiveFacts DEF Pooled, BufferExclusive
      <4>3. Cardinality(Worker) \in Nat /\ Len(pool) \in Nat
        BY DEF Counts, Pooled
      <4> QED BY <1>2, <3>2, <4>1, <4>2, <4>3 DEF Pooled
    <3> QED BY <3>1, <3>2
  <2>3. held' \in [Request -> {None} \cup Buffer]
    BY <1>2, <2>1 DEF Pooled
  <2>4. BufferExclusive'
    BY <1>2, <2>1, <2>2 DEF Pooled, BufferExclusive
  <2> QED BY <2>2, <2>3, <2>4 DEF Pooled
<1> QED BY <1>1, <1>2 DEF AcquireBuffer

\* A buffer returns to the pool once and leaves its request.
LEMMA ReleaseKeeps ==
    ASSUME Counts, Pooled, NEW r \in Request, ReleaseBuffer(r)
    PROVE  Pooled'
<1>1. held' = [held EXCEPT ![r] = None] /\ held' \in [Request -> {None} \cup Buffer]
  BY DEF ReleaseBuffer, Pooled
<1>2. CASE held[r] # None /\ Len(pool) < Cardinality(Worker)
  <2>1. held[r] \in Buffer /\ held[r] \notin Range(pool) /\ pool' = Append(pool, held[r])
    BY <1>2 DEF Pooled, BufferExclusive, ReleaseBuffer
  <2>2. /\ pool' \in Seq(Buffer) /\ Len(pool') = Len(pool) + 1
        /\ Range(pool') = Range(pool) \cup {held[r]}
    BY <2>1, AppendFacts DEF Pooled
  <2>3. IsInjective(pool')
    BY <2>1, InjectiveFacts DEF Pooled, BufferExclusive
  <2>4. Cardinality(Worker) \in Nat /\ Len(pool) \in Nat
    BY DEF Counts, Pooled
  <2>5. Len(pool') <= Cardinality(Worker)
    BY <1>2, <2>2, <2>4
  <2>6. BufferExclusive'
    BY <1>1, <2>1, <2>2, <2>3 DEF Pooled, BufferExclusive
  <2> QED BY <1>1, <2>2, <2>5, <2>6 DEF Pooled
<1>3. CASE ~(held[r] # None /\ Len(pool) < Cardinality(Worker))
  <2>1. pool' = pool
    BY <1>3 DEF ReleaseBuffer
  <2>2. BufferExclusive'
    BY <1>1, <2>1 DEF Pooled, BufferExclusive
  <2> QED BY <1>1, <2>1, <2>2 DEF Pooled
<1> QED BY <1>2, <1>3

-----------------------------------------------------------------------------
(* Steps.                                                                  *)

\* Which steps change what.
LEMMA Frame ==
    ASSUME [Next]_vars
    PROVE  /\ UNCHANGED server \/ Serve \/ CloseCall \/ CloseCancels \/ Left
           /\ \/ UNCHANGED <<lease, open, wire, result>> \/ Serve \/ Watch \/ Negotiate
              \/ Return \/ Answer \/ EndTransmission \/ \E w \in Worker : Reply(w) \/ Fail(w)
           /\ UNCHANGED kinds \/ Serve \/ (\E kind \in Kinds : Receive(kind))
           /\ UNCHANGED queue \/ Serve \/ Enqueue \/ (\E w \in Worker : Take(w) \/ Skip(w))
           /\ \/ UNCHANGED <<qclosed, stop, fatal>> \/ Serve \/ CloseCancels \/ CloseQueue
              \/ EndTransmission \/ \E w \in Worker : Fail(w)
           /\ \/ UNCHANGED effects \/ Serve \/ Execute \/ Answer
              \/ \E w \in Worker : Finish(w) \/ Reply(w)
           /\ \/ UNCHANGED buffers \/ (\E kind \in Kinds : Receive(kind)) \/ Payload \/ Enter
              \/ Answer \/ \E w \in Worker : Take(w) \/ Reply(w)
<1> USE ZenonT(30) DEF server, jobsVars, effects, buffers
<1>1. CASE Serve
  BY <1>1 DEF Serve
<1>2. CASE CloseCall \/ CloseCancels \/ Watch
  BY <1>2 DEF CloseCall, CloseCancels, Watch
<1>3. CASE ReaderStep
  BY <1>3 DEF ReaderStep, ReaderRuns, Check, Enter, Execute, Answer, Enqueue, CloseQueue,
              EndTransmission, Return, Left
<1>4. CASE ClientStep
  BY <1>4 DEF ClientStep, Negotiate, ReadEnds, Payload
<1>5. CASE \E kind \in Kinds : Receive(kind)
  BY <1>5 DEF Receive
<1>6. CASE \E w \in Worker : WorkerStep(w)
  BY <1>6 DEF WorkerStep, WorkerRuns, Take, Skip, Finish, Reply, Fail, Exit
<1>7. CASE UNCHANGED vars
  BY <1>7 DEF vars
<1> QED BY <1>1, <1>2, <1>3, <1>4, <1>5, <1>6, <1>7 DEF Next, Kinds

\* A connection starts, a request arrives or is queued, a worker moves, the
\* reader moves without touching requests, or none of these.
LEMMA Steps ==
    ASSUME [Next]_vars
    PROVE  \/ Serve
           \/ \E kind \in Kinds : Receive(kind)
           \/ Enqueue
           \/ \E w \in Worker : WorkerStep(w)
           \/ /\ ReaderStep \/ ClientStep
              /\ UNCHANGED <<kinds, queue, jobs, worker, observed, fatal>>
           \/ UNCHANGED <<main, kinds, queue, jobs, worker, applied, observed, replies, result,
                          lease, fatal>>
<1> USE Zenon DEF jobsVars, effects
<1>1. CASE CloseCall \/ CloseCancels \/ Watch \/ UNCHANGED vars
  BY <1>1 DEF CloseCall, CloseCancels, Watch, vars
<1>2. CASE ReaderStep
  BY <1>2 DEF ReaderStep, ReaderRuns, Check, Enter, Execute, Answer, CloseQueue, EndTransmission, Return, Left
<1>3. CASE ClientStep
  BY <1>3 DEF ClientStep, Negotiate, ReadEnds, Payload
<1> QED BY <1>1, <1>2, <1>3 DEF Next, Kinds

\* How the reader moves: it keeps its request up to the reply or the queue,
\* enters a mutation from the barrier only, leaves the loop by its end, and
\* takes an error when it breaks off.
LEMMA ReaderMoves ==
    ASSUME main \in MainState, main.pc \in Holding <=> main.req # None, ReaderStep \/ ClientStep
    PROVE  /\ main' \in MainState
           /\ main.pc # "idle" /\ main'.pc # "negotiate" /\ main'.pc # "enqueue"
           /\ main.pc = "enqueue" => Enqueue
           /\ main'.pc \in Holding => main'.req = main.req /\ main.pc \in Holding
           /\ main'.pc \in Holding <=> main'.req # None
           /\ main'.pc = "busy" => Enter
           /\ main'.pc \in Loop => main.pc \in Loop \cup {"negotiate"}
           /\ main'.pc \in {"left", "return"} =>
                main.pc \in {"return", "negotiate"} \/ EndTransmission
           /\ main.pc \in Loop => main'.pc \in Loop \/ EndTransmission
           /\ main'.err # main.err => /\ main'.pc = "close"
                                      /\ main'.err = "cancelled" => stop
                                      /\ main.pc \in Loop \ {"close", "drain"}
           /\ main'.req # main.req => main'.err # "none" \/ Answer \/ Enqueue
           /\ main.pc \in {"close", "drain", "return", "left", "idle"} =>
                main'.pc \in {"drain", "return", "left", "idle"}
<1> USE ZenonT(30) DEF MainState, Loop, Holding
<1>0. CASE Check /\ stop
  BY <1>0 DEF Check, Break
<1>1. CASE Check /\ ~stop
  BY <1>1 DEF Check, To
<1>2. CASE Enter
  BY <1>2 DEF Enter, Break, To
<1>3. CASE Execute
  BY <1>3 DEF Execute
<1>4. CASE Answer
  BY <1>4 DEF Answer, Break
<1>5. CASE Enqueue
  BY <1>5 DEF Enqueue, Break
<1>6. CASE CloseQueue
  BY <1>6 DEF CloseQueue, To
<1>7. CASE EndTransmission
  BY <1>7 DEF EndTransmission, To
<1>8. CASE Return
  BY <1>8 DEF Return
<1>9. CASE Left
  BY <1>9 DEF Left
<1>10. CASE Negotiate
  BY <1>10 DEF Negotiate
<1>11. CASE ReadEnds
  BY <1>11 DEF ReadEnds, Break
<1>12. CASE Payload
  BY <1>12 DEF Payload, Break, To
<1> QED BY <1>0, <1>1, <1>2, <1>3, <1>4, <1>5, <1>6, <1>7, <1>8, <1>9, <1>10, <1>11, <1>12
        DEF ReaderStep, ReaderRuns, ClientStep

-----------------------------------------------------------------------------
(* Types, buffers and who holds a request.                                 *)

\* The server starts idle, with no buffer in use.
LEMMA BaseInit == Counts /\ Init => Base
<1> SUFFICES ASSUME Counts, Init PROVE Base
  OBVIOUS
<1>1. main \in MainState /\ worker \in [Worker -> WorkerState]
  BY DEF Init, MainState, WorkerState, Resting, Idle
<1>2. KindsTypes /\ QueueTypes
  BY ServerAssumption DEF Counts, Init, KindsTypes, QueueTypes
<1>3. ServerTypes
  <2>1. 0 \in Nat /\ 0 <= MaxConnections
    BY ServerAssumption
  <2> QED BY <2>1, Zenon DEF Init, ServerTypes
<1>6. LinkTypes /\ FlagTypes
  BY Zenon DEF Init, LinkTypes, FlagTypes
<1>7. EffectTypes
  BY DEF Init, EffectTypes
<1>4. Pooled
  BY DEF Counts, Init, Pooled, BufferExclusive, IsInjective
<1>5. Assigned
  BY DEF Init, Assigned, Busy, Idle, Resting, Holding
<1> QED BY <1>1, <1>2, <1>3, <1>4, <1>5, <1>6, <1>7 DEF Base, Types

\* What a step of a worker does to the workers.
LEMMA WorkerMoves ==
    ASSUME worker \in [Worker -> WorkerState], QueueTypes, NEW w \in Worker, WorkerStep(w)
    PROVE  /\ worker' \in [Worker -> WorkerState]
           /\ \A v \in Worker : v # w => worker'[v] = worker[v]
           /\ Take(w) => /\ worker'[w].pc = "busy" /\ worker'[w].req = Head(queue)
                         /\ worker'[w].failed = worker[w].failed
           /\ Finish(w) => /\ worker'[w].pc = "reply" /\ worker'[w].req = worker[w].req
                           /\ worker'[w].failed = worker[w].failed
           /\ Reply(w) => worker'[w].pc \in {"idle", "fail"} /\ ~worker'[w].failed
           /\ Fail(w) => worker'[w].pc = "idle"
           /\ Exit(w) => /\ worker'[w].pc = "exit" /\ worker'[w].failed = worker[w].failed
<1>1. CASE Take(w)
  <2>1. Head(queue) \in Request
    BY <1>1, TailFacts DEF Take, QueueTypes
  <2>2. worker' = [worker EXCEPT ![w].pc = "busy", ![w].req = Head(queue)]
    BY <1>1 DEF Take
  <2>3. ~Finish(w) /\ ~Reply(w) /\ ~Fail(w)
    BY <1>1 DEF Take, Finish, Reply, Fail
  <2>4. ~Exit(w)
    BY <1>1 DEF Take, Exit
  <2> QED BY <2>1, <2>2, <2>3, <2>4, ZenonT(30) DEF WorkerState
<1>2. CASE Skip(w)
  <2>1. worker' = worker /\ ~Take(w) /\ ~Finish(w) /\ ~Reply(w) /\ ~Fail(w) /\ ~Exit(w)
    BY <1>2 DEF Skip, Take, Finish, Reply, Fail, Exit
  <2> QED BY <2>1
<1>3. CASE Finish(w)
  <2>1. ~Take(w) /\ ~Reply(w) /\ ~Fail(w) /\ ~Exit(w)
    BY <1>3 DEF Finish, Take, Reply, Fail, Exit
  <2>2. PICK ok \in BOOLEAN : worker' = [worker EXCEPT ![w].pc = "reply", ![w].ok = ok]
    BY <1>3, Zenon DEF Finish
  <2> QED BY <2>1, <2>2, ZenonT(30) DEF WorkerState
<1>4. CASE Reply(w)
  <2>1. ~Take(w) /\ ~Finish(w) /\ ~Fail(w) /\ ~Exit(w)
    BY <1>4 DEF Finish, Take, Reply, Fail, Exit
  <2>2. CASE worker' = [worker EXCEPT ![w] = Idle]
    BY <2>1, <2>2 DEF WorkerState, Idle
  <2>3. CASE worker' = [worker EXCEPT ![w] = [Idle EXCEPT !.pc = "fail"]]
    BY <2>1, <2>3, Zenon DEF WorkerState, Idle
  <2> QED BY <1>4, <2>2, <2>3 DEF Reply
<1>5. CASE Fail(w)
  <2>1. ~Take(w) /\ ~Finish(w) /\ ~Reply(w) /\ ~Exit(w)
    BY <1>5 DEF Finish, Take, Reply, Fail, Exit
  <2>2. worker' = [worker EXCEPT ![w] = [Idle EXCEPT !.failed = TRUE]]
    BY <1>5 DEF Fail
  <2> QED BY <2>1, <2>2, Zenon DEF WorkerState, Idle
<1>6. CASE Exit(w)
  <2>1. ~Take(w) /\ ~Finish(w) /\ ~Reply(w) /\ ~Fail(w)
    BY <1>6 DEF Finish, Take, Reply, Fail, Exit
  <2>2. worker' = [worker EXCEPT ![w].pc = "exit"]
    BY <1>6 DEF Exit
  <2> QED BY <2>1, <2>2 DEF WorkerState
<1> QED BY <1>1, <1>2, <1>3, <1>4, <1>5, <1>6 DEF WorkerStep, WorkerRuns

\* Every step of the server keeps its types, its buffers apart and its
\* requests in hands.
LEMMA BaseStep == Counts /\ (Pooled => Spare) /\ Base /\ [Next]_vars => Base'
<1> SUFFICES ASSUME Counts, Spare, Types, Pooled, Assigned, [Next]_vars
             PROVE  Types' /\ Pooled' /\ Assigned'
  BY DEF Base
<1>1. ServerTypes'
  <2>1. CASE Serve
    <3>1. conn \in Nat /\ 1..conn \subseteq 1..(conn + 1) /\ conn + 1 \in 1..(conn + 1)
      BY DEF Types, ServerTypes
    <3>2. conn' = conn + 1 /\ conn' \in Nat /\ conn' <= MaxConnections
      BY <2>1, <3>1, ServerAssumption DEF Serve
    <3> QED BY <2>1, <3>1, <3>2, Zenon DEF Serve, Types, ServerTypes
  <2>2. CASE CloseCall \/ CloseCancels
    BY <2>2, Zenon DEF CloseCall, CloseCancels, Types, ServerTypes
  <2>3. CASE Left
    <3>1. conn \in 1..conn
      BY <2>3 DEF Left, Assigned, Types, ServerTypes
    <3> QED BY <2>3, <3>1, Zenon DEF Left, Types, ServerTypes
  <2>4. CASE UNCHANGED server
    BY <2>4, Zenon DEF server, Types, ServerTypes
  <2> QED BY <2>1, <2>2, <2>3, <2>4, Frame
<1>2. LinkTypes'
  <2> USE Zenon DEF Types, LinkTypes
  <2>1. CASE Serve \/ Watch \/ Negotiate \/ Return
    BY <2>1 DEF Serve, Watch, Negotiate, Return
  <2>2. CASE Answer
    BY <2>2 DEF Answer, Sent, NotSent
  <2>3. CASE EndTransmission
    <3>1. main.err \in {"none", "failed", "cancelled"}
      BY DEF MainState
    <3> QED BY <2>3, <3>1 DEF EndTransmission
  <2>4. CASE \E w \in Worker : Reply(w) \/ Fail(w)
    BY <2>4 DEF Reply, Fail, Sent, NotSent
  <2>5. CASE UNCHANGED <<lease, open, wire, result>>
    BY <2>5
  <2> QED BY <2>1, <2>2, <2>3, <2>4, <2>5, Frame
<1>r. /\ \A kind \in Kinds : Receive(kind) => Len(kinds) + 1 \in Request
      /\ \A w \in Worker : Take(w) => Head(queue) \in Request
  <2>1. \A kind \in Kinds : Receive(kind) => Len(kinds) + 1 \in Request
    BY DEF Receive, Types, KindsTypes, Request
  <2>2. queue # <<>> => Head(queue) \in Request
    BY TailFacts DEF Types, QueueTypes
  <2> QED BY <2>1, <2>2, Zenon DEF Take
<1>3. KindsTypes'
  <2>2. CASE Serve
    BY <2>2, ServerAssumption DEF Serve, KindsTypes
  <2>3. CASE \E kind \in Kinds : Receive(kind)
    BY <2>3, AppendFacts DEF Receive, Types, KindsTypes
  <2>4. CASE UNCHANGED kinds
    BY <2>4 DEF Types, KindsTypes
  <2> QED BY <2>2, <2>3, <2>4, Frame
<1>4. QueueTypes'
  <2>0. Len(queue) \in Nat /\ Cardinality(Worker) \in Nat
    BY DEF Counts, Types, QueueTypes
  <2>1. CASE Serve
    BY <2>0, <2>1 DEF Serve, QueueTypes
  <2>2. CASE Enqueue
    <3>1. main.req \in Request
      BY <2>2, Zenon DEF Enqueue, Types, MainState, Assigned, Holding
    <3> QED BY <2>0, <2>2, <3>1, AppendFacts DEF Enqueue, Types, QueueTypes
  <2>3. CASE \E w \in Worker : Take(w) \/ Skip(w)
    <3>1. queue # <<>> /\ queue' = Tail(queue)
      BY <2>3, Zenon DEF Take, Skip
    <3> QED BY <2>0, <3>1, TailFacts DEF Types, QueueTypes
  <2>4. CASE UNCHANGED queue
    BY <2>4 DEF Types, QueueTypes
  <2> QED BY <2>1, <2>2, <2>3, <2>4, Frame
<1>5. FlagTypes'
  <2> USE Zenon DEF Types, FlagTypes
  <2>1. CASE Serve \/ CloseCancels \/ CloseQueue \/ EndTransmission
    BY <2>1 DEF Serve, CloseCancels, CloseQueue, EndTransmission
  <2>2. CASE \E w \in Worker : Fail(w)
    BY <2>2 DEF Fail
  <2> QED BY <2>1, <2>2, Frame
<1>6. main' \in MainState /\ (main'.pc \in Holding <=> main'.req # None)
  <2>1. CASE Serve
    BY <2>1, Zenon DEF Serve, Resting, MainState, Holding
  <2>2. CASE \E kind \in Kinds : Receive(kind)
    <3> PICK kind \in Kinds : Receive(kind)
      BY <2>2
    <3>1. Len(kinds) + 1 \in Request /\ Len(kinds) + 1 # None
      BY <1>r, ServerAssumption DEF Request
    <3> QED BY <3>1, Zenon DEF Receive, Types, MainState, Loop, Holding, Kinds
  <2>3. CASE ReaderStep \/ ClientStep
    BY <2>3, ReaderMoves DEF Types, Assigned
  <2>4. CASE UNCHANGED main
    BY <2>4 DEF Types, Assigned
  <2>5. CASE \E w \in Worker : WorkerStep(w)
    BY <2>4, <2>5, SMTT(30) DEF WorkerStep, WorkerRuns, Take, Skip, Finish, Reply, Fail, Exit
  <2> QED BY <2>1, <2>2, <2>3, <2>4, <2>5, Steps DEF ReaderStep, ReaderRuns
<1>7. /\ worker' \in [Worker -> WorkerState]
      /\ \A w \in Busy' : worker'[w].req \in Request
  <2>1. CASE Serve
    BY <2>1, Zenon DEF Serve, WorkerState, Idle, Busy
  <2>2. CASE \E w \in Worker : WorkerStep(w)
    <3> PICK w \in Worker : WorkerStep(w)
      BY <2>2
    <3>1. worker' \in [Worker -> WorkerState] /\ \A v \in Worker : v # w => worker'[v] = worker[v]
      BY WorkerMoves DEF Types
    <3>2. worker'[w].pc \in {"busy", "reply"} => worker'[w].req \in Request
      <4>1. CASE Take(w)
        BY <1>r, <4>1, WorkerMoves DEF Types
      <4>2. CASE Skip(w)
        BY <4>2, SMTT(30) DEF Skip, Assigned, Busy
      <4>3. CASE Finish(w)
        BY <4>3, WorkerMoves, Zenon DEF Types, Finish, Assigned, Busy
      <4>4. CASE Reply(w) \/ Fail(w) \/ Exit(w)
        BY <4>4, WorkerMoves DEF Types
      <4> QED BY <4>1, <4>2, <4>3, <4>4 DEF WorkerStep, WorkerRuns
    <3> QED BY <3>1, <3>2 DEF Assigned, Busy
  <2>3. CASE UNCHANGED worker
    BY <2>3 DEF Types, Assigned, Busy
  <2> QED BY <2>1, <2>2, <2>3, Steps, Zenon DEF Enqueue, Receive
<1>8. /\ Execute \/ Answer \/ Payload \/ Enter => main.req \in Request
      /\ \A w \in Worker : Finish(w) \/ Reply(w) => worker[w].req \in Request
  BY Zenon DEF Execute, Answer, Payload, Enter, Finish, Reply, Types, MainState, Assigned,
               Holding, Busy
<1>9. EffectTypes'
  <2>1. CASE Serve
    BY <2>1, Zenon DEF Serve, EffectTypes
  <2>2. CASE Execute
    BY <1>8, <2>2, Zenon DEF Execute, Types, EffectTypes
  <2>3. CASE Answer
    BY <1>8, <2>3 DEF Answer, Sent, NotSent, Types, EffectTypes
  <2>4. CASE \E w \in Worker : Finish(w) \/ Reply(w)
    BY <1>8, <2>4 DEF Finish, Reply, Sent, NotSent, Types, EffectTypes
  <2>5. CASE UNCHANGED effects
    BY <2>5 DEF effects, Types, EffectTypes
  <2> QED BY <2>1, <2>2, <2>3, <2>4, <2>5, Frame
<1>10. Pooled'
  <2>1. CASE UNCHANGED buffers
    BY <2>1 DEF buffers, Pooled, BufferExclusive
  <2>2. CASE \E r \in Request : AcquireBuffer(r) \/ ReleaseBuffer(r)
    BY <2>2, AcquireKeeps, ReleaseKeeps
  <2>3. CASE (\E kind \in Kinds : Receive(kind)) \/ (\E w \in Worker : Take(w))
    BY <1>r, <2>1, <2>2, <2>3, Zenon DEF Receive, Take
  <2>4. CASE Payload \/ Enter \/ Answer \/ \E w \in Worker : Reply(w)
    BY <1>8, <2>1, <2>2, <2>4, Zenon DEF Payload, Enter, Answer, Reply
  <2> QED BY <2>1, <2>3, <2>4, Frame
<1>11. main'.pc # "idle" => conn' > 0
  <2>1. CASE Serve
    BY <2>1 DEF Serve, Types, ServerTypes
  <2>2. CASE ~Serve
    <3>1. conn' = conn
      BY <2>2, Frame, Zenon DEF server, CloseCall, CloseCancels, Left
    <3>2. CASE main' = main
      BY <3>1, <3>2 DEF Assigned
    <3>3. CASE ReaderStep \/ ClientStep \/ \E kind \in Kinds : Receive(kind)
      BY <3>1, <3>3, ReaderMoves, Zenon DEF Receive, Assigned, Types
    <3>4. CASE \E w \in Worker : WorkerStep(w)
      BY <3>2, <3>4 DEF WorkerStep, WorkerRuns, Take, Skip, Finish, Reply, Fail, Exit
    <3> QED BY <2>2, <3>2, <3>3, <3>4, Steps DEF ReaderStep, ReaderRuns
  <2> QED BY <2>1, <2>2
<1> QED BY <1>1, <1>2, <1>3, <1>4, <1>5, <1>6, <1>7, <1>9, <1>10, <1>11 DEF Types, Assigned

-----------------------------------------------------------------------------
(* Requests on their way through queue and workers.                        *)

\* What a step of a worker does to the number of workers that have a request.
LEMMA BusyMoves ==
    ASSUME Counts, Types, NEW w \in Worker, WorkerStep(w)
    PROVE  /\ Cardinality(Busy) \in Nat
           /\ Take(w) => Busy' = Busy \cup {w} /\ Cardinality(Busy') = Cardinality(Busy) + 1
           /\ Reply(w) => /\ Busy' = Busy \ {w} /\ Cardinality(Busy') = Cardinality(Busy) - 1
                          /\ Cardinality(Busy) > 0
           /\ Skip(w) \/ Finish(w) \/ Fail(w) \/ Exit(w) => Busy' = Busy
<1>1. Busy \in SUBSET Worker /\ Busy' \in SUBSET Worker /\ Cardinality(Busy) \in Nat
  BY DEF Counts, Busy
<1>2. worker \in [Worker -> WorkerState] /\ QueueTypes
  BY DEF Types
<1>3. \A v \in Worker : v # w => worker'[v] = worker[v]
  BY <1>2, WorkerMoves
<1>4. ASSUME Take(w) PROVE Busy' = Busy \cup {w} /\ Cardinality(Busy') = Cardinality(Busy) + 1
  <2>1. worker'[w].pc = "busy" /\ w \notin Busy
    BY <1>2, <1>4, WorkerMoves, Zenon DEF Take, Busy
  <2>2. Busy' = Busy \cup {w}
    BY <1>3, <2>1 DEF Busy
  <2> QED BY <1>1, <2>1, <2>2, SMTT(30) DEF Counts
<1>5. ASSUME Reply(w)
      PROVE  /\ Busy' = Busy \ {w} /\ Cardinality(Busy') = Cardinality(Busy) - 1
             /\ Cardinality(Busy) > 0
  <2>1. worker'[w].pc \in {"idle", "fail"} /\ w \in Busy
    BY <1>2, <1>5, WorkerMoves DEF Reply, Busy
  <2>2. Busy' = Busy \ {w}
    BY <1>3, <2>1 DEF Busy
  <2>3. Busy = Busy' \cup {w} /\ w \in Worker \ Busy' /\ Cardinality(Busy') \in Nat
    BY <1>1, <2>1, <2>2 DEF Counts
  <2>4. Cardinality(Busy) = Cardinality(Busy') + 1
    BY <1>1, <2>3 DEF Counts
  <2> QED BY <1>1, <2>2, <2>3, <2>4
<1>6. ASSUME Skip(w) \/ Finish(w) \/ Fail(w) \/ Exit(w) PROVE Busy' = Busy
  <2>1. CASE Skip(w)
    BY <2>1 DEF Skip, Busy
  <2>2. CASE Finish(w)
    <3>1. worker'[w].pc = "reply" /\ worker[w].pc = "busy"
      BY <1>2, <2>2, WorkerMoves, Zenon DEF Finish
    <3> QED BY <1>3, <3>1, SMTT(30) DEF Busy
  <2>3. CASE Fail(w)
    <3>1. worker'[w].pc = "idle" /\ worker[w].pc = "fail"
      BY <1>2, <2>3, WorkerMoves, Zenon DEF Fail
    <3> QED BY <1>3, <3>1 DEF Busy
  <2>4. CASE Exit(w)
    <3>1. worker'[w].pc = "exit" /\ worker[w].pc = "idle"
      BY <1>2, <2>4, WorkerMoves DEF Exit
    <3> QED BY <1>3, <3>1 DEF Busy
  <2> QED BY <1>6, <2>1, <2>2, <2>3, <2>4
<1> QED BY <1>1, <1>4, <1>5, <1>6

\* The server starts with nothing on its way.
LEMMA FlowInit == Counts /\ Init => Flow
<1> SUFFICES ASSUME Counts, Init PROVE Flow
  OBVIOUS
<1>1. Busy = {} /\ Cardinality(Busy) = 0
  BY Zenon DEF Counts, Init, Busy, Idle
<1>2. Range(queue) = {}
  BY DEF Init, Range
<1>3. Reading
  BY DEF Init, Reading, Resting
<1>4. Handed
  BY <1>1, <1>2 DEF Init, Handed, Resting
<1>5. Phases
  BY DEF Init, Phases, Loop, Resting, Idle
<1> QED BY <1>3, <1>4, <1>5 DEF Flow

\* Every step keeps requests on their way and counted.
LEMMA FlowStep == Counts /\ Base /\ Flow /\ [Next]_vars => Flow'
<1> SUFFICES ASSUME Counts, Types, Assigned, Reading, Handed, Phases, [Next]_vars
             PROVE  Reading' /\ Handed' /\ Phases'
  BY DEF Base, Flow
<1>c. /\ Cardinality(Busy) \in Nat /\ Len(queue) \in Nat /\ Len(kinds) \in Nat
      /\ (queue = <<>> <=> Len(queue) = 0) /\ main \in MainState
      /\ (main.pc \in Holding <=> main.req # None)
  <2>1. Busy \in SUBSET Worker
    BY DEF Busy
  <2> QED BY <2>1 DEF Counts, Types, QueueTypes, KindsTypes, Assigned
<1>1. CASE Serve
  <2>1. Busy' = {} /\ Cardinality(Busy') = 0 /\ Range(queue') = {}
    <3>1. Busy' = {} /\ queue' = <<>>
      BY <1>1 DEF Serve, Busy, Idle
    <3> QED BY <3>1 DEF Counts, Range
  <2> QED BY <1>1, <2>1 DEF Serve, Reading, Handed, Phases, Loop, Resting, Idle
<1>2. CASE \E kind \in Kinds : Receive(kind)
  <2> PICK kind \in Kinds : Receive(kind)
    BY <1>2
  <2> DEFINE r == Len(kinds) + 1
  <2>1. /\ Len(kinds') = r /\ kinds'[r] = kind
        /\ \A i \in Request : i <= Len(kinds) => i <= Len(kinds') /\ kinds'[i] = kinds[i]
    BY <1>c, AppendFacts DEF Receive, Types, KindsTypes, Request
  <2>2. /\ main'.req = r /\ main'.pc \in {"enqueue", "payload", "barrier"}
        /\ main'.pc = "enqueue" <=> kind = "read"
        /\ UNCHANGED <<queue, worker, lease>> /\ Busy' = Busy
        /\ main.pc = "read" /\ jobs' = Counted(kind)
    BY <1>c DEF Receive, MainState, Kinds, Busy
  <2>3. Range(queue) \subseteq Request /\ \A w \in Busy : worker[w].req \in Request
    BY DEF Types, QueueTypes, Assigned, Range
  <2>4. jobs' = Len(queue') + Cardinality(Busy') + (IF main'.pc = "enqueue" THEN 1 ELSE 0)
    BY <1>c, <2>2 DEF Handed, Counted
  <2>5. Handed'
    BY <2>1, <2>2, <2>3, <2>4 DEF Handed
  <2>6. Reading'
    BY <1>c, <2>1, <2>2 DEF Reading
  <2> QED BY <2>2, <2>5, <2>6 DEF Phases, Loop
<1>3. CASE Enqueue
  <2>1. /\ main.req = Len(kinds) /\ main.req \in Request /\ kinds[main.req] = "read"
        /\ main'.pc \in {"check", "close"} /\ main'.req = None
        /\ UNCHANGED <<kinds, worker, lease>> /\ Busy' = Busy
    BY <1>c, <1>3, Zenon DEF Enqueue, Reading, Holding, MainState, Break, Busy
  <2>2. \/ queue' = queue /\ jobs' = jobs - 1
        \/ /\ Len(queue') = Len(queue) + 1 /\ Range(queue') = Range(queue) \cup {main.req}
           /\ jobs' = jobs
    <3>1. /\ Len(Append(queue, main.req)) = Len(queue) + 1
          /\ Range(Append(queue, main.req)) = Range(queue) \cup {main.req}
      BY <2>1, AppendFacts DEF Types, QueueTypes
    <3> QED BY <1>3, <3>1, Zenon DEF Enqueue
  <2>3. \A i \in Range(queue') : i <= Len(kinds') /\ kinds'[i] = "read"
    BY <1>c, <2>1, <2>2 DEF Handed
  <2>4. jobs' = Len(queue') + Cardinality(Busy')
    BY <1>c, <1>3, <2>1, <2>2 DEF Handed, Enqueue
  <2>5. Handed'
    BY <2>1, <2>3, <2>4, <1>c, <2>2 DEF Handed
  <2> QED BY <1>3, <2>1, <2>5 DEF Enqueue, Reading, Phases, Loop
<1>4. CASE \E w \in Worker : WorkerStep(w)
  <2> PICK w \in Worker : WorkerStep(w)
    BY <1>4
  <2>0. UNCHANGED <<main, kinds, lease>>
    BY DEF WorkerStep, WorkerRuns, Take, Skip, Finish, Reply, Fail, Exit
  <2>m. \A v \in Busy : v # w => worker'[v] = worker[v]
    BY WorkerMoves, SMTT(30) DEF Types, Busy
  <2>1. /\ \A v \in Busy' : worker'[v].req <= Len(kinds') /\ kinds'[worker'[v].req] = "read"
        /\ \A i \in Range(queue') : i <= Len(kinds') /\ kinds'[i] = "read"
        /\ jobs' = Len(queue') + Cardinality(Busy') + (IF main'.pc = "enqueue" THEN 1 ELSE 0)
        /\ main.pc # "busy" \/ jobs' = jobs
        /\ main.pc \in Loop \/ Exit(w)
    <3>1. CASE Take(w)
      <4>1. /\ Len(queue') = Len(queue) - 1 /\ Head(queue) \in Range(queue)
            /\ Range(queue') \subseteq Range(queue) /\ queue # <<>> /\ jobs' = jobs
        BY <3>1, TailFacts DEF Take, Types, QueueTypes
      <4>2. /\ Busy' = Busy \cup {w} /\ Cardinality(Busy') = Cardinality(Busy) + 1
            /\ worker'[w].req = Head(queue)
        BY <3>1, BusyMoves, WorkerMoves, SMTT(30) DEF Types
      <4> QED BY <1>c, <2>0, <2>m, <4>1, <4>2 DEF Handed, Phases
    <3>2. CASE Skip(w)
      <4>1. /\ Len(queue') = Len(queue) - 1 /\ queue # <<>>
            /\ Range(queue') \subseteq Range(queue) /\ jobs' = jobs - 1 /\ worker' = worker
        BY <3>2, TailFacts DEF Skip, Types, QueueTypes
      <4> QED BY <1>c, <2>0, <3>2, <4>1, BusyMoves DEF Handed, Phases
    <3>3. CASE Finish(w)
      <4>1. queue' = queue /\ jobs' = jobs /\ worker'[w].req = worker[w].req /\ Busy' = Busy
        BY <3>3, BusyMoves, WorkerMoves, Zenon DEF Types, Finish, jobsVars
      <4>2. worker[w].pc = "busy"
        BY <3>3 DEF Finish
      <4> QED BY <2>0, <2>m, <4>1, <4>2, SMTT(30) DEF Handed, Phases
    <3>4. CASE Reply(w)
      <4>1. /\ queue' = queue /\ jobs' = jobs - 1 /\ worker[w].pc = "reply"
            /\ Busy' = Busy \ {w} /\ Cardinality(Busy') = Cardinality(Busy) - 1
            /\ Cardinality(Busy) > 0
        BY <3>4, BusyMoves DEF Reply
      <4> QED BY <1>c, <2>0, <2>m, <4>1 DEF Handed, Phases
    <3>5. CASE Fail(w) \/ Exit(w)
      <4>1. /\ queue' = queue /\ jobs' = jobs /\ Busy' = Busy /\ w \notin Busy
            /\ Exit(w) \/ worker[w].pc = "fail"
        BY <3>5, BusyMoves, Zenon DEF Fail, Exit, jobsVars, Busy
      <4> QED BY <2>0, <2>m, <4>1 DEF Handed, Phases
    <3> QED BY <3>1, <3>2, <3>3, <3>4, <3>5, SMTT(30) DEF WorkerStep, WorkerRuns
  <2>2. Handed'
    BY <2>0, <2>1 DEF Handed
  <2>3. Phases'
    <3>1. CASE main.pc \in Loop
      BY <2>0, <3>1 DEF Phases
    <3>2. CASE Exit(w)
      BY <2>0, <3>2, WorkerMoves DEF Exit, Phases, Types, jobsVars
    <3> QED BY <2>1, <3>1, <3>2
  <2> QED BY <2>0, <2>2, <2>3 DEF Reading
<1>5. CASE (ReaderStep \/ ClientStep) /\ ~Enqueue /\ UNCHANGED <<kinds, queue, jobs, worker>>
  <2>0. Busy' = Busy
    BY <1>5 DEF Busy
  <2>1. /\ main'.pc # "negotiate" /\ main'.pc # "enqueue" /\ main.pc # "enqueue"
        /\ main'.req = main.req \/ main'.req = None
        /\ main'.pc = "busy" => jobs = 0
    BY <1>c, <1>5, ReaderMoves DEF Enter, Barrier
  <2>2. Reading'
    BY <1>5, <2>1 DEF Reading
  <2>3. Handed'
    BY <1>5, <2>0, <2>1 DEF Handed
  <2>4. Phases'
    <3>1. CASE EndTransmission
      <4>1. queue = <<>> /\ main'.pc = "return" /\ lease' = lease
        BY <1>c, <3>1 DEF EndTransmission, Drained, Handed, MainState, To
      <4> QED BY <1>5, <3>1, <4>1 DEF EndTransmission, Drained, Phases, Loop
    <3>2. CASE ~EndTransmission
      <4>1. main'.pc \notin Loop => main.pc \notin Loop
        BY <1>c, <1>5, <3>2, ReaderMoves
      <4>2. main'.pc \in Loop \cup {"negotiate", "return"} => lease'
        <5>1. CASE Return
          BY <1>c, <5>1 DEF Return, MainState, Loop
        <5>2. CASE ~Return
          <6>1. lease' = lease
            BY <1>5, <5>2, ZenonT(30) DEF ReaderStep, ReaderRuns, ClientStep, Check, Enter, Execute, Answer,
                 CloseQueue, EndTransmission, Left, Negotiate, ReadEnds, Payload
          <6> QED BY <1>c, <1>5, <3>2, <6>1, ReaderMoves, SMTT(30) DEF Phases
        <5> QED BY <5>1, <5>2
      <4> QED BY <1>5, <4>1, <4>2 DEF Phases
    <3> QED BY <3>1, <3>2
  <2> QED BY <2>2, <2>3, <2>4
<1>6. CASE UNCHANGED <<main, kinds, queue, jobs, worker, lease>>
  BY <1>6 DEF Reading, Handed, Phases, Busy
<1> QED BY <1>1, <1>2, <1>3, <1>4, <1>5, <1>6, Steps

-----------------------------------------------------------------------------
(* What reads observe.                                                     *)

\* A mutation is applied when no read is queued or executed, and a read
\* is received after what was applied.
LEMMA OrderedStep == Counts /\ Base /\ Flow /\ Ordered /\ [Next]_vars => Ordered'
<1> SUFFICES ASSUME Counts, Types, Assigned, Reading, Handed, Ordered, [Next]_vars
             PROVE  Ordered'
  BY DEF Base, Flow
<1>c. /\ Len(queue) \in Nat /\ Len(kinds) \in Nat /\ main \in MainState
      /\ applied \subseteq Request /\ Range(queue) \subseteq Request
      /\ observed \in [Request -> {None} \cup SUBSET Request]
      /\ Cardinality(Busy) \in Nat /\ (Cardinality(Busy) = 0 => Busy = {})
      /\ (Len(queue) = 0 => Range(queue) = {})
      /\ (main.pc \in Holding <=> main.req # None)
  <2>1. Busy \in SUBSET Worker
    BY DEF Busy
  <2> QED BY <2>1 DEF Counts, Types, QueueTypes, KindsTypes, EffectTypes, Assigned, Range
<1>s. CASE UNCHANGED <<kinds, queue, worker, applied, observed>>
  BY <1>s DEF Ordered, ReadsInOrder, Busy
<1>1. CASE Serve
  <2>1. Busy' = {} /\ Range(queue') = {}
    BY <1>1 DEF Serve, Busy, Idle, Range
  <2> QED BY <1>1, <2>1 DEF Serve, Ordered, ReadsInOrder
<1>2. CASE \E kind \in Kinds : Receive(kind)
  <2> PICK kind \in Kinds : Receive(kind)
    BY <1>2
  <2>1. \A i \in Request : i <= Len(kinds) => i <= Len(kinds') /\ kinds'[i] = kinds[i]
    BY <1>c, AppendFacts DEF Receive, Types, KindsTypes, Request
  <2>2. UNCHANGED <<queue, worker, applied, observed>> /\ Busy' = Busy
    BY DEF Receive, effects, Busy
  <2> QED BY <1>c, <2>1, <2>2 DEF Ordered, ReadsInOrder
<1>3. CASE Enqueue
  <2>1. /\ main.req \in Request /\ main.req = Len(kinds) /\ kinds[main.req] = "read"
        /\ UNCHANGED <<kinds, worker, applied, observed>> /\ Busy' = Busy
    BY <1>c, <1>3 DEF Enqueue, Holding, Reading, MainState, effects, Busy
  <2>2. Range(queue') \subseteq Range(queue) \cup {main.req}
    <3>1. Range(Append(queue, main.req)) = Range(queue) \cup {main.req}
      BY <2>1, AppendFacts DEF Types, QueueTypes
    <3> QED BY <1>3, <3>1, Zenon DEF Enqueue
  <2>3. \A m \in applied : m < main.req
    BY <1>c, <2>1 DEF Ordered, Request
  <2> QED BY <2>1, <2>2, <2>3 DEF Ordered, ReadsInOrder
<1>4. CASE \E w \in Worker : WorkerStep(w)
  <2> PICK w \in Worker : WorkerStep(w)
    BY <1>4
  <2>0. UNCHANGED <<kinds, applied>>
    BY Zenon DEF WorkerStep, WorkerRuns, Take, Skip, Finish, Reply, Fail, Exit, effects
  <2>m. \A v \in Busy : v # w => worker'[v] = worker[v]
    BY WorkerMoves, Zenon DEF Types, Busy
  <2>1. CASE Finish(w)
    <3>1. /\ Busy' = Busy /\ queue' = queue /\ w \in Busy /\ worker'[w].req = worker[w].req
          /\ worker[w].req \in Request /\ observed' = [observed EXCEPT ![worker[w].req] = applied]
      BY <2>1, BusyMoves, WorkerMoves, ZenonT(30) DEF Types, Finish, jobsVars, Assigned, Busy
    <3>2. \A v \in Busy' : \A m \in applied' : m < worker'[v].req
      BY <2>0, <2>m, <3>1, SMTT(30) DEF Ordered
    <3>3. worker[w].req <= Len(kinds) /\ kinds[worker[w].req] = "read"
      BY <3>1, ZenonT(30) DEF Handed
    <3>4. applied = {m \in applied : m < worker[w].req}
      BY <3>1, ZenonT(30) DEF Ordered
    <3> QED BY <1>c, <2>0, <3>1, <3>2, <3>3, <3>4, ZenonT(30) DEF Ordered, ReadsInOrder
  <2>2. CASE ~Finish(w)
    <3>1. observed' = observed
      BY <2>2 DEF WorkerStep, WorkerRuns, Take, Skip, Reply, Fail, Exit, effects
    <3>2. Range(queue') \subseteq Range(queue)
      BY <2>2, TailFacts, ZenonT(30) DEF Types, QueueTypes, WorkerStep, WorkerRuns, Take, Skip, Reply,
           Fail, Exit, jobsVars
    <3>3. \A v \in Busy' : (v # w /\ v \in Busy) \/ worker'[v].req \in Range(queue)
      <4>1. CASE Take(w)
        <5>1. queue # <<>> /\ w \notin Busy
          BY <4>1 DEF Take, Busy
        <5>2. Head(queue) \in Range(queue)
          BY <5>1, TailFacts DEF Types, QueueTypes
        <5> QED BY <4>1, <5>1, <5>2, BusyMoves, WorkerMoves DEF Types
      <4>2. CASE Skip(w)
        BY <4>2, BusyMoves, Zenon DEF Skip, Busy
      <4>3. CASE Reply(w) \/ Fail(w) \/ Exit(w)
        BY <4>3, BusyMoves, Zenon DEF Fail, Exit, Busy
      <4> QED BY <2>2, <4>1, <4>2, <4>3 DEF WorkerStep, WorkerRuns
    <3>4. \A v \in Busy' : \A m \in applied' : m < worker'[v].req
      BY <2>0, <2>m, <3>3 DEF Ordered
    <3> QED BY <2>0, <3>1, <3>2, <3>4 DEF Ordered, ReadsInOrder
  <2> QED BY <2>1, <2>2
<1>5. CASE (ReaderStep \/ ClientStep) /\ UNCHANGED <<kinds, queue, jobs, worker, observed>>
  <2>1. CASE Execute
    <3>1. main.req \in Request /\ main.req = Len(kinds) /\ kinds[main.req] # "read"
      BY <1>c, <2>1 DEF Execute, Holding, Reading, MainState
    <3>2. Busy' = {} /\ Range(queue') = {}
      BY <1>c, <1>5, <2>1 DEF Execute, Handed, Busy
    <3>3. applied \subseteq applied' /\ applied' \subseteq applied \cup {main.req}
      BY <2>1 DEF Execute
    <3>4. ASSUME NEW r \in Request, observed[r] # None
          PROVE  observed[r] = {m \in applied' : m < r}
      <4>1. ~(main.req < r)
        BY <3>1, <3>4 DEF Ordered, Request
      <4>2. observed[r] = {m \in applied : m < r}
        BY <3>4 DEF Ordered, ReadsInOrder
      <4> QED BY <3>3, <4>1, <4>2
    <3>5. \A m \in applied' : m <= Len(kinds) /\ kinds[m] # "read"
      BY <1>c, <3>1, <3>3 DEF Ordered
    <3> QED BY <1>5, <3>2, <3>4, <3>5 DEF Ordered, ReadsInOrder
  <2>2. CASE ~Execute
    <3>1. applied' = applied
      BY <1>5, <2>2, Zenon DEF ReaderStep, ReaderRuns, ClientStep, Check, Enter, Answer, Enqueue, CloseQueue,
           EndTransmission, Return, Left, Negotiate, ReadEnds, Payload, effects
    <3> QED BY <1>5, <1>s, <3>1
  <2> QED BY <2>1, <2>2
<1> QED BY <1>1, <1>2, <1>3, <1>4, <1>5, <1>s, Steps

-----------------------------------------------------------------------------
(* What a connection has answered when it ends.                            *)

\* The reader breaks off with a reason.
LEMMA CausesStep == Base /\ Causes /\ [Next]_vars => Causes'
<1> SUFFICES ASSUME Types, Assigned, Causes, [Next]_vars PROVE Causes'
  BY DEF Base
<1>t. main \in MainState /\ (main.pc \in Holding <=> main.req # None)
  BY DEF Types, Assigned
<1>1. CASE Serve
  BY <1>1, Zenon DEF Serve, Causes, Idle, Resting
<1>2. ASSUME ~Serve
      PROVE  /\ conn' = conn /\ (conn \in cancelled => conn' \in cancelled')
             /\ fatal => fatal'
             /\ stop' /\ ~stop => conn' \in cancelled' \/ fatal' \/ EndTransmission
  <2>1. conn' = conn /\ cancelled \subseteq cancelled'
    BY <1>2, Frame, Zenon DEF server, CloseCall, CloseCancels, Left
  <2>2. CASE UNCHANGED <<qclosed, stop, fatal>> \/ CloseQueue
    BY <2>1, <2>2 DEF CloseQueue, Types, FlagTypes
  <2>3. CASE \E w \in Worker : Fail(w)
    BY <2>1, <2>3, Zenon DEF Fail
  <2>4. CASE CloseCancels
    BY <2>1, <2>4, Zenon DEF CloseCancels
  <2>5. EndTransmission => fatal' = fatal
    BY DEF EndTransmission
  <2>6. CASE EndTransmission
    BY <2>1, <2>5, <2>6 DEF Types, FlagTypes
  <2>7. \/ UNCHANGED <<qclosed, stop, fatal>> \/ CloseCancels \/ CloseQueue
        \/ EndTransmission \/ \E w \in Worker : Fail(w)
    BY <1>2, Frame, Zenon
  <2> QED BY <2>2, <2>3, <2>4, <2>6, <2>7, Zenon
<1>e. main' = main => ~EndTransmission
  BY <1>t DEF EndTransmission, To, MainState
<1>3. CASE ~Serve /\ \E w \in Worker : WorkerStep(w)
  <2> PICK w \in Worker : WorkerStep(w)
    BY <1>3
  <2>1. main' = main /\ ~EndTransmission
    BY <1>e DEF WorkerStep, WorkerRuns, Take, Skip, Finish, Reply, Fail, Exit
  <2>2. \A v \in Worker : worker'[v].failed => worker[v].failed \/ fatal'
    <3>1. \A v \in Worker : v # w => worker'[v] = worker[v]
      BY WorkerMoves DEF Types
    <3>2. CASE Fail(w)
      BY <3>1, <3>2 DEF Fail
    <3>3. CASE Skip(w)
      BY <3>3, SMTT(30) DEF Skip
    <3>4. CASE Take(w) \/ Finish(w) \/ Reply(w) \/ Exit(w)
      BY <3>1, <3>4, WorkerMoves DEF Types
    <3> QED BY <3>2, <3>3, <3>4 DEF WorkerStep, WorkerRuns
  <2> QED BY <1>2, <1>3, <2>1, <2>2 DEF Causes
<1>4. CASE ~Serve /\ (ReaderStep \/ ClientStep)
  <2>1. worker' = worker
    BY <1>4, Zenon DEF ReaderStep, ReaderRuns, ClientStep, Check, Enter, Execute, Answer, Enqueue, CloseQueue,
         EndTransmission, Return, Left, Negotiate, ReadEnds, Payload
  <2>2. main'.pc \in Loop \cup {"negotiate"} =>
            main.pc \in Loop \cup {"negotiate"} /\ ~EndTransmission
    BY <1>t, <1>4, ReaderMoves, Zenon DEF EndTransmission, To, MainState, Loop
  <2>3. main'.err = "cancelled" => conn' \in cancelled' \/ fatal'
    BY <1>t, <1>2, <1>4, ReaderMoves DEF Causes
  <2>4. main'.err # "none" => main'.pc \in {"close", "drain", "return", "left", "idle"}
    BY <1>t, <1>4, ReaderMoves DEF Causes
  <2> QED BY <1>2, <1>4, <2>1, <2>2, <2>3, <2>4 DEF Causes
<1>5. CASE ~Serve /\ \E kind \in Kinds : Receive(kind)
  <2>1. UNCHANGED <<worker, stop, fatal>> /\ main'.err = main.err /\ main.pc = "read"
    BY <1>t, <1>5 DEF Receive, MainState
  <2> QED BY <1>2, <1>5, <2>1 DEF Causes, Loop
<1>6. CASE ~Serve /\ UNCHANGED <<main, worker>>
  BY <1>2, <1>6, <1>e DEF Causes
<1> QED BY <1>1, <1>3, <1>4, <1>5, <1>6, Steps DEF ReaderStep, ReaderRuns

\* Nothing received is forgotten.
LEMMA KeptStep == Counts /\ Base /\ Causes /\ Kept /\ [Next]_vars => Kept'
<1> SUFFICES ASSUME Counts, Types, Assigned, Causes, Kept, [Next]_vars PROVE Kept'
  BY DEF Base
<1>t. /\ main \in MainState /\ Len(kinds) \in Nat /\ (main.pc \in Holding <=> main.req # None)
      /\ replies \in [Request -> {"none", "ok", "error"}]
      /\ 1..Len(kinds) \subseteq Request /\ \A r \in 1..Len(kinds) : r # None
  BY ServerAssumption DEF Types, KindsTypes, EffectTypes, Assigned, Request
<1>s. ASSUME kinds' = kinds, Range(queue) \subseteq Range(queue'), UNCHANGED <<worker, fatal>>,
             main'.err = main.err \/ main'.err # "none",
             \A r \in 1..Len(kinds) :
                /\ replies[r] # "none" => replies'[r] # "none"
                /\ main.req = r => \/ main'.req = r \/ main'.err # "none"
                                   \/ replies'[r] # "none" \/ r \in Range(queue')
      PROVE  Kept'
  <2>1. Busy' = Busy /\ (Excused => Excused') /\ (main'.err # "none" => Excused')
    BY <1>s DEF Busy, Excused
  <2> QED BY <1>s, <2>1 DEF Kept
<1>1. CASE Serve
  BY <1>1 DEF Serve, Kept
<1>2. CASE \E kind \in Kinds : Receive(kind)
  <2> PICK kind \in Kinds : Receive(kind)
    BY <1>2
  <2>1. /\ Len(kinds') = Len(kinds) + 1 /\ UNCHANGED <<queue, replies, worker, fatal>>
    BY AppendFacts DEF Receive, Types, KindsTypes, effects
  <2>2. main'.req = Len(kinds) + 1 /\ main'.err = main.err /\ main.req = None
    BY <1>t DEF Receive, MainState, Holding
  <2>3. Busy' = Busy /\ (Excused => Excused')
    BY <2>1, <2>2 DEF Busy, Excused
  <2>4. \A r \in 1..Len(kinds') : r \in 1..Len(kinds) \/ r = main'.req
    BY <1>t, <2>1, <2>2
  <2> QED BY <1>t, <2>1, <2>2, <2>3, <2>4 DEF Kept
<1>3. CASE Enqueue
  <2>1. main.req \in Request /\ UNCHANGED <<kinds, replies, worker, fatal>>
    BY <1>t, <1>3 DEF Enqueue, Holding, MainState, effects
  <2>2. Range(Append(queue, main.req)) = Range(queue) \cup {main.req}
    BY <2>1, AppendFacts DEF Types, QueueTypes
  <2>3. \/ main'.err = "cancelled" /\ queue' = queue
        \/ main'.err = main.err /\ queue' = Append(queue, main.req)
    BY <1>t, <1>3, Zenon DEF Enqueue, Break, MainState
  <2> QED BY <1>s, <2>1, <2>2, <2>3, Zenon
<1>4. CASE \E w \in Worker : WorkerStep(w)
  <2> PICK w \in Worker : WorkerStep(w)
    BY <1>4
  <2>0. UNCHANGED <<main, kinds>>
    BY DEF WorkerStep, WorkerRuns, Take, Skip, Finish, Reply, Fail, Exit
  <2>m. \A v \in Worker : v # w => worker'[v] = worker[v]
    BY WorkerMoves DEF Types
  <2>e. Excused' => Kept'
    BY DEF Kept
  <2>1. CASE Skip(w) \/ Fail(w)
    <3>1. fatal'
      BY <2>1 DEF Skip, Fail, Causes
    <3> QED BY <2>e, <3>1 DEF Excused
  <2>2. CASE ~Skip(w) /\ ~Fail(w) /\ ~Excused'
    <3>1. fatal' = fatal /\ worker[w].pc # "fail"
      BY <2>2 DEF WorkerStep, WorkerRuns, Take, Finish, Reply, Exit, jobsVars
    <3>2. ~Excused
      BY <2>0, <2>2, <2>m, <3>1 DEF Excused
    <3>3. \A r \in 1..Len(kinds) : replies[r] # "none" => replies'[r] # "none"
      BY <1>t, <2>2 DEF WorkerStep, WorkerRuns, Take, Finish, Reply, Exit, Sent, NotSent, effects
    <3>4. \A r \in Range(queue) : r \in Range(queue') \/ \E v \in Busy' : worker'[v].req = r
      <4>1. CASE Take(w)
        <5>1. queue # <<>> /\ queue' = Tail(queue)
          BY <4>1 DEF Take
        <5>2. Range(queue) = Range(queue') \cup {Head(queue)}
          BY <5>1, TailFacts DEF Types, QueueTypes
        <5>3. w \in Busy' /\ worker'[w].req = Head(queue)
          BY <4>1, BusyMoves, WorkerMoves DEF Types
        <5> QED BY <5>2, <5>3
      <4>2. CASE ~Take(w)
        BY <2>2, <4>2, SMTT(30) DEF WorkerStep, WorkerRuns, Finish, Reply, Exit, jobsVars
      <4> QED BY <4>1, <4>2
    <3>5. \A v \in Busy : \/ v \in Busy' /\ worker'[v].req = worker[v].req
                          \/ replies'[worker[v].req] # "none"
      <4>1. CASE Take(w)
        BY <2>m, <4>1, BusyMoves, Zenon DEF Take, Busy
      <4>2. CASE Finish(w) \/ Exit(w)
        BY <2>m, <4>2, BusyMoves, WorkerMoves DEF Types, Exit, Busy
      <4>3. CASE Reply(w)
        <5>1. Busy' = Busy \ {w} /\ Busy \subseteq Worker /\ worker[w].req \in Request
          BY <4>3, BusyMoves, Zenon DEF Busy, Reply, Assigned
        <5>2. worker' # [worker EXCEPT ![w] = [Idle EXCEPT !.pc = "fail"]]
          BY <2>2 DEF Excused, Types, Idle
        <5>3. replies'[worker[w].req] # "none"
          BY <1>t, <4>3, <5>1, <5>2 DEF Reply, Sent
        <5> QED BY <2>m, <5>1, <5>3
      <4> QED BY <2>2, <4>1, <4>2, <4>3 DEF WorkerStep, WorkerRuns
    <3> QED BY <2>0, <3>2, <3>3, <3>4, <3>5 DEF Kept
  <2> QED BY <2>e, <2>1, <2>2
<1>5. CASE (ReaderStep \/ ClientStep) /\ ~Enqueue /\ UNCHANGED <<kinds, queue, jobs, worker, fatal>>
  <2>1. CASE Answer
    <3>1. main.req \in Request
      BY <1>t, <2>1 DEF Answer, Holding, MainState
    <3>2. \/ main'.err # "none" /\ replies' = replies
          \/ /\ main'.err = main.err
             /\ \A r \in Request : replies'[r] # "none" <=> replies[r] # "none" \/ r = main.req
      BY <1>t, <2>1, <3>1, ZenonT(30) DEF Answer, Break, Sent, NotSent, MainState
    <3> QED BY <1>s, <1>t, <1>5, <3>2
  <2>2. CASE ~Answer
    <3>1. replies' = replies
      BY <1>5, <2>2, Zenon DEF ReaderStep, ReaderRuns, ClientStep, Check, Enter, Execute, CloseQueue,
           EndTransmission, Return, Left, Negotiate, ReadEnds, Payload, effects
    <3>2. main'.err = main.err \/ main'.err # "none"
      BY <1>t, <1>5, ReaderMoves DEF Causes
    <3>3. main'.req = main.req \/ main'.err # "none"
      BY <1>t, <1>5, <2>2, ReaderMoves
    <3> QED BY <1>s, <1>5, <3>1, <3>2, <3>3
  <2> QED BY <2>1, <2>2
<1>6. CASE UNCHANGED <<main, kinds, queue, replies, worker, fatal>>
  BY <1>6, <1>s
<1> QED BY <1>1, <1>2, <1>3, <1>4, <1>5, <1>6, Steps

\* A connection that ends without an error has answered all it received.
LEMMA OutcomeStep == Counts /\ Base /\ Flow /\ Causes /\ Outcome /\ [Next]_vars => Outcome'
<1> SUFFICES ASSUME Counts, Base, Types, Assigned, Reading, Handed, Phases, Causes, Outcome,
                    [Next]_vars
             PROVE  Outcome'
  BY DEF Base, Flow
<1>k. Kept'
  BY KeptStep DEF Outcome
<1>t. main \in MainState /\ (main.pc \in Holding <=> main.req # None)
  BY DEF Types, Assigned
<1>1. CASE Serve
  BY <1>1, <1>k DEF Serve, Outcome, AllAnswered, Resting
<1>2. CASE Negotiate
  <2>1. UNCHANGED <<kinds, replies>> /\ Len(kinds) = 0 /\ result = "none"
    BY <1>2 DEF Negotiate, Reading, Outcome, effects
  <2>2. main'.pc # "negotiate" /\ (result' = "nil" => main'.pc = "return")
    BY <1>t, <1>2, <2>1 DEF Negotiate, MainState
  <2> QED BY <1>k, <2>1, <2>2 DEF Outcome, AllAnswered
<1>3. CASE EndTransmission
  <2>1. UNCHANGED <<kinds, replies, queue, worker>> /\ main'.pc = "return"
    BY <1>t, <1>3 DEF EndTransmission, effects, To, MainState
  <2>2. ASSUME result' = "nil" PROVE \A r \in 1..Len(kinds) : replies[r] # "none"
    <3>1. ~Excused
      <4>1. ~fatal /\ \A w \in Worker : worker[w].pc # "fail"
        BY <1>3, <2>2 DEF EndTransmission, Drained
      <4>2. main.err = "none" \/ (main.err = "cancelled" /\ conn \notin cancelled)
        BY <1>t, <1>3, <2>2, <4>1 DEF EndTransmission, MainState
      <4> QED BY <4>1, <4>2 DEF Causes, Excused
    <3>2. main.req = None
      BY <1>3, SMTT(30) DEF EndTransmission, Assigned, Holding
    <3>3. queue = <<>> /\ Busy = {}
      <4>1. Busy \in SUBSET Worker
        BY SMTT(30) DEF Busy
      <4> QED BY <1>3, <4>1 DEF EndTransmission, Drained, Handed, Counts, Types, QueueTypes
    <3>4. Range(queue) = {} /\ \A r \in 1..Len(kinds) : r # None
      BY <3>3, ServerAssumption DEF Types, KindsTypes, Range
    <3> QED BY <3>1, <3>2, <3>3, <3>4 DEF Outcome, Kept
  <2> QED BY <1>k, <2>1, <2>2 DEF Outcome, AllAnswered
<1>4. CASE ~Serve /\ ~Negotiate /\ ~EndTransmission
  <2>1. result' = result
    BY <1>4, Frame, Zenon DEF Watch, Return, Answer, Reply, Fail
  <2>2. ASSUME result = "nil" PROVE UNCHANGED <<kinds, replies>>
    <3>1. main.pc \notin Loop /\ \A w \in Worker : worker[w].pc # "busy" /\ worker[w].pc # "reply"
      BY <2>2 DEF Outcome, Phases, Loop
    <3>2. \A kind \in Kinds : ~Receive(kind)
      BY <3>1, SMTT(30) DEF Receive, Loop
    <3>3. ~Execute /\ ~Answer /\ \A w \in Worker : ~Finish(w) /\ ~Reply(w)
      BY <3>1, ZenonT(30) DEF Execute, Answer, Finish, Reply, Loop
    <3> QED BY <1>4, <3>2, <3>3, Frame DEF effects
  <2>3. /\ main'.pc = "negotiate" => main.pc = "negotiate"
        /\ main.pc \in {"return", "left", "idle"} => main'.pc \in {"return", "left", "idle"}
    <3>1. ASSUME NEW kind \in Kinds, Receive(kind)
          PROVE  main.pc = "read" /\ main'.pc # "negotiate"
      BY <1>t, <3>1 DEF Receive, MainState, Kinds
    <3>2. CASE ReaderStep \/ ClientStep
      BY <1>t, <3>2, ReaderMoves, Zenon DEF Loop
    <3>3. CASE main' = main
      BY <3>3
    <3> QED BY <1>4, <3>1, <3>2, <3>3, Steps, Zenon DEF WorkerStep, WorkerRuns, Take, Skip, Finish,
              Reply, Fail, Exit, ReaderStep, ReaderRuns
  <2> QED BY <1>k, <2>1, <2>2, <2>3 DEF Outcome, AllAnswered
<1> QED BY <1>1, <1>2, <1>3, <1>4

\* What the invariant says of a state.
LEMMA Served == Counts /\ Base /\ Flow /\ Outcome => RequestsServed
<1> SUFFICES ASSUME Counts, Types, Pooled, Handed, Phases, Outcome PROVE RequestsServed
  BY DEF Base, Flow
<1>1. jobs \in Nat
  <2>1. Cardinality(Busy) \in Nat /\ Len(queue) \in Nat
    BY DEF Counts, Busy, Types, QueueTypes
  <2> QED BY <2>1 DEF Handed
<1>2. /\ main.pc \in {"idle", "negotiate", "check", "read", "payload", "barrier", "busy",
                      "reply", "enqueue", "close", "drain", "return", "left"}
      /\ main.req \in {None} \cup Request /\ main.ok \in BOOLEAN
      /\ main.err \in {"none", "failed", "cancelled"}
  BY Zenon DEF Types, MainState, Loop
<1>3. conn \in 0..MaxConnections
  BY ServerAssumption DEF Types, ServerTypes
<1>4. TypeOK
  BY <1>1, <1>2, <1>3, Zenon DEF TypeOK, Types, ServerTypes, LinkTypes, KindsTypes, Kinds,
     QueueTypes, FlagTypes, EffectTypes, WorkerState, Pooled
<1>5. LeaseCovers
  BY DEF LeaseCovers, Phases, Loop
<1> QED BY <1>4, <1>5 DEF RequestsServed, Outcome, Pooled

-----------------------------------------------------------------------------
(* Closing.                                                                *)

\* close cancels what it fetched.
LEMMA ClosingStep == Base /\ Closing /\ [Next]_vars => Closing'
<1> SUFFICES ASSUME ServerTypes, Closing, [Next]_vars PROVE Closing'
  BY DEF Base, Types
<1>1. CASE Serve
  <2>1. conn + 1 \notin cancelled
    BY DEF ServerTypes
  <2> QED BY <1>1, <2>1 DEF Serve, Closing, CloseHitsOwn
<1>2. CASE CloseCall \/ CloseCancels \/ Left
  BY <1>2 DEF CloseCall, CloseCancels, Left, Closing, CloseHitsOwn
<1>3. CASE UNCHANGED server
  BY <1>3 DEF server, Closing, CloseHitsOwn
<1> QED BY <1>1, <1>2, <1>3, Frame

-----------------------------------------------------------------------------
(* The numbers of buffers and workers.                                     *)

INSTANCE FiniteSetTheorems

\* A sequence has at most as many elements as it is long.
LEMMA RangeBound ==
    ASSUME NEW S, NEW q \in Seq(S)
    PROVE  IsFiniteSet(Range(q)) /\ Cardinality(Range(q)) <= Len(q)
<1>1. DOMAIN q = 1..Len(q) /\ Len(q) \in Nat
  OBVIOUS
<1>2. IsFiniteSet(1..Len(q)) /\ Cardinality(1..Len(q)) = Len(q)
  BY <1>1, FS_Interval, SMTT(30)
<1>3. q \in Surjection(1..Len(q), Range(q))
  BY <1>1 DEF Surjection, Range
<1> QED BY <1>2, <1>3, FS_Surjection

\* There is always a buffer that nobody uses.
LEMMA SpareBuffer == Pooled => Spare
<1> SUFFICES ASSUME Pooled PROVE Spare
  OBVIOUS
<1> DEFINE used == Range(pool) \cup Range(held)
<1>1. /\ IsFiniteSet(Range(pool)) /\ Cardinality(Range(pool)) <= Cardinality(Worker)
      /\ Cardinality(Range(pool)) \in Nat
  <2>1. IsFiniteSet(Range(pool)) /\ Cardinality(Range(pool)) <= Len(pool)
    BY RangeBound DEF Pooled
  <2> QED BY <2>1, FS_CardinalityType, ServerAssumption DEF Pooled
<1>2. /\ IsFiniteSet(Range(held)) /\ Cardinality(Range(held)) <= MaxRequests
      /\ Cardinality(Range(held)) \in Nat
  <2>1. IsFiniteSet(Request) /\ Cardinality(Request) = MaxRequests
    BY FS_Interval, ServerAssumption DEF Request
  <2>2. held \in Surjection(Request, Range(held))
    BY DEF Pooled, Surjection, Range
  <2>3. IsFiniteSet(Range(held)) /\ Cardinality(Range(held)) <= MaxRequests
    BY <2>1, <2>2, FS_Surjection
  <2> QED BY <2>3, FS_CardinalityType
<1>3. /\ IsFiniteSet(used) /\ Cardinality(used) <= MaxRequests + Cardinality(Worker)
      /\ Cardinality(used) \in Nat
  <2>1. IsFiniteSet(used)
    BY <1>1, <1>2, FS_Union, Zenon
  <2>2. Cardinality(used) = Cardinality(Range(pool)) + Cardinality(Range(held))
                            - Cardinality(Range(pool) \cap Range(held))
    BY <1>1, <1>2, FS_Union
  <2>3. Cardinality(Range(pool) \cap Range(held)) \in Nat
    BY <1>1, FS_Intersection, FS_CardinalityType, Zenon
  <2>4. Cardinality(used) \in Nat /\ Cardinality(Worker) \in Nat
    BY <2>1, FS_CardinalityType, ServerAssumption
  <2> HIDE DEF used
  <2> QED BY <1>1, <1>2, <2>1, <2>2, <2>3, <2>4, ServerAssumption
<1>4. ~(Buffer \subseteq used)
  <2>1. ASSUME Buffer \subseteq used PROVE FALSE
    <3>1. Cardinality(Buffer) <= Cardinality(used)
      BY <1>3, <2>1, FS_Subset
    <3>2. Cardinality(Buffer) \in Nat /\ Cardinality(Worker) \in Nat
      BY FS_CardinalityType, ServerAssumption
    <3> HIDE DEF used
    <3> QED BY <1>3, <3>1, <3>2, ServerAssumption
  <2> QED BY <2>1
<1>5. DOMAIN held = Request
  BY DEF Pooled
<1> QED BY <1>4, <1>5 DEF Range, Spare

\* The workers are finitely many.
LEMMA WorkerCounts == Counts
<1>1. ASSUME NEW S \in SUBSET Worker
      PROVE  IsFiniteSet(S) /\ Cardinality(S) \in Nat /\ (Cardinality(S) = 0 => S = {})
  BY FS_Subset, FS_CardinalityType, FS_EmptySet, ServerAssumption
<1>2. ASSUME NEW S \in SUBSET Worker, NEW w \in Worker \ S
      PROVE  Cardinality(S \cup {w}) = Cardinality(S) + 1
  BY <1>1, FS_AddElement
<1>3. Cardinality(Worker) \in Nat /\ Cardinality({}) = 0
  BY FS_CardinalityType, FS_EmptySet, ServerAssumption
<1> QED BY <1>1, <1>2, <1>3 DEF Counts

-----------------------------------------------------------------------------
(* The theorems.                                                           *)

\* The inductive invariant.
Invariant == Base /\ Flow /\ Ordered /\ Causes /\ Outcome /\ Closing

\* A server that was just started.
LEMMA InvariantInit == Init => Invariant
<1> SUFFICES ASSUME Init PROVE Invariant
  OBVIOUS
<1>1. Base /\ Flow
  BY WorkerCounts, BaseInit, FlowInit
<1>2. Range(queue) = {}
  BY SMTT(30) DEF Init, Range
<1>3. Ordered
  BY <1>2, SMTT(30) DEF Init, Ordered, ReadsInOrder, Busy, Idle
<1>4. Causes
  BY DEF Init, Causes, Idle, Resting
<1>5. Len(kinds) = 0
  BY DEF Init
<1>6. Outcome
  BY <1>5 DEF Init, Outcome, Kept, AllAnswered, Resting
<1>7. Closing
  BY DEF Init, Closing, CloseHitsOwn
<1> QED BY <1>1, <1>3, <1>4, <1>6, <1>7 DEF Invariant

\* The invariant holds of every state that the server reaches.
THEOREM ServerInvariant == Spec => []Invariant
<1>1. Invariant /\ [Next]_vars => Invariant'
  BY WorkerCounts, SpareBuffer, BaseStep, FlowStep, OrderedStep, CausesStep, OutcomeStep,
     ClosingStep DEF Invariant
<1> QED BY <1>1, InvariantInit, PTL DEF Spec

\* A read sees every mutation that its connection sent before it and none
\* that it sent after it, however the workers interleave.
THEOREM ReadsSeeOrder == Spec => []ReadsInOrder
<1>1. Invariant => ReadsInOrder
  BY DEF Invariant, Ordered
<1> QED BY <1>1, ServerInvariant, PTL

\* Every request is executed under the lease of its connection and with a
\* buffer of its own, and a connection that ends without an error has answered
\* all it received.
THEOREM ServerServes == Spec => []RequestsServed
<1>1. Invariant => RequestsServed
  BY WorkerCounts, Served DEF Invariant
<1> QED BY <1>1, ServerInvariant, PTL

\* A call of close cancels the connection whose function it fetched, also
\* when another connection was accepted in between.
THEOREM CloseEndsOwn == Spec => []CloseHitsOwn
<1>1. Invariant => CloseHitsOwn
  BY DEF Invariant, Closing
<1> QED BY <1>1, ServerInvariant, PTL

=============================================================================
