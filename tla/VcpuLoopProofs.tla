--------------------------- MODULE VcpuLoopProofs ---------------------------
(***************************************************************************)
(* Safety of the virtual processor loop, for any number of processors and  *)
(* callers and any capacity of the request channel.                        *)
(***************************************************************************)
EXTENDS VcpuLoop, TLAPS

Types ==
    /\ active \subseteq CPU /\ pending \subseteq CPU
    /\ worker \in [CPU -> {"idle", "job", "run", "exit"}]
    /\ DOMAIN exit = CPU

\* The coordinator owes every dispatched processor a join, and knows of every
\* exit that was not handled.
Accounted ==
    /\ \A c \in CPU : worker[c] # "idle" => c \in active
    /\ \A c \in CPU : Out(c) => exit[c] = None
    /\ \A c \in CPU : c \notin active => exit[c] = None

\* pending holds exactly the processors whose exits were received while
\* stopping: those that are dispatched and not under way.
Collected ==
    /\ \A c \in CPU : c \in pending <=> c \in active /\ worker[c] = "idle"
    /\ pc \notin {"join", "drain"} => pending = {}
    /\ pc = "drain" => pending = active

\* What the coordinator does to the machine it does with nothing dispatched,
\* and it dispatches only a machine that runs, in a live epoch.
Owned ==
    /\ pc \in {"leave", "execute", "rebuild", "close", "done"} => active = {}
    /\ ~running => active = {}
    /\ pc \in {"top", "check", "start", "select"} /\ cancelled => ~running

IndInv == Types /\ Accounted /\ Collected /\ Owned

\* Initially nothing is dispatched.
LEMMA InitInv == Init => IndInv
BY DEF Init, IndInv, Types, Accounted, Collected, Owned, Out

USE DEF Types, Accounted, Collected, Owned, Out

\* Workers: a processor enters its guest and leaves it.
LEMMA WorkerSteps ==
    ASSUME IndInv, NEW c \in CPU, Enter(c) \/ Leave(c)
    PROVE  IndInv'
<1>1. CASE Enter(c)
  BY <1>1 DEF IndInv, Enter, machine, driver, calls
<1>2. CASE Leave(c)
  BY <1>2 DEF IndInv, Leave, machine, driver, calls
<1> QED BY <1>1, <1>2

\* The steps between two joins: nothing is dispatched twice.
LEMMA LoopSteps ==
    ASSUME IndInv, Top \/ Check \/ Start \/ SelectClosed \/ SelectRequest
                   \/ SelectStorage \/ SelectTick \/ (\E c \in CPU : SelectExit(c))
    PROVE  IndInv'
<1>1. CASE Top
  BY <1>1 DEF IndInv, Top, Stop, machine, driver, calls
<1>2. CASE Check
  BY <1>2 DEF IndInv, Check, Stop, machine, driver, calls
<1>3. CASE Start
  BY <1>3 DEF IndInv, Start, Startable, machine, driver, calls
<1>4. CASE SelectClosed
  BY <1>4 DEF IndInv, SelectClosed, Stop, machine, driver, calls
<1>5. CASE SelectRequest
  BY <1>5 DEF IndInv, SelectRequest, Stop, machine, driver, calls
<1>6. CASE SelectStorage
  BY <1>6 DEF IndInv, SelectStorage, Apply, machine, driver, calls
<1>7. CASE SelectTick
  BY <1>7 DEF IndInv, SelectTick, Apply, machine, driver, calls
<1>8. ASSUME NEW c \in CPU, SelectExit(c) PROVE IndInv'
  <2>1. CASE exit[c] = "a20"
    BY <1>8, <2>1 DEF IndInv, SelectExit, Stop, machine, driver, calls
  <2>2. CASE exit[c] # "a20"
    BY <1>8, <2>2 DEF IndInv, SelectExit, Handle, Apply, machine, driver, calls
  <2> QED BY <2>1, <2>2
<1> QED BY <1>1, <1>2, <1>3, <1>4, <1>5, <1>6, <1>7, <1>8

\* The join and the exits it collected.
LEMMA JoinSteps ==
    ASSUME IndInv, Join \/ AllIn \/ Drain
    PROVE  IndInv'
<1>1. CASE Join
  BY <1>1 DEF IndInv, Join, machine, driver, calls
<1>2. CASE AllIn
  BY <1>2 DEF IndInv, AllIn, Joined, machine, driver, calls
<1>3. CASE Drain
  BY <1>3 DEF IndInv, Drain, Handle, Apply, machine, driver, calls
<1> QED BY <1>1, <1>2, <1>3

\* What follows a join happens with nothing dispatched.
LEMMA StoppedSteps ==
    ASSUME IndInv, AfterReset \/ AfterCheck \/ AfterClosed \/ AfterA20 \/ AfterRequest
                   \/ Execute \/ LoopEnds \/ Rebuild \/ Rebuilt \/ ClosePlatform
    PROVE  IndInv'
<1>1. CASE AfterReset
  BY <1>1 DEF IndInv, AfterReset, Stopped, Finish, driver, calls
<1>2. CASE AfterCheck
  BY <1>2 DEF IndInv, AfterCheck, Stopped, Finish, driver, calls
<1>3. CASE AfterClosed
  BY <1>3 DEF IndInv, AfterClosed, Stopped, Finish, driver, calls
<1>4. CASE AfterA20
  BY <1>4 DEF IndInv, AfterA20, Stopped, Renew, machine, driver, calls
<1>5. CASE AfterRequest
  BY <1>5 DEF IndInv, AfterRequest, Stopped, Finish, driver, calls
<1>6. CASE Execute
  <2>1. /\ pc = "execute" /\ pc' = "top" /\ cancelled' = FALSE
        /\ UNCHANGED <<pending, active, worker, exit>>
    BY <1>6 DEF Execute, Renew
  <2> QED BY <2>1 DEF IndInv
<1>7. CASE LoopEnds
  BY <1>7 DEF IndInv, LoopEnds, Finish, driver, calls
<1>8. CASE Rebuild
  BY <1>8 DEF IndInv, Rebuild, machine, calls
<1>9. CASE Rebuilt
  BY <1>9 DEF IndInv, Rebuilt, Finish, calls
<1>10. CASE ClosePlatform
  BY <1>10 DEF IndInv, ClosePlatform, machine, calls
<1> QED BY <1>1, <1>2, <1>3, <1>4, <1>5, <1>6, <1>7, <1>8, <1>9, <1>10

\* Callers change nothing that the coordinator owns.
LEMMA CallerSteps ==
    ASSUME IndInv, NEW k \in Caller,
           Call(k) \/ Send(k) \/ Close(k) \/ CancelCPUs(k) \/ Return(k) \/ GiveUp(k)
    PROVE  IndInv'
<1>1. UNCHANGED coordinator
  BY DEF Call, Send, Close, CancelCPUs, Return, GiveUp
<1> QED BY <1>1 DEF IndInv, coordinator, machine

\* Every step of the loop, its workers and its callers keeps the invariant.
THEOREM Inductive == Spec => []IndInv
<1>1. ASSUME IndInv, [Next]_vars PROVE IndInv'
  <2>1. CASE UNCHANGED vars
    BY <1>1, <2>1 DEF IndInv, vars
  <2>2. CASE Next
    BY <1>1, <2>2, WorkerSteps, LoopSteps, JoinSteps, StoppedSteps, CallerSteps
       DEF Next, Coordinator
  <2> QED BY <1>1, <2>1, <2>2
<1> QED BY <1>1, InitInv, PTL DEF Spec

\* No processor is in its guest while the machine is paused, a request
\* executes, an exit that may remap memory is handled, or the machine is
\* rebuilt or closed.
THEOREM QuietSafe == Spec => []Quiet
<1>1. IndInv => Quiet
  BY DEF IndInv, Quiet
<1> QED BY <1>1, Inductive, PTL

\* Each exit is handled before its processor enters again and before a
\* request executes or the machine is replaced.
THEOREM ExitsSafe == Spec => []ExitsHandled
<1>1. IndInv => ExitsHandled
  BY DEF IndInv, ExitsHandled
<1> QED BY <1>1, Inductive, PTL

\* While the loop waits for running processors their epoch is live.
THEOREM EpochSafe == Spec => []LiveEpoch
<1>1. IndInv => LiveEpoch
  BY DEF IndInv, LiveEpoch
<1> QED BY <1>1, Inductive, PTL

=============================================================================
