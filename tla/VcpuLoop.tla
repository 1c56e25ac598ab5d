------------------------------ MODULE VcpuLoop ------------------------------
(***************************************************************************)
(* The execution loop of a virtual machine with several processors         *)
(* (vmm/cc/driver_smp.go, and loop and the public calls in driver.go).     *)
(* One worker per processor runs it until it exits to the host; the        *)
(* coordinator owns the devices, handles the exits, and stops and joins    *)
(* every processor before it executes a request, remaps memory, rebuilds   *)
(* the machine or closes it.                                               *)
(*                                                                         *)
(* An exit is a cancellation or expired time slice, an access to a device, *)
(* an access to a port that may switch address line 20, or an error.  What *)
(* an emulated device answers is a choice.                                 *)
(***************************************************************************)
EXTENDS Naturals, Sequences, FiniteSets

CONSTANTS
    CPU,      \* processors of the machine
    Caller,   \* threads that use the driver
    Buffer,   \* capacity of the request channel
    None

ASSUME VcpuAssumption == IsFiniteSet(CPU) /\ CPU # {} /\ Buffer \in Nat \ {0}

VARIABLES
    pc, why, pending,                     \* coordinator: step, reason to stop, exits to handle
    active, cancelled,                    \* dispatched processors, epoch cancelled
    worker, exit,                         \* step of each worker, exit not yet handled
    running, result, failure, reset, poweroff,   \* the machine
    ctxDone, closed, cpuMu,
    requests, current,
    call, reply

machine == <<running, result, failure, reset, poweroff>>
driver == <<ctxDone, closed, cpuMu>>
calls == <<requests, call, reply>>
vars == <<pc, why, pending, active, cancelled, worker, exit, running, result, failure, reset,
          poweroff, ctxDone, closed, cpuMu, requests, current, call, reply>>

Op == {"pause", "resume", "stop", "powerdown"}
Outcome == {"ok", "error", "reset", "poweroff"}

Init ==
    /\ pc = "top" /\ why = None /\ pending = {}
    /\ active = {} /\ cancelled = FALSE
    /\ worker = [c \in CPU |-> "idle"] /\ exit = [c \in CPU |-> None]
    /\ running \in BOOLEAN
    /\ result = FALSE /\ failure = FALSE /\ reset = FALSE /\ poweroff = FALSE
    /\ ctxDone = FALSE /\ closed = FALSE /\ cpuMu = FALSE
    /\ requests = <<>> /\ current = None
    /\ call = [k \in Caller |-> "idle"] /\ reply = [k \in Caller |-> FALSE]

-----------------------------------------------------------------------------
(* Workers.                                                                *)

\* A worker takes its job and enters the processor.
Enter(c) ==
    /\ worker[c] = "job"
    /\ worker' = [worker EXCEPT ![c] = "run"]
    /\ UNCHANGED <<pc, why, pending, active, cancelled, exit, machine, driver, current, calls>>

\* The processor exits: by itself, at the end of its slice, or cancelled.  A
\* run in a cancelled epoch may still end with an exit.
Leave(c) ==
    /\ worker[c] = "run"
    /\ \E e \in {"cancel", "io", "a20", "error"} : exit' = [exit EXCEPT ![c] = e]
    /\ worker' = [worker EXCEPT ![c] = "exit"]
    /\ UNCHANGED <<pc, why, pending, active, cancelled, machine, driver, current, calls>>

-----------------------------------------------------------------------------
(* The coordinator.                                                        *)

\* The firmware may ask for a reset or a shutdown, a handler may fail.
Apply(outcome) ==
    /\ failure' = (failure \/ outcome = "error")
    /\ reset' = (reset \/ outcome = "reset")
    /\ poweroff' = (poweroff \/ outcome = "poweroff")
    /\ UNCHANGED <<running, result>>

\* handle: a cancelled run needs nothing, the other exits their device.
Handle(c) ==
    /\ active' = active \ {c}
    /\ exit' = [exit EXCEPT ![c] = None]
    /\ \/ exit[c] = "cancel" /\ Apply("ok")
       \/ exit[c] = "error" /\ Apply("error")
       \/ exit[c] \in {"io", "a20"} /\ \E outcome \in Outcome : Apply(outcome)

\* stop: cancel the epoch and every processor, then join them.
Stop(reason, pend) ==
    /\ cancelled' = TRUE
    /\ pc' = "join" /\ why' = reason /\ pending' = pend

Finish ==
    /\ result' = TRUE
    /\ running' = FALSE

Top ==
    /\ pc = "top"
    /\ IF reset THEN Stop("reset", {}) ELSE pc' = "check" /\ UNCHANGED <<why, pending, cancelled>>
    /\ UNCHANGED <<active, worker, exit, machine, driver, current, calls>>

Check ==
    /\ pc = "check"
    /\ IF failure \/ poweroff
       THEN Stop("check", {})
       ELSE pc' = "start" /\ UNCHANGED <<why, pending, cancelled>>
    /\ UNCHANGED <<active, worker, exit, machine, driver, current, calls>>

\* Mutant: processors are dispatched whatever the state of the machine.
Startable_Always == ~failure /\ ~reset /\ ~ctxDone

Startable == running /\ ~failure /\ ~reset /\ ~ctxDone

\* start: every processor that is not running gets a job.
Start ==
    /\ pc = "start"
    /\ IF Startable
       THEN /\ worker' = [c \in CPU |-> IF c \in active THEN worker[c] ELSE "job"]
            /\ active' = CPU
       ELSE UNCHANGED <<worker, active>>
    /\ pc' = "select"
    /\ UNCHANGED <<why, pending, cancelled, exit, machine, driver, current, calls>>

(* The cases of select. *)
SelectClosed ==
    /\ pc = "select"
    /\ ctxDone
    /\ Stop("closed", {})
    /\ UNCHANGED <<active, worker, exit, machine, driver, current, calls>>

SelectRequest ==
    /\ pc = "select"
    /\ requests # <<>>
    /\ current' = Head(requests)
    /\ requests' = Tail(requests)
    /\ Stop("request", {})
    /\ UNCHANGED <<active, worker, exit, machine, driver, call, reply>>

SelectExit(c) ==
    /\ pc = "select"
    /\ worker[c] = "exit"
    /\ worker' = [worker EXCEPT ![c] = "idle"]
    /\ IF exit[c] = "a20"
       THEN Stop("a20", {c}) /\ UNCHANGED <<active, exit, machine>>
       ELSE Handle(c) /\ pc' = "top" /\ UNCHANGED <<why, pending, cancelled>>
    /\ UNCHANGED <<driver, current, calls>>

\* Storage is ready: the transfer is completed and may fail.
SelectStorage ==
    /\ pc = "select"
    /\ \E outcome \in {"ok", "error"} : Apply(outcome)
    /\ pc' = "top"
    /\ UNCHANGED <<why, pending, active, cancelled, worker, exit, driver, current, calls>>

\* The ticker polls the devices of a running machine.
SelectTick ==
    /\ pc = "select"
    /\ IF running THEN \E outcome \in Outcome : Apply(outcome) ELSE UNCHANGED machine
    /\ pc' = "top"
    /\ UNCHANGED <<why, pending, active, cancelled, worker, exit, driver, current, calls>>

Joined == pending = active

Join ==
    /\ pc = "join"
    /\ ~Joined
    /\ \E c \in CPU :
          /\ worker[c] = "exit"
          /\ worker' = [worker EXCEPT ![c] = "idle"]
          /\ pending' = pending \cup {c}
    /\ UNCHANGED <<pc, why, active, cancelled, exit, machine, driver, current, calls>>

AllIn ==
    /\ pc = "join"
    /\ Joined
    /\ pc' = "drain"
    /\ UNCHANGED <<why, pending, active, cancelled, worker, exit, machine, driver, current, calls>>

\* Mutant: the exits found while stopping are thrown away.
Drain_Dropped ==
    /\ pc = "drain"
    /\ \E c \in pending : pending' = pending \ {c} /\ active' = active \ {c}
    /\ UNCHANGED <<exit, machine>>
    /\ UNCHANGED <<pc, why, cancelled, worker, driver, current, calls>>

Drain ==
    /\ pc = "drain"
    /\ \E c \in pending : pending' = pending \ {c} /\ Handle(c)
    /\ UNCHANGED <<pc, why, cancelled, worker, driver, current, calls>>

Stopped(reason) == pc = "drain" /\ pending = {} /\ why = reason

\* A reset leaves the loop unless a failure came in between.
AfterReset ==
    /\ Stopped("reset")
    /\ IF failure THEN reset' = FALSE /\ Finish /\ pc' = "check"
                  ELSE pc' = "leave" /\ UNCHANGED <<reset, running, result>>
    /\ UNCHANGED <<why, pending, active, cancelled, worker, exit, failure, poweroff, driver,
                   current, calls>>

AfterCheck ==
    /\ Stopped("check")
    /\ Finish
    /\ pc' = "start"
    /\ UNCHANGED <<why, pending, active, cancelled, worker, exit, failure, reset, poweroff,
                   driver, current, calls>>

AfterClosed ==
    /\ Stopped("closed")
    /\ Finish
    /\ pc' = "leave"
    /\ UNCHANGED <<why, pending, active, cancelled, worker, exit, failure, reset, poweroff,
                   driver, current, calls>>

\* Mutant: the cancelled epoch stays.
Renew_Kept == UNCHANGED cancelled

\* newCPUEpoch.
Renew == cancelled' = FALSE

AfterA20 ==
    /\ Stopped("a20")
    /\ Renew
    /\ pc' = "top"
    /\ UNCHANGED <<why, pending, active, worker, exit, machine, driver, current, calls>>

\* A failure found while stopping is reported before the request executes.
AfterRequest ==
    /\ Stopped("request")
    /\ IF failure THEN Finish ELSE UNCHANGED <<running, result>>
    /\ pc' = "execute"
    /\ UNCHANGED <<why, pending, active, cancelled, worker, exit, failure, reset, poweroff,
                   driver, current, calls>>

\* Mutant: a request to a machine that has stopped is not answered.
Execute_Silent ==
    /\ pc = "execute"
    /\ IF current.live /\ ~result
       THEN /\ reply' = [reply EXCEPT ![current.by] = TRUE]
            /\ IF current.op = "stop" THEN Finish ELSE UNCHANGED <<running, result>>
       ELSE UNCHANGED <<running, result, reply>>
    /\ Renew
    /\ current' = None
    /\ pc' = "top"
    /\ UNCHANGED <<why, pending, active, worker, exit, failure, reset, poweroff, driver,
                   requests, call>>

\* request.execute; the drives' transfers that Pause and Stop complete first
\* may fail.
Execute ==
    /\ pc = "execute"
    /\ \/ /\ ~current.live
          /\ UNCHANGED <<running, result, reply>>
       \/ /\ current.live
          /\ reply' = [reply EXCEPT ![current.by] = TRUE]
          /\ CASE current.op = "pause" /\ ~result -> running' \in {running, FALSE} /\ UNCHANGED result
               [] current.op = "resume" /\ ~result -> running' = TRUE /\ UNCHANGED result
               [] current.op = "stop" -> Finish \/ UNCHANGED <<running, result>>
               [] OTHER -> UNCHANGED <<running, result>>
    /\ Renew
    /\ current' = None
    /\ pc' = "top"
    /\ UNCHANGED <<why, pending, active, worker, exit, failure, reset, poweroff, driver,
                   requests, call>>

\* loop: the end of the driver, or a machine built anew.
LoopEnds ==
    /\ pc = "leave"
    /\ ctxDone \/ ~reset
    /\ Finish
    /\ pc' = "close"
    /\ UNCHANGED <<why, pending, active, cancelled, worker, exit, failure, reset, poweroff,
                   driver, current, calls>>

Rebuild ==
    /\ pc = "leave"
    /\ ~ctxDone /\ reset /\ ~cpuMu
    /\ cpuMu' = TRUE
    /\ pc' = "rebuild"
    /\ UNCHANGED <<why, pending, active, cancelled, worker, exit, machine, ctxDone, closed,
                   current, calls>>

Rebuilt ==
    /\ pc = "rebuild"
    /\ cpuMu' = FALSE
    /\ reset' = FALSE
    /\ \/ /\ pc' = "top"
          /\ cancelled' = FALSE /\ poweroff' = FALSE
          /\ UNCHANGED <<running, result>>
       \/ /\ Finish
          /\ pc' = "close"
          /\ UNCHANGED <<cancelled, poweroff>>
    /\ UNCHANGED <<why, pending, active, worker, exit, failure, ctxDone, closed, current, calls>>

ClosePlatform ==
    /\ pc = "close"
    /\ ~cpuMu
    /\ closed' = TRUE
    /\ pc' = "done"
    /\ UNCHANGED <<why, pending, active, cancelled, worker, exit, machine, ctxDone, cpuMu,
                   current, calls>>

Coordinator ==
    \/ Top \/ Check \/ Start \/ Join \/ AllIn \/ Drain \/ AfterReset \/ AfterCheck
    \/ AfterClosed \/ AfterA20 \/ AfterRequest \/ Execute \/ LoopEnds \/ Rebuild \/ Rebuilt
    \/ ClosePlatform

-----------------------------------------------------------------------------
(* Callers.                                                                *)

coordinator == <<pc, why, pending, active, cancelled, worker, exit, machine, closed, cpuMu>>

\* call: the caller waits for room, the end of the driver or its context ...
Call(k) ==
    /\ call[k] = "idle"
    /\ call' = [call EXCEPT ![k] = "calling"]
    /\ UNCHANGED <<coordinator, ctxDone, current, requests, reply>>

\* ... and queues its request, even in a closed driver that has room ...
Send(k) ==
    /\ call[k] = "calling"
    /\ Len(requests) < Buffer
    /\ \E op \in Op : requests' = Append(requests, [by |-> k, op |-> op, live |-> TRUE])
    /\ call' = [call EXCEPT ![k] = "sent"]
    /\ reply' = [reply EXCEPT ![k] = FALSE]
    /\ UNCHANGED <<coordinator, ctxDone, current>>

\* ... Close cancels the driver ...
Close(k) ==
    /\ call[k] = "idle"
    /\ ctxDone' = TRUE
    /\ call' = [call EXCEPT ![k] = "closing"]
    /\ UNCHANGED <<coordinator, current, requests, reply>>

\* ... and both cancel the processors, for which they need cpuMu.
CancelCPUs(k) ==
    /\ call[k] \in {"sent", "closing"}
    /\ ~cpuMu
    /\ call' = [call EXCEPT ![k] = IF @ = "sent" THEN "waiting" ELSE "joining"]
    /\ UNCHANGED <<coordinator, ctxDone, current, requests, reply>>

Return(k) ==
    /\ \/ call[k] = "waiting" /\ (reply[k] \/ closed)
       \/ call[k] \in {"calling", "joining"} /\ closed
    /\ call' = [call EXCEPT ![k] = "idle"]
    /\ UNCHANGED <<coordinator, ctxDone, current, requests, reply>>

\* The context of a caller is done: a request it has queued stays queued.
GiveUp(k) ==
    /\ call[k] \in {"calling", "waiting"}
    /\ requests' = [i \in DOMAIN requests |->
                      [requests[i] EXCEPT !.live = @ /\ requests[i].by # k]]
    /\ current' = IF current # None /\ current.by = k THEN [current EXCEPT !.live = FALSE] ELSE current
    /\ call' = [call EXCEPT ![k] = "idle"]
    /\ UNCHANGED <<coordinator, ctxDone, reply>>

Next ==
    \/ Coordinator
    \/ SelectClosed \/ SelectRequest \/ SelectStorage \/ SelectTick
    \/ \E c \in CPU : Enter(c) \/ Leave(c) \/ SelectExit(c)
    \/ \E k \in Caller : Call(k) \/ Send(k) \/ Close(k) \/ CancelCPUs(k) \/ Return(k) \/ GiveUp(k)

Spec == Init /\ [][Next]_vars

\* Runs end with their slice.  A ready case of select is chosen in the end,
\* because Go chooses among ready cases at random, and the callers that wait
\* for room in a channel get it in turn.
Fairness ==
    /\ WF_vars(Coordinator)
    /\ SF_vars(SelectClosed) /\ SF_vars(SelectRequest) /\ WF_vars(SelectTick)
    /\ \A c \in CPU : WF_vars(Enter(c)) /\ WF_vars(Leave(c)) /\ SF_vars(SelectExit(c))
    /\ \A k \in Caller : SF_vars(Send(k)) /\ SF_vars(CancelCPUs(k)) /\ WF_vars(Return(k))

LiveSpec == Spec /\ Fairness

-----------------------------------------------------------------------------
Out(c) == worker[c] \in {"job", "run"}

\* No processor is in its guest, or about to enter it, while the machine is
\* paused or stopped, a request executes, an exit that may remap memory is
\* handled, or the machine is rebuilt or closed.
Quiet ==
    (~running \/ pc \in {"drain", "execute", "rebuild", "close", "done"}) =>
        \A c \in CPU : ~Out(c)

\* A processor that exited enters its guest again only after its exit was
\* handled, and no exit is left behind when the machine is replaced.
ExitsHandled ==
    /\ \A c \in CPU : Out(c) => exit[c] = None
    /\ pc \in {"execute", "rebuild", "done"} => \A c \in CPU : exit[c] = None

\* While the loop waits with a machine that should run, its processors are
\* in an epoch that nobody has cancelled.
LiveEpoch == pc = "select" /\ active # {} => ~cancelled

\* Every call returns, Close included, whatever the guest does meanwhile.
CallsEnd == \A k \in Caller : call[k] # "idle" ~> call[k] = "idle"

=============================================================================
