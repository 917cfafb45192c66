--------------------------- MODULE ProcessProofs ----------------------------
(***************************************************************************)
(* What the programs around the executor guarantee for every document,     *)
(* every set of clients, messages and threads, and every bound.            *)
(***************************************************************************)
EXTENDS Processes, ExecutorProofs, KeyProofs, SequenceTheorems

\* What guard, driver and server assume of a configuration.
Usable(c) ==
    LET policy == c.safety_policy IN
    /\ policy.maximum_joint_speed_percent \in 1..100
    /\ policy.maximum_linear_speed \in Nat \ {0}
    /\ policy.writable_digital_outputs \subseteq Nat
    /\ policy.joint_limits_verified /\ c.axis_count # 0 =>
          Len(policy.joint_limits) = c.axis_count
    /\ policy.motion_enabled => Len(policy.joint_limits) >= 1

\* A document LoadServiceConfig accepts makes a usable configuration.
LEMMA AcceptedIsUsable ==
    ASSUME NEW d \in Documents, LoadServiceConfig(d) # Refused
    PROVE  Usable(LoadServiceConfig(d))
<1> DEFINE c == ServiceConfig(d)
           policy == c.safety_policy
<1>1. /\ LoadServiceConfig(d) = c
      /\ RequiredPresent(d) /\ InRange(d) /\ AxisCountOk(d) /\ JointLimitsOk(d)
      /\ OutputsOk(d)
  BY DEF LoadServiceConfig
<1>2. policy.maximum_joint_speed_percent \in 1..100
  BY <1>1 DEF InRange, ServiceConfig
<1>3. policy.maximum_linear_speed \in Nat \ {0}
  <2>1. d.maximum_linear_speed \in Int
    BY <1>1, DocumentsAssumption DEF RequiredPresent, RequiredIntegers
  <2> QED BY <1>1, <2>1 DEF InRange, ServiceConfig
<1>4. policy.writable_digital_outputs \subseteq Nat
  <2>1. SUFFICES ASSUME d.outputs # Missing, NEW i \in DOMAIN d.outputs
                 PROVE  d.outputs[i] \in Nat
    BY DEF ServiceConfig, Elements
  <2>2. d.outputs[i] # Malformed /\ d.outputs[i] >= 0 /\ d.outputs # Malformed
    BY <1>1, <2>1 DEF OutputsOk, OptionalList
  <2>3. d.outputs \in Seq({Malformed} \cup Int)
    BY <2>1, <2>2, DocumentsAssumption DEF Absent
  <2>4. d.outputs[i] \in {Malformed} \cup Int
    BY <2>1, <2>3
  <2> QED BY <2>2, <2>4
<1>5. ASSUME policy.joint_limits_verified
      PROVE  /\ policy.joint_limits = d.joint_limits
             /\ Len(d.joint_limits) >= 1
             /\ c.axis_count # 0 => Len(d.joint_limits) = c.axis_count
  <2>1. d.joint_limits # Missing /\ policy.joint_limits = d.joint_limits
    BY <1>5 DEF ServiceConfig, JointLimitsVerified
  <2>2. d.joint_limits # Malformed /\ d.joint_limits # <<>>
    BY <1>1 DEF JointLimitsOk, OptionalList
  <2>3. d.joint_limits \in Seq([minimum : Int, maximum : Int] \cup {Malformed})
    BY <2>1, <2>2, DocumentsAssumption DEF Absent
  <2>4. Len(d.joint_limits) >= 1
    BY <2>2, <2>3, EmptySeq, LenProperties
  <2>5. c.axis_count # 0 => Len(d.joint_limits) = c.axis_count
    BY <1>1, <2>1 DEF JointLimitsOk, JointLimitsVerified, ServiceConfig
  <2> QED BY <2>1, <2>4, <2>5
<1>6. policy.motion_enabled => policy.joint_limits_verified
  BY <1>1 DEF JointLimitsOk, ServiceConfig
<1> HIDE DEF c
<1> QED BY <1>1, <1>2, <1>3, <1>4, <1>5, <1>6 DEF Usable

\* A document LoadGrpcServerOptions accepts makes options the server accepts.
LEMMA AcceptedTransportIsOk ==
    ASSUME NEW d, LoadGrpcServerOptions(d) # Refused
    PROVE  TransportOk(LoadGrpcServerOptions(d))
BY DEF LoadGrpcServerOptions

\* The invariant: nothing but Load leads to "start", and only from a document.
ConfigInv == /\ program \in Programs
             /\ main = "load" => document \in Documents
             /\ ConfigIsUsable

\* The steps of the executor do not touch the process, except in these actions.
LEMMA ConfigStep == ConfigInv /\ [ProcessNext]_all => ConfigInv'
<1> SUFFICES ASSUME ConfigInv, [ProcessNext]_all PROVE ConfigInv'
  OBVIOUS
<1>1. CASE Load
  <2>1. CASE main' = "start"
    <3>1. /\ config' = LoadServiceConfig(document) /\ config' # Refused
          /\ program = "robot_manager" =>
                options' = LoadGrpcServerOptions(document) /\ options' # Refused
          /\ document \in Documents /\ program' = program
      BY <1>1, <2>1 DEF Load, Exit, ConfigInv, inputs
    <3>2. Usable(config') /\ (program' = "robot_manager" => TransportOk(options'))
      BY <3>1, AcceptedIsUsable, AcceptedTransportIsOk
    <3>3. program' \in Programs
      BY <3>1 DEF ConfigInv, Programs
    <3>4. ConfigIsUsable'
      BY <3>2 DEF ConfigIsUsable, Usable
    <3> QED BY <2>1, <3>3, <3>4 DEF ConfigInv, Programs
  <2>2. CASE main' # "start"
    <3>1. main' # "load" /\ UNCHANGED program
      BY <1>1 DEF Load, Exit
    <3> QED BY <2>2, <3>1 DEF ConfigInv, ConfigIsUsable, Programs
  <2> QED BY <2>1, <2>2
<1>2. CASE /\ UNCHANGED program
           /\ main' \in {main, "bind", "lease", "leave", "exited", "serve", "drain",
                         "join", "submit", "submitting", "done?", "seen?"}
           /\ main' = main => UNCHANGED inputs
  BY <1>2 DEF ConfigInv, ConfigIsUsable, inputs, Programs
<1>3. CASE ~Load
  <2>1. CASE UNCHANGED process
    BY <1>2, <2>1 DEF process, inputs
  <2>2. CASE StartFails \/ StartSucceeds \/ ServerFails \/ ServerStarts \/ ServerShutdown
             \/ ServerWait \/ Leave \/ ReturnFromRun
    BY <1>2, <2>2 DEF StartFails, StartSucceeds, ServerFails, ServerStarts,
       ServerShutdown, ServerWait, Leave, ReturnFromRun, Exit, inputs, ConfigInv, Programs
  <2>3. CASE AcquireLease \/ ShellSubmit \/ ShellSubmits \/ WaitDone \/ WaitSnapshot
    BY <1>2, <2>3 DEF AcquireLease, ShellSubmit, ShellSubmits, WaitDone, WaitSnapshot,
       GiveUp, inputs
  <2>4. CASE DeadlinePasses \/ Signal \/ StreamState \/ ClientLeaves \/ StreamIsCancelled
    BY <1>2, <2>4 DEF DeadlinePasses, Signal, StreamState, ClientLeaves,
       StreamIsCancelled, inputs
  <2>5. CASE ClientCalls \/ HandlerSteps \/ ExecutorSteps \/ Ended \/ UNCHANGED all
    BY <2>1, <2>5 DEF ClientCalls, HandlerSteps, ExecutorSteps, Ended, Bounded, all
  <2> QED BY <1>3, <2>2, <2>3, <2>4, <2>5 DEF ProcessNext, MainThread
<1> QED BY <1>1, <1>3

\* A program that passes its loaders starts with a configuration that guard,
\* driver and server can work with, for every document.
THEOREM LoadedConfigIsUsable == ProcessSpec => []ConfigIsUsable
<1>1. ProcessInit => ConfigInv
  BY DEF ProcessInit, ConfigInv, ConfigIsUsable
<1>2. ConfigInv => ConfigIsUsable
  BY DEF ConfigInv
<1> QED BY <1>1, <1>2, ConfigStep, PTL DEF ProcessSpec

-----------------------------------------------------------------------------
\* Where the main thread of robotsh movej is while it works.
ShellStages == {"lease", "submit", "submitting", "done?", "seen?"}

\* Handlers exist only while the server is up; robotsh is in a call only while it
\* submits; and the executor is shut down only after either.
CallsInv ==
    /\ DOMAIN rpc = Threads
    /\ program \in Programs
    /\ server # "off" <=> main \in {"serve", "drain"}
    /\ main \in ShellStages => program # "robot_manager"
    /\ main \notin {"serve", "drain"} =>
          /\ ~stream
          /\ \A t \in Threads : rpc[t].pc # "idle" =>
                main = "submitting" /\ t = ShellThread
    /\ shutdown.pc # "none" => main \in {"join", "exited"}

\* The steps that leave the calls, the server and the main thread alone.
LEMMA CallsUntouched ==
    ASSUME CallsInv, UNCHANGED <<rpc, program, main, server, stream>>,
           shutdown.pc = "none" => shutdown'.pc = "none"
    PROVE  CallsInv'
BY DEF CallsInv, ShellStages, ShellThread, Programs

\* No thread of the executor makes a call, or begins the shutdown.
LEMMA ExecutorMakesNoCalls ==
    ASSUME ShutdownSteps \/ Worker \/ Poll \/ Environment
    PROVE  UNCHANGED rpc /\ (shutdown.pc = "none" => shutdown'.pc = "none")
<1>1. CASE ShutdownSteps
  BY <1>1 DEF ShutdownSteps, ShutdownStop, ShutdownDisconnect, ShutdownFinish
<1>2. CASE Worker
  BY <1>2 DEF Worker, WorkerTake, WorkerExit, WorkerSnapshot, WorkerValidate,
     WorkerExecute, WorkerComplete
<1>3. CASE Poll
  BY <1>3 DEF Poll, PollCheck, PollRead, PollPublish
<1>4. CASE Environment
  BY <1>4 DEF Environment, LeaseLapses, GracePasses, JogDeadlinePasses, SnapshotAges,
     MotionEnds, ControllerEvent, CommandTimesOut
<1> QED BY <1>1, <1>2, <1>3, <1>4

\* The main thread.
LEMMA CallsMain == ASSUME CallsInv, MainThread PROVE CallsInv'
<1> USE DEF ShellStages, Programs
<1>1. CASE Load \/ StartFails
  <2>1. UNCHANGED <<rpc, program, server, stream, shutdown>>
    BY <1>1 DEF Load, StartFails, inputs, calls, vars
  <2>2. main \in {"load", "start"} /\ main' \in {"start", "exited"}
    BY <1>1 DEF Load, StartFails, Exit
  <2> QED BY <2>1, <2>2 DEF CallsInv
<1>2. CASE StartSucceeds
  <2>1. UNCHANGED <<rpc, program, server, stream, shutdown>>
    BY <1>2 DEF StartSucceeds, Start, calls
  <2>2. /\ main = "start" /\ main' \in {"bind", "lease", "leave"}
        /\ main' = "lease" => program = "robotsh movej"
    BY <1>2 DEF StartSucceeds, CallsInv
  <2> QED BY <2>1, <2>2 DEF CallsInv
<1>3. CASE ServerFails \/ ServerStarts \/ ServerShutdown
  <2>1. UNCHANGED <<rpc, program, stream, shutdown>>
    BY <1>3 DEF ServerFails, ServerStarts, ServerShutdown, inputs, calls, vars
  <2>2. \/ main = "bind" /\ main' = "leave" /\ server' = server
        \/ main \in {"bind", "serve"} /\ main' \in {"serve", "drain"} /\ server' # "off"
    BY <1>3 DEF ServerFails, ServerStarts, ServerShutdown, calls
  <2> QED BY <2>1, <2>2 DEF CallsInv
<1>4. CASE ServerWait
  <2>1. UNCHANGED <<rpc, program, stream, shutdown>>
    BY <1>4 DEF ServerWait, inputs, vars
  <2>2. ~CallsInProgress /\ main = "drain" /\ main' = "leave" /\ server' = "off"
    BY <1>4 DEF ServerWait
  <2> QED BY <2>1, <2>2 DEF CallsInv, CallsInProgress
<1>5. CASE Leave
  <2>1. UNCHANGED <<rpc, program, server, stream>>
    BY <1>5 DEF Leave, ShutdownBegin, inputs, calls
  <2>2. main = "leave" /\ main' = "join"
    BY <1>5 DEF Leave
  <2> QED BY <2>1, <2>2 DEF CallsInv
<1>6. CASE ReturnFromRun
  <2>1. UNCHANGED <<rpc, program, server, stream, shutdown>>
    BY <1>6 DEF ReturnFromRun, inputs, calls, vars
  <2>2. main = "join" /\ main' = "exited"
    BY <1>6 DEF ReturnFromRun, Exit
  <2> QED BY <2>1, <2>2 DEF CallsInv
<1>7. CASE AcquireLease
  <2>1. UNCHANGED <<rpc, program, server, stream, shutdown>>
    BY <1>7 DEF AcquireLease, AcquireControlLease, inputs, calls
  <2>2. main = "lease" /\ main' = "submit"
    BY <1>7 DEF AcquireLease
  <2> QED BY <2>1, <2>2 DEF CallsInv
<1>8. CASE ShellSubmit
  <2>1. UNCHANGED <<program, server, stream, shutdown>> /\ main = "submit"
    BY <1>8 DEF ShellSubmit, SubmitBegin, inputs, calls, vars
  <2>2. \/ /\ main' = "submitting"
           /\ \E entry : rpc' = [rpc EXCEPT ![ShellThread] = entry]
        \/ main' = "leave" /\ rpc' = rpc
    BY <1>8 DEF ShellSubmit, SubmitBegin, GiveUp, vars
  <2> QED BY <2>1, <2>2 DEF CallsInv, ShellThread
<1>9. CASE ShellSubmits
  <2>1. UNCHANGED <<program, server, stream, shutdown>> /\ main = "submitting"
    BY <1>9 DEF ShellSubmits, SubmitValidate, SubmitEnqueue, inputs, calls
  <2>2. PICK entry : /\ rpc' = [rpc EXCEPT ![ShellThread] = entry]
                     /\ \/ main' = main
                        \/ /\ main' \in {"leave", "done?"}
                           /\ ShellThread \in Threads => entry.pc = "idle"
    <3>1. CASE SubmitEnqueue(ShellThread)
      <4>1. rpc' = [rpc EXCEPT ![ShellThread] = IdleRpc] /\ main' \in {main, "leave", "done?"}
        BY <1>9, <3>1 DEF ShellSubmits, SubmitEnqueue, SubmitValidate, GiveUp
      <4>2. IdleRpc.pc = "idle"
        BY DEF IdleRpc
      <4>3. main' = main \/ main' \in {"leave", "done?"}
        BY <4>1
      <4> QED BY <4>1, <4>2, <4>3, Zenon
    <3>2. CASE SubmitValidate(ShellThread) /\ ~SubmitEnqueue(ShellThread)
      <4>1. PICK entry : rpc' = [rpc EXCEPT ![ShellThread] = entry]
        BY <3>2 DEF SubmitValidate
      <4>2. \/ rpc'[ShellThread].pc = "idle" /\ main' = "leave"
            \/ main' = main
        BY <1>9, <3>2 DEF ShellSubmits, GiveUp
      <4>3. ShellThread \in Threads => rpc'[ShellThread] = entry
        BY <4>1 DEF CallsInv
      <4>4. \/ main' = main
            \/ /\ main' \in {"leave", "done?"}
               /\ ShellThread \in Threads => entry.pc = "idle"
        BY <4>2, <4>3
      <4> QED BY <4>1, <4>4, Zenon
    <3> QED BY <1>9, <3>1, <3>2 DEF ShellSubmits
  <2> QED BY <2>1, <2>2 DEF CallsInv, ShellThread
<1>10. CASE WaitDone \/ WaitSnapshot
  <2>1. UNCHANGED <<rpc, program, server, stream, shutdown>>
    BY <1>10 DEF WaitDone, WaitSnapshot, inputs, calls, vars
  <2>2. main \in {"done?", "seen?"} /\ main' \in {"leave", "seen?", "submit"}
    BY <1>10 DEF WaitDone, WaitSnapshot, GiveUp
  <2> QED BY <2>1, <2>2 DEF CallsInv
<1> QED
  BY <1>1, <1>2, <1>3, <1>4, <1>5, <1>6, <1>7, <1>8, <1>9, <1>10 DEF MainThread

\* The clients and the handlers of their calls.
LEMMA CallsHandlers ==
    ASSUME CallsInv, ClientCalls \/ HandlerSteps PROVE CallsInv'
<1>1. UNCHANGED <<program, main, server, stream, shutdown>>
  BY DEF ClientCalls, HandlerSteps, Bounded, process, AcquireControlLease,
     SubmitCommand, SubmitBegin, RpcSteps, ReleaseCancel, SubmitValidate, SubmitEnqueue
<1>2. DOMAIN rpc' = Threads
  BY DEF CallsInv, ClientCalls, HandlerSteps, AcquireControlLease, SubmitCommand,
     SubmitBegin, RpcSteps, ReleaseCancel, SubmitValidate, SubmitEnqueue
<1>3. server # "off"
  <2>1. CASE ClientCalls
    BY <2>1 DEF ClientCalls, Serving
  <2>2. CASE HandlerSteps
    <3>1. PICK t \in Threads : rpc[t].pc # "idle" /\ program = "robot_manager"
      BY <2>2 DEF HandlerSteps, RpcSteps, ReleaseCancel, SubmitValidate, SubmitEnqueue
    <3> QED BY <3>1 DEF CallsInv, ShellStages
  <2> QED BY <2>1, <2>2
<1> QED BY <1>1, <1>2, <1>3 DEF CallsInv, ShellStages, Programs

\* Every step keeps the invariant.
LEMMA CallsStep == CallsInv /\ [ProcessNext]_all => CallsInv'
<1> SUFFICES ASSUME CallsInv, [ProcessNext]_all PROVE CallsInv'
  OBVIOUS
<1>1. CASE DeadlinePasses \/ StreamState \/ ClientLeaves \/ StreamIsCancelled \/ Signal
  <2>1. UNCHANGED <<rpc, program, main, shutdown>>
    BY <1>1 DEF DeadlinePasses, StreamState, ClientLeaves, StreamIsCancelled, Signal,
       inputs, calls, vars
  <2>2. server' # "off" <=> server # "off"
    BY <1>1 DEF DeadlinePasses, StreamState, ClientLeaves, StreamIsCancelled, Signal,
       calls
  <2>3. stream' => stream \/ server # "off"
    BY <1>1 DEF DeadlinePasses, StreamState, ClientLeaves, StreamIsCancelled, Signal,
       calls, Serving
  <2> QED BY <2>1, <2>2, <2>3 DEF CallsInv, ShellStages, ShellThread, Programs
<1>2. CASE ExecutorSteps
  BY <1>2, ExecutorMakesNoCalls, CallsUntouched DEF ExecutorSteps, Bounded, process
<1>3. CASE Ended \/ UNCHANGED all
  BY <1>3, CallsUntouched DEF Ended, all, vars, process
<1> QED BY <1>1, <1>2, <1>3, CallsMain, CallsHandlers DEF ProcessNext

\* A program begins without calls.
LEMMA CallsInit == ProcessInit => CallsInv
<1> SUFFICES ASSUME ProcessInit PROVE CallsInv
  OBVIOUS
<1>1. rpc = [t \in Threads |-> IdleRpc] /\ shutdown.pc = "none"
  BY DEF ProcessInit, Init, NoShutdown
<1>2. program \in Programs /\ main = "load" /\ server = "off" /\ ~stream
  BY DEF ProcessInit
<1> QED BY <1>1, <1>2 DEF IdleRpc, CallsInv, ShellStages

\* Nobody is inside the executor from the moment it begins to shut down: the server
\* returns only after every handler has, and robotsh leaves no call behind.
THEOREM NoCallIsLeft == ProcessSpec => []NoCallOutlivesExecutor
<1>1. CallsInv => NoCallOutlivesExecutor
  BY DEF CallsInv, NoCallOutlivesExecutor, CallsInProgress
<1> QED BY <1>1, CallsInit, CallsStep, PTL DEF ProcessSpec

-----------------------------------------------------------------------------
\* An executor nobody has started.
Untouched ==
    /\ ~started_once
    /\ DOMAIN book.commands = {} /\ book.active = 0 /\ book.jog.active = FALSE
    /\ worker.pc = "off" /\ poll.pc = "off" /\ shutdown.pc = "none"
    /\ ~running

\* The session with the controller is closed.
Closed == "connected" \in DOMAIN robot /\ robot.connected = FALSE

\* A program exits before it has started the executor or after Shutdown is done.
EndsInv ==
    /\ ExecutorInv /\ CallsInv
    /\ main \in {"load", "start"} => Untouched /\ Closed
    /\ main = "exited" => Untouched \/ shutdown.pc = "done"
    /\ main = "exited" \/ shutdown.pc \in {"disconnected", "done"} => Closed

\* The executor of a program keeps its invariant: apart from the requests of its
\* clients, which need not be among Requests, its steps are those of Next.
LEMMA ProcessKeepsExecutor ==
    ASSUME ExecutorInv, [ProcessNext]_all PROVE ExecutorInv'
<1>1. CASE [Next]_vars
  BY <1>1, ExecutorStep DEF Preserved
<1>2. CASE \E req : \E t \in Threads : SubmitBegin(t, req)
  <2>1. UNCHANGED <<book, running, shutting_down, started_once, worker, poll, shutdown>>
    BY <1>2 DEF SubmitBegin, flags
  <2>2. StagesOK'
    BY <2>1 DEF ExecutorInv, StagesOK, WorkerBusy
  <2> QED BY <2>1, <2>2, LedgerUnchanged DEF Preserved
<1>3. CASE MainThread
  <2>1. CASE ShellSubmit \/ ShellSubmits
    <3>1. CASE UNCHANGED vars
      BY <1>1, <3>1
    <3>2. CASE SubmitBegin(ShellThread, ShellRequest)
      <4>1. UNCHANGED <<book, running, shutting_down, started_once, worker, poll,
                        shutdown>>
        BY <3>2 DEF SubmitBegin, flags
      <4>2. StagesOK'
        BY <4>1 DEF ExecutorInv, StagesOK, WorkerBusy
      <4> QED BY <4>1, <4>2, LedgerUnchanged DEF Preserved
    <3>3. CASE SubmitValidate(ShellThread) \/ SubmitEnqueue(ShellThread)
      <4>1. ShellThread \in Threads
        BY ShellAssumption DEF ShellThread
      <4> QED BY <1>1, <3>3, <4>1 DEF Next, RpcSteps
    <3> QED BY <2>1, <3>1, <3>2, <3>3 DEF ShellSubmit, ShellSubmits
  <2>2. CASE StartSucceeds \/ Leave \/ AcquireLease
    BY <1>1, <2>2, ShellAssumption
       DEF StartSucceeds, Leave, AcquireLease, Next, Service, Calls
  <2>3. CASE UNCHANGED vars
    BY <1>1, <2>3
  <2> QED
    BY <1>3, <2>1, <2>2, <2>3
       DEF MainThread, Load, StartFails, ServerFails, ServerStarts, ServerShutdown,
           ServerWait, ReturnFromRun, WaitDone, WaitSnapshot
<1>4. CASE ClientCalls
  <2>1. CASE \E c \in Clients : AcquireControlLease(c)
    BY <1>1, <2>1 DEF Next, Calls
  <2> QED BY <1>2, <1>4, <2>1 DEF ClientCalls, SubmitCommand
<1>5. CASE HandlerSteps \/ ExecutorSteps
  BY <1>1, <1>5 DEF HandlerSteps, ExecutorSteps, Next
<1>6. CASE UNCHANGED vars
  BY <1>1, <1>6
<1> QED
  BY <1>3, <1>4, <1>5, <1>6
     DEF ProcessNext, DeadlinePasses, Signal, StreamState, ClientLeaves,
         StreamIsCancelled, Ended, all

\* Before the start nothing happens but the passage of time.
LEMMA UntouchedStays ==
    ASSUME Untouched, Closed, ShutdownSteps \/ Worker \/ Poll \/ Environment
    PROVE  Untouched' /\ Closed'
<1>1. ~ShutdownSteps /\ ~Worker /\ ~Poll
  BY DEF Untouched, ShutdownSteps, ShutdownStop, ShutdownDisconnect, ShutdownFinish,
     Worker, WorkerTake, WorkerExit, WorkerSnapshot, WorkerValidate, WorkerExecute,
     WorkerComplete, Poll, PollCheck, PollRead, PollPublish
<1>2. CASE LeaseLapses
  BY <1>2 DEF LeaseLapses, Untouched, Closed, flags
<1>3. CASE MotionEnds
  BY <1>3 DEF MotionEnds, Untouched, Closed, flags
<1>4. ~GracePasses /\ ~JogDeadlinePasses /\ ~SnapshotAges
  BY DEF Untouched, GracePasses, JogDeadlinePasses, SnapshotAges
<1>5. ~ControllerEvent /\ ~ \E id \in DOMAIN book.commands : CommandTimesOut(id)
  BY DEF Untouched, Closed, ControllerEvent
<1> QED BY <1>1, <1>2, <1>3, <1>4, <1>5 DEF Environment

\* Shutdown closes the session, and nothing opens it again.
LEMMA ClosedStays ==
    ASSUME ExecutorInv, shutdown.pc \in {"disconnected", "done"} => Closed,
           ShutdownSteps \/ Worker \/ Poll \/ Environment
    PROVE  /\ shutdown'.pc \in {"disconnected", "done"} => Closed'
           /\ shutdown.pc = "done" => shutdown'.pc = "done"
<1>1. DOMAIN shutdown = {"pc", "ok", "after", "rest"}
  BY DEF ExecutorInv, StagesOK
<1>2. CASE ShutdownStop
  BY <1>1, <1>2 DEF ShutdownStop
<1>3. CASE ShutdownDisconnect
  BY <1>3 DEF ShutdownDisconnect, Disconnect, Accept, Unconnected, Closed
<1>4. CASE ShutdownFinish
  BY <1>1, <1>4 DEF ShutdownFinish, Closed
<1>5. CASE Worker \/ Poll \/ Environment
  <2>1. UNCHANGED shutdown
    BY <1>5 DEF Worker, WorkerTake, WorkerExit, WorkerSnapshot, WorkerValidate,
       WorkerExecute, WorkerComplete, Poll, PollCheck, PollRead, PollPublish,
       Environment, LeaseLapses, GracePasses, JogDeadlinePasses, SnapshotAges,
       MotionEnds, ControllerEvent, CommandTimesOut
  <2>2. SUFFICES ASSUME shutdown.pc \in {"disconnected", "done"}, Closed PROVE Closed'
    BY <2>1
  <2>3. ~Worker /\ ~Poll
    BY <2>2 DEF ExecutorInv, StagesOK, Worker, WorkerTake, WorkerExit, WorkerSnapshot,
       WorkerValidate, WorkerExecute, WorkerComplete, Poll, PollCheck, PollRead,
       PollPublish
  <2>4. CASE MotionEnds
    BY <2>2, <2>4 DEF MotionEnds, Closed
  <2>5. CASE \/ LeaseLapses \/ GracePasses \/ JogDeadlinePasses \/ SnapshotAges
             \/ \E id \in DOMAIN book.commands : CommandTimesOut(id)
    BY <2>2, <2>5 DEF LeaseLapses, GracePasses, JogDeadlinePasses, SnapshotAges,
       CommandTimesOut, Closed
  <2>6. ~ControllerEvent
    BY <2>2 DEF ControllerEvent, Closed
  <2> QED BY <1>5, <2>3, <2>4, <2>5, <2>6 DEF Environment
<1> QED BY <1>2, <1>3, <1>4, <1>5 DEF ShutdownSteps

\* Every step keeps the invariant.
LEMMA EndsStep == EndsInv /\ [ProcessNext]_all => EndsInv'
<1> SUFFICES ASSUME EndsInv, [ProcessNext]_all PROVE EndsInv'
  OBVIOUS
<1>1. ExecutorInv' /\ CallsInv'
  BY ProcessKeepsExecutor, CallsStep DEF EndsInv
<1>2. CASE UNCHANGED <<vars, main>>
  BY <1>1, <1>2 DEF EndsInv, Untouched, Closed, vars, flags
<1>3. CASE UNCHANGED vars /\ main \in {"load", "start"} /\ main' \in {"start", "exited"}
  BY <1>1, <1>3 DEF EndsInv, Untouched, Closed, vars, flags
<1>4. CASE UNCHANGED vars /\ main = "join" /\ shutdown.pc = "done" /\ main' = "exited"
  BY <1>1, <1>4 DEF EndsInv, Untouched, Closed, vars, flags
<1>5. CASE main' \notin {"load", "start", "exited"} /\ shutdown'.pc \in {"none", "flagged"}
  BY <1>1, <1>5 DEF EndsInv
<1>6. CASE MainThread
  <2>1. CASE Load \/ StartFails
    BY <1>3, <2>1 DEF Load, StartFails, Exit
  <2>2. CASE ReturnFromRun
    BY <1>4, <2>2 DEF ReturnFromRun, Exit
  <2>3. CASE StartSucceeds
    BY <1>5, <2>3 DEF StartSucceeds, Start, EndsInv, CallsInv, Programs
  <2>4. CASE Leave
    <3>1. DOMAIN shutdown = {"pc", "ok", "after", "rest"}
      BY DEF EndsInv, ExecutorInv, StagesOK
    <3> QED BY <1>5, <2>4, <3>1 DEF Leave, ShutdownBegin
  <2>5. CASE ServerFails \/ ServerStarts \/ ServerShutdown \/ ServerWait
    <3>1. main' \in {"leave", "serve", "drain"} /\ UNCHANGED shutdown
      BY <2>5 DEF ServerFails, ServerStarts, ServerShutdown, ServerWait, vars
    <3>2. shutdown.pc = "none"
      BY <2>5 DEF ServerFails, ServerStarts, ServerShutdown, ServerWait, EndsInv, CallsInv
    <3> QED BY <1>5, <3>1, <3>2
  <2>6. CASE AcquireLease \/ ShellSubmit \/ ShellSubmits \/ WaitDone \/ WaitSnapshot
    <3>1. /\ main \in ShellStages
          /\ main' \in {main, "leave", "submit", "submitting", "done?", "seen?"}
      <4>1. CASE ShellSubmits
        BY <4>1 DEF ShellSubmits, GiveUp, ShellStages
      <4>2. CASE AcquireLease \/ ShellSubmit \/ WaitDone \/ WaitSnapshot
        BY <4>2 DEF AcquireLease, ShellSubmit, WaitDone, WaitSnapshot, GiveUp, ShellStages
      <4> QED BY <2>6, <4>1, <4>2
    <3>2. shutdown.pc = "none"
      BY <3>1 DEF EndsInv, CallsInv, ShellStages
    <3>3. UNCHANGED shutdown
      BY <2>6 DEF AcquireLease, ShellSubmit, ShellSubmits, WaitDone, WaitSnapshot,
         AcquireControlLease, SubmitBegin, SubmitValidate, SubmitEnqueue, vars
    <3> QED BY <1>5, <3>1, <3>2, <3>3 DEF ShellStages
  <2> QED BY <1>6, <2>1, <2>2, <2>3, <2>4, <2>5, <2>6 DEF MainThread
<1>7. CASE ClientCalls \/ HandlerSteps
  <2>1. UNCHANGED <<main, shutdown>>
    BY <1>7 DEF ClientCalls, HandlerSteps, Bounded, process, AcquireControlLease,
       SubmitCommand, SubmitBegin, RpcSteps, ReleaseCancel, SubmitValidate, SubmitEnqueue
  <2>2. main \in {"serve", "drain"}
    <3>1. CASE ClientCalls
      BY <3>1 DEF ClientCalls, Serving, EndsInv, CallsInv
    <3>2. CASE HandlerSteps
      <4>1. PICK t \in Threads : rpc[t].pc # "idle" /\ program = "robot_manager"
        BY <3>2 DEF HandlerSteps, RpcSteps, ReleaseCancel, SubmitValidate, SubmitEnqueue
      <4> QED BY <4>1 DEF EndsInv, CallsInv, ShellStages
    <3> QED BY <1>7, <3>1, <3>2
  <2>3. shutdown.pc = "none"
    BY <2>2 DEF EndsInv, CallsInv
  <2> QED BY <1>5, <2>1, <2>2, <2>3
<1>8. CASE ExecutorSteps
  <2>1. (ShutdownSteps \/ Worker \/ Poll \/ Environment) /\ UNCHANGED main
    BY <1>8 DEF ExecutorSteps, Bounded, process
  <2>2. /\ shutdown'.pc \in {"disconnected", "done"} => Closed'
        /\ shutdown.pc = "done" => shutdown'.pc = "done"
    BY <2>1, ClosedStays DEF EndsInv
  <2>3. CASE Untouched /\ Closed
    BY <1>1, <2>1, <2>2, <2>3, UntouchedStays DEF EndsInv
  <2>4. CASE ~(Untouched /\ Closed)
    BY <1>1, <2>1, <2>2, <2>4 DEF EndsInv
  <2> QED BY <2>3, <2>4
<1>9. CASE DeadlinePasses \/ Signal \/ StreamState \/ ClientLeaves \/ StreamIsCancelled
           \/ Ended \/ UNCHANGED all
  <2>1. UNCHANGED <<vars, main>>
    BY <1>9 DEF DeadlinePasses, Signal, StreamState, ClientLeaves, StreamIsCancelled,
       Ended, all, process
  <2> QED BY <1>2, <2>1
<1> QED BY <1>6, <1>7, <1>8, <1>9 DEF ProcessNext

\* However a program ends, the threads have ended, the session with the controller
\* is closed and every command it accepted has a verdict.
THEOREM ProgramsEndClean == ProcessSpec => []EndsClean
<1>1. ProcessInit => EndsInv
  <2> SUFFICES ASSUME ProcessInit PROVE EndsInv
    OBVIOUS
  <2>1. ExecutorInv /\ CallsInv /\ main = "load"
    BY ExecutorInvInit, CallsInit DEF ProcessInit
  <2>2. book = EmptyLedger /\ shutdown.pc = "none" /\ robot \in InitialRobots
        /\ ~started_once /\ ~running /\ worker.pc = "off" /\ poll.pc = "off"
    BY DEF ProcessInit, Init, NoShutdown, IdleWorker, IdlePoll
  <2>3. DOMAIN book.commands = {} /\ book.active = 0 /\ book.jog.active = FALSE
    <3>1. book.commands = <<>> /\ book.active = 0 /\ book.jog = NoJog
      BY <2>2 DEF EmptyLedger
    <3>2. DOMAIN book.commands = {}
      BY <3>1
    <3>3. NoJog.active = FALSE
      BY Zenon DEF NoJog
    <3> QED BY <3>1, <3>2, <3>3, Zenon
  <2>4. Closed
    BY <2>2, RobotsAssumption DEF Closed, Robots
  <2> QED BY <2>1, <2>2, <2>3, <2>4 DEF EndsInv, Untouched
<1>2. ASSUME EndsInv PROVE EndsClean
  <2>1. SUFFICES ASSUME main = "exited" PROVE /\ worker.pc \in {"off", "exited"}
                                             /\ poll.pc \in {"off", "exited"}
                                             /\ OpenCommands(book) = {}
    BY <1>2 DEF EndsInv, EndsClean, Closed
  <2>2. CASE Untouched
    BY <2>2 DEF Untouched, OpenCommands
  <2>3. CASE shutdown.pc = "done"
    BY <1>2, <2>3 DEF EndsInv, ExecutorInv, StagesOK, SettledAfterShutdown
  <2> QED BY <1>2, <2>1, <2>2, <2>3 DEF EndsInv
<1> QED BY <1>1, <1>2, EndsStep, PTL DEF ProcessSpec

-----------------------------------------------------------------------------
\* A MoveJ that has succeeded.
Moved(b) == \E i \in DOMAIN b.commands :
                Type(b, i) = "MoveJ" /\ State(b, i) = "Succeeded"

\* robotsh movej: the call in progress submits the command the main thread is at, and
\* the id it then waits for is never that of another one, though its record may be
\* dropped meanwhile.  It leaves with 0 only after it saw the MoveJ succeed; that
\* record stays, since only a Submit drops records and nobody submits any more.
ShellInv ==
    /\ KeysInv
    /\ stage \in 1..Len(ShellCommands) /\ (main = "seen?" => stage # Len(ShellCommands))
    /\ main \notin {"bind", "serve", "drain"}
    /\ main = "submitting" /\ rpc[ShellThread].pc \in {"validate", "enqueue"} =>
          rpc[ShellThread].req = ShellRequest
    /\ main = "done?" =>
          /\ awaited \in Nat /\ awaited < book.next_id
          /\ awaited \in DOMAIN book.commands =>
                Type(book, awaited) = ShellCommands[stage]
    /\ main \in {"leave", "join", "exited"} /\ code = 0 => Moved(book)

MovedInv == ExecutorInv /\ CallsInv /\ (program = "robotsh movej" => ShellInv)

\* The names of the three commands.
LEMMA ShellCommandNames ==
    /\ Len(ShellCommands) = 3
    /\ \A i \in 1..3 : ShellCommands[i] \in CommandTypes
    /\ ShellCommands[3] = "MoveJ"
BY DEF ShellCommands, CommandTypes

\* What a Submit adds has the next id, and the type that was asked for.
LEMMA SubmittedIsNext ==
    ASSUME KeysInv, NEW t, SubmitEnqueue(t), book'.next_id # book.next_id
    PROVE  /\ book.next_id \in Nat /\ book.next_id < book'.next_id
           /\ Type(book', book.next_id) = rpc[t].req.type
<1> DEFINE req == rpc[t].req
           m == MakeRoom(book)
<1>1. Form(book)
  BY DEF KeysInv
<1>2. Form(m) /\ m.next_id = book.next_id
  BY <1>1, MakeRoomKeeps DEF Keeps, MakeRoom, Finish, Dequeue, Form
<1>3. PICK pruned \in PruneCommandHistoryLocked(m) : book' \in {pruned, Insert(pruned, req)}
  BY DEF SubmitEnqueue
<1> HIDE DEF m
<1>4. PICK P : pruned = Forget(m, P)
  BY <1>3 DEF PruneCommandHistoryLocked
<1>5. Form(pruned) /\ pruned.next_id = book.next_id
  BY <1>2, <1>4 DEF Forget, Form
<1>6. book' = Insert(pruned, req)
  BY <1>3, <1>5
<1>7. /\ book'.next_id = book.next_id + 1
      /\ book'.commands[book.next_id].req = req
  BY <1>5, <1>6 DEF Insert, Enqueue, Form
<1> QED BY <1>1, <1>7 DEF Form, Type

\* While nothing is submitted, records stay with their requests and verdicts, and no
\* other record gets an id that was handed out.
LEMMA KeptForShell ==
    ASSUME ExecutorInv, KeysInv, KeysInv', Keeps(book, book'), Follows(book, book')
    PROVE  /\ Moved(book) => Moved(book')
           /\ awaited \in Nat /\ awaited < book.next_id =>
                 /\ awaited < book'.next_id
                 /\ awaited \in DOMAIN book'.commands =>
                       /\ awaited \in DOMAIN book.commands
                       /\ Type(book', awaited) = Type(book, awaited)
<1>1. ASSUME NEW i \in DOMAIN book.commands, State(book, i) = "Succeeded"
      PROVE  /\ i \in DOMAIN book'.commands
             /\ Type(book', i) = Type(book, i) /\ State(book', i) = "Succeeded"
  <2>1. i \in DOMAIN book'.commands /\ Type(book', i) = Type(book, i)
    BY DEF Keeps, Type
  <2>2. State(book, i) \in Terminal
    BY <1>1 DEF Terminal, CommandStates
  <2>3. State(book', i) = State(book, i)
    BY <2>1, <2>2 DEF Follows
  <2> QED BY <1>1, <2>1, <2>3
<1>2. Moved(book) => Moved(book')
  BY <1>1 DEF Moved
<1>3. ASSUME awaited \in Nat, awaited < book.next_id
      PROVE  /\ awaited < book'.next_id
             /\ awaited \in DOMAIN book'.commands =>
                   /\ awaited \in DOMAIN book.commands
                   /\ Type(book', awaited) = Type(book, awaited)
  <2>1. awaited < book'.next_id
    BY <1>3 DEF Follows
  <2>2. awaited \in DOMAIN book'.commands => awaited \in 1..(book.next_id - 1)
    BY <1>3 DEF KeysInv, Form
  <2> QED BY <2>1, <2>2 DEF Keeps, Follows, Type
<1> QED BY <1>2, <1>3

\* The threads of the executor and the passage of time.
LEMMA ShellExecutor ==
    ASSUME MovedInv, ExecutorInv', CallsInv', program = "robotsh movej",
           ShutdownSteps \/ Worker \/ Poll \/ Environment, UNCHANGED process
    PROVE  ShellInv'
<1>1. ExecutorInv /\ ShellInv /\ KeysInv /\ Form(book)
  BY DEF MovedInv, ShellInv, KeysInv
<1>2. Follows(book, book')
  BY <1>1, ExecutorStep DEF Preserved, Next
<1>3. KeysInv' /\ Keeps(book, book')
  BY <1>1, OtherSteps, KeepingSteps, KeepsSelf DEF ShutdownSteps, Worker, Poll, Environment
<1>4. UNCHANGED rpc
  BY ExecutorMakesNoCalls
<1>5. UNCHANGED <<main, code, stage, awaited>>
  BY DEF process
<1>6. ShellRequest' = ShellRequest
  BY <1>5 DEF ShellRequest
<1>7. Moved(book) => Moved(book')
  BY <1>1, <1>2, <1>3, KeptForShell
<1>8. main = "done?" =>
          /\ awaited \in Nat /\ awaited < book'.next_id
          /\ awaited \in DOMAIN book'.commands =>
                Type(book', awaited) = ShellCommands[stage]
  BY <1>1, <1>2, <1>3, KeptForShell DEF ShellInv
<1> QED BY <1>1, <1>3, <1>4, <1>5, <1>6, <1>7, <1>8 DEF ShellInv, ShellThread

\* A step of the program that leaves the executor alone.
LEMMA ShellAlone ==
    ASSUME ShellInv, UNCHANGED vars PROVE KeysInv'
BY OtherSteps DEF ShellInv

\* Giving up, and leaving before there was an executor: the code is not 0.
LEMMA ShellFails ==
    ASSUME ShellInv, KeysInv', stage' = stage, main' \in {"leave", "exited"}, code' \in {1, 2}
    PROVE  ShellInv'
<1>1. stage' \in 1..Len(ShellCommands)
  BY DEF ShellInv
<1>2. code' # 0
  OBVIOUS
<1> QED BY <1>1, <1>2 DEF ShellInv

\* Submit.
LEMMA ShellSubmitting ==
    ASSUME MovedInv, CallsInv', program = "robotsh movej", ShellSubmit \/ ShellSubmits
    PROVE  ShellInv'
<1>1. KeysInv /\ ShellInv /\ stage \in 1..3 /\ ShellThread \in Threads
      /\ DOMAIN rpc = Threads
  BY ShellCommandNames, ShellAssumption DEF MovedInv, ShellInv, ShellThread, CallsInv
<1>2. CASE ShellSubmit
  <2>1. UNCHANGED <<book, stage, awaited>> /\ main = "submit"
    BY <1>2 DEF ShellSubmit, SubmitBegin, shell, vars
  <2>2. ShellRequest' = ShellRequest
    BY <2>1 DEF ShellRequest
  <2>3. CASE SubmitBegin(ShellThread, ShellRequest) /\ main' = "submitting"
    <3>1. ShellRequest.client \in Clients /\ ShellRequest.type \in CommandTypes
      BY <1>1, ShellCommandNames, ShellAssumption DEF ShellRequest
    <3>2. rpc' = [rpc EXCEPT ![ShellThread] = [pc |-> "validate", req |-> ShellRequest,
                                               admits |-> Admits(ShellRequest)]]
      BY <2>3 DEF SubmitBegin
    <3> HIDE DEF ShellRequest
    <3>3. CallsSound(rpc')
      BY <1>1, <3>1, <3>2 DEF KeysInv, CallsSound
    <3>4. KeysInv'
      BY <1>1, <2>1, <3>3 DEF KeysInv
    <3>5. rpc'[ShellThread].req = ShellRequest
      BY <1>1, <3>2
    <3> QED BY <1>1, <2>1, <2>2, <2>3, <3>4, <3>5 DEF ShellInv, ShellThread
  <2>4. CASE GiveUp /\ UNCHANGED vars
    BY <1>1, <2>1, <2>4, ShellAlone, ShellFails DEF GiveUp
  <2> QED BY <1>2, <2>3, <2>4 DEF ShellSubmit
<1>3. CASE ShellSubmits
  <2>1. main = "submitting" /\ stage' = stage
        /\ (SubmitValidate(ShellThread) \/ SubmitEnqueue(ShellThread))
    BY <1>3 DEF ShellSubmits
  <2>2. KeysInv'
    BY <1>1, <2>1, CallSteps DEF RpcSteps
  <2>3. ShellRequest' = ShellRequest
    BY <2>1 DEF ShellRequest
  <2>4. rpc[ShellThread].req = ShellRequest
    BY <1>1, <2>1 DEF ShellInv, SubmitValidate, SubmitEnqueue
  <2>5. CASE GiveUp
    BY <1>1, <2>1, <2>2, <2>5, ShellFails DEF GiveUp
  <2>6. CASE ~GiveUp /\ SubmitValidate(ShellThread)
    <3>1. main' = main /\ UNCHANGED code
      BY <1>3, <2>6 DEF ShellSubmits, SubmitValidate, SubmitEnqueue
    <3>2. rpc'[ShellThread].pc \in {"validate", "enqueue"} =>
              rpc'[ShellThread].req = rpc[ShellThread].req
      BY <1>1, <2>6 DEF SubmitValidate, IdleRpc, KeysInv, CallsSound
    <3> QED BY <1>1, <2>1, <2>2, <2>3, <2>4, <3>1, <3>2 DEF ShellInv, ShellThread
  <2>7. CASE ~GiveUp /\ ~SubmitValidate(ShellThread)
    <3>1. /\ SubmitEnqueue(ShellThread) /\ book'.next_id # book.next_id
          /\ main' = "done?" /\ awaited' = book.next_id
      BY <1>3, <2>7 DEF ShellSubmits
    <3>2. /\ book.next_id \in Nat /\ book.next_id < book'.next_id
          /\ Type(book', book.next_id) = ShellRequest.type
      BY <1>1, <2>4, <3>1, SubmittedIsNext
    <3>3. ShellRequest.type = ShellCommands[stage]
      BY DEF ShellRequest
    <3> QED BY <1>1, <2>1, <2>2, <3>1, <3>2, <3>3 DEF ShellInv
  <2> QED BY <2>5, <2>6, <2>7
<1> QED BY <1>2, <1>3

\* WaitSnapshot is never waited in after the last command.
LEMMA StageAdvances ==
    ASSUME ShellInv, main = "seen?", stage' = stage + 1
    PROVE  stage' \in 1..Len(ShellCommands)
<1>1. stage \in 1..Len(ShellCommands) /\ stage # Len(ShellCommands)
  BY DEF ShellInv
<1>2. Len(ShellCommands) = 3
  BY ShellCommandNames
<1> QED BY <1>1, <1>2

\* The other steps of the main thread.
LEMMA ShellMain ==
    ASSUME MovedInv, program = "robotsh movej", MainThread,
           ~ShellSubmit, ~ShellSubmits
    PROVE  ShellInv'
<1>1. KeysInv /\ ShellInv /\ stage \in 1..3
  BY ShellCommandNames DEF MovedInv, ShellInv
<1>2. KeysInv'
  <2>1. \/ UNCHANGED vars \/ Start \/ ShutdownBegin
        \/ \E c \in Clients : AcquireControlLease(c)
    BY ShellAssumption
       DEF MainThread, Load, StartFails, StartSucceeds, ServerFails, ServerStarts,
           ServerShutdown, ServerWait, Leave, ReturnFromRun, AcquireLease, WaitDone,
           WaitSnapshot
  <2> QED BY <1>1, <2>1, OtherSteps
<1>3. UNCHANGED book
  BY DEF MainThread, Load, StartFails, StartSucceeds, ServerFails, ServerStarts,
     ServerShutdown, ServerWait, Leave, ReturnFromRun, AcquireLease, WaitDone,
     WaitSnapshot, vars, Start, ShutdownBegin, AcquireControlLease
<1>4. CASE Load \/ StartFails
  <2>1. \/ main' = "start" /\ UNCHANGED code /\ UNCHANGED shell
        \/ main' = "exited" /\ code' \in {1, 2} /\ UNCHANGED shell
    BY <1>4 DEF Load, StartFails, Exit
  <2>2. CASE main' = "start"
    BY <1>1, <1>2, <2>1, <2>2 DEF shell, ShellInv
  <2> QED BY <1>1, <1>2, <2>1, <2>2, ShellFails DEF shell
<1>5. CASE StartSucceeds \/ AcquireLease
  BY <1>1, <1>2, <1>5 DEF StartSucceeds, AcquireLease, shell, ShellInv
<1>6. CASE ServerFails \/ ServerStarts \/ ServerShutdown \/ ServerWait
  BY <1>1, <1>6 DEF ServerFails, ServerStarts, ServerShutdown, ServerWait, ShellInv
<1>7. CASE Leave \/ ReturnFromRun
  BY <1>1, <1>2, <1>3, <1>7 DEF Leave, ReturnFromRun, Exit, shell, ShellInv
<1>8. CASE WaitDone
  <2>1. CASE WaitedFor = "no"
    BY <1>1, <1>2, <1>8, <2>1, ShellFails DEF WaitDone, GiveUp, shell
  <2>2. CASE WaitedFor = "yes"
    <3>1. awaited \in DOMAIN book.commands /\ State(book, awaited) = "Succeeded"
      BY <2>2 DEF WaitedFor
    <3>2. Type(book, awaited) = ShellCommands[stage]
      BY <1>1, <1>8, <3>1 DEF ShellInv, WaitDone
    <3>3. CASE stage = Len(ShellCommands)
      <4>1. Moved(book)
        BY <3>1, <3>2, <3>3, ShellCommandNames DEF Moved
      <4> QED BY <1>1, <1>2, <1>3, <1>8, <2>2, <3>3, <4>1 DEF WaitDone, shell, ShellInv
    <3>4. CASE stage # Len(ShellCommands)
      BY <1>1, <1>2, <1>8, <2>2, <3>4 DEF WaitDone, shell, ShellInv
    <3> QED BY <3>3, <3>4
  <2>3. WaitedFor \in {"yes", "no"}
    BY <1>8 DEF WaitDone, WaitedFor
  <2> QED BY <2>1, <2>2, <2>3
<1>9. CASE WaitSnapshot
  <2>1. main = "seen?"
    BY <1>9 DEF WaitSnapshot
  <2>2. CASE GiveUp /\ UNCHANGED stage
    BY <1>1, <1>2, <2>2, ShellFails DEF GiveUp
  <2>3. CASE main' = "submit" /\ stage' = stage + 1
    <3>1. stage' \in 1..Len(ShellCommands)
      BY <1>1, <2>1, <2>3, StageAdvances
    <3> QED BY <1>1, <1>2, <2>3, <3>1 DEF ShellInv
  <2> QED BY <1>9, <2>2, <2>3 DEF WaitSnapshot
<1> QED BY <1>4, <1>5, <1>6, <1>7, <1>8, <1>9 DEF MainThread

\* Every step keeps the invariant.
LEMMA MovedStep == MovedInv /\ [ProcessNext]_all => MovedInv'
<1> SUFFICES ASSUME MovedInv, [ProcessNext]_all PROVE MovedInv'
  OBVIOUS
<1>1. ExecutorInv' /\ CallsInv'
  BY ProcessKeepsExecutor, CallsStep DEF MovedInv
<1>2. program' = program
  BY DEF ProcessNext, MainThread, Load, StartFails, StartSucceeds, ServerFails,
     ServerStarts, ServerShutdown, ServerWait, Leave, ReturnFromRun, AcquireLease,
     ShellSubmit, ShellSubmits, WaitDone, WaitSnapshot, DeadlinePasses, Signal,
     ClientCalls, HandlerSteps, StreamState, ClientLeaves, StreamIsCancelled,
     ExecutorSteps, Bounded, Ended, inputs, process, all
<1> SUFFICES ASSUME program = "robotsh movej" PROVE ShellInv'
  BY <1>1, <1>2 DEF MovedInv
<1>3. CASE MainThread
  BY <1>1, <1>3, ShellSubmitting, ShellMain
<1>4. CASE ExecutorSteps
  BY <1>1, <1>4, ShellExecutor DEF ExecutorSteps, Bounded
<1>5. CASE \/ DeadlinePasses \/ Signal \/ StreamState \/ ClientLeaves
           \/ StreamIsCancelled \/ Ended \/ UNCHANGED all
  <2>1. UNCHANGED <<vars, main, code, stage, awaited>>
    BY <1>5 DEF DeadlinePasses, Signal, StreamState, ClientLeaves, StreamIsCancelled,
       Ended, all, process, shell
  <2>2. UNCHANGED <<book, rpc>> /\ ShellRequest' = ShellRequest
    BY <2>1 DEF vars, ShellRequest
  <2>3. ShellInv
    BY DEF MovedInv
  <2> QED BY <2>1, <2>2, <2>3, ShellAlone DEF ShellInv, ShellThread
<1>6. ~ClientCalls /\ ~HandlerSteps
  BY DEF ClientCalls, HandlerSteps, Serving, MovedInv, CallsInv, ShellInv
<1> QED BY <1>3, <1>4, <1>5, <1>6 DEF ProcessNext

\* robotsh movej returns 0 only if the controller executed its MoveJ: for every
\* configuration, every order of readings, verdicts, prunings and signals.
THEOREM SuccessIsEarned == ProcessSpec => []ZeroMeansMoved
<1>1. ProcessInit => MovedInv
  <2> SUFFICES ASSUME ProcessInit PROVE MovedInv
    OBVIOUS
  <2>1. ExecutorInv /\ CallsInv /\ KeysInv
    BY ExecutorInvInit, CallsInit, KeysInit DEF ProcessInit
  <2>2. main = "load" /\ stage = 1
    BY DEF ProcessInit
  <2> QED BY <2>1, <2>2, ShellCommandNames DEF MovedInv, ShellInv
<1>2. MovedInv => ZeroMeansMoved
  BY DEF MovedInv, ShellInv, ZeroMeansMoved, Moved
<1> QED BY <1>1, <1>2, MovedStep, PTL DEF ProcessSpec
=============================================================================
