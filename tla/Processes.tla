----------------------------- MODULE Processes ------------------------------
(***************************************************************************)
(* The programs around the command executor, from the deployment document  *)
(* to the exit code: robot_manager with its gRPC endpoint                  *)
(* (src/apps/robot_manager/main.cc and transport/grpc_server.cc), and the  *)
(* commands movej and state of robotsh (src/apps/robotsh/main.cc).  The    *)
(* main thread loads the configuration, starts the executor, serves        *)
(* clients until a signal arrives, or is itself the executor's only        *)
(* client, and shuts the executor down.                                    *)
(*                                                                         *)
(* The policy and the limits of the executor are constants, so a document  *)
(* of another site is followed only until it is loaded, and a document, a  *)
(* configuration and its options are forgotten when no later step reads    *)
(* them.  The gRPC library is external: Shutdown with a deadline refuses   *)
(* new calls, waits for the ones in progress, and cancels them when the    *)
(* deadline passes.                                                        *)
(***************************************************************************)
EXTENDS CommandExecutor, ConfigLoader

CONSTANTS Documents,   \* deployment documents
          Drivers,     \* the drivers of this build
          Messages,    \* what gRPC clients send to SubmitCommand
          Shell,       \* the client robotsh is
          Target,      \* the payload of its MoveJ
          MaxCalls,    \* bound: no call of a gRPC client begins a Submit once
                       \* this many ids are used
          Faultless    \* bound: the programs followed without timeouts, leases
                       \* that lapse, failing readings and snapshots that age

ASSUME ShellAssumption == Shell \in Clients /\ Threads # {}

\* What ParseInt, ParseRange and OptionalList make of the text of a setting.
ASSUME DocumentsAssumption ==
    \A d \in Documents :
        /\ \A key \in RequiredIntegers \cup {"axis_count"} : d[key] \in Absent \cup Int
        /\ \/ d.joint_limits \in Absent
           \/ d.joint_limits \in Seq([minimum : Int, maximum : Int] \cup {Malformed})
        /\ \/ d.outputs \in Absent
           \/ d.outputs \in Seq({Malformed} \cup Int)

VARIABLES program,     \* the program that runs
          document,    \* what it was given to read
          config,      \* the ServiceConfig it runs with
          options,     \* the GrpcServerOptions it runs with
          signal,      \* g_stop_requested
          main,        \* where the main thread is
          code,        \* the exit code it is going to return
          server,      \* the gRPC server
          stream,      \* a StreamState handler is in its loop
          stage,       \* robotsh: position in the list of its commands
          awaited      \* robotsh: the command it waits for

process == <<program, document, config, options, signal, main, code, server, stream,
             stage, awaited>>
inputs  == <<program, document, config, options>>
calls   == <<server, stream>>
shell   == <<stage, awaited>>
all     == <<vars, process>>

Programs == {"robot_manager", "robotsh movej", "robotsh state"}

ProcessInit ==
    /\ Init
    /\ program \in Programs
    /\ document \in Documents
    /\ config = Refused /\ options = Refused
    /\ signal = FALSE
    /\ main = "load" /\ code = 0
    /\ server = "off" /\ stream = FALSE
    /\ stage = 1 /\ awaited = 0

-----------------------------------------------------------------------------
\* The main thread before and after the time it serves.
Exit(status) == main' = "exited" /\ code' = status

\* Both loaders read the document, robotsh has no transport to configure.
Load ==
    /\ main = "load"
    /\ config' = LoadServiceConfig(document)
    /\ options' = IF program = "robot_manager" THEN LoadGrpcServerOptions(document)
                                               ELSE options
    /\ document' = Refused
    /\ IF \/ config' = Refused
          \/ program = "robot_manager" /\ options' = Refused
          \/ config'.driver_name \notin Drivers
       THEN Exit(2)
       ELSE main' = "start" /\ UNCHANGED code
    /\ UNCHANGED <<program, signal, calls, shell, vars>>

\* The site whose executor the constants describe.
ThisSite == /\ config.safety_policy = Policy
            /\ config.maximum_queue_size = MaxQueue
            /\ config.maximum_command_history = MaxHistory

\* Start fails when the history is no longer than the queue, the connection or the
\* first reading fails, or a thread cannot be created.
StartFails == /\ main = "start"
              /\ Exit(1)
              /\ UNCHANGED <<inputs, signal, calls, shell, vars>>

StartSucceeds ==
    /\ main = "start"
    /\ ThisSite
    /\ Start
    /\ main' = CASE program = "robot_manager" -> "bind"
                 [] program = "robotsh movej" -> "lease"
                 [] program = "robotsh state" -> "leave"
    /\ config' = Refused
    /\ UNCHANGED <<program, document, options, signal, code, calls, shell>>

\* Mutant: a server that does not come up ends the program at once.
ServerFailsOutright ==
    /\ main = "bind"
    /\ Exit(1)
    /\ UNCHANGED <<inputs, signal, calls, shell, vars>>

\* RunGrpcServer refuses its options, cannot read a credential, or cannot bind.
ServerFails ==
    /\ main = "bind"
    /\ main' = "leave" /\ code' = 1
    /\ options' = Refused
    /\ UNCHANGED <<program, document, config, signal, calls, shell, vars>>

ServerStarts ==
    /\ main = "bind"
    /\ TransportOk(options)
    /\ main' = "serve" /\ server' = "serving"
    /\ options' = Refused
    /\ UNCHANGED <<program, document, config, signal, code, stream, shell, vars>>

\* Mutant: Shutdown is called without a deadline.
ServerShutdownWithoutDeadline ==
    /\ main = "serve" /\ signal
    /\ main' = "drain" /\ server' = "closing"
    /\ UNCHANGED <<inputs, signal, code, stream, shell, vars>>

\* The loop that watches the signal ends, and with it the time for new calls.
ServerShutdown ==
    /\ main = "serve" /\ signal
    /\ main' = "drain" /\ server' = "draining"
    /\ UNCHANGED <<inputs, signal, code, stream, shell, vars>>

\* Five seconds later the calls in progress are cancelled.
DeadlinePasses ==
    /\ server = "draining"
    /\ server' = "cancelled"
    /\ UNCHANGED <<inputs, signal, main, code, stream, shell, vars>>

CallsInProgress == stream \/ \E t \in Threads : rpc[t].pc # "idle"

\* Mutant: Run returns from RunGrpcServer when the deadline has passed.
ServerWaitForDeadline ==
    /\ main = "drain"
    /\ server = "cancelled" \/ ~CallsInProgress
    /\ main' = "leave" /\ server' = "off"
    /\ UNCHANGED <<inputs, signal, code, stream, shell, vars>>

\* Every handler has returned.
ServerWait ==
    /\ main = "drain"
    /\ ~CallsInProgress
    /\ main' = "leave" /\ server' = "off"
    /\ UNCHANGED <<inputs, signal, code, stream, shell, vars>>

\* executor.Shutdown, the last thing each program does.
Leave ==
    /\ main = "leave"
    /\ ShutdownBegin
    /\ main' = "join"
    /\ UNCHANGED <<inputs, signal, code, calls, shell>>

ReturnFromRun ==
    /\ main = "join"
    /\ shutdown.pc = "done"
    /\ Exit(code)
    /\ UNCHANGED <<inputs, signal, calls, shell, vars>>

-----------------------------------------------------------------------------
\* The endpoint.  FromProtoCommand turns a message into a request: a jog needs a
\* direction, a MoveJ at least one joint value, a message a command; a stop that
\* names no mode, or one that is not known, is a controlled stop.
FromProtoCommand(m) ==
    LET p == m.payload IN
    IF \/ m.timeout < 0
       \/ m.type = "NotSet"
       \/ m.type = "MoveJ" /\ p.degrees = <<>>
       \/ m.type = "Jog" /\ p.direction \notin {-1, 1}
    THEN Refused
    ELSE [type |-> m.type, client |-> m.client, key |-> m.key,
          payload |->
             CASE m.type = "Stop" ->
                     [kind |-> "Stop",
                      mode |-> IF p.mode \in {"Quick", "PowerOffRequest"}
                               THEN p.mode ELSE "Controlled"]
               [] m.type = "Jog" -> [kind |-> "Jog", axis |-> p.axis, start |-> p.start]
               [] OTHER -> p]

\* The bound on faults: the executor's next state is one without any.
NoFault == /\ ~stale'
           /\ lease' # 0 => live'
           /\ poll'.pc = "publish" => poll'.ok
           /\ \A i \in DOMAIN book'.commands : ~book'.commands[i].late

Bounded == (program \in Faultless => NoFault) /\ UNCHANGED process

\* A call that reaches the executor: the certificate and robot_id were in order.
\* The read-only calls, and those the endpoint refuses, change nothing; renewing
\* and releasing leases is followed in the runs of CommandExecutor alone.
Serving == server = "serving"

SubmitCommand(t, m) ==
    /\ FromProtoCommand(m) # Refused
    /\ \E l \in 0..issued : SubmitBegin(t, WithLease(FromProtoCommand(m), l))

ClientCalls ==
    /\ Serving
    /\ \/ \E c \in Clients : AcquireControlLease(c)
       \/ book.next_id <= MaxCalls /\ \E t \in Threads, m \in Messages : SubmitCommand(t, m)
    /\ Bounded

\* What the handlers in progress do.
HandlerSteps == /\ program = "robot_manager"
                /\ \E t \in Threads : RpcSteps(t)
                /\ UNCHANGED process

StreamState == /\ Serving /\ ~stream
               /\ stream' = TRUE
               /\ UNCHANGED <<inputs, signal, main, code, server, shell, vars>>

\* The loop of StreamState ends when the client is gone.
ClientLeaves == /\ stream
                /\ stream' = FALSE
                /\ UNCHANGED <<inputs, signal, main, code, server, shell, vars>>

\* It also ends when the server has cancelled the call.
StreamIsCancelled == /\ stream /\ server = "cancelled"
                     /\ stream' = FALSE
                     /\ UNCHANGED <<inputs, signal, main, code, server, shell, vars>>

-----------------------------------------------------------------------------
\* robotsh movej.  Three commands, each submitted when the one before has
\* succeeded and its effect is in the snapshot.
ShellCommands == <<"AcquireControl", "PowerOn", "MoveJ">>

ShellRequest ==
    [type |-> ShellCommands[stage], client |-> Shell, lease |-> 1,
     key |-> ShellCommands[stage],
     payload |-> IF ShellCommands[stage] = "MoveJ" THEN Target ELSE [kind |-> "None"]]

\* The main thread is the executor's only client.
ShellThread == CHOOSE t \in Threads : TRUE

\* Any failure leads to Shutdown and the exit code 1.
GiveUp == main' = "leave" /\ code' = 1

AcquireLease ==
    /\ main = "lease"
    /\ AcquireControlLease(Shell)
    /\ main' = "submit"
    /\ UNCHANGED <<inputs, signal, code, calls, shell>>

\* Submit: the guard may refuse at once, or when it has seen the lease, or the
\* second critical section may.
ShellSubmit ==
    /\ main = "submit"
    /\ \/ /\ SubmitBegin(ShellThread, ShellRequest)
          /\ main' = "submitting"
          /\ UNCHANGED code
       \/ /\ Admits(ShellRequest) = {}
          /\ GiveUp
          /\ UNCHANGED vars
    /\ UNCHANGED <<inputs, signal, calls, shell>>

ShellSubmits ==
    /\ main = "submitting"
    /\ \/ /\ SubmitValidate(ShellThread)
          /\ IF rpc'[ShellThread].pc = "idle" THEN GiveUp
                                              ELSE UNCHANGED <<main, code>>
          /\ UNCHANGED awaited
       \/ /\ SubmitEnqueue(ShellThread)
          /\ IF book'.next_id = book.next_id
             THEN GiveUp /\ UNCHANGED awaited
             ELSE main' = "done?" /\ awaited' = book.next_id /\ UNCHANGED code
    /\ UNCHANGED <<inputs, signal, calls, stage>>

\* Mutant: a command that has ended has succeeded.
WaitedForEnd == IF awaited \in DOMAIN book.commands /\ State(book, awaited) \in Terminal
                THEN "yes" ELSE "not yet"

\* One turn of WaitDone.
WaitedFor ==
    IF signal \/ awaited \notin DOMAIN book.commands    THEN "no"
    ELSE IF State(book, awaited) = "Succeeded"          THEN "yes"
    ELSE IF State(book, awaited) \in Terminal           THEN "no"
    ELSE "not yet"

WaitDone ==
    /\ main = "done?"
    /\ WaitedFor # "not yet"
    /\ IF WaitedFor = "no" THEN GiveUp
       ELSE /\ main' = IF stage = Len(ShellCommands) THEN "leave" ELSE "seen?"
            /\ UNCHANGED code
    /\ UNCHANGED <<inputs, signal, calls, shell, vars>>

\* What WaitSnapshot waits for after each command.
Seen == CASE ShellCommands[stage] = "AcquireControl" -> latest.api_control
          [] ShellCommands[stage] = "PowerOn"        -> latest.lifecycle = "Ready"

\* WaitSnapshot: the signal is looked at first, and the deadline may pass anytime.
WaitSnapshot ==
    /\ main = "seen?"
    /\ \/ /\ ~signal /\ Seen
          /\ main' = "submit" /\ stage' = stage + 1
          /\ UNCHANGED code
       \/ GiveUp /\ UNCHANGED stage
    /\ UNCHANGED <<inputs, signal, calls, awaited, vars>>

-----------------------------------------------------------------------------
\* SIGINT or SIGTERM.
Signal == /\ ~signal /\ main # "exited"
          /\ signal' = TRUE
          /\ UNCHANGED <<inputs, main, code, calls, shell, vars>>

MainThread == \/ Load \/ StartFails \/ StartSucceeds \/ ServerFails \/ ServerStarts
              \/ ServerShutdown \/ ServerWait \/ Leave \/ ReturnFromRun
              \/ AcquireLease \/ ShellSubmit \/ ShellSubmits \/ WaitDone \/ WaitSnapshot

ExecutorSteps == (ShutdownSteps \/ Worker \/ Poll \/ Environment) /\ Bounded

Ended == main = "exited" /\ UNCHANGED all

ProcessNext == \/ MainThread \/ DeadlinePasses \/ Signal
               \/ ClientCalls \/ HandlerSteps
               \/ StreamState \/ ClientLeaves \/ StreamIsCancelled
               \/ ExecutorSteps \/ Ended

ProcessSpec == ProcessInit /\ [][ProcessNext]_all

\* The threads of the process run and time passes; clients and signals are free.
ProcessFairness ==
    /\ WF_all(MainThread \/ (ShutdownSteps /\ UNCHANGED process))
    /\ WF_all(Worker /\ UNCHANGED process)
    /\ WF_all(Poll /\ Bounded)
    /\ WF_all(HandlerSteps)
    /\ WF_all(DeadlinePasses \/ StreamIsCancelled)

FairProcessSpec == ProcessSpec /\ ProcessFairness
-----------------------------------------------------------------------------
\* While and after the executor shuts down nobody is inside of it: RunGrpcServer
\* returns only when every handler has, whatever its clients do, so that no call
\* outlives the executor it points to.
NoCallOutlivesExecutor == shutdown.pc # "none" => ~CallsInProgress

\* Whichever way a program takes out, it has given the robot back: the threads
\* have ended, the session is closed, and every command it accepted has a verdict.
EndsClean ==
    main = "exited" =>
        /\ worker.pc \in {"off", "exited"} /\ poll.pc \in {"off", "exited"}
        /\ ~robot.connected
        /\ OpenCommands(book) = {}

\* robotsh movej reports success only for a motion that succeeded, although it
\* waits for three commands, twice for a snapshot, and for the signal meanwhile.
ZeroMeansMoved ==
    program = "robotsh movej" /\ main = "exited" /\ code = 0 =>
        \E i \in DOMAIN book.commands :
            Type(book, i) = "MoveJ" /\ State(book, i) = "Succeeded"

\* The configuration a program starts with is one that guard, driver and server can
\* work with: what CommandGuard and MockDriver assume of the policy holds, and
\* RunGrpcServer does not find fault with it after the robot is connected.
ConfigIsUsable ==
    main = "start" =>
        LET policy == config.safety_policy IN
        /\ policy.maximum_joint_speed_percent \in 1..100
        /\ policy.maximum_linear_speed \in Nat \ {0}
        /\ policy.writable_digital_outputs \subseteq Nat
        /\ policy.joint_limits_verified /\ config.axis_count # 0 =>
              Len(policy.joint_limits) = config.axis_count
        /\ policy.motion_enabled => Len(policy.joint_limits) >= 1
        /\ program = "robot_manager" => TransportOk(options)

\* A signal ends the program, whatever streams are open and commands under way.
SignalEnds == signal ~> main = "exited"
=============================================================================
