---------------------------- MODULE EfortDriver -----------------------------
(***************************************************************************)
(* The driver for EFORT controllers (src/src/adapters/efort/               *)
(* efort_driver.cc) behind the command guard.  A method is a script: the   *)
(* SDK calls it makes and its assignments to the driver's own fields, in   *)
(* order.  Each SDK call is a step of its own, may fail with or without    *)
(* having taken effect, and the controller lives on between two of them.   *)
(* The executor's driver mutex admits one method at a time.  A reading is  *)
(* several SDK calls, too; the poll thread publishes it later, when the    *)
(* mutex is free again and commands may have been executed, and the guard  *)
(* admits commands on what was published last.  Taking a command and       *)
(* validating it are one step with the begin of its method, and the end of *)
(* the method is one step with the worker's bookkeeping: CommandExecutor   *)
(* has the steps in between.                                               *)
(*                                                                         *)
(* The controller is external.  What the driver relies on and the SDK      *)
(* manual leaves to the validation on hardware (docs/sdk_integration.md):  *)
(* MOVECLEAR drops a motion on hold; a loss of servo power, an emergency   *)
(* stop and an alarm end every motion, also one on hold; the controller    *)
(* starts nothing by itself; a session ends with the process, but not with *)
(* the link, and a call of ConnectRobot or DisconnectRobot that fails may  *)
(* leave one open for which nobody has the id.  Whether MOVEHOLD halts a   *)
(* jog, or turns a running program into a paused one, is left open.        *)
(* Poses, frames, models and the values of digital outputs are left out.   *)
(***************************************************************************)
EXTENDS CommandGuard

CONSTANTS Requests,     \* the command requests clients may send
          Events,       \* what may happen to the controller
          MaxIncidents  \* bound on the SDK calls that fail for no visible reason
                        \* and the events other than the end of a motion

ASSUME IncidentsAssumption == MaxIncidents \in Nat

ASSUME RequestsAssumption ==
    \A req \in Requests :
        /\ req.type \in CommandTypes
        /\ req.payload.kind = "Jog" => /\ req.payload.axis \in Int
                                       /\ req.payload.start \in BOOLEAN

kEfortAxisCount == 6
kEfortDigitalIoCount == 176

VARIABLES controller,   \* the controller and the SDK's session with it
          driver,       \* connected_, paused_by_service_ and active_jog_
          call,         \* the method in progress
          reading,      \* the snapshot the poll thread has not published yet
          latest,       \* latest_state_
          jog_active, loaded, active,  \* the executor's jog, approved program
                        \* and active motion
          incidents,    \* failed calls and events so far
          doubt,        \* history: since the last stop or power off that succeeded
                        \* a command failed, the process died, or the executor
                        \* lost track of a motion, see Publish
          lost,         \* history: axes whose last jog call failed
          overtaken,    \* history: a command began after the reading was taken
          late,         \* history: latest was overtaken before it was published
          stray         \* history: a ConnectRobot or DisconnectRobot that failed
                        \* has left a session open

executor == <<jog_active, loaded, active>>
snapshot == <<latest, overtaken, late>>
history  == <<incidents, doubt, lost, stray>>
vars     == <<controller, driver, call, reading, executor, snapshot, history>>

ProgramActive == {"Run", "Pause"}

Controllers == [mode : ControllerModes, link : BOOLEAN, session : BOOLEAN,
                api_control : BOOLEAN, servo_on : BOOLEAN,
                emergency_stop : BOOLEAN, alarm_active : BOOLEAN,
                motion : {"None", "Running", "Held"},
                program : {"Init", "Error"} \cup ProgramActive,
                jogs : SUBSET (1..kEfortAxisCount), speed_ratio : Nat]

\* active_jog_ is 0 when has_active_jog_ is false; frame and direction of a jog
\* are part of its axis.
Drivers == [connected : BOOLEAN, paused : BOOLEAN, jog : 0..kEfortAxisCount]

Fresh == [connected |-> FALSE, paused |-> FALSE, jog |-> 0]

\* The calls of the service that are no command.
Internal(type) == [type |-> type, payload |-> [kind |-> "None"]]

Idle == [req |-> Internal("None"), rest |-> <<>>, ok |-> TRUE, tolerant |-> FALSE]

Init == /\ \E mode \in {"Manual", "Automatic"} :
              controller = [mode |-> mode, link |-> TRUE, session |-> FALSE,
                            api_control |-> FALSE, servo_on |-> FALSE,
                            emergency_stop |-> FALSE, alarm_active |-> FALSE,
                            motion |-> "None", program |-> "Init", jogs |-> {},
                            speed_ratio |-> 10]
        /\ driver = Fresh
        /\ call = Idle
        /\ reading = NoSnapshot /\ latest = NoSnapshot
        /\ overtaken = FALSE /\ late = FALSE /\ stray = FALSE
        /\ jog_active = FALSE /\ loaded = FALSE /\ active = "None"
        /\ incidents = 0 /\ doubt = FALSE /\ lost = {}

-----------------------------------------------------------------------------
(***************************************************************************)
(* The scripts.  JogStop is StopActiveJog, which calls the SDK only when a *)
(* jog is active; ApiRelease is called only under API control.  GetProStatus *)
(* and GetMoveState skip the step after them when there is nothing to stop. *)
(***************************************************************************)
PowerOff == <<"JogStop", "ClearPause", "PowerOff">>

\* Mutant: a motion under way is cleared without being held first.
ControlledStopWithoutHold ==
    <<"JogStop", "ClearPause", "GetProStatus", "StopProgram", "MOVECLEAR">>

ControlledStop == <<"JogStop", "ClearPause", "GetProStatus", "StopProgram",
                    "GetMoveState", "MOVEHOLD", "MOVECLEAR">>

Stop(mode) ==
    CASE mode = "Quick"           -> <<"Refuse">>
      [] mode = "PowerOffRequest" -> <<"JogStop", "ClearPause">> \o PowerOff
      [] OTHER                    -> ControlledStop

SelectFrames == <<"SetTool", "SetUframe">>

\* Mutant: a jog of another axis starts without the end of the first.
NewJogOnTop == <<"SetJogMode", "JogStart">>

NewJog == <<"JogStop", "SetJogMode", "JogStart">>

Jog(p) ==
    IF p.axis \notin 1..kEfortAxisCount THEN <<"Refuse">>
    ELSE IF ~p.start THEN <<"JogStop">>
    ELSE IF driver.jog = p.axis THEN <<>>
    ELSE NewJog

Disconnect == <<"JogStop", "ApiRelease", "DisconnectRobot">>

\* What the driver refuses by itself, without an SDK call.
Unless(refused, script) == IF refused THEN <<"Refuse">> ELSE script

Script(req) ==
    LET p == req.payload IN
    CASE req.type = "AcquireControl" -> <<"ApiAcquire">>
      [] req.type = "ReleaseControl" -> <<"ApiDrop">>
      [] req.type = "PowerOn"        -> <<"PowerOn">>
      [] req.type = "PowerOff"       -> PowerOff
      [] req.type = "ClearFault"     -> <<"GetEmgStatus", "ClearAlarm">>
      [] req.type = "SetGlobalSpeed" ->
            Unless(p.ratio \notin 1..100, <<"SetGlobalSpeed">>)
      [] req.type = "MoveJ" ->
            Unless(Len(p.degrees) # kEfortAxisCount,
                   <<"CheckTarget", "ClearPause", "MJOINT">>)
      [] req.type = "MoveL" ->
            SelectFrames \o <<"CheckTarget", "ClearPause", "MLIN">>
      [] req.type = "MoveC" ->
            SelectFrames \o <<"CheckTarget", "CheckTarget", "ClearPause", "MCIRC">>
      [] req.type = "Hold"   -> <<"MOVEHOLD", "SetPause">>
      [] req.type = "Resume" -> <<"MOVERESUME", "ClearPause">>
      [] req.type = "Stop"   -> Stop(IF p.kind = "None" THEN "Controlled" ELSE p.mode)
      [] req.type = "Jog"    -> Jog(p)
      [] req.type = "WriteDigitalOutput" ->
            Unless(p.index >= kEfortDigitalIoCount, <<"WriteDOut">>)
      [] req.type = "LoadProgram"  -> Unless(p.name = "", <<"LoadProgram">>)
      [] req.type = "StartProgram" -> <<"ClearPause", "StartProgram">>
      [] req.type = "StopProgram"  -> <<"StopProgram", "ClearPause">>

ReadState == <<"IsConnected", "GetRobotStatusData", "GetCurrentServoStatus",
               "GetCurrentEmgStatus", "GetCurrentAlarmStatus",
               "ReadMoveState", "GetPosition">>

-----------------------------------------------------------------------------
\* The controller, external: when it carries a call out, and what that does.
Moving(c) == c.motion = "Running" \/ c.jogs # {} \/ c.program = "Run"

Halted(c) == [c EXCEPT !.motion = "None", !.jogs = {},
                       !.program = IF @ \in ProgramActive THEN "Init" ELSE @]

Starts == {"MJOINT", "MLIN", "MCIRC", "StartProgram", "JogStart", "MOVERESUME"}

Permitted(step) ==
    LET c == controller
        healthy == c.api_control /\ ~c.emergency_stop /\ ~c.alarm_active
    IN /\ c.link
       /\ step = "PowerOn" => healthy
       /\ step \in Starts => healthy /\ c.servo_on

After(step) ==
    LET c == controller IN
    CASE step = "ConnectRobot"   -> {[c EXCEPT !.session = TRUE]}
      [] step = "ApiAcquire"     -> {[c EXCEPT !.api_control = TRUE]}
      [] step \in {"ApiDrop", "ApiRelease"} -> {[c EXCEPT !.api_control = FALSE]}
      [] step = "PowerOn"        -> {[c EXCEPT !.servo_on = TRUE]}
      [] step = "PowerOff"       -> {[Halted(c) EXCEPT !.servo_on = FALSE]}
      [] step = "ClearAlarm"     ->
            {[c EXCEPT !.alarm_active = FALSE,
                       !.program = IF @ = "Error" THEN "Init" ELSE @]}
      [] step = "SetGlobalSpeed" -> {[c EXCEPT !.speed_ratio = call.req.payload.ratio]}
      [] step \in {"MJOINT", "MLIN", "MCIRC"} ->
            {[c EXCEPT !.motion = m] : m \in {"Running", c.motion} \ {"None"}}
      [] step = "StartProgram"   -> {[c EXCEPT !.program = "Run"]}
      [] step = "StopProgram"    ->
            {[c EXCEPT !.program = IF @ \in ProgramActive THEN "Init" ELSE @]}
      [] step = "MOVEHOLD"       ->
            {[c EXCEPT !.motion = IF @ = "Running" THEN "Held" ELSE @,
                       !.program = p, !.jogs = j] :
                p \in {c.program, IF c.program = "Run" THEN "Pause" ELSE c.program},
                j \in {c.jogs, {}}}
      [] step = "MOVERESUME"     ->
            {[c EXCEPT !.motion = IF @ = "Held" THEN "Running" ELSE @,
                       !.program = IF @ = "Pause" THEN "Run" ELSE @]}
      [] step = "MOVECLEAR"      ->
            {[c EXCEPT !.motion = IF @ = "Held" THEN "None" ELSE @]}
      [] step = "JogStart"       -> {[c EXCEPT !.jogs = @ \cup {call.req.payload.axis}]}
      [] step = "JogStop"        -> {[c EXCEPT !.jogs = @ \ {driver.jog}]}
      [] step = "DisconnectRobot" -> {[c EXCEPT !.session = s] : s \in {FALSE, stray}}
      [] OTHER                   -> {c}

-----------------------------------------------------------------------------
\* The methods begin.
Begin(req, script) == call' = [Idle EXCEPT !.req = req, !.rest = script]

\* CommandExecutor::Impl::Start connects a driver that is not connected.
Connect == /\ call = Idle /\ ~driver.connected
           /\ Begin(Internal("Connect"), <<"ConnectRobot", "GetCurrentRobotType">>)
           /\ UNCHANGED <<controller, driver, reading, executor, snapshot, history>>

\* PollLoop reads the controller once it has published the reading before.
Poll == /\ call = Idle /\ driver.connected /\ reading = NoSnapshot
        /\ Begin(Internal("ReadState"), ReadState)
        /\ UNCHANGED <<controller, driver, reading, executor, snapshot, history>>

\* FindExecutableCommandLocked: the commands that may run while a motion is active.
MayRun(type) == \/ active = "None"
                \/ type \in {"Stop", "Hold", "Resume", "PowerOff"}
                \/ type = "StopProgram" /\ active = "Program"

\* A reading that waits to be published is overtaken by the method that begins.
Overtake == /\ overtaken' = (reading # NoSnapshot)
            /\ UNCHANGED <<controller, driver, reading, executor, latest, late, history>>

\* WorkerLoop executes a command that the guard admits on the latest snapshot, which
\* it keeps.
Execute(req) ==
    /\ call = Idle /\ driver.connected /\ latest # NoSnapshot
    /\ Validate(req, latest, TRUE, jog_active) = "Ok"
    /\ req.type = "StartProgram" => loaded
    /\ MayRun(req.type)
    /\ Begin(req, Script(req))
    /\ Overtake

\* Shutdown calls Stop without the guard, and then ReleaseControl and Disconnect,
\* see Return.
Shutdown == /\ call = Idle /\ driver.connected /\ latest # NoSnapshot
            /\ Begin(Internal("Shutdown"), Stop("Controlled"))
            /\ Overtake

-----------------------------------------------------------------------------
\* Steps that make no SDK call that could fail.
Local(step) == \/ step \in {"SetPause", "ClearPause", "IsConnected"}
               \/ step = "JogStop" /\ driver.jog = 0
               \/ step = "ApiRelease" /\ ~controller.api_control

\* The driver's fields after a step that succeeds.
DriverAfter(step) ==
    CASE step = "ConnectRobot"    -> [driver EXCEPT !.connected = TRUE]
      [] step = "DisconnectRobot" -> Fresh
      [] step = "SetPause"        -> [driver EXCEPT !.paused = TRUE]
      [] step = "ClearPause"      -> [driver EXCEPT !.paused = FALSE]
      [] step = "JogStart"        -> [driver EXCEPT !.jog = call.req.payload.axis]
      [] step = "JogStop"         -> [driver EXCEPT !.jog = 0]
      [] OTHER                    -> driver

\* Mutant: paused_by_service_ is not part of the reading.
PausedByProgram == reading.paused

\* A pause the controller reports of a program, or one the driver remembers.
Paused == reading.paused \/ driver.paused

\* What a step of ReadState adds to the reading.
ReadingAfter(step) ==
    LET c == controller IN
    CASE step = "IsConnected" ->
            [NoSnapshot EXCEPT !.connected = c.link,
                               !.lifecycle = IF c.link THEN "Unknown"
                                                       ELSE "Disconnected"]
      [] step = "GetRobotStatusData" ->
            [reading EXCEPT !.api_control = c.api_control, !.mode = c.mode,
                            !.speed_ratio = c.speed_ratio,
                            !.program_running = (c.program = "Run"),
                            !.alarm_active = (c.program = "Error"),
                            !.paused = (c.program = "Pause")]
      [] step = "GetCurrentServoStatus" -> [reading EXCEPT !.servo_on = c.servo_on]
      [] step = "GetCurrentEmgStatus" ->
            [reading EXCEPT !.emergency_stop = c.emergency_stop]
      [] step = "GetCurrentAlarmStatus" ->
            [reading EXCEPT !.alarm_active = @ \/ c.alarm_active]
      [] step = "ReadMoveState" ->
            [reading EXCEPT !.moving = Moving(c), !.paused = Paused]
      [] step = "GetPosition" ->
            [reading EXCEPT !.lifecycle = DeriveLifecycleState(reading)]
      [] OTHER -> reading

\* The rest of the script after a step that succeeds: the call that would stop a
\* program or a motion is left out when there is none, and a reading of a lost
\* connection ends at once.
RestAfter(step) ==
    LET nothing == \/ step = "GetProStatus" /\ controller.program \notin ProgramActive
                   \/ step = "GetMoveState" /\ ~Moving(controller)
    IN IF step = "IsConnected" /\ ~controller.link THEN <<>>
       ELSE IF nothing THEN Tail(Tail(call.rest)) ELSE Tail(call.rest)

\* The driver gives up without an SDK call that fails.
Refused(step) == \/ step = "Refuse"
                 \/ step = "GetEmgStatus" /\ controller.emergency_stop

\* The axis of a jog call.
JogAxis(step) == CASE step = "JogStart" -> {call.req.payload.axis}
                   [] step = "JogStop"  -> {driver.jog} \ {0}
                   [] OTHER             -> {}

StepSucceeds ==
    /\ call.rest # <<>>
    /\ LET step == Head(call.rest) IN
       /\ ~Refused(step)
       /\ Local(step) \/ Permitted(step)
       /\ IF Local(step) THEN UNCHANGED controller ELSE controller' \in After(step)
       /\ driver' = DriverAfter(step)
       /\ reading' = ReadingAfter(step)
       /\ call' = [call EXCEPT !.rest = RestAfter(step)]
       /\ lost' = lost \ JogAxis(step)
    /\ UNCHANGED <<executor, snapshot, incidents, doubt, stray>>

\* Mutant: a Connect that finds another model returns with the session open.
RecoveryWithoutDisconnect(step) == <<>>

\* What is left to do when a step fails: Connect closes the session it opened.
Recovery(step) == IF step = "GetCurrentRobotType" THEN Disconnect ELSE <<>>

\* CallJog(stop) forgets the jog whether or not the SDK has stopped it, and Disconnect
\* everything whether or not the SDK has closed the session.
DriverAfterFailure(step) ==
    CASE step = "JogStop"         -> [driver EXCEPT !.jog = 0]
      [] step = "DisconnectRobot" -> Fresh
      [] OTHER                    -> driver

\* A call that fails, maybe after it took effect, ends its method with an error;
\* Disconnect ignores the results of its calls.
StepFails ==
    /\ call.rest # <<>>
    /\ LET step == Head(call.rest) IN
       /\ ~Local(step)
       /\ IF Refused(step) \/ ~Permitted(step)
          THEN UNCHANGED <<controller, incidents>>
          ELSE /\ incidents < MaxIncidents
               /\ incidents' = incidents + 1
               /\ controller' \in {controller} \cup After(step)
       /\ driver' = DriverAfterFailure(step)
       /\ call' = IF call.tolerant THEN [call EXCEPT !.rest = Tail(call.rest)]
                  ELSE [call EXCEPT !.rest = Recovery(step), !.ok = FALSE,
                                    !.tolerant = TRUE]
       /\ lost' = lost \cup JogAxis(step)
       /\ stray' = \/ stray
                   \/ step \in {"ConnectRobot", "DisconnectRobot"} /\ controller'.session
    /\ doubt' = (doubt \/ call.req.type \notin {"ReadState", "Connect"})
    /\ UNCHANGED <<reading, executor, snapshot>>

Halts == {"Stop", "PowerOff"}

Unhealthy == {"Unknown", "Disconnected", "Fault", "EmergencyStop"}

\* Mutant: every command that succeeds becomes the active motion.
ActiveAfterAnyCommand(type) == type

\* WorkerLoop's bookkeeping of the active motion after a command that succeeded.
ActiveAfterCommand(type) ==
    CASE type \in {"MoveJ", "MoveL", "MoveC"}        -> "Motion"
      [] type = "StartProgram"                      -> "Program"
      [] type \in Halts                             -> "None"
      [] type = "StopProgram" /\ active = "Program" -> "None"
      [] OTHER                                      -> active

\* Shutdown has joined the threads, and Start gives up a connection whose first reading
\* failed: the driver is disconnected.
LeavesTo == CASE call.req.type = "Shutdown" -> <<"ApiDrop">> \o Disconnect
              [] call.req.type = "ReadState" /\ ~call.ok /\ latest = NoSnapshot -> Disconnect
              [] OTHER -> <<>>

\* The method returns, and the worker draws its conclusions.  A reading that failed is
\* nothing to publish, unless the last good one is too old by now.
Return ==
    /\ call # Idle /\ call.rest = <<>>
    /\ call.req.type = "Shutdown" => reading = NoSnapshot
    /\ LET req == call.req
           failed == req.type = "ReadState" /\ ~call.ok
       IN
       /\ call' = IF LeavesTo # <<>>
                  THEN [Idle EXCEPT !.req = Internal("Disconnect"),
                                    !.rest = LeavesTo, !.tolerant = TRUE]
                  ELSE Idle
       /\ reading' \in IF failed
                       THEN {NoSnapshot, [latest EXCEPT !.lifecycle = "Unknown"]}
                       ELSE {reading}
       /\ jog_active' = IF req.type = "Disconnect" THEN FALSE
                        ELSE IF ~call.ok THEN jog_active
                        ELSE IF req.type = "Jog" THEN req.payload.start
                        ELSE jog_active /\ req.type \notin Halts
       /\ loaded' = /\ req.type # "Disconnect"
                    /\ loaded \/ (call.ok /\ req.type = "LoadProgram")
       /\ active' = IF req.type = "Disconnect" THEN "None"
                    ELSE IF call.ok THEN ActiveAfterCommand(req.type) ELSE active
       /\ latest' = IF req.type = "Disconnect" THEN NoSnapshot ELSE latest
       /\ late' = (late /\ req.type # "Disconnect")
       /\ doubt' = (doubt /\ ~(call.ok /\ req.type \in Halts))
    /\ UNCHANGED <<controller, driver, overtaken, incidents, lost, stray>>

\* UpdateActiveMotionLocked: what a reading says about the active motion.  Until the
\* motion has been seen to move, or its grace period is over, a reading of an arm at
\* rest does not end it.
ActiveAfterReading ==
    LET busy == IF active = "Program" THEN reading.program_running ELSE reading.moving
    IN IF reading.lifecycle \in Unhealthy THEN {"None"}
       ELSE IF reading.paused \/ busy THEN {active}
       ELSE {active, "None"}

\* The second half of PollLoop, under mutex_ alone: a command may be under way, or
\* have been executed since the reading was taken.  The executor loses track of a
\* motion that ends on such a reading, or on one of a controller in trouble.
Publish ==
    /\ reading # NoSnapshot /\ call.req.type # "ReadState"
    /\ latest' = reading /\ late' = overtaken
    /\ reading' = NoSnapshot /\ overtaken' = FALSE
    /\ active' \in ActiveAfterReading
    /\ doubt' = \/ doubt
                \/ /\ active # "None" /\ active' = "None"
                   /\ overtaken \/ reading.lifecycle \in Unhealthy
    /\ UNCHANGED <<controller, driver, call, jog_active, loaded, incidents, lost, stray>>

-----------------------------------------------------------------------------
\* The world: the controller by itself, and the end of the process.
Incident(event) == /\ event \in Events
                   /\ incidents < MaxIncidents
                   /\ incidents' = incidents + 1

Happens(c) == /\ controller' = c
              /\ UNCHANGED <<driver, call, reading, executor, snapshot, doubt, lost, stray>>

\* A motion or a program ends, an emergency stop is released, the link comes back.
ControllerSettles ==
    LET c == controller IN
    /\ \/ c.motion = "Running" /\ Happens([c EXCEPT !.motion = "None"])
       \/ /\ c.program = "Run"
          /\ \E p \in {"Init", "Error"} : Happens([c EXCEPT !.program = p])
       \/ c.emergency_stop /\ Happens([c EXCEPT !.emergency_stop = FALSE])
       \/ ~c.link /\ Happens([c EXCEPT !.link = TRUE])
    /\ UNCHANGED incidents

ControllerEvent ==
    LET c == controller IN
    \/ /\ Incident("estop")
       /\ Happens([Halted(c) EXCEPT !.emergency_stop = TRUE, !.servo_on = FALSE])
    \/ Incident("alarm") /\ Happens([Halted(c) EXCEPT !.alarm_active = TRUE])
    \/ Incident("link") /\ Happens([c EXCEPT !.link = FALSE])
    \/ /\ Incident("mode")
       /\ \E mode \in {"Manual", "Automatic"} : Happens([c EXCEPT !.mode = mode])

\* The process dies, and with it the SDK's session and all the service knows.
Crash == /\ Incident("crash")
         /\ driver' = Fresh
         /\ controller' = [controller EXCEPT !.session = FALSE]
         /\ call' = Idle
         /\ reading' = NoSnapshot /\ latest' = NoSnapshot
         /\ overtaken' = FALSE /\ late' = FALSE /\ stray' = FALSE
         /\ jog_active' = FALSE /\ loaded' = FALSE /\ active' = "None"
         /\ doubt' = TRUE /\ lost' = lost \cup controller.jogs

Next == \/ Connect \/ Poll \/ Shutdown
        \/ \E req \in Requests : Execute(req)
        \/ StepSucceeds \/ StepFails \/ Return \/ Publish
        \/ ControllerSettles \/ ControllerEvent \/ Crash

Spec == Init /\ [][Next]_vars
-----------------------------------------------------------------------------
\* Every variable keeps its type.
TypeOK == /\ controller \in Controllers
          /\ driver \in Drivers
          /\ reading \in Snapshots /\ latest \in Snapshots
          /\ call.ok \in BOOLEAN /\ call.tolerant \in BOOLEAN
          /\ jog_active \in BOOLEAN /\ loaded \in BOOLEAN
          /\ active \in {"None", "Motion", "Program"}
          /\ incidents \in 0..MaxIncidents /\ doubt \in BOOLEAN
          /\ lost \subseteq 1..kEfortAxisCount
          /\ overtaken \in BOOLEAN /\ late \in BOOLEAN /\ stray \in BOOLEAN

\* A stop or a power off that is reported as done is done, although it is up to
\* seven SDK calls: no motion runs or waits on hold, no program runs or is paused,
\* and nothing jogs but an axis whose jog call had failed before.
HaltIsComplete ==
    call.req.type \in Halts /\ call.rest = <<>> /\ call.ok =>
        /\ controller.motion = "None"
        /\ controller.program \notin ProgramActive
        /\ controller.jogs \subseteq lost

AtRest == ~overtaken /\ reading.lifecycle \in {"Ready", "Standby"}

\* A reading is pieced together from calls between which the controller lives on,
\* and from the driver's own memory of a hold.  One that says the arm is at rest is
\* right, until a command begins, about everything that moves, and right about a
\* motion on hold unless the last stop that succeeded was followed by a command that
\* failed, the end of the process, or a motion the executor lost track of.
RestIsTrue ==
    AtRest => /\ ~Moving(controller)
              /\ controller.program # "Pause"
              /\ controller.motion = "Held" => doubt

\* A jog that runs is known to the driver, which will end it before anything else,
\* and to the executor, whose watchdog ends it, unless one of its jog calls failed.
JogIsKnown ==
    /\ controller.jogs \subseteq lost \cup {driver.jog}
    /\ call = Idle /\ ~(controller.jogs \subseteq lost) => jog_active

\* Whatever call of Connect, Shutdown or Disconnect fails, the way out leads through
\* DisconnectRobot and forgets the connection: a session outlives its driver only where
\* ConnectRobot or DisconnectRobot itself failed.
NoSessionLeft ==
    /\ driver.connected => controller.session
    /\ controller.session => driver.connected \/ stray
    /\ (call.req.type = "Disconnect" \/ (call.req.type = "Connect" /\ ~call.ok))
           /\ call.rest = <<>> => ~driver.connected

\* A path or a program is started on a controller that has none under way, neither
\* running nor on hold, and that does not jog: the guard on a snapshot it keeps while
\* commands change what it describes, the active motion and the driver keep motions
\* apart together.  Two cases are known: doubt, and a snapshot that a command had
\* overtaken before it was published.
StartsFromRest ==
    [][/\ call.rest # <<>> /\ Head(call.rest) \in Starts \ {"JogStart", "MOVERESUME"}
       /\ controller' # controller
       => \/ doubt' \/ late
          \/ /\ controller.motion = "None"
             /\ controller.program \notin ProgramActive
             /\ controller.jogs \subseteq lost]_vars
=============================================================================
