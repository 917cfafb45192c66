---------------------------- MODULE EfortProofs -----------------------------
(***************************************************************************)
(* Proofs about the EFORT driver, for every site policy the configuration  *)
(* loader accepts, every set of requests, every set of controller events   *)
(* and every number of SDK calls that fail.                                *)
(*                                                                         *)
(* A method is interrupted by the controller after every SDK call, so that *)
(* the properties of a finished method are not inductive.  The invariant   *)
(* says for each method what is known at each call it has yet to make.     *)
(***************************************************************************)
EXTENDS EfortDriver, SequenceTheorems, TLAPS

Moves    == {"MoveJ", "MoveL", "MoveC"}
Stopping == Halts \cup {"Shutdown"}
Simple   == {"AcquireControl", "ReleaseControl", "PowerOn", "ClearFault",
             "SetGlobalSpeed", "WriteDigitalOutput", "LoadProgram"}

Method == call.req.type
Left   == call.rest

\* The driver knows of no jog, no program is under way, nothing at all is.
JogOver    == driver.jog = 0
NoProgram  == controller.program \notin ProgramActive
NothingOn  == /\ controller.motion = "None" /\ NoProgram
              /\ controller.jogs \subseteq lost

\* The method goes on, has given up, or has done what it was asked.
GoesOn  == call.ok /\ ~call.tolerant
GaveUp  == Left = <<>> /\ ~call.ok
DidIt   == Left = <<>> /\ call.ok

-----------------------------------------------------------------------------
\* What is known while a method is in progress, call by call.
Leaving == {<<"ApiRelease", "DisconnectRobot">>, <<"DisconnectRobot">>}

ConnectStage ==
    /\ ~driver.paused
    /\ \/ /\ GoesOn /\ ~driver.connected
          /\ Left = <<"ConnectRobot", "GetCurrentRobotType">>
       \/ GoesOn /\ Left = <<"GetCurrentRobotType">>
       \/ DidIt /\ ~call.tolerant
       \/ /\ ~call.ok /\ call.tolerant
          /\ Left = Disconnect \/ (JogOver /\ Left \in Leaving)
       \/ GaveUp /\ call.tolerant /\ ~driver.connected

DisconnectStage ==
    /\ call.tolerant
    /\ controller.motion = "None" \/ doubt
    /\ \/ Left = <<"ApiDrop", "JogStop", "ApiRelease", "DisconnectRobot">>
       \/ Left = Disconnect
       \/ JogOver /\ Left \in Leaving
       \/ JogOver /\ ~driver.connected /\ Left = <<>>

\* The readings of the program, and of the motions.
ProgramRead == ~reading.paused => controller.program # "Pause"
MotionRead  == /\ ~reading.moving => ~Moving(controller)
               /\ ~reading.paused => controller.program # "Pause" /\ ~driver.paused

\* What is left of a reading after each of its calls.
Read1 == <<"GetPosition">>
Read2 == <<"ReadMoveState", "GetPosition">>
Read3 == <<"GetCurrentAlarmStatus", "ReadMoveState", "GetPosition">>
Read4 == <<"GetCurrentEmgStatus", "GetCurrentAlarmStatus", "ReadMoveState", "GetPosition">>
Read5 == <<"GetCurrentServoStatus", "GetCurrentEmgStatus", "GetCurrentAlarmStatus",
           "ReadMoveState", "GetPosition">>
Read6 == <<"GetRobotStatusData", "GetCurrentServoStatus", "GetCurrentEmgStatus",
           "GetCurrentAlarmStatus", "ReadMoveState", "GetPosition">>

ReadStage ==
    \/ GoesOn /\ Left = ReadState
    \/ /\ GoesOn /\ reading.lifecycle = "Unknown"
       /\ \/ Left = Read6
          \/ ProgramRead /\ Left \in {Read5, Read4, Read3, Read2}
          \/ MotionRead /\ Left = Read1
    \/ DidIt /\ (reading.lifecycle = "Disconnected" \/ MotionRead)
    \/ GaveUp /\ reading.lifecycle = "Unknown"

StopStage ==
    \/ /\ GoesOn
       /\ \/ Left \in {<<"Refuse">>, PowerOff, ControlledStop,
                       <<"JogStop", "ClearPause", "JogStop", "ClearPause", "PowerOff">>}
          \/ /\ JogOver
             /\ \/ Left \in {<<"ClearPause", "JogStop", "ClearPause", "PowerOff">>,
                             <<"ClearPause", "PowerOff">>, <<"PowerOff">>,
                             <<"ClearPause", "GetProStatus", "StopProgram",
                               "GetMoveState", "MOVEHOLD", "MOVECLEAR">>,
                             <<"GetProStatus", "StopProgram", "GetMoveState",
                               "MOVEHOLD", "MOVECLEAR">>,
                             <<"StopProgram", "GetMoveState", "MOVEHOLD", "MOVECLEAR">>}
                \/ /\ NoProgram
                   /\ Left \in {<<"GetMoveState", "MOVEHOLD", "MOVECLEAR">>,
                                <<"MOVEHOLD", "MOVECLEAR">>}
                \/ /\ NoProgram /\ controller.motion # "Running"
                   /\ Left = <<"MOVECLEAR">>
    \/ DidIt /\ JogOver /\ NoProgram /\ controller.motion = "None"
    \/ GaveUp /\ doubt

JogStage ==
    LET p == call.req.payload IN
    /\ p.start \in BOOLEAN
    /\ \/ GoesOn /\ Left = <<"Refuse">>
       \/ GoesOn /\ Left = <<"JogStop">> /\ ~p.start
       \/ /\ GoesOn /\ p.start /\ p.axis \in 1..kEfortAxisCount
          /\ \/ Left = NewJog
             \/ JogOver /\ Left \in {<<"SetJogMode", "JogStart">>, <<"JogStart">>}
       \/ DidIt /\ (p.start \/ JogOver)
       \/ GaveUp

MoveLeft ==
    {<<"CheckTarget", "ClearPause", "MJOINT">>, <<"ClearPause", "MJOINT">>, <<"MJOINT">>,
     <<"SetTool", "SetUframe", "CheckTarget", "ClearPause", "MLIN">>,
     <<"SetUframe", "CheckTarget", "ClearPause", "MLIN">>,
     <<"CheckTarget", "ClearPause", "MLIN">>, <<"ClearPause", "MLIN">>, <<"MLIN">>,
     <<"SetTool", "SetUframe", "CheckTarget", "CheckTarget", "ClearPause", "MCIRC">>,
     <<"SetUframe", "CheckTarget", "CheckTarget", "ClearPause", "MCIRC">>,
     <<"CheckTarget", "CheckTarget", "ClearPause", "MCIRC">>,
     <<"CheckTarget", "ClearPause", "MCIRC">>, <<"ClearPause", "MCIRC">>, <<"MCIRC">>}

\* A path or a program has yet to begin, on a controller that is at rest.
FromRest == doubt \/ late \/ NothingOn

StartStage(left) ==
    /\ active = "None"
    /\ \/ GoesOn /\ Left = <<"Refuse">>
       \/ GoesOn /\ Left \in left /\ FromRest
       \/ DidIt
       \/ GaveUp /\ doubt

MoveStage    == StartStage(MoveLeft)
ProgramStage == StartStage({<<"ClearPause", "StartProgram">>, <<"StartProgram">>})

HoldStage ==
    /\ driver.connected
    /\ \/ GoesOn /\ Left \in {<<"MOVEHOLD", "SetPause">>, <<"SetPause">>}
       \/ DidIt
       \/ GaveUp /\ doubt

ResumeStage ==
    \/ GoesOn /\ Left = <<"MOVERESUME", "ClearPause">>
    \/ GoesOn /\ Left = <<"ClearPause">> /\ controller.motion # "Held"
    \/ DidIt
    \/ GaveUp /\ doubt

StopProgramStage ==
    /\ active # "Motion"
    /\ \/ GoesOn /\ Left = <<"StopProgram", "ClearPause">>
       \/ GoesOn /\ Left = <<"ClearPause">> /\ NoProgram
       \/ DidIt /\ NoProgram
       \/ GaveUp /\ doubt

SimpleStage ==
    \/ /\ GoesOn
       /\ Left \in {<<"ApiAcquire">>, <<"ApiDrop">>, <<"PowerOn">>, <<"ClearAlarm">>,
                    <<"GetEmgStatus", "ClearAlarm">>, <<"SetGlobalSpeed">>,
                    <<"WriteDOut">>, <<"LoadProgram">>, <<"Refuse">>}
       /\ Left = <<"SetGlobalSpeed">> => call.req.payload.ratio \in 1..100
    \/ DidIt
    \/ GaveUp

Stages ==
    /\ Method = "None"            => call = Idle
    /\ Method = "Connect"         => ConnectStage
    /\ Method = "Disconnect"      => DisconnectStage
    /\ Method = "ReadState"       => ReadStage
    /\ Method \in Stopping        => StopStage
    /\ Method = "Jog"             => JogStage
    /\ Method \in Moves           => MoveStage
    /\ Method = "StartProgram"    => ProgramStage
    /\ Method = "Hold"            => HoldStage
    /\ Method = "Resume"          => ResumeStage
    /\ Method = "StopProgram"     => StopProgramStage
    /\ Method \in Simple          => SimpleStage

-----------------------------------------------------------------------------
Methods == CommandTypes \cup {"None", "Connect", "Disconnect", "ReadState", "Shutdown"}

CallOK == /\ call = [req |-> call.req, rest |-> Left, ok |-> call.ok,
                     tolerant |-> call.tolerant]
          /\ Method \in Methods

\* The SDK's session is the driver's connection, or nobody's.
Connected == /\ driver.connected => controller.session
             /\ controller.session => driver.connected \/ stray
             /\ ~driver.connected => ~driver.paused

\* A jog has a driver, and an executor that knows it or is about to.
JogsKnown ==
    /\ controller.jogs \subseteq lost \cup {driver.jog}
    /\ \/ controller.jogs \subseteq lost
       \/ jog_active
       \/ Method = "Jog" /\ call.req.payload.start /\ DidIt

\* A motion under way is the executor's active motion, and one on hold is on record
\* in the driver, unless something failed.
MotionKnown ==
    /\ controller.motion # "None" =>
          doubt \/ active = "Motion" \/ (Method \in Moves /\ DidIt)
    /\ controller.motion = "Held" =>
          \/ doubt \/ driver.paused \/ Method \in Stopping
          \/ Method = "Hold" /\ Left = <<"SetPause">>

\* A reading that waits to be published tells what moves until a command begins, and
\* from then on it is overtaken.
ReadingKnown == /\ RestIsTrue
                /\ Method \in {"None", "Connect"} =>
                      overtaken \/ reading.lifecycle \in Unhealthy \/ MotionRead
                /\ Method \notin {"None", "Connect", "ReadState"} =>
                      overtaken \/ reading = NoSnapshot

\* The snapshots on which the guard admits a motion.
Admissible(s) == /\ s.lifecycle = "Ready" /\ s.mode = "Automatic"
                 /\ ~s.moving /\ ~s.paused /\ ~s.program_running

\* While the executor keeps such a snapshot and has no active motion, nothing is on:
\* the guard admits no jog, hold or resume on it, and a motion becomes active.
LatestKnown ==
    /\ Admissible(latest) /\ ~late =>
          /\ Method \notin {"Jog", "Hold", "Resume"}
          /\ controller.jogs \subseteq lost
          /\ \/ doubt \/ NothingOn \/ active # "None"
             \/ Method \in Moves \cup {"StartProgram"} /\ DidIt
    /\ latest = NoSnapshot => /\ active = "None"
                              /\ Method \in {"None", "Connect", "Disconnect", "ReadState"}

\* The inductive invariant.
Common    == /\ TypeOK /\ CallOK /\ Connected /\ JogsKnown /\ MotionKnown
             /\ ReadingKnown /\ LatestKnown
DriverInv == Common /\ Stages

-----------------------------------------------------------------------------
\* Where there is no snapshot the guard admits no motion.
LEMMA NoSnapshotMeans ==
    /\ NoSnapshot \in Snapshots /\ NoSnapshot.lifecycle = "Unknown"
    /\ ~Admissible(NoSnapshot)
BY DEF NoSnapshot, Snapshots, ControllerModes, Lifecycles, Admissible

\* A successful call, and its effect on each part of the state.
LEMMA AnyStep ==
    ASSUME StepSucceeds
    PROVE  /\ Left # <<>> /\ ~Refused(Head(Left))
           /\ \/ Local(Head(Left)) /\ controller' = controller
              \/ ~Local(Head(Left)) /\ controller' \in After(Head(Left))
           /\ driver' = DriverAfter(Head(Left))
           /\ reading' = ReadingAfter(Head(Left))
           /\ call' = [call EXCEPT !.rest = RestAfter(Head(Left))]
           /\ lost' = lost \ JogAxis(Head(Left))
           /\ UNCHANGED <<jog_active, loaded, active, latest, overtaken, late,
                          incidents, doubt, stray>>
<1> DEFINE step == Head(Left)
<1>1. /\ Left # <<>> /\ ~Refused(step)
      /\ IF Local(step) THEN UNCHANGED controller ELSE controller' \in After(step)
      /\ driver' = DriverAfter(step)
      /\ reading' = ReadingAfter(step)
      /\ call' = [call EXCEPT !.rest = RestAfter(step)]
      /\ lost' = lost \ JogAxis(step)
      /\ UNCHANGED <<executor, snapshot, incidents, doubt, stray>>
  BY DEF StepSucceeds, Left
<1> QED BY <1>1 DEF executor, snapshot

\* A call that changes nothing.
Quiet == {"GetCurrentRobotType", "CheckTarget", "SetTool", "SetUframe",
          "GetEmgStatus", "SetJogMode", "WriteDOut", "LoadProgram"}

\* Such a call changes neither controller, driver nor reading.
LEMMA QuietStep ==
    ASSUME StepSucceeds, Head(Left) \in Quiet
    PROVE  /\ UNCHANGED <<controller, driver, reading, lost>>
           /\ call' = [call EXCEPT !.rest = Tail(Left)]
<1>1. \A step \in Quiet : After(step) = {controller} /\ JogAxis(step) = {}
  BY DEF After, Quiet, JogAxis
<1>2. \A step \in Quiet : DriverAfter(step) = driver
  BY DEF DriverAfter, Quiet
<1>3. \A step \in Quiet : ReadingAfter(step) = reading
  BY DEF ReadingAfter, Quiet
<1>4. \A step \in Quiet : RestAfter(step) = Tail(Left)
  BY DEF RestAfter, Quiet, Left
<1> QED BY <1>1, <1>2, <1>3, <1>4, AnyStep

\* The SDK ends the jog the driver knows of, if any.
LEMMA JogStopStep ==
    ASSUME StepSucceeds, TypeOK, Head(Left) = "JogStop"
    PROVE  /\ controller' = [controller EXCEPT !.jogs = @ \ {driver.jog}]
           /\ driver' = [driver EXCEPT !.jog = 0]
           /\ reading' = reading
           /\ lost' = lost \ {driver.jog}
           /\ call' = [call EXCEPT !.rest = Tail(Left)]
<1>1. /\ After("JogStop") = {[controller EXCEPT !.jogs = @ \ {driver.jog}]}
      /\ JogAxis("JogStop") = {driver.jog} \ {0}
  BY DEF After, JogAxis
<1>2. /\ DriverAfter("JogStop") = [driver EXCEPT !.jog = 0]
      /\ ReadingAfter("JogStop") = reading /\ RestAfter("JogStop") = Tail(Left)
      /\ Local("JogStop") => driver.jog = 0
  BY DEF DriverAfter, ReadingAfter, RestAfter, Local, Left
<1>3. controller' = [controller EXCEPT !.jogs = @ \ {driver.jog}]
  BY <1>1, <1>2, AnyStep DEF TypeOK, Controllers, kEfortAxisCount
<1>4. lost' = lost \ {driver.jog}
  BY <1>1, AnyStep DEF TypeOK, kEfortAxisCount
<1> QED BY <1>2, <1>3, <1>4, AnyStep

\* The driver remembers, or forgets, that it has put a motion on hold.
LEMMA PauseStep ==
    ASSUME StepSucceeds, Head(Left) \in {"SetPause", "ClearPause"}
    PROVE  /\ UNCHANGED <<controller, reading, lost>>
           /\ driver' = [driver EXCEPT !.paused = (Head(Left) = "SetPause")]
           /\ call' = [call EXCEPT !.rest = Tail(Left)]
<1>1. /\ DriverAfter("SetPause") = [driver EXCEPT !.paused = TRUE]
      /\ DriverAfter("ClearPause") = [driver EXCEPT !.paused = FALSE]
  BY DEF DriverAfter
<1>2. \A step \in {"SetPause", "ClearPause"} :
         /\ Local(step) /\ JogAxis(step) = {}
         /\ ReadingAfter(step) = reading /\ RestAfter(step) = Tail(Left)
  BY DEF Local, ReadingAfter, RestAfter, JogAxis, Left
<1> QED BY <1>1, <1>2, AnyStep

\* The controller goes on with what it does, or with less.
Calm(c, d) == /\ d \in Controllers
              /\ d.session = c.session
              /\ d.jogs \subseteq c.jogs
              /\ d.motion \in {c.motion, "None"}
              /\ d.program \in {c.program, "Init", "Error"}

Calming == {"ApiAcquire", "ApiDrop", "ApiRelease", "PowerOn", "ClearAlarm", "PowerOff",
            "StopProgram"}

\* A calming call only brings the controller nearer to rest: PowerOff stops everything,
\* StopProgram the program.
LEMMA CalmStep ==
    ASSUME StepSucceeds, TypeOK, Head(Left) \in Calming
    PROVE  /\ Calm(controller, controller')
           /\ Head(Left) \in {"PowerOff", "StopProgram"} => NoProgram'
           /\ Head(Left) = "PowerOff" => controller'.motion = "None"
           /\ UNCHANGED <<driver, reading, lost>>
           /\ call' = [call EXCEPT !.rest = Tail(Left)]
<1> DEFINE c == controller
<1>1. \A step \in Calming : /\ JogAxis(step) = {} /\ DriverAfter(step) = driver
                            /\ ReadingAfter(step) = reading /\ RestAfter(step) = Tail(Left)
  BY DEF Calming, DriverAfter, ReadingAfter, RestAfter, JogAxis, Left
<1>2. /\ UNCHANGED <<driver, reading, lost>>
      /\ call' = [call EXCEPT !.rest = Tail(Left)]
      /\ controller' \in After(Head(Left)) \/ (Local(Head(Left)) /\ controller' = c)
  BY <1>1, AnyStep
<1>3. \A step \in {"PowerOff", "StopProgram"} : ~Local(step)
  BY DEF Local
<1>4. CASE controller' = c /\ Local(Head(Left))
  BY <1>2, <1>3, <1>4 DEF Calm, TypeOK
<1>5. CASE Head(Left) = "PowerOff" /\ controller' \in After(Head(Left))
  <2>1. After("PowerOff") = {[Halted(c) EXCEPT !.servo_on = FALSE]}
    BY DEF After
  <2>2. controller' = [Halted(c) EXCEPT !.servo_on = FALSE]
    BY <1>5, <2>1
  <2> QED BY <1>2, <1>5, <2>2 DEF Halted, Calm, NoProgram, TypeOK, Controllers, ProgramActive
<1>6. CASE Head(Left) = "StopProgram" /\ controller' \in After(Head(Left))
  <2>1. After("StopProgram") =
           {[c EXCEPT !.program = IF @ \in ProgramActive THEN "Init" ELSE @]}
    BY DEF After
  <2> QED BY <1>2, <1>6, <2>1 DEF Calm, NoProgram, TypeOK, Controllers, ProgramActive
<1>7. CASE Head(Left) = "ClearAlarm" /\ controller' \in After(Head(Left))
  <2>1. After("ClearAlarm") =
           {[c EXCEPT !.alarm_active = FALSE, !.program = IF @ = "Error" THEN "Init" ELSE @]}
    BY DEF After
  <2>2. controller' = [c EXCEPT !.alarm_active = FALSE,
                                !.program = IF @ = "Error" THEN "Init" ELSE @]
    BY <1>7, <2>1
  <2>3. Calm(c, controller')
    BY <2>2 DEF Calm, TypeOK, Controllers, ProgramActive
  <2> QED BY <1>2, <1>7, <2>3
<1>8. CASE /\ Head(Left) \in {"ApiAcquire", "ApiDrop", "ApiRelease", "PowerOn"}
           /\ controller' \in After(Head(Left))
  <2>1. /\ After("ApiAcquire") = {[c EXCEPT !.api_control = TRUE]}
        /\ After("ApiDrop") = {[c EXCEPT !.api_control = FALSE]}
        /\ After("ApiRelease") = {[c EXCEPT !.api_control = FALSE]}
        /\ After("PowerOn") = {[c EXCEPT !.servo_on = TRUE]}
    BY DEF After
  <2>2. \/ controller' = [c EXCEPT !.api_control = TRUE]
        \/ controller' = [c EXCEPT !.api_control = FALSE]
        \/ controller' = [c EXCEPT !.servo_on = TRUE]
    BY <1>8, <2>1
  <2>3. Calm(c, controller')
    BY <2>2 DEF Calm, TypeOK, Controllers
  <2> QED BY <1>2, <1>8, <2>3
<1> QED BY <1>2, <1>4, <1>5, <1>6, <1>7, <1>8 DEF Calming

\* The speed ratio is the one of the request.
LEMMA SpeedStep ==
    ASSUME StepSucceeds, Head(Left) = "SetGlobalSpeed"
    PROVE  /\ controller' = [controller EXCEPT !.speed_ratio = call.req.payload.ratio]
           /\ UNCHANGED <<driver, reading, lost>>
           /\ call' = [call EXCEPT !.rest = Tail(Left)]
<1>1. /\ After("SetGlobalSpeed") =
             {[controller EXCEPT !.speed_ratio = call.req.payload.ratio]}
      /\ ~Local("SetGlobalSpeed") /\ JogAxis("SetGlobalSpeed") = {}
  BY DEF After, Local, JogAxis
<1>2. /\ DriverAfter("SetGlobalSpeed") = driver /\ ReadingAfter("SetGlobalSpeed") = reading
      /\ RestAfter("SetGlobalSpeed") = Tail(Left)
  BY DEF DriverAfter, ReadingAfter, RestAfter, Left
<1> QED BY <1>1, <1>2, AnyStep

\* The calls that hold, resume and clear a motion.
LEMMA HoldStep ==
    ASSUME StepSucceeds, TypeOK, Head(Left) \in {"MOVEHOLD", "MOVECLEAR", "MOVERESUME"}
    PROVE  /\ controller' \in Controllers
           /\ controller'.session = controller.session
           /\ controller'.jogs \subseteq controller.jogs
           /\ Head(Left) = "MOVEHOLD" =>
                 /\ controller'.motion = IF controller.motion = "Running" THEN "Held"
                                                            ELSE controller.motion
                 /\ NoProgram => NoProgram'
           /\ Head(Left) = "MOVERESUME" =>
                 controller'.motion = IF controller.motion = "Held" THEN "Running"
                                                            ELSE controller.motion
           /\ Head(Left) = "MOVECLEAR" =>
                 /\ controller'.motion = IF controller.motion = "Held" THEN "None"
                                                            ELSE controller.motion
                 /\ controller'.program = controller.program
           /\ UNCHANGED <<driver, reading, lost>>
           /\ call' = [call EXCEPT !.rest = Tail(Left)]
<1> DEFINE c == controller
           Holding == {"MOVEHOLD", "MOVECLEAR", "MOVERESUME"}
<1>1. \A step \in Holding : /\ ~Local(step) /\ JogAxis(step) = {}
                            /\ DriverAfter(step) = driver
                            /\ ReadingAfter(step) = reading /\ RestAfter(step) = Tail(Left)
  BY DEF Local, DriverAfter, ReadingAfter, RestAfter, JogAxis, Left
<1>2. /\ UNCHANGED <<driver, reading, lost>>
      /\ call' = [call EXCEPT !.rest = Tail(Left)]
      /\ controller' \in After(Head(Left))
  BY <1>1, AnyStep
<1>3. CASE Head(Left) = "MOVEHOLD"
  <2>1. After("MOVEHOLD") =
           {[c EXCEPT !.motion = IF @ = "Running" THEN "Held" ELSE @,
                      !.program = p, !.jogs = j] :
               p \in {c.program, IF c.program = "Run" THEN "Pause" ELSE c.program},
               j \in {c.jogs, {}}}
    BY DEF After
  <2>2. PICK p \in {c.program, IF c.program = "Run" THEN "Pause" ELSE c.program},
             j \in {c.jogs, {}} :
           controller' = [c EXCEPT !.motion = IF @ = "Running" THEN "Held" ELSE @,
                                   !.program = p, !.jogs = j]
    BY <1>2, <1>3, <2>1
  <2> QED BY <1>2, <1>3, <2>2 DEF TypeOK, Controllers, ProgramActive, NoProgram
<1>4. CASE Head(Left) = "MOVERESUME"
  <2>1. After("MOVERESUME") =
           {[c EXCEPT !.motion = IF @ = "Held" THEN "Running" ELSE @,
                      !.program = IF @ = "Pause" THEN "Run" ELSE @]}
    BY DEF After
  <2>2. controller' = [c EXCEPT !.motion = IF @ = "Held" THEN "Running" ELSE @,
                                !.program = IF @ = "Pause" THEN "Run" ELSE @]
    BY <1>2, <1>4, <2>1
  <2> QED BY <1>2, <1>4, <2>2 DEF TypeOK, Controllers, ProgramActive
<1>5. CASE Head(Left) = "MOVECLEAR"
  <2>1. After("MOVECLEAR") = {[c EXCEPT !.motion = IF @ = "Held" THEN "None" ELSE @]}
    BY DEF After
  <2> QED BY <1>2, <1>5, <2>1 DEF TypeOK, Controllers
<1> QED BY <1>3, <1>4, <1>5

\* The calls that look whether there is something to stop.
LEMMA LookStep ==
    ASSUME StepSucceeds, Head(Left) \in {"GetProStatus", "GetMoveState"}
    PROVE  /\ UNCHANGED <<controller, driver, reading, lost>>
           /\ call' = [call EXCEPT !.rest =
                  IF \/ Head(Left) = "GetProStatus" /\ NoProgram
                     \/ Head(Left) = "GetMoveState" /\ ~Moving(controller)
                  THEN Tail(Tail(Left)) ELSE Tail(Left)]
<1>1. \A step \in {"GetProStatus", "GetMoveState"} :
         /\ After(step) = {controller} /\ JogAxis(step) = {}
         /\ DriverAfter(step) = driver /\ ReadingAfter(step) = reading
  BY DEF After, DriverAfter, ReadingAfter, JogAxis
<1>2. RestAfter(Head(Left)) =
         IF \/ Head(Left) = "GetProStatus" /\ NoProgram
            \/ Head(Left) = "GetMoveState" /\ ~Moving(controller)
         THEN Tail(Tail(Left)) ELSE Tail(Left)
  BY DEF RestAfter, Left, NoProgram
<1> QED BY <1>1, <1>2, AnyStep

\* The calls that start something.
LEMMA MoveStep ==
    ASSUME StepSucceeds, TypeOK, Head(Left) \in {"MJOINT", "MLIN", "MCIRC"}
    PROVE  /\ controller' \in Controllers
           /\ \E m \in {"Running", controller.motion} \ {"None"} :
                 controller' = [controller EXCEPT !.motion = m]
           /\ UNCHANGED <<driver, reading, lost>>
           /\ call' = [call EXCEPT !.rest = Tail(Left)]
<1> DEFINE Paths == {"MJOINT", "MLIN", "MCIRC"}
<1>1. \A step \in Paths :
         After(step) = {[controller EXCEPT !.motion = m] :
                            m \in {"Running", controller.motion} \ {"None"}}
  BY DEF After
<1>2. \A step \in Paths : /\ ~Local(step) /\ JogAxis(step) = {}
                          /\ DriverAfter(step) = driver
                          /\ ReadingAfter(step) = reading /\ RestAfter(step) = Tail(Left)
  BY DEF Local, DriverAfter, ReadingAfter, RestAfter, JogAxis, Left
<1>3. PICK m \in {"Running", controller.motion} \ {"None"} :
         controller' = [controller EXCEPT !.motion = m]
  <2>1. controller' \in After(Head(Left)) /\ Head(Left) \in Paths
    BY <1>2, AnyStep
  <2> HIDE DEF Paths
  <2> QED BY <1>1, <2>1
<1> QED BY <1>2, <1>3, AnyStep DEF TypeOK, Controllers

\* StartProgram has the program run.
LEMMA StartStep ==
    ASSUME StepSucceeds, Head(Left) = "StartProgram"
    PROVE  /\ controller' = [controller EXCEPT !.program = "Run"]
           /\ UNCHANGED <<driver, reading, lost>>
           /\ call' = [call EXCEPT !.rest = Tail(Left)]
<1>1. /\ After("StartProgram") = {[controller EXCEPT !.program = "Run"]}
      /\ ~Local("StartProgram") /\ JogAxis("StartProgram") = {}
  BY DEF After, Local, JogAxis
<1>2. /\ DriverAfter("StartProgram") = driver /\ ReadingAfter("StartProgram") = reading
      /\ RestAfter("StartProgram") = Tail(Left)
  BY DEF DriverAfter, ReadingAfter, RestAfter, Left
<1> QED BY <1>1, <1>2, AnyStep

\* JogStart has the axis jog, and the driver knows of it.
LEMMA JogStartStep ==
    ASSUME StepSucceeds, Head(Left) = "JogStart"
    PROVE  LET axis == call.req.payload.axis IN
           /\ controller' = [controller EXCEPT !.jogs = @ \cup {axis}]
           /\ driver' = [driver EXCEPT !.jog = axis]
           /\ reading' = reading
           /\ lost' = lost \ {axis}
           /\ call' = [call EXCEPT !.rest = Tail(Left)]
<1>1. /\ After("JogStart") = {[controller EXCEPT !.jogs = @ \cup {call.req.payload.axis}]}
      /\ ~Local("JogStart") /\ JogAxis("JogStart") = {call.req.payload.axis}
  BY DEF After, Local, JogAxis
<1>2. /\ DriverAfter("JogStart") = [driver EXCEPT !.jog = call.req.payload.axis]
      /\ ReadingAfter("JogStart") = reading /\ RestAfter("JogStart") = Tail(Left)
  BY DEF DriverAfter, ReadingAfter, RestAfter, Left
<1> QED BY <1>1, <1>2, AnyStep

\* The calls that open and close the session: one that nobody has the id of stays open.
LEMMA SessionStep ==
    ASSUME StepSucceeds, Head(Left) \in {"ConnectRobot", "DisconnectRobot"}
    PROVE  /\ Head(Left) = "ConnectRobot" =>
                  controller' = [controller EXCEPT !.session = TRUE]
           /\ Head(Left) = "DisconnectRobot" =>
                  \E s \in {FALSE, stray} : controller' = [controller EXCEPT !.session = s]
           /\ driver' = IF Head(Left) = "ConnectRobot"
                        THEN [driver EXCEPT !.connected = TRUE] ELSE Fresh
           /\ UNCHANGED <<reading, lost>>
           /\ call' = [call EXCEPT !.rest = Tail(Left)]
<1>1. /\ After("ConnectRobot") = {[controller EXCEPT !.session = TRUE]}
      /\ After("DisconnectRobot") = {[controller EXCEPT !.session = s] : s \in {FALSE, stray}}
      /\ DriverAfter("DisconnectRobot") = Fresh
      /\ DriverAfter("ConnectRobot") = [driver EXCEPT !.connected = TRUE]
  BY DEF After, DriverAfter
<1>2. \A step \in {"ConnectRobot", "DisconnectRobot"} :
         /\ ~Local(step) /\ JogAxis(step) = {}
         /\ ReadingAfter(step) = reading /\ RestAfter(step) = Tail(Left)
  BY DEF Local, ReadingAfter, RestAfter, JogAxis, Left
<1>3. CASE Head(Left) = "ConnectRobot"
  BY <1>1, <1>2, <1>3, AnyStep
<1>4. CASE Head(Left) = "DisconnectRobot"
  <2>1. controller' \in {[controller EXCEPT !.session = s] : s \in {FALSE, stray}}
    BY <1>1, <1>2, <1>4, AnyStep
  <2>2. \E s \in {FALSE, stray} : controller' = [controller EXCEPT !.session = s]
    BY <2>1
  <2>3. /\ driver' = Fresh /\ UNCHANGED <<reading, lost>>
        /\ call' = [call EXCEPT !.rest = Tail(Left)]
    BY <1>1, <1>2, <1>4, AnyStep
  <2> QED BY <1>4, <2>2, <2>3
<1> QED BY <1>3, <1>4

-----------------------------------------------------------------------------
\* Whatever the method, a controller that calms down and a driver that forgets a jog
\* or a pause it need not remember keep what is known between the calls.
LEMMA Frame ==
    ASSUME Common,
           \/ call' = call
           \/ /\ Left # <<>> /\ Method # "Hold"
              /\ \E left : call' = [call EXCEPT !.rest = left],
           Calm(controller, controller'),
           driver' \in Drivers, driver'.connected = driver.connected,
           driver'.paused => driver.paused,
           \/ driver.paused => driver'.paused
           \/ controller'.motion # "Held" \/ doubt \/ Method \in Stopping,
           controller'.jogs \subseteq lost' \cup {driver'.jog},
           controller.jogs \subseteq lost => controller'.jogs \subseteq lost',
           lost' \subseteq 1..kEfortAxisCount,
           incidents' = incidents \/ incidents' \in 0..MaxIncidents,
           UNCHANGED <<reading, jog_active, loaded, active, latest, overtaken, late,
                       doubt, stray>>
    PROVE  Common'
<1>1. /\ Method' = Method /\ call'.req = call.req
      /\ call'.ok = call.ok /\ call'.tolerant = call.tolerant
      /\ call' = call \/ Left # <<>>
      /\ call' = call \/ Method # "Hold"
  BY DEF Common, CallOK, Method, Left
<1>2. CallOK'
  BY <1>1 DEF Common, CallOK, Method, Left
<1>3. TypeOK'
  BY <1>1 DEF Common, TypeOK, Calm
<1>4. Connected' /\ JogsKnown'
  BY <1>1 DEF Common, Connected, JogsKnown, Calm, DidIt, Method, Left
<1>5. MotionKnown'
  BY <1>1 DEF Common, MotionKnown, Calm, DidIt, Method, Left
<1>6. ReadingKnown'
  BY <1>1 DEF Common, ReadingKnown, RestIsTrue, AtRest, MotionRead, Moving, Calm, Method
<1>7. LatestKnown'
  <2>1. NothingOn => NothingOn'
    BY DEF NothingOn, NoProgram, ProgramActive, Calm
  <2>2. DidIt => DidIt'
    BY <1>1 DEF DidIt, Left
  <2> QED BY <1>1, <2>1, <2>2 DEF Common, LatestKnown, Admissible, Method
<1> QED BY <1>2, <1>3, <1>4, <1>5, <1>6, <1>7 DEF Common

\* In particular a call that only changes the controller.
LEMMA CalmFrame ==
    ASSUME Common, Calm(controller, controller'), driver' = driver, lost' = lost,
           \/ call' = call
           \/ /\ Left # <<>> /\ Method # "Hold"
              /\ \E left : call' = [call EXCEPT !.rest = left],
           incidents' = incidents \/ incidents' \in 0..MaxIncidents,
           UNCHANGED <<reading, jog_active, loaded, active, latest, overtaken, late,
                       doubt, stray>>
    PROVE  Common'
<1>1. /\ driver' \in Drivers /\ lost' \subseteq 1..kEfortAxisCount
      /\ controller'.jogs \subseteq controller.jogs
      /\ controller.jogs \subseteq lost \cup {driver.jog}
  BY DEF Common, TypeOK, JogsKnown, Calm
<1> QED BY <1>1, Frame

\* In particular the end of a jog.
LEMMA JogEndFrame ==
    ASSUME Common, StepSucceeds, Head(Left) = "JogStop", Method # "Hold"
    PROVE  Common' /\ driver'.jog = 0
<1>1. /\ controller' = [controller EXCEPT !.jogs = @ \ {driver.jog}]
      /\ driver' = [driver EXCEPT !.jog = 0] /\ reading' = reading
      /\ lost' = lost \ {driver.jog}
      /\ call' = [call EXCEPT !.rest = Tail(Left)]
  BY JogStopStep DEF Common
<1>2. /\ Calm(controller, controller')
      /\ driver' \in Drivers /\ driver'.connected = driver.connected
      /\ driver'.paused = driver.paused /\ driver'.jog = 0
      /\ controller'.jogs = controller.jogs \ {driver.jog}
  BY <1>1 DEF Calm, Common, TypeOK, Controllers, Drivers, kEfortAxisCount
<1>3. controller.jogs \subseteq lost \cup {driver.jog} /\ lost \subseteq 1..kEfortAxisCount
  BY DEF Common, JogsKnown, TypeOK
<1> QED BY <1>1, <1>2, <1>3, AnyStep, Frame

-----------------------------------------------------------------------------
\* A reading, call by call.
Questions == {"GetRobotStatusData", "GetCurrentServoStatus", "GetCurrentEmgStatus",
              "GetCurrentAlarmStatus", "ReadMoveState"}

\* What a question of a reading leaves in it is the controller's answer.
LEMMA QuestionStep ==
    ASSUME StepSucceeds, TypeOK, Head(Left) \in Questions
    PROVE  /\ UNCHANGED <<controller, driver, lost>>
           /\ call' = [call EXCEPT !.rest = Tail(Left)]
           /\ reading' \in Snapshots /\ reading'.lifecycle = reading.lifecycle
           /\ Head(Left) = "GetRobotStatusData" =>
                  reading'.paused = (controller.program = "Pause")
           /\ Head(Left) \notin {"GetRobotStatusData", "ReadMoveState"} =>
                  reading'.paused = reading.paused
           /\ Head(Left) = "ReadMoveState" =>
                  /\ reading'.moving = Moving(controller)
                  /\ reading'.paused = (reading.paused \/ driver.paused)
<1> DEFINE c == controller
<1>1. \A step \in Questions : /\ ~Local(step) /\ JogAxis(step) = {}
                             /\ DriverAfter(step) = driver /\ After(step) = {c}
                             /\ RestAfter(step) = Tail(Left)
  BY DEF Questions, Local, DriverAfter, After, RestAfter, JogAxis, Left
<1>2. /\ UNCHANGED <<controller, driver, lost>>
      /\ call' = [call EXCEPT !.rest = Tail(Left)]
      /\ reading' = ReadingAfter(Head(Left))
  BY <1>1, AnyStep
<1>3. /\ c.mode \in ControllerModes /\ c.servo_on \in BOOLEAN /\ c.api_control \in BOOLEAN
      /\ c.emergency_stop \in BOOLEAN /\ c.alarm_active \in BOOLEAN
      /\ c.speed_ratio \in Nat /\ reading \in Snapshots /\ Moving(c) \in BOOLEAN
      /\ Paused \in BOOLEAN
  BY DEF TypeOK, Controllers, Moving, Paused, Drivers, Snapshots
<1>4. CASE Head(Left) = "GetRobotStatusData"
  <2>1. ReadingAfter("GetRobotStatusData") =
            [reading EXCEPT !.api_control = c.api_control, !.mode = c.mode,
                            !.speed_ratio = c.speed_ratio,
                            !.program_running = (c.program = "Run"),
                            !.alarm_active = (c.program = "Error"),
                            !.paused = (c.program = "Pause")]
    BY DEF ReadingAfter
  <2>2. PICK running, failed, paused \in BOOLEAN :
           /\ paused = (c.program = "Pause")
           /\ reading' = [reading EXCEPT !.api_control = c.api_control, !.mode = c.mode,
                                         !.speed_ratio = c.speed_ratio,
                                         !.program_running = running,
                                         !.alarm_active = failed,
                                         !.paused = paused]
    <3>1. /\ (c.program = "Run") \in BOOLEAN /\ (c.program = "Error") \in BOOLEAN
          /\ (c.program = "Pause") \in BOOLEAN
      OBVIOUS
    <3> QED BY <1>2, <1>4, <2>1, <3>1
  <2>3. reading' \in Snapshots
    <3> DEFINE first == [reading EXCEPT !.api_control = c.api_control, !.mode = c.mode,
                                        !.speed_ratio = c.speed_ratio]
    <3>1. first \in Snapshots
      BY <1>3 DEF Snapshots
    <3>2. reading' = [first EXCEPT !.program_running = running,
                                   !.alarm_active = failed, !.paused = paused]
      BY <1>3, <2>2 DEF Snapshots
    <3> HIDE DEF first
    <3> QED BY <3>1, <3>2 DEF Snapshots
  <2>4. /\ reading'.lifecycle = reading.lifecycle
        /\ reading'.paused = (c.program = "Pause")
    BY <1>3, <2>2 DEF Snapshots
  <2> QED BY <1>2, <1>4, <2>3, <2>4
<1>5. CASE Head(Left) = "GetCurrentServoStatus"
  <2>1. ReadingAfter("GetCurrentServoStatus") = [reading EXCEPT !.servo_on = c.servo_on]
    BY DEF ReadingAfter
  <2> QED BY <1>2, <1>3, <1>5, <2>1 DEF Snapshots
<1>6. CASE Head(Left) = "GetCurrentEmgStatus"
  <2>1. ReadingAfter("GetCurrentEmgStatus") =
            [reading EXCEPT !.emergency_stop = c.emergency_stop]
    BY DEF ReadingAfter
  <2> QED BY <1>2, <1>3, <1>6, <2>1 DEF Snapshots
<1>7. CASE Head(Left) = "GetCurrentAlarmStatus"
  <2>1. ReadingAfter("GetCurrentAlarmStatus") =
            [reading EXCEPT !.alarm_active = @ \/ c.alarm_active]
    BY DEF ReadingAfter
  <2> QED BY <1>2, <1>3, <1>7, <2>1 DEF Snapshots
<1>8. CASE Head(Left) = "ReadMoveState"
  <2>1. ReadingAfter("ReadMoveState") =
            [reading EXCEPT !.moving = Moving(c), !.paused = Paused]
    BY DEF ReadingAfter
  <2> QED BY ZenonT(60), <1>2, <1>3, <1>8, <2>1 DEF Snapshots, Paused
<1> QED BY <1>2, <1>4, <1>5, <1>6, <1>7, <1>8 DEF Questions

\* The first call of a reading, and the last.
LEMMA ReadEnds ==
    ASSUME StepSucceeds, TypeOK, Head(Left) \in {"IsConnected", "GetPosition"}
    PROVE  /\ UNCHANGED <<controller, driver, lost>> /\ reading' \in Snapshots
           /\ Head(Left) = "IsConnected" =>
                  /\ reading'.lifecycle = IF controller.link THEN "Unknown"
                                                             ELSE "Disconnected"
                  /\ call' = [call EXCEPT !.rest =
                                 IF controller.link THEN Tail(Left) ELSE <<>>]
           /\ Head(Left) = "GetPosition" =>
                  /\ reading' = [reading EXCEPT !.lifecycle = DeriveLifecycleState(reading)]
                  /\ call' = [call EXCEPT !.rest = Tail(Left)]
<1> DEFINE c == controller
<1>1. \A step \in {"IsConnected", "GetPosition"} :
         /\ JogAxis(step) = {}
         /\ DriverAfter(step) = driver /\ After(step) = {c}
  BY DEF DriverAfter, After, JogAxis
<1>2. /\ UNCHANGED <<controller, driver, lost>>
      /\ call' = [call EXCEPT !.rest = RestAfter(Head(Left))]
      /\ reading' = ReadingAfter(Head(Left))
  BY <1>1, AnyStep
<1>3. CASE Head(Left) = "IsConnected"
  <2>1. /\ ReadingAfter("IsConnected") =
              [NoSnapshot EXCEPT !.connected = c.link,
                               !.lifecycle = IF c.link THEN "Unknown"
                                                       ELSE "Disconnected"]
        /\ RestAfter("IsConnected") = IF c.link THEN Tail(Left) ELSE <<>>
    BY DEF ReadingAfter, RestAfter, Left
  <2>2. c.link \in BOOLEAN /\ NoSnapshot \in Snapshots
    BY DEF TypeOK, Controllers, Snapshots, NoSnapshot, ControllerModes, Lifecycles
  <2>3. reading' \in Snapshots
    BY ZenonT(60), <1>2, <1>3, <2>1, <2>2 DEF Snapshots, Lifecycles
  <2>4. reading'.lifecycle = IF c.link THEN "Unknown" ELSE "Disconnected"
    BY <1>2, <1>3, <2>1 DEF NoSnapshot
  <2> QED BY <1>2, <1>3, <2>1, <2>3, <2>4
<1>4. CASE Head(Left) = "GetPosition"
  <2>1. /\ ReadingAfter("GetPosition") =
              [reading EXCEPT !.lifecycle = DeriveLifecycleState(reading)]
        /\ RestAfter("GetPosition") = Tail(Left)
    BY DEF ReadingAfter, RestAfter, Left
  <2>2. DeriveLifecycleState(reading) \in Lifecycles
    BY DEF DeriveLifecycleState, Lifecycles
  <2> QED BY <1>2, <1>4, <2>1, <2>2 DEF Snapshots, TypeOK
<1> QED BY <1>3, <1>4

\* A call of a reading leaves everything but the reading and the call as it was.
LEMMA ReadFrame ==
    ASSUME Common, Method = "ReadState", Left # <<>>,
           UNCHANGED <<controller, driver, lost, jog_active, loaded, active,
                       latest, overtaken, late, incidents, doubt, stray>>,
           \E left : call' = [call EXCEPT !.rest = left],
           reading' \in Snapshots, RestIsTrue'
    PROVE  Common' /\ Method' = "ReadState"
<1>1. Method' = Method /\ call'.req = call.req /\ call'.ok = call.ok
      /\ call'.tolerant = call.tolerant
  BY DEF Common, CallOK, Method, Left
<1>2. CallOK'
  BY <1>1 DEF Common, CallOK, Method, Left
<1>3. TypeOK' /\ Connected' /\ ReadingKnown'
  BY <1>1 DEF Common, TypeOK, Connected, ReadingKnown
<1>4. JogsKnown' /\ MotionKnown'
  BY <1>1 DEF Common, JogsKnown, MotionKnown, Moves, Stopping, Halts, DidIt
<1>5. LatestKnown'
  BY <1>1 DEF Common, LatestKnown, NothingOn, NoProgram, Moves
<1> QED BY <1>1, <1>2, <1>3, <1>4, <1>5 DEF Common

\* The calls of a reading, one after the other.
LEMMA ReadCalls ==
    /\ Head(ReadState) = "IsConnected" /\ Tail(ReadState) = Read6
    /\ Head(Read6) = "GetRobotStatusData" /\ Tail(Read6) = Read5
    /\ Head(Read5) = "GetCurrentServoStatus" /\ Tail(Read5) = Read4
    /\ Head(Read4) = "GetCurrentEmgStatus" /\ Tail(Read4) = Read3
    /\ Head(Read3) = "GetCurrentAlarmStatus" /\ Tail(Read3) = Read2
    /\ Head(Read2) = "ReadMoveState" /\ Tail(Read2) = Read1
    /\ Head(Read1) = "GetPosition" /\ Tail(Read1) = <<>>
<1>1. Head(ReadState) = "IsConnected" /\ Tail(ReadState) = Read6
  BY DEF ReadState, Read6
<1>2. Head(Read6) = "GetRobotStatusData" /\ Tail(Read6) = Read5
  BY DEF Read6, Read5
<1>3. Head(Read5) = "GetCurrentServoStatus" /\ Tail(Read5) = Read4
  BY DEF Read5, Read4
<1>4. Head(Read4) = "GetCurrentEmgStatus" /\ Tail(Read4) = Read3
  BY DEF Read4, Read3
<1>5. Head(Read3) = "GetCurrentAlarmStatus" /\ Tail(Read3) = Read2
  BY DEF Read3, Read2
<1>6. Head(Read2) = "ReadMoveState" /\ Tail(Read2) = Read1
  BY DEF Read2, Read1
<1>7. Head(Read1) = "GetPosition" /\ Tail(Read1) = <<>>
  BY DEF Read1
<1> QED BY <1>1, <1>2, <1>3, <1>4, <1>5, <1>6, <1>7

\* A reading in progress goes on to its next call.
LEMMA ReadStateSteps ==
    ASSUME DriverInv, Method = "ReadState", StepSucceeds
    PROVE  DriverInv'
<1>1. Common /\ ReadStage /\ Left # <<>> /\ TypeOK /\ CallOK
  BY AnyStep DEF DriverInv, Stages, Common
<1>2. GoesOn
  BY <1>1 DEF ReadStage, DidIt, GaveUp
<1>3. UNCHANGED <<jog_active, loaded, active, latest, overtaken, late,
                  incidents, doubt, stray>>
  BY AnyStep
<1>0. SUFFICES Common' /\ Method' = "ReadState" /\ ReadStage'
  BY DEF DriverInv, Stages, Stopping, Halts, Moves, Simple
<1>4. CASE Left = ReadState
  <2>1. Head(Left) = "IsConnected" /\ Tail(Left) = Read6
    BY <1>4, ReadCalls
  <2>2. /\ UNCHANGED <<controller, driver, lost>> /\ reading' \in Snapshots
        /\ reading'.lifecycle = IF controller.link THEN "Unknown" ELSE "Disconnected"
        /\ call' = [call EXCEPT !.rest = IF controller.link THEN Tail(Left) ELSE <<>>]
    BY <1>1, <2>1, ReadEnds
  <2>3. Common' /\ Method' = "ReadState"
    BY <1>1, <1>3, <2>2, ReadFrame DEF RestIsTrue, AtRest
  <2>4. ReadStage'
    BY <1>1, <1>2, <2>1, <2>2 DEF ReadStage, GoesOn, DidIt, CallOK, Left
  <2> QED BY <2>3, <2>4
<1>5. CASE reading.lifecycle = "Unknown" /\ Left \in {Read6, Read5, Read4, Read3, Read2}
  <2>0. Head(Left) \in Questions
    BY <1>5, ReadCalls DEF Questions
  <2>1. /\ UNCHANGED <<controller, driver, lost>>
        /\ call' = [call EXCEPT !.rest = Tail(Left)]
        /\ reading' \in Snapshots /\ reading'.lifecycle = reading.lifecycle
    BY <1>1, <2>0, QuestionStep
  <2>3. Common' /\ Method' = "ReadState"
    BY <1>1, <1>3, <1>5, <2>1, ReadFrame DEF RestIsTrue, AtRest
  <2>4. GoesOn' /\ Left' = Tail(Left)
    BY <1>1, <1>2, <2>1 DEF GoesOn, CallOK, Left
  <2>5. CASE Left = Read6
    <3>1. Left' = Read5
      BY <2>4, <2>5, ReadCalls
    <3>2. reading'.paused = (controller.program = "Pause")
      BY <1>1, <2>0, <2>5, ReadCalls, QuestionStep
    <3>3. ProgramRead'
      BY <2>1, <3>2 DEF ProgramRead
    <3> QED BY <1>5, <2>1, <2>3, <2>4, <3>1, <3>3 DEF ReadStage
  <2>6. CASE Left \in {Read5, Read4, Read3}
    <3>1. ProgramRead
      <4>1. Left # ReadState /\ Left # Read6 /\ Left # Read1 /\ Left # <<>>
        BY <1>1, <2>6, ReadCalls
      <4> QED BY <1>1, <4>1 DEF ReadStage, DidIt, GaveUp
    <3>2. reading'.paused = reading.paused
      BY <1>1, <2>0, <2>6, ReadCalls, QuestionStep
    <3>3. ProgramRead' /\ Left' \in {Read4, Read3, Read2}
      BY <2>1, <2>4, <2>6, <3>1, <3>2, ReadCalls DEF ProgramRead
    <3> QED BY <1>5, <2>1, <2>3, <2>4, <3>3 DEF ReadStage
  <2>7. CASE Left = Read2
    <3>1. ProgramRead
      <4>1. Left # ReadState /\ Left # Read6 /\ Left # Read1 /\ Left # <<>>
        BY <1>1, <2>7, ReadCalls
      <4> QED BY <1>1, <4>1 DEF ReadStage, DidIt, GaveUp
    <3>2. Left' = Read1
      BY <2>4, <2>7, ReadCalls
    <3>3. /\ reading'.moving = Moving(controller)
          /\ reading'.paused = (reading.paused \/ driver.paused)
      BY <1>1, <2>0, <2>7, ReadCalls, QuestionStep
    <3>4. MotionRead'
      BY <2>1, <3>1, <3>3 DEF MotionRead, ProgramRead, Moving
    <3> QED BY <1>5, <2>1, <2>3, <2>4, <3>2, <3>4 DEF ReadStage
  <2> QED BY <1>5, <2>5, <2>6, <2>7
<1>6. CASE Left = Read1
  <2>1. /\ UNCHANGED <<controller, driver, lost>> /\ reading' \in Snapshots
        /\ reading' = [reading EXCEPT !.lifecycle = DeriveLifecycleState(reading)]
        /\ call' = [call EXCEPT !.rest = Tail(Left)]
    BY <1>1, <1>6, ReadCalls, ReadEnds
  <2>2. MotionRead
    <3>1. Left \notin {ReadState, Read6, Read5, Read4, Read3, Read2, <<>>}
      BY <1>1, <1>6, ReadCalls
    <3> QED BY <1>1, <3>1 DEF ReadStage, DidIt, GaveUp
  <2>3. /\ reading'.lifecycle = DeriveLifecycleState(reading)
        /\ reading'.moving = reading.moving /\ reading'.paused = reading.paused
    BY <1>1, <2>1 DEF TypeOK, Snapshots
  <2>4. AtRest' => ~reading'.moving /\ ~reading'.paused
    BY <2>3 DEF AtRest, DeriveLifecycleState
  <2>5. MotionRead'
    BY <2>1, <2>2, <2>3 DEF MotionRead, Moving
  <2>6. RestIsTrue'
    <3>1. Left # <<"SetPause">>
      BY <1>6, ReadCalls
    <3>2. controller.motion = "Held" => doubt \/ driver.paused
      BY <1>1, <3>1 DEF Common, MotionKnown, Stopping, Halts
    <3> QED BY <1>3, <2>1, <2>2, <2>3, <2>4, <3>2 DEF RestIsTrue, MotionRead, Moving
  <2>7. Common' /\ Method' = "ReadState"
    BY <1>1, <1>3, <2>1, <2>6, ReadFrame
  <2>8. DidIt'
    BY <1>1, <1>2, <1>6, <2>1, ReadCalls DEF GoesOn, DidIt, CallOK, Left
  <2> QED BY <2>4, <2>5, <2>7, <2>8 DEF ReadStage
<1> QED BY <1>1, <1>4, <1>5, <1>6 DEF ReadStage, DidIt, GaveUp

-----------------------------------------------------------------------------
\* The other calls that come up in more than one method.
LEMMA SameMethod ==
    ASSUME CallOK, StepSucceeds
    PROVE  /\ Method' = Method /\ call'.req = call.req
           /\ call'.ok = call.ok /\ call'.tolerant = call.tolerant
           /\ Left # <<>> /\ ~Refused(Head(Left))
           /\ Left' = RestAfter(Head(Left))
           /\ call' = [call EXCEPT !.rest = Left']
           /\ GoesOn' = GoesOn
           /\ UNCHANGED <<jog_active, loaded, active, latest, overtaken, late,
                          incidents, doubt, stray>>
BY AnyStep DEF CallOK, Method, Left, GoesOn

\* A call that only looks keeps what all methods rely on; it skips the stop of a
\* program or of a motion that is not there.
LEMMA QuietFrame ==
    ASSUME Common, StepSucceeds, Method # "Hold",
           Head(Left) \in Quiet \cup {"GetProStatus", "GetMoveState"}
    PROVE  /\ Common' /\ UNCHANGED <<controller, driver, lost>>
           /\ Left' = IF \/ Head(Left) = "GetProStatus" /\ NoProgram
                         \/ Head(Left) = "GetMoveState" /\ ~Moving(controller)
                      THEN Tail(Tail(Left)) ELSE Tail(Left)
<1>1. CallOK /\ controller \in Controllers
  BY DEF Common, TypeOK
<1>2. UNCHANGED <<controller, driver, reading, lost>>
  BY QuietStep, LookStep
<1>3. Calm(controller, controller')
  BY <1>1, <1>2 DEF Calm
<1>4. Common'
  BY <1>1, <1>2, <1>3, SameMethod, CalmFrame
<1>5. CASE Head(Left) \in Quiet
  <2>1. Left' = Tail(Left)
    BY <1>1, <1>5, QuietStep DEF CallOK, Left
  <2> QED BY <1>2, <1>4, <1>5, <2>1 DEF Quiet
<1>6. CASE Head(Left) \in {"GetProStatus", "GetMoveState"}
  BY <1>1, <1>2, <1>4, <1>6, LookStep DEF CallOK, Left
<1> QED BY <1>5, <1>6

\* Clearing the latched pause keeps what all methods rely on: nothing is held any more,
\* or the method is about to stop it.
LEMMA ClearPauseFrame ==
    ASSUME Common, StepSucceeds, Head(Left) = "ClearPause", Method # "Hold",
           controller.motion # "Held" \/ doubt \/ Method \in Stopping
    PROVE  /\ Common' /\ UNCHANGED <<controller, lost>>
           /\ driver'.jog = driver.jog /\ Left' = Tail(Left)
<1>1. CallOK /\ controller \in Controllers /\ driver \in Drivers
      /\ controller.jogs \subseteq lost \cup {driver.jog}
      /\ lost \subseteq 1..kEfortAxisCount
  BY DEF Common, TypeOK, JogsKnown
<1>2. /\ UNCHANGED <<controller, reading, lost>>
      /\ driver' = [driver EXCEPT !.paused = FALSE]
      /\ call' = [call EXCEPT !.rest = Tail(Left)]
  BY PauseStep
<1>3. /\ Calm(controller, controller')
      /\ driver' \in Drivers /\ driver'.connected = driver.connected
      /\ ~driver'.paused /\ driver'.jog = driver.jog
  BY <1>1, <1>2 DEF Calm, Drivers
<1>4. Common'
  BY <1>1, <1>2, <1>3, SameMethod, Frame
<1> QED BY <1>1, <1>2, <1>3, <1>4 DEF CallOK, Left

\* A calming call keeps what all methods rely on.
LEMMA CalmingFrame ==
    ASSUME Common, StepSucceeds, Head(Left) \in Calming, Method # "Hold"
    PROVE  /\ Common' /\ Calm(controller, controller') /\ UNCHANGED <<driver, lost>>
           /\ Left' = Tail(Left)
<1>1. CallOK /\ TypeOK
  BY DEF Common
<1>2. /\ Calm(controller, controller')
      /\ UNCHANGED <<driver, reading, lost>>
      /\ call' = [call EXCEPT !.rest = Tail(Left)]
  BY <1>1, CalmStep
<1>3. Common'
  BY <1>1, <1>2, SameMethod, CalmFrame
<1> QED BY <1>1, <1>2, <1>3 DEF CallOK, Left

\* A motion is put on hold, cleared or resumed by a method that knows it.
LEMMA HoldFrame ==
    ASSUME Common, StepSucceeds,
           \/ Head(Left) \in {"MOVEHOLD", "MOVECLEAR"} /\ Method \in Stopping
           \/ Head(Left) = "MOVERESUME" /\ Method = "Resume"
           \/ Head(Left) = "MOVEHOLD" /\ Method = "Hold" /\ Tail(Left) = <<"SetPause">>
    PROVE  Common' /\ Left' = Tail(Left)
<1>1. TypeOK /\ CallOK
  BY DEF Common
<1>2. /\ controller' \in Controllers
      /\ controller'.session = controller.session
      /\ controller'.jogs \subseteq controller.jogs
      /\ controller'.motion # "None" => controller.motion # "None"
      /\ controller'.motion = "Held" =>
             \/ controller.motion = "Held"
             \/ Method \in Stopping
             \/ Method = "Hold" /\ Tail(Left) = <<"SetPause">>
      /\ UNCHANGED <<driver, reading, lost>>
      /\ call' = [call EXCEPT !.rest = Tail(Left)]
  <2>1. /\ controller' \in Controllers
        /\ controller'.session = controller.session
        /\ controller'.jogs \subseteq controller.jogs
        /\ UNCHANGED <<driver, reading, lost>>
        /\ call' = [call EXCEPT !.rest = Tail(Left)]
    BY <1>1, HoldStep
  <2>2. CASE Head(Left) = "MOVEHOLD"
    <3>1. controller'.motion = IF controller.motion = "Running" THEN "Held"
                                                            ELSE controller.motion
      BY <1>1, <2>2, HoldStep
    <3> QED BY <2>1, <2>2, <3>1
  <2>3. CASE Head(Left) = "MOVECLEAR"
    <3>1. controller'.motion = IF controller.motion = "Held" THEN "None"
                                                            ELSE controller.motion
      BY <1>1, <2>3, HoldStep
    <3> QED BY <2>1, <2>3, <3>1
  <2>4. CASE Head(Left) = "MOVERESUME"
    <3>1. controller'.motion = IF controller.motion = "Held" THEN "Running"
                                                            ELSE controller.motion
      BY <1>1, <2>4, HoldStep
    <3> QED BY <2>1, <2>4, <3>1
  <2> QED BY <2>2, <2>3, <2>4
<1>3. /\ Method' = Method /\ call'.req = call.req /\ call'.ok = call.ok
      /\ Left # <<>> /\ call'.tolerant = call.tolerant
      /\ UNCHANGED <<jog_active, loaded, active, latest, overtaken, late,
                     incidents, doubt, stray>>
  BY <1>1, SameMethod
<1>4. Left' = Tail(Left)
  BY <1>1, <1>2 DEF CallOK, Left
<1>5. TypeOK' /\ CallOK' /\ Connected'
  BY <1>1, <1>2, <1>3 DEF Common, TypeOK, CallOK, Connected, Method, Left
<1>6. JogsKnown'
  BY <1>2, <1>3 DEF Common, JogsKnown, DidIt
<1>7. MotionKnown'
  BY <1>2, <1>3, <1>4 DEF Common, MotionKnown, DidIt, Stopping, Halts
<1>8. ReadingKnown'
  BY <1>2, <1>3, NoSnapshotMeans
     DEF Common, ReadingKnown, RestIsTrue, AtRest, Stopping, Halts
<1>9. LatestKnown'
  <2>1. CASE Method \in Stopping
    <3>1. NothingOn => NothingOn'
      <4>1. controller'.motion # "None" => controller.motion # "None"
        BY <1>2
      <4>2. NoProgram => NoProgram'
        BY <1>1, <2>1, HoldStep DEF NoProgram, Stopping, Halts
      <4> QED BY <1>2, <4>1, <4>2 DEF NothingOn
    <3> QED BY <1>2, <1>3, <2>1, <3>1
            DEF Common, LatestKnown, Admissible, Stopping, Halts, Moves
  <2>2. CASE Method \in {"Hold", "Resume"}
    BY <1>3, <2>2 DEF Common, LatestKnown, Admissible
  <2> QED BY <2>1, <2>2
<1> QED BY <1>4, <1>5, <1>6, <1>7, <1>8, <1>9 DEF Common

\* JogStop is done when the SDK has returned.
LEMMA JogStopLeft ==
    ASSUME CallOK, StepSucceeds, Head(Left) = "JogStop"
    PROVE  Left' = Tail(Left)
<1>1. RestAfter("JogStop") = Tail(Left)
  BY DEF RestAfter, Left
<1> QED BY <1>1, SameMethod

-----------------------------------------------------------------------------
\* Method by method: a call that succeeds leaves the next one in its place.
LEMMA StopSteps ==
    ASSUME DriverInv, Method \in Stopping, StepSucceeds
    PROVE  DriverInv'
<1>1. Common /\ StopStage /\ Left # <<>> /\ TypeOK /\ CallOK
  BY AnyStep DEF DriverInv, Stages, Common
<1>2. GoesOn /\ Method # "Hold"
  BY <1>1 DEF StopStage, DidIt, GaveUp, Stopping, Halts
<1>3. /\ Method' = Method /\ GoesOn' /\ ~Refused(Head(Left))
      /\ Method' \in Stopping
  BY <1>1, <1>2, SameMethod
<1>0. SUFFICES Common' /\ StopStage'
  BY <1>3 DEF DriverInv, Stages, Stopping, Halts, Moves, Simple
<1>4. CASE Left = <<"Refuse">>
  BY <1>3, <1>4 DEF Refused
<1>5. CASE Head(Left) = "JogStop"
  <2>1. Common' /\ JogOver' /\ Left' = Tail(Left)
    BY <1>1, <1>2, <1>5, JogEndFrame, JogStopLeft DEF JogOver
  <2>2. CASE Left = PowerOff
    <3>1. Left' = <<"ClearPause", "PowerOff">>
      BY <2>1, <2>2 DEF PowerOff
    <3> QED BY <1>3, <2>1, <3>1 DEF StopStage
  <2>3. CASE Left = ControlledStop
    <3>1. Left' = <<"ClearPause", "GetProStatus", "StopProgram", "GetMoveState",
                    "MOVEHOLD", "MOVECLEAR">>
      BY <2>1, <2>3 DEF ControlledStop
    <3> QED BY <1>3, <2>1, <3>1 DEF StopStage
  <2>4. CASE Left = <<"JogStop", "ClearPause", "JogStop", "ClearPause", "PowerOff">>
    <3>1. Left' = <<"ClearPause", "JogStop", "ClearPause", "PowerOff">>
      BY <2>1, <2>4
    <3> QED BY <1>3, <2>1, <3>1 DEF StopStage
  <2> QED BY <1>1, <1>5, <2>2, <2>3, <2>4 DEF StopStage, DidIt, GaveUp
<1>6. CASE Head(Left) = "ClearPause"
  <2>1. /\ Common' /\ UNCHANGED <<controller, lost>>
        /\ driver'.jog = driver.jog /\ Left' = Tail(Left)
    BY <1>1, <1>2, <1>6, ClearPauseFrame
  <2>2. JogOver'
    BY <1>1, <1>6, <2>1 DEF StopStage, DidIt, GaveUp, PowerOff, ControlledStop, JogOver
  <2>3. CASE Left = <<"ClearPause", "PowerOff">>
    <3>1. Left' = <<"PowerOff">>
      BY <2>1, <2>3
    <3> QED BY <1>3, <2>1, <2>2, <3>1 DEF StopStage
  <2>4. CASE Left = <<"ClearPause", "JogStop", "ClearPause", "PowerOff">>
    <3>1. Left' = PowerOff
      BY <2>1, <2>4 DEF PowerOff
    <3> QED BY <1>3, <2>1, <3>1 DEF StopStage
  <2>5. CASE Left = <<"ClearPause", "GetProStatus", "StopProgram",
                      "GetMoveState", "MOVEHOLD", "MOVECLEAR">>
    <3>1. Left' = <<"GetProStatus", "StopProgram", "GetMoveState", "MOVEHOLD", "MOVECLEAR">>
      BY <2>1, <2>5
    <3> QED BY <1>3, <2>1, <2>2, <3>1 DEF StopStage
  <2> QED BY <1>1, <1>6, <2>3, <2>4, <2>5
          DEF StopStage, DidIt, GaveUp, PowerOff, ControlledStop
<1>7. CASE JogOver /\ Left = <<"PowerOff">>
  <2>1. Head(Left) = "PowerOff" /\ Tail(Left) = <<>>
    BY <1>7
  <2>2. /\ Common' /\ UNCHANGED <<driver, lost>> /\ Left' = <<>>
    BY <1>1, <1>2, <2>1, CalmingFrame DEF Calming
  <2>3. NoProgram' /\ controller'.motion = "None"
    BY <1>1, <2>1, CalmStep DEF Calming
  <2> QED BY <1>3, <1>7, <2>2, <2>3 DEF StopStage, DidIt, GoesOn, JogOver
<1>8. CASE JogOver /\ Left = <<"GetProStatus", "StopProgram", "GetMoveState",
                              "MOVEHOLD", "MOVECLEAR">>
  <2>1. /\ Head(Left) = "GetProStatus"
        /\ Tail(Left) = <<"StopProgram", "GetMoveState", "MOVEHOLD", "MOVECLEAR">>
        /\ Tail(Tail(Left)) = <<"GetMoveState", "MOVEHOLD", "MOVECLEAR">>
    BY <1>8
  <2>2. /\ Common' /\ UNCHANGED <<controller, driver, lost>>
        /\ Left' = IF NoProgram THEN Tail(Tail(Left)) ELSE Tail(Left)
    BY <1>1, <1>2, <2>1, QuietFrame
  <2> QED BY <1>3, <1>8, <2>1, <2>2 DEF StopStage, JogOver, NoProgram
<1>9. CASE JogOver /\ Left = <<"StopProgram", "GetMoveState", "MOVEHOLD", "MOVECLEAR">>
  <2>1. /\ Head(Left) = "StopProgram"
        /\ Tail(Left) = <<"GetMoveState", "MOVEHOLD", "MOVECLEAR">>
    BY <1>9
  <2>2. /\ Common' /\ UNCHANGED <<driver, lost>> /\ Left' = Tail(Left)
    BY <1>1, <1>2, <2>1, CalmingFrame DEF Calming
  <2>3. NoProgram'
    BY <1>1, <2>1, CalmStep DEF Calming
  <2> QED BY <1>3, <1>9, <2>1, <2>2, <2>3 DEF StopStage, JogOver
<1>10. CASE JogOver /\ NoProgram /\ Left = <<"GetMoveState", "MOVEHOLD", "MOVECLEAR">>
  <2>1. /\ Head(Left) = "GetMoveState"
        /\ Tail(Left) = <<"MOVEHOLD", "MOVECLEAR">> /\ Tail(Tail(Left)) = <<"MOVECLEAR">>
    BY <1>10
  <2>2. /\ Common' /\ UNCHANGED <<controller, driver, lost>>
        /\ Left' = IF ~Moving(controller) THEN Tail(Tail(Left)) ELSE Tail(Left)
    BY <1>1, <1>2, <2>1, QuietFrame
  <2>3. CASE Moving(controller)
    BY <1>3, <1>10, <2>1, <2>2, <2>3 DEF StopStage, JogOver, NoProgram
  <2>4. CASE ~Moving(controller)
    <3>1. controller'.motion # "Running"
      BY <2>2, <2>4 DEF Moving
    <3> QED BY <1>3, <1>10, <2>1, <2>2, <2>4, <3>1 DEF StopStage, JogOver, NoProgram
  <2> QED BY <2>3, <2>4
<1>11. CASE JogOver /\ NoProgram /\ Left = <<"MOVEHOLD", "MOVECLEAR">>
  <2>1. Head(Left) = "MOVEHOLD" /\ Tail(Left) = <<"MOVECLEAR">>
    BY <1>11
  <2>2. /\ NoProgram' /\ UNCHANGED <<driver, lost>>
        /\ controller'.motion # "Running"
    BY <1>1, <1>11, <2>1, HoldStep
  <2>3. Common' /\ Left' = Tail(Left)
    BY <1>1, <1>2, <2>1, HoldFrame
  <2> QED BY <1>3, <1>11, <2>1, <2>2, <2>3 DEF StopStage, JogOver
<1>12. CASE JogOver /\ NoProgram /\ controller.motion # "Running" /\ Left = <<"MOVECLEAR">>
  <2>1. Head(Left) = "MOVECLEAR" /\ Tail(Left) = <<>>
    BY <1>12
  <2>2. /\ NoProgram' /\ UNCHANGED <<driver, lost>>
        /\ controller'.motion = "None"
    BY <1>1, <1>12, <2>1, HoldStep DEF NoProgram, TypeOK, Controllers
  <2>3. Common' /\ Left' = Tail(Left)
    BY <1>1, <1>2, <2>1, HoldFrame
  <2> QED BY <1>3, <1>12, <2>1, <2>2, <2>3 DEF StopStage, JogOver, DidIt, GoesOn
<1> QED BY <1>1, <1>2, <1>4, <1>5, <1>6, <1>7, <1>8, <1>9, <1>10, <1>11, <1>12
        DEF StopStage, DidIt, GaveUp, PowerOff, ControlledStop

\* Opening or closing the session keeps what all methods rely on: the session is
\* closed only when no jog is known and nothing is held unknown to the driver.
LEMMA SessionFrame ==
    ASSUME Common, StepSucceeds, Method \in {"Connect", "Disconnect"},
           Head(Left) \in {"ConnectRobot", "DisconnectRobot"},
           Head(Left) = "DisconnectRobot" =>
              JogOver /\ (controller.motion # "Held" \/ doubt \/ ~driver.paused)
    PROVE  /\ Common' /\ Left' = Tail(Left)
           /\ controller'.motion = controller.motion
           /\ driver' = IF Head(Left) = "ConnectRobot"
                        THEN [driver EXCEPT !.connected = TRUE] ELSE Fresh
<1>1. TypeOK /\ CallOK /\ Connected /\ JogsKnown /\ MotionKnown
  BY DEF Common
<1>2. /\ driver' = IF Head(Left) = "ConnectRobot"
                    THEN [driver EXCEPT !.connected = TRUE] ELSE Fresh
      /\ UNCHANGED <<reading, lost>>
      /\ call' = [call EXCEPT !.rest = Tail(Left)]
  BY SessionStep
<1>3. /\ Method' = Method /\ call'.req = call.req /\ call'.ok = call.ok
      /\ Left # <<>> /\ call'.tolerant = call.tolerant
      /\ UNCHANGED <<jog_active, loaded, active, latest, overtaken, late,
                     incidents, doubt, stray>>
  BY <1>1, SameMethod
<1>4. Left' = Tail(Left)
  BY <1>1, <1>2 DEF CallOK, Left
<1>5. PICK s \in BOOLEAN :
         /\ controller' = [controller EXCEPT !.session = s]
         /\ Head(Left) = "ConnectRobot" => s = TRUE
         /\ Head(Left) = "DisconnectRobot" => (s => stray)
  <2>1. CASE Head(Left) = "ConnectRobot"
    BY <2>1, SessionStep
  <2>2. CASE Head(Left) = "DisconnectRobot"
    <3>1. PICK left \in {FALSE, stray} :
             controller' = [controller EXCEPT !.session = left]
      BY <2>2, SessionStep
    <3>2. left \in BOOLEAN
      BY <1>1 DEF TypeOK
    <3>3. left => stray
      OBVIOUS
    <3>4. Head(Left) # "ConnectRobot"
      BY <2>2
    <3> QED BY <3>1, <3>2, <3>3, <3>4
  <2> QED BY <2>1, <2>2
<1>6. /\ controller' \in Controllers /\ controller'.motion = controller.motion
      /\ controller'.jogs = controller.jogs /\ controller'.program = controller.program
      /\ controller'.session = s
  BY <1>1, <1>5 DEF TypeOK, Controllers
<1>7. /\ driver' \in Drivers
      /\ Head(Left) = "ConnectRobot" =>
            driver'.connected /\ driver'.jog = driver.jog /\ driver'.paused = driver.paused
      /\ Head(Left) = "DisconnectRobot" =>
            ~driver'.connected /\ driver'.jog = 0 /\ ~driver'.paused
  <2>1. CASE Head(Left) = "ConnectRobot"
    <3>1. driver' = [driver EXCEPT !.connected = TRUE]
      BY <1>2, <2>1
    <3> QED BY <1>1, <2>1, <3>1 DEF TypeOK, Drivers
  <2>2. CASE Head(Left) = "DisconnectRobot"
    <3>1. driver' = Fresh
      BY <1>2, <2>2
    <3>2. Fresh \in Drivers
      BY DEF Drivers, Fresh, kEfortAxisCount
    <3>3. driver'.connected = FALSE /\ driver'.paused = FALSE /\ driver'.jog = 0
      BY <3>1 DEF Fresh
    <3> QED BY <2>2, <3>1, <3>2, <3>3
  <2> QED BY <2>1, <2>2
<1>8. TypeOK' /\ CallOK'
  BY <1>1, <1>2, <1>3, <1>6, <1>7 DEF TypeOK, CallOK, Method, Left
<1>9. Connected'
  <2>1. CASE Head(Left) = "ConnectRobot"
    BY <1>1, <1>5, <1>6, <1>7, <2>1 DEF Connected
  <2>2. CASE Head(Left) = "DisconnectRobot"
    <3>1. controller'.session => stray'
      BY <1>3, <1>5, <1>6, <2>2
    <3> QED BY <1>7, <2>2, <3>1 DEF Connected
  <2> QED BY <2>1, <2>2
<1>10. JogsKnown'
  BY <1>1, <1>2, <1>3, <1>6, <1>7 DEF JogsKnown, JogOver, DidIt
<1>11. MotionKnown'
  BY <1>1, <1>2, <1>3, <1>6, <1>7 DEF MotionKnown, DidIt, Stopping, Halts, Moves
<1>12. ReadingKnown'
  <2>1. Moving(controller') = Moving(controller) /\ (driver'.paused => driver.paused)
    BY <1>6, <1>7 DEF Moving
  <2>2. MotionRead => MotionRead'
    BY <1>2, <1>6, <2>1 DEF MotionRead
  <2>3. RestIsTrue'
    BY <1>2, <1>3, <1>6, <2>1 DEF Common, ReadingKnown, RestIsTrue, AtRest
  <2> QED BY <1>2, <1>3, <2>2, <2>3 DEF Common, ReadingKnown
<1>13. LatestKnown'
  BY <1>2, <1>3, <1>6 DEF Common, LatestKnown, NothingOn, NoProgram, Moves
<1> QED BY <1>2, <1>4, <1>6, <1>8, <1>9, <1>10, <1>11, <1>12, <1>13 DEF Common

\* Connect: the session is open or is being given back, call by call.
LEMMA ConnectSteps ==
    ASSUME DriverInv, Method = "Connect", StepSucceeds
    PROVE  DriverInv'
<1>1. Common /\ ConnectStage /\ Left # <<>> /\ TypeOK /\ CallOK
  BY AnyStep DEF DriverInv, Stages, Common
<1>2. /\ Method' = "Connect" /\ call'.ok = call.ok /\ call'.tolerant = call.tolerant
      /\ GoesOn' = GoesOn
  BY <1>1, SameMethod
<1>0. SUFFICES Common' /\ ConnectStage'
  BY <1>2 DEF DriverInv, Stages, Stopping, Halts, Moves, Simple
<1>3. CASE GoesOn /\ Left = <<"ConnectRobot", "GetCurrentRobotType">>
  <2>1. Head(Left) = "ConnectRobot" /\ Tail(Left) = <<"GetCurrentRobotType">>
    BY <1>3
  <2>2. /\ Common' /\ Left' = Tail(Left)
        /\ driver' = [driver EXCEPT !.connected = TRUE]
    BY <1>1, <2>1, SessionFrame
  <2>3. ~driver'.paused
    BY <1>1, <2>2 DEF ConnectStage, TypeOK, Drivers
  <2> QED BY <1>2, <1>3, <2>1, <2>2, <2>3 DEF ConnectStage
<1>4. CASE GoesOn /\ Left = <<"GetCurrentRobotType">>
  <2>1. Head(Left) \in Quiet /\ Tail(Left) = <<>> /\ Head(Left) = "GetCurrentRobotType"
    BY <1>4 DEF Quiet
  <2>2. /\ Common' /\ Left' = <<>> /\ driver' = driver
    BY <1>1, <2>1, QuietFrame
  <2> QED BY <1>1, <1>2, <1>4, <2>2 DEF ConnectStage, GoesOn, DidIt
<1>5. CASE ~call.ok /\ call.tolerant /\ Left = Disconnect
  <2>1. Head(Left) = "JogStop" /\ Tail(Left) = <<"ApiRelease", "DisconnectRobot">>
    BY <1>5 DEF Disconnect
  <2>2. Common' /\ JogOver' /\ Left' = Tail(Left)
    BY <1>1, <2>1, JogEndFrame, JogStopLeft DEF JogOver
  <2>3. ~driver'.paused
    BY <1>1, <2>1, JogStopStep DEF ConnectStage, TypeOK, Drivers
  <2> QED BY <1>2, <1>5, <2>1, <2>2, <2>3 DEF ConnectStage, Leaving
<1>6. CASE /\ ~call.ok /\ call.tolerant /\ JogOver
           /\ Left = <<"ApiRelease", "DisconnectRobot">>
  <2>1. Head(Left) = "ApiRelease" /\ Tail(Left) = <<"DisconnectRobot">>
    BY <1>6
  <2>2. Common' /\ UNCHANGED driver /\ Left' = Tail(Left)
    BY <1>1, <2>1, CalmingFrame DEF Calming
  <2> QED BY <1>1, <1>2, <1>6, <2>1, <2>2 DEF ConnectStage, JogOver, Leaving
<1>7. CASE ~call.ok /\ call.tolerant /\ JogOver /\ Left = <<"DisconnectRobot">>
  <2>1. Head(Left) = "DisconnectRobot" /\ Tail(Left) = <<>>
    BY <1>7
  <2>2. Common' /\ Left' = <<>> /\ driver' = Fresh
    BY <1>1, <1>7, <2>1, SessionFrame DEF ConnectStage
  <2> QED BY <1>2, <1>7, <2>2 DEF ConnectStage, GaveUp, Fresh
<1> QED BY <1>1, <1>3, <1>4, <1>5, <1>6, <1>7 DEF ConnectStage, Leaving, DidIt, GaveUp

\* Disconnect: the jog is stopped before the session is closed.
LEMMA DisconnectSteps ==
    ASSUME DriverInv, Method = "Disconnect", StepSucceeds
    PROVE  DriverInv'
<1>1. Common /\ DisconnectStage /\ Left # <<>> /\ TypeOK /\ CallOK
  BY AnyStep DEF DriverInv, Stages, Common
<1>2. Method' = "Disconnect" /\ call'.tolerant = call.tolerant /\ doubt' = doubt
  BY <1>1, SameMethod
<1>0. SUFFICES Common' /\ DisconnectStage'
  BY <1>2 DEF DriverInv, Stages, Stopping, Halts, Moves, Simple
<1>6. CASE Left = <<"ApiDrop", "JogStop", "ApiRelease", "DisconnectRobot">>
  <2>1. Head(Left) = "ApiDrop" /\ Tail(Left) = Disconnect
    BY <1>6 DEF Disconnect
  <2>2. /\ Common' /\ Calm(controller, controller') /\ Left' = Tail(Left)
    BY <1>1, <2>1, CalmingFrame DEF Calming
  <2> QED BY <1>1, <1>2, <2>1, <2>2 DEF DisconnectStage, Calm
<1>3. CASE Left = Disconnect
  <2>1. Head(Left) = "JogStop" /\ Tail(Left) = <<"ApiRelease", "DisconnectRobot">>
    BY <1>3 DEF Disconnect
  <2>2. Common' /\ JogOver' /\ Left' = Tail(Left)
    BY <1>1, <2>1, JogEndFrame, JogStopLeft DEF JogOver
  <2>3. controller'.motion = controller.motion
    BY <1>1, <2>1, JogStopStep DEF TypeOK, Controllers
  <2> QED BY <1>1, <1>2, <2>1, <2>2, <2>3 DEF DisconnectStage, Leaving
<1>4. CASE JogOver /\ Left = <<"ApiRelease", "DisconnectRobot">>
  <2>1. Head(Left) = "ApiRelease" /\ Tail(Left) = <<"DisconnectRobot">>
    BY <1>4
  <2>2. /\ Common' /\ Calm(controller, controller') /\ UNCHANGED driver
        /\ Left' = Tail(Left)
    BY <1>1, <2>1, CalmingFrame DEF Calming
  <2> QED BY <1>1, <1>2, <1>4, <2>1, <2>2 DEF DisconnectStage, Leaving, JogOver, Calm
<1>5. CASE JogOver /\ Left = <<"DisconnectRobot">>
  <2>1. Head(Left) = "DisconnectRobot" /\ Tail(Left) = <<>>
    BY <1>5
  <2>2. /\ Common' /\ Left' = <<>> /\ driver' = Fresh
        /\ controller'.motion = controller.motion
    BY <1>1, <1>5, <2>1, SessionFrame DEF DisconnectStage
  <2> QED BY <1>1, <1>2, <2>2 DEF DisconnectStage, JogOver, Fresh
<1> QED BY <1>1, <1>3, <1>4, <1>5, <1>6 DEF DisconnectStage, Leaving

\* Jog: the axis that jogs is the one the driver knows of.
LEMMA JogSteps ==
    ASSUME DriverInv, Method = "Jog", StepSucceeds
    PROVE  DriverInv'
<1> DEFINE p == call.req.payload
<1>1. Common /\ JogStage /\ Left # <<>> /\ TypeOK /\ CallOK /\ JogsKnown
  BY AnyStep DEF DriverInv, Stages, Common
<1>2. /\ Method' = "Jog" /\ call'.req = call.req /\ ~Refused(Head(Left))
      /\ GoesOn' = GoesOn /\ GoesOn
      /\ UNCHANGED <<jog_active, loaded, active, latest, overtaken, late,
                     incidents, doubt, stray>>
  BY <1>1, SameMethod DEF JogStage, DidIt, GaveUp
<1>0. SUFFICES Common' /\ JogStage'
  BY <1>2 DEF DriverInv, Stages, Stopping, Halts, Moves, Simple
<1>3. CASE Left = <<"Refuse">>
  BY <1>2, <1>3 DEF Refused
<1>4. CASE Left = <<"JogStop">> /\ ~p.start
  <2>1. Head(Left) = "JogStop" /\ Tail(Left) = <<>>
    BY <1>4
  <2>2. Common' /\ JogOver' /\ Left' = <<>>
    BY <1>1, <2>1, JogEndFrame, JogStopLeft DEF JogOver
  <2> QED BY <1>1, <1>2, <2>2 DEF JogStage, DidIt, GoesOn
<1>5. CASE p.start /\ p.axis \in 1..kEfortAxisCount /\ Left = NewJog
  <2>1. Head(Left) = "JogStop" /\ Tail(Left) = <<"SetJogMode", "JogStart">>
    BY <1>5 DEF NewJog
  <2>2. Common' /\ JogOver' /\ Left' = Tail(Left)
    BY <1>1, <2>1, JogEndFrame, JogStopLeft DEF JogOver
  <2> QED BY <1>1, <1>2, <1>5, <2>1, <2>2 DEF JogStage
<1>6. CASE /\ p.start /\ p.axis \in 1..kEfortAxisCount /\ JogOver
           /\ Left = <<"SetJogMode", "JogStart">>
  <2>1. Head(Left) = "SetJogMode" /\ Tail(Left) = <<"JogStart">>
    BY <1>6
  <2>2. Common' /\ driver' = driver /\ Left' = Tail(Left)
    BY <1>1, <2>1, QuietFrame DEF Quiet
  <2> QED BY <1>1, <1>2, <1>6, <2>1, <2>2 DEF JogStage, JogOver
<1>7. CASE p.start /\ p.axis \in 1..kEfortAxisCount /\ JogOver /\ Left = <<"JogStart">>
  <2>1. Head(Left) = "JogStart" /\ Tail(Left) = <<>>
    BY <1>7
  <2>2. /\ controller' = [controller EXCEPT !.jogs = @ \cup {p.axis}]
        /\ driver' = [driver EXCEPT !.jog = p.axis]
        /\ reading' = reading
        /\ lost' = lost \ {p.axis}
        /\ call' = [call EXCEPT !.rest = <<>>]
    BY <2>1, JogStartStep
  <2>3. DidIt' /\ CallOK'
    BY <1>1, <1>2, <2>2 DEF DidIt, GoesOn, CallOK, Method, Left
  <2>4. /\ controller' \in Controllers /\ driver' \in Drivers
        /\ controller'.motion = controller.motion
        /\ controller'.session = controller.session
        /\ controller'.program = controller.program
        /\ controller'.jogs = controller.jogs \cup {p.axis}
        /\ driver'.connected = driver.connected /\ driver'.paused = driver.paused
        /\ driver'.jog = p.axis
    BY <1>1, <1>7, <2>2 DEF TypeOK, Controllers, Drivers, kEfortAxisCount
  <2>5. controller.jogs \subseteq lost
    BY <1>1, <1>7 DEF JogsKnown, JogOver, TypeOK, Controllers, kEfortAxisCount
  <2>6. TypeOK'
    BY <1>1, <1>2, <2>2, <2>3, <2>4 DEF TypeOK, CallOK
  <2>7. JogsKnown'
    BY <1>2, <1>7, <2>2, <2>3, <2>4, <2>5 DEF JogsKnown
  <2>8. Connected' /\ MotionKnown'
    <3>1. Left # <<"SetPause">> /\ Method \notin Moves
      BY <1>7 DEF Moves
    <3> QED BY <1>1, <1>2, <2>4, <3>1
            DEF Common, Connected, MotionKnown, Stopping, Halts
  <2>9. ReadingKnown' /\ LatestKnown'
    BY <1>1, <1>2, <2>2, NoSnapshotMeans
       DEF Common, ReadingKnown, RestIsTrue, AtRest, LatestKnown, Admissible
  <2> QED BY <1>1, <1>2, <1>7, <2>3, <2>6, <2>7, <2>8, <2>9 DEF Common, JogStage
<1> QED BY <1>1, <1>3, <1>4, <1>5, <1>6, <1>7 DEF JogStage, DidIt, GaveUp

\* The last call of a motion command starts it; the others change nothing that moves.
LEMMA MoveCalls ==
    ASSUME NEW left \in MoveLeft
    PROVE  \/ /\ Head(left) \in {"MJOINT", "MLIN", "MCIRC"} /\ Tail(left) = <<>>
           \/ /\ Head(left) \in {"CheckTarget", "SetTool", "SetUframe", "ClearPause"}
              /\ Tail(left) \in MoveLeft
<1>1. CASE left \in {<<"CheckTarget", "ClearPause", "MJOINT">>,
                     <<"ClearPause", "MJOINT">>, <<"MJOINT">>}
  <2>1. CASE left = <<"CheckTarget", "ClearPause", "MJOINT">>
    <3>1. Head(left) = "CheckTarget" /\ Tail(left) = <<"ClearPause", "MJOINT">>
      BY <2>1
    <3> QED BY <3>1 DEF MoveLeft
  <2>2. CASE left = <<"ClearPause", "MJOINT">>
    <3>1. Head(left) = "ClearPause" /\ Tail(left) = <<"MJOINT">>
      BY <2>2
    <3> QED BY <3>1 DEF MoveLeft
  <2>3. CASE left = <<"MJOINT">>
    BY <2>3
  <2> QED BY <1>1, <2>1, <2>2, <2>3
<1>2. CASE left \in {<<"SetTool", "SetUframe", "CheckTarget", "ClearPause", "MLIN">>,
                     <<"SetUframe", "CheckTarget", "ClearPause", "MLIN">>,
                     <<"CheckTarget", "ClearPause", "MLIN">>,
                     <<"ClearPause", "MLIN">>, <<"MLIN">>}
  <2>1. CASE left = <<"SetTool", "SetUframe", "CheckTarget", "ClearPause", "MLIN">>
    <3>1. /\ Head(left) = "SetTool"
          /\ Tail(left) = <<"SetUframe", "CheckTarget", "ClearPause", "MLIN">>
      BY <2>1
    <3> QED BY <3>1 DEF MoveLeft
  <2>2. CASE left = <<"SetUframe", "CheckTarget", "ClearPause", "MLIN">>
    <3>1. /\ Head(left) = "SetUframe"
          /\ Tail(left) = <<"CheckTarget", "ClearPause", "MLIN">>
      BY <2>2
    <3> QED BY <3>1 DEF MoveLeft
  <2>3. CASE left = <<"CheckTarget", "ClearPause", "MLIN">>
    <3>1. Head(left) = "CheckTarget" /\ Tail(left) = <<"ClearPause", "MLIN">>
      BY <2>3
    <3> QED BY <3>1 DEF MoveLeft
  <2>4. CASE left = <<"ClearPause", "MLIN">>
    <3>1. Head(left) = "ClearPause" /\ Tail(left) = <<"MLIN">>
      BY <2>4
    <3> QED BY <3>1 DEF MoveLeft
  <2>5. CASE left = <<"MLIN">>
    BY <2>5
  <2> QED BY <1>2, <2>1, <2>2, <2>3, <2>4, <2>5
<1>3. CASE left \in {<<"SetTool", "SetUframe", "CheckTarget", "CheckTarget",
                       "ClearPause", "MCIRC">>,
                     <<"SetUframe", "CheckTarget", "CheckTarget", "ClearPause", "MCIRC">>,
                     <<"CheckTarget", "CheckTarget", "ClearPause", "MCIRC">>,
                     <<"CheckTarget", "ClearPause", "MCIRC">>,
                     <<"ClearPause", "MCIRC">>, <<"MCIRC">>}
  <2>1. CASE left = <<"SetTool", "SetUframe", "CheckTarget", "CheckTarget",
                      "ClearPause", "MCIRC">>
    <3>1. /\ Head(left) = "SetTool"
          /\ Tail(left) =
                <<"SetUframe", "CheckTarget", "CheckTarget", "ClearPause", "MCIRC">>
      BY <2>1
    <3> QED BY <3>1 DEF MoveLeft
  <2>2. CASE left = <<"SetUframe", "CheckTarget", "CheckTarget", "ClearPause", "MCIRC">>
    <3>1. /\ Head(left) = "SetUframe"
          /\ Tail(left) = <<"CheckTarget", "CheckTarget", "ClearPause", "MCIRC">>
      BY <2>2
    <3> QED BY <3>1 DEF MoveLeft
  <2>3. CASE left = <<"CheckTarget", "CheckTarget", "ClearPause", "MCIRC">>
    <3>1. /\ Head(left) = "CheckTarget"
          /\ Tail(left) = <<"CheckTarget", "ClearPause", "MCIRC">>
      BY <2>3
    <3> QED BY <3>1 DEF MoveLeft
  <2>4. CASE left = <<"CheckTarget", "ClearPause", "MCIRC">>
    <3>1. Head(left) = "CheckTarget" /\ Tail(left) = <<"ClearPause", "MCIRC">>
      BY <2>4
    <3> QED BY <3>1 DEF MoveLeft
  <2>5. CASE left = <<"ClearPause", "MCIRC">>
    <3>1. Head(left) = "ClearPause" /\ Tail(left) = <<"MCIRC">>
      BY <2>5
    <3> QED BY <3>1 DEF MoveLeft
  <2>6. CASE left = <<"MCIRC">>
    BY <2>6
  <2> QED BY <1>3, <2>1, <2>2, <2>3, <2>4, <2>5, <2>6
<1> QED BY <1>1, <1>2, <1>3 DEF MoveLeft

\* MoveJ, MoveL and MoveC: the path starts from rest.
LEMMA MoveSteps ==
    ASSUME DriverInv, Method \in Moves, StepSucceeds
    PROVE  DriverInv'
<1>1. Common /\ MoveStage /\ Left # <<>> /\ TypeOK /\ CallOK
  BY AnyStep DEF DriverInv, Stages, Common, Moves
<1>2. /\ Method' = Method /\ call'.req = call.req /\ ~Refused(Head(Left))
      /\ GoesOn' = GoesOn /\ GoesOn /\ call'.ok = call.ok /\ call'.tolerant = call.tolerant
      /\ UNCHANGED <<jog_active, loaded, active, latest, overtaken, late,
                     incidents, doubt, stray>>
  BY <1>1, SameMethod DEF MoveStage, StartStage, DidIt, GaveUp
<1>3. Method # "Hold"
  BY DEF Moves
<1>0. SUFFICES Common' /\ MoveStage'
  BY <1>2 DEF DriverInv, Stages, Stopping, Halts, Moves, Simple
<1>4. CASE Left = <<"Refuse">>
  BY <1>2, <1>4 DEF Refused
<1>5. ASSUME Left \in MoveLeft, FromRest, Tail(Left) \in MoveLeft,
             Head(Left) \in {"CheckTarget", "SetTool", "SetUframe", "ClearPause"}
      PROVE  Common' /\ MoveStage'
  <2>1. Common' /\ UNCHANGED <<controller, lost>> /\ Left' = Tail(Left)
    <3>1. CASE Head(Left) = "ClearPause"
      <4>1. controller.motion # "Held" \/ doubt
        BY <1>1 DEF Common, MotionKnown, MoveStage, StartStage, DidIt
      <4> QED BY <1>1, <1>3, <1>5, <3>1, <4>1, ClearPauseFrame
    <3>2. CASE Head(Left) # "ClearPause"
      BY <1>1, <1>3, <1>5, <3>2, QuietFrame DEF Quiet
    <3> QED BY <3>1, <3>2
  <2> QED BY <1>1, <1>2, <1>5, <2>1
          DEF MoveStage, StartStage, FromRest, NothingOn, NoProgram
<1>6. ASSUME FromRest, Tail(Left) = <<>>,
             Head(Left) \in {"MJOINT", "MLIN", "MCIRC"}
      PROVE  Common' /\ MoveStage'
  <2>1. /\ controller' \in Controllers
        /\ UNCHANGED <<driver, reading, lost>>
        /\ call' = [call EXCEPT !.rest = Tail(Left)]
    BY <1>1, <1>6, MoveStep
  <2>2. PICK m \in {"Running", controller.motion} \ {"None"} :
             controller' = [controller EXCEPT !.motion = m]
    BY <1>1, <1>6, MoveStep
  <2>3. /\ controller'.motion = m /\ controller'.session = controller.session
        /\ controller'.jogs = controller.jogs
        /\ controller'.motion = "Held" => controller.motion = "Held"
    BY <1>1, <2>2 DEF TypeOK, Controllers
  <2>4. DidIt' /\ CallOK'
    BY <1>1, <1>2, <1>6, <2>1 DEF DidIt, GoesOn, CallOK, Method, Left
  <2>5. TypeOK' /\ Connected'
    BY <1>1, <1>2, <2>1, <2>3 DEF Common, TypeOK, Connected
  <2>6. JogsKnown'
    BY <1>1, <1>2, <2>1, <2>3
       DEF Common, JogsKnown, Moves
  <2>7. MotionKnown'
    BY <1>1, <1>2, <1>6, <2>1, <2>2, <2>3, <2>4
       DEF Common, MotionKnown, Moves, Stopping, Halts
  <2>8. ReadingKnown'
    BY <1>1, <1>2, <2>1, NoSnapshotMeans
       DEF Common, ReadingKnown, RestIsTrue, AtRest, Moves
  <2>9. LatestKnown'
    BY <1>1, <1>2, <2>1, <2>3, <2>4 DEF Common, LatestKnown, Admissible, Moves
  <2> QED BY <1>1, <1>2, <2>4, <2>5, <2>6, <2>7, <2>8, <2>9
          DEF Common, MoveStage, StartStage
<1> QED BY <1>1, <1>4, <1>5, <1>6, MoveCalls DEF MoveStage, StartStage, DidIt, GaveUp

\* StartProgram: the program starts from rest.
LEMMA ProgramSteps ==
    ASSUME DriverInv, Method = "StartProgram", StepSucceeds
    PROVE  DriverInv'
<1>1. Common /\ ProgramStage /\ Left # <<>> /\ TypeOK /\ CallOK
  BY AnyStep DEF DriverInv, Stages, Common
<1>2. /\ Method' = Method /\ call'.req = call.req /\ ~Refused(Head(Left))
      /\ GoesOn' = GoesOn /\ GoesOn /\ call'.ok = call.ok /\ call'.tolerant = call.tolerant
      /\ UNCHANGED <<jog_active, loaded, active, latest, overtaken, late,
                     incidents, doubt, stray>>
  BY <1>1, SameMethod DEF ProgramStage, StartStage, DidIt, GaveUp
<1>0. SUFFICES Common' /\ ProgramStage'
  BY <1>2 DEF DriverInv, Stages, Stopping, Halts, Moves, Simple
<1>4. CASE Left = <<"Refuse">>
  BY <1>2, <1>4 DEF Refused
<1>5. CASE Left = <<"ClearPause", "StartProgram">> /\ FromRest
  <2>1. Head(Left) = "ClearPause" /\ Tail(Left) = <<"StartProgram">>
    BY <1>5
  <2>2. controller.motion # "Held" \/ doubt
    BY <1>1 DEF Common, MotionKnown, ProgramStage, StartStage, Moves
  <2>3. Common' /\ UNCHANGED <<controller, lost>> /\ Left' = <<"StartProgram">>
    BY <1>1, <2>1, <2>2, ClearPauseFrame
  <2> QED BY <1>1, <1>2, <1>5, <2>3
          DEF ProgramStage, StartStage, FromRest, NothingOn, NoProgram
<1>6. CASE Left = <<"StartProgram">>
  <2>1. Head(Left) = "StartProgram" /\ Tail(Left) = <<>>
    BY <1>6
  <2>2. /\ controller' = [controller EXCEPT !.program = "Run"]
        /\ UNCHANGED <<driver, reading, lost>>
        /\ call' = [call EXCEPT !.rest = <<>>]
    BY <2>1, StartStep
  <2>3. /\ controller' \in Controllers
        /\ controller'.motion = controller.motion
        /\ controller'.session = controller.session /\ controller'.jogs = controller.jogs
    BY <1>1, <2>2 DEF TypeOK, Controllers, ProgramActive
  <2>4. DidIt' /\ CallOK'
    BY <1>1, <1>2, <2>2 DEF DidIt, GoesOn, CallOK, Method, Left
  <2>5. TypeOK' /\ Connected' /\ JogsKnown'
    BY <1>1, <1>2, <2>2, <2>3 DEF Common, TypeOK, Connected, JogsKnown
  <2>6. MotionKnown'
    BY <1>1, <1>2, <2>2, <2>3 DEF Common, MotionKnown, Moves, Stopping, Halts
  <2>7. ReadingKnown' /\ LatestKnown'
    BY <1>1, <1>2, <2>2, <2>3, <2>4, NoSnapshotMeans
       DEF Common, ReadingKnown, RestIsTrue, AtRest, LatestKnown, Admissible
  <2> QED BY <1>1, <1>2, <2>4, <2>5, <2>6, <2>7 DEF Common, ProgramStage, StartStage
<1> QED BY <1>1, <1>4, <1>5, <1>6 DEF ProgramStage, StartStage, DidIt, GaveUp

\* Hold: what is held is remembered in the driver.
LEMMA HoldSteps ==
    ASSUME DriverInv, Method = "Hold", StepSucceeds
    PROVE  DriverInv'
<1>1. Common /\ HoldStage /\ Left # <<>> /\ TypeOK /\ CallOK
  BY AnyStep DEF DriverInv, Stages, Common
<1>2. /\ Method' = Method /\ call'.req = call.req
      /\ GoesOn' = GoesOn /\ GoesOn /\ call'.ok = call.ok /\ call'.tolerant = call.tolerant
      /\ UNCHANGED <<jog_active, loaded, active, latest, overtaken, late,
                     incidents, doubt, stray>>
  BY <1>1, SameMethod DEF HoldStage, DidIt, GaveUp
<1>0. SUFFICES Common' /\ HoldStage'
  BY <1>2 DEF DriverInv, Stages, Stopping, Halts, Moves, Simple
<1>3. CASE Left = <<"MOVEHOLD", "SetPause">>
  <2>1. Head(Left) = "MOVEHOLD" /\ Tail(Left) = <<"SetPause">>
    BY <1>3
  <2>2. Common' /\ Left' = Tail(Left) /\ driver' = driver
    BY <1>1, <2>1, HoldFrame, HoldStep
  <2> QED BY <1>1, <1>2, <2>1, <2>2 DEF HoldStage
<1>4. CASE Left = <<"SetPause">>
  <2>1. Head(Left) = "SetPause" /\ Tail(Left) = <<>>
    BY <1>4
  <2>2. /\ UNCHANGED <<controller, reading, lost>>
        /\ driver' = [driver EXCEPT !.paused = TRUE]
        /\ call' = [call EXCEPT !.rest = <<>>]
    BY <2>1, PauseStep
  <2>3. /\ driver' \in Drivers /\ driver'.connected /\ driver.connected
        /\ driver'.paused /\ driver'.jog = driver.jog
    BY <1>1, <2>2 DEF TypeOK, Drivers, HoldStage
  <2>4. DidIt' /\ CallOK'
    BY <1>1, <1>2, <2>2 DEF DidIt, GoesOn, CallOK, Method, Left
  <2>5. TypeOK' /\ Connected' /\ JogsKnown'
    BY <1>1, <1>2, <2>2, <2>3 DEF Common, TypeOK, Connected, JogsKnown
  <2>6. MotionKnown'
    BY <1>1, <1>2, <2>2, <2>3 DEF Common, MotionKnown, Moves
  <2>7. ReadingKnown' /\ LatestKnown'
    BY <1>1, <1>2, <2>2, NoSnapshotMeans
       DEF Common, ReadingKnown, RestIsTrue, AtRest, LatestKnown, Admissible
  <2> QED BY <2>3, <2>4, <2>5, <2>6, <2>7 DEF Common, HoldStage
<1> QED BY <1>1, <1>3, <1>4 DEF HoldStage, DidIt, GaveUp

\* Resume: the latched pause is cleared once the motion goes on.
LEMMA ResumeSteps ==
    ASSUME DriverInv, Method = "Resume", StepSucceeds
    PROVE  DriverInv'
<1>1. Common /\ ResumeStage /\ Left # <<>> /\ TypeOK /\ CallOK
  BY AnyStep DEF DriverInv, Stages, Common
<1>2. Method' = Method /\ GoesOn' /\ GoesOn
  BY <1>1, SameMethod DEF ResumeStage, DidIt, GaveUp
<1>0. SUFFICES Common' /\ ResumeStage'
  BY <1>2 DEF DriverInv, Stages, Stopping, Halts, Moves, Simple
<1>3. CASE Left = <<"MOVERESUME", "ClearPause">>
  <2>1. Head(Left) = "MOVERESUME" /\ Tail(Left) = <<"ClearPause">>
    BY <1>3
  <2>2. Common' /\ Left' = Tail(Left)
    BY <1>1, <2>1, HoldFrame
  <2>3. controller'.motion # "Held"
    BY <1>1, <2>1, HoldStep
  <2> QED BY <1>2, <2>1, <2>2, <2>3 DEF ResumeStage
<1>4. CASE Left = <<"ClearPause">> /\ controller.motion # "Held"
  <2>1. Head(Left) = "ClearPause" /\ Tail(Left) = <<>>
    BY <1>4
  <2>2. Common' /\ Left' = Tail(Left)
    BY <1>1, <1>4, <2>1, ClearPauseFrame
  <2> QED BY <1>2, <2>1, <2>2 DEF ResumeStage, DidIt, GoesOn
<1> QED BY <1>1, <1>3, <1>4 DEF ResumeStage, DidIt, GaveUp

\* StopProgram: no program is under way when it is done.
LEMMA StopProgramSteps ==
    ASSUME DriverInv, Method = "StopProgram", StepSucceeds
    PROVE  DriverInv'
<1>1. Common /\ StopProgramStage /\ Left # <<>> /\ TypeOK /\ CallOK
  BY AnyStep DEF DriverInv, Stages, Common
<1>2. Method' = Method /\ GoesOn' /\ GoesOn /\ active' = active
  BY <1>1, SameMethod DEF StopProgramStage, DidIt, GaveUp
<1>0. SUFFICES Common' /\ StopProgramStage'
  BY <1>2 DEF DriverInv, Stages, Stopping, Halts, Moves, Simple
<1>3. CASE Left = <<"StopProgram", "ClearPause">>
  <2>1. Head(Left) = "StopProgram" /\ Tail(Left) = <<"ClearPause">>
    BY <1>3
  <2>2. Common' /\ Left' = Tail(Left)
    BY <1>1, <2>1, CalmingFrame DEF Calming
  <2>3. NoProgram'
    BY <1>1, <2>1, CalmStep DEF Calming
  <2> QED BY <1>1, <1>2, <2>1, <2>2, <2>3 DEF StopProgramStage
<1>4. CASE Left = <<"ClearPause">> /\ NoProgram
  <2>1. Head(Left) = "ClearPause" /\ Tail(Left) = <<>>
    BY <1>4
  <2>2. controller.motion # "Held" \/ doubt
    BY <1>1 DEF Common, MotionKnown, StopProgramStage, Moves
  <2>3. Common' /\ Left' = Tail(Left) /\ controller' = controller
    BY <1>1, <2>1, <2>2, ClearPauseFrame
  <2> QED BY <1>1, <1>2, <1>4, <2>1, <2>3 DEF StopProgramStage, NoProgram, DidIt, GoesOn
<1> QED BY <1>1, <1>3, <1>4 DEF StopProgramStage, DidIt, GaveUp

\* The methods of a single purpose.
LEMMA SimpleSteps ==
    ASSUME DriverInv, Method \in Simple, StepSucceeds
    PROVE  DriverInv'
<1>1. Common /\ SimpleStage /\ Left # <<>> /\ TypeOK /\ CallOK
  BY AnyStep DEF DriverInv, Stages, Common, Simple
<1>2. /\ Method' = Method /\ GoesOn' /\ GoesOn /\ ~Refused(Head(Left))
      /\ call'.req = call.req /\ Method # "Hold"
  BY <1>1, SameMethod DEF SimpleStage, DidIt, GaveUp, Simple
<1>0. SUFFICES Common' /\ SimpleStage'
  BY <1>2 DEF DriverInv, Stages, Stopping, Halts, Moves, Simple
<1>3. CASE Left = <<"Refuse">>
  BY <1>2, <1>3 DEF Refused
<1>4. CASE Left \in {<<"ApiAcquire">>, <<"ApiDrop">>, <<"PowerOn">>, <<"ClearAlarm">>}
  <2>1. Head(Left) \in Calming /\ Tail(Left) = <<>>
    <3>1. PICK step \in {"ApiAcquire", "ApiDrop", "PowerOn", "ClearAlarm"} : Left = <<step>>
      BY <1>4
    <3> QED BY <3>1 DEF Calming
  <2>2. Common' /\ Left' = <<>>
    BY <1>1, <1>2, <2>1, CalmingFrame
  <2> QED BY <1>2, <2>2 DEF SimpleStage, DidIt, GoesOn
<1>5. CASE Left \in {<<"WriteDOut">>, <<"LoadProgram">>}
  <2>1. Head(Left) \in {"WriteDOut", "LoadProgram"} /\ Tail(Left) = <<>>
    <3>1. PICK step \in {"WriteDOut", "LoadProgram"} : Left = <<step>>
      BY <1>5
    <3> QED BY <3>1
  <2>2. Common' /\ Left' = <<>>
    BY <1>1, <1>2, <2>1, QuietFrame DEF Quiet
  <2> QED BY <1>2, <2>2 DEF SimpleStage, DidIt, GoesOn
<1>6. CASE Left = <<"GetEmgStatus", "ClearAlarm">>
  <2>1. Head(Left) = "GetEmgStatus" /\ Tail(Left) = <<"ClearAlarm">>
    BY <1>6
  <2>2. Common' /\ Left' = <<"ClearAlarm">>
    BY <1>1, <1>2, <2>1, QuietFrame DEF Quiet
  <2>3. <<"ClearAlarm">> # <<"SetGlobalSpeed">>
    OBVIOUS
  <2> QED BY <1>2, <2>2, <2>3 DEF SimpleStage
<1>7. CASE Left = <<"SetGlobalSpeed">>
  <2>1. Head(Left) = "SetGlobalSpeed" /\ Tail(Left) = <<>>
    BY <1>7
  <2>2. call.req.payload.ratio \in 1..100
    BY <1>1, <1>7 DEF SimpleStage, DidIt, GaveUp
  <2>3. /\ controller' = [controller EXCEPT !.speed_ratio = call.req.payload.ratio]
        /\ UNCHANGED <<driver, reading, lost>>
        /\ call' = [call EXCEPT !.rest = <<>>]
    BY <2>1, SpeedStep
  <2>4. Calm(controller, controller')
    <3> DEFINE ratio == call.req.payload.ratio
    <3>1. ratio \in Nat
      BY <2>2
    <3>2. controller' = [controller EXCEPT !.speed_ratio = ratio]
      BY <2>3
    <3> HIDE DEF ratio
    <3> QED BY <1>1, <3>1, <3>2 DEF Calm, TypeOK, Controllers
  <2>5. Common'
    BY <1>1, <1>2, <2>3, <2>4, SameMethod, CalmFrame
  <2>6. Left' = <<>>
    BY <1>1, <2>3 DEF CallOK, Left
  <2> QED BY <1>2, <2>5, <2>6 DEF SimpleStage, DidIt, GoesOn
<1> QED BY <1>1, <1>3, <1>4, <1>5, <1>6, <1>7 DEF SimpleStage, DidIt, GaveUp

\* A call that succeeds keeps the invariant, whatever the method.
LEMMA SuccessesKeep ==
    ASSUME DriverInv, StepSucceeds
    PROVE  DriverInv'
<1>1. Method # "None"
  BY AnyStep DEF DriverInv, Stages, Idle, Left
<1>2. Method \in Methods
  BY DEF DriverInv, Common, CallOK
<1>3. Methods = {"None", "Connect", "Disconnect", "ReadState", "Jog", "StartProgram",
                 "Hold", "Resume", "StopProgram"} \cup Stopping \cup Moves \cup Simple
  BY DEF Methods, CommandTypes, Stopping, Halts, Moves, Simple
<1> QED BY <1>1, <1>2, <1>3, ConnectSteps, DisconnectSteps, ReadStateSteps, JogSteps,
           ProgramSteps, HoldSteps, ResumeSteps, StopProgramSteps, StopSteps, MoveSteps,
           SimpleSteps

-----------------------------------------------------------------------------
\* A call that fails, maybe after it took effect.
LEMMA AnyFailure ==
    ASSUME StepFails, TypeOK
    PROVE  /\ Left # <<>> /\ ~Local(Head(Left))
           /\ controller' = controller \/ controller' \in After(Head(Left))
           /\ incidents' \in 0..MaxIncidents
           /\ driver' = DriverAfterFailure(Head(Left))
           /\ call' = IF call.tolerant THEN [call EXCEPT !.rest = Tail(Left)]
                      ELSE [call EXCEPT !.rest = Recovery(Head(Left)), !.ok = FALSE,
                                        !.tolerant = TRUE]
           /\ lost' = lost \cup JogAxis(Head(Left))
           /\ stray' \in BOOLEAN
           /\ IF Head(Left) \in {"ConnectRobot", "DisconnectRobot"}
              THEN (stray \/ controller'.session) => stray' ELSE stray' = stray
           /\ doubt' = (doubt \/ Method \notin {"ReadState", "Connect"})
           /\ UNCHANGED <<reading, jog_active, loaded, active, latest, overtaken, late>>
<1> DEFINE step == Head(Left)
<1>1. /\ Left # <<>> /\ ~Local(step)
      /\ IF Refused(step) \/ ~Permitted(step)
         THEN UNCHANGED <<controller, incidents>>
         ELSE /\ incidents < MaxIncidents
              /\ incidents' = incidents + 1
              /\ controller' \in {controller} \cup After(step)
      /\ driver' = DriverAfterFailure(step)
      /\ call' = IF call.tolerant THEN [call EXCEPT !.rest = Tail(Left)]
                 ELSE [call EXCEPT !.rest = Recovery(step), !.ok = FALSE,
                                   !.tolerant = TRUE]
      /\ lost' = lost \cup JogAxis(step)
      /\ stray' = (stray \/ (step \in {"ConnectRobot", "DisconnectRobot"}
                             /\ controller'.session))
      /\ doubt' = (doubt \/ Method \notin {"ReadState", "Connect"})
      /\ UNCHANGED <<reading, executor, snapshot>>
  BY DEF StepFails, Left, Method
<1>2. incidents' \in 0..MaxIncidents
  BY <1>1, IncidentsAssumption DEF TypeOK
<1>3. /\ stray' \in BOOLEAN
      /\ IF step \in {"ConnectRobot", "DisconnectRobot"}
         THEN (stray \/ controller'.session) => stray' ELSE stray' = stray
  <2>1. CASE step \in {"ConnectRobot", "DisconnectRobot"}
    BY <1>1, <2>1
  <2>2. CASE step \notin {"ConnectRobot", "DisconnectRobot"}
    BY <1>1, <2>2 DEF TypeOK
  <2> QED BY <2>1, <2>2
<1>4. controller' = controller \/ controller' \in After(step)
  BY <1>1
<1> QED BY <1>1, <1>2, <1>3, <1>4 DEF executor, snapshot

\* The calls by what they do to the controller.
Paths   == {"MJOINT", "MLIN", "MCIRC"}
Holding == {"MOVEHOLD", "MOVECLEAR", "MOVERESUME"}
Looking == Quiet \cup Questions \cup {"GetProStatus", "GetMoveState", "GetPosition",
                                     "Refuse"}

\* No call but the first opens a session, and none but a jog's adds a jog.
LEMMA Effects ==
    ASSUME TypeOK,
           NEW step \in Looking \cup Calming \cup Paths \cup Holding \cup
                        {"SetGlobalSpeed", "StartProgram", "JogStart", "JogStop"},
           step = "SetGlobalSpeed" => call.req.payload.ratio \in 1..100,
           step = "JogStart" => call.req.payload.axis \in 1..kEfortAxisCount,
           NEW d \in After(step)
    PROVE  /\ d \in Controllers /\ d.session = controller.session
           /\ d.jogs \subseteq controller.jogs \cup JogAxis(step)
           /\ step # "JogStart" => d.jogs \subseteq controller.jogs
           /\ step \in Looking => d = controller
           /\ step \in Calming \cup {"JogStop"} => Calm(controller, d)
<1> DEFINE c == controller
<1>0. c \in Controllers
  BY DEF TypeOK
<1>1. CASE step \in Looking
  <2>1. \A s \in Looking : After(s) = {c}
    BY DEF After, Looking, Quiet, Questions
  <2>2. d = c /\ step \notin Calming \cup {"JogStop"}
    BY <1>1, <2>1 DEF Calming, Looking, Quiet, Questions
  <2> QED BY <1>0, <2>2
<1>2. CASE step = "PowerOff"
  <2>1. After("PowerOff") = {[Halted(c) EXCEPT !.servo_on = FALSE]}
    BY DEF After
  <2>2. d = [Halted(c) EXCEPT !.servo_on = FALSE]
    BY <1>2, <2>1
  <2>3. Calm(c, d)
    BY <1>0, <2>2 DEF Halted, Calm, Controllers, ProgramActive
  <2> QED BY <1>2, <2>3 DEF Calm, Looking, Quiet, Questions
<1>3. CASE step \in {"StopProgram", "ClearAlarm"}
  <2>1. /\ After("StopProgram") =
              {[c EXCEPT !.program = IF @ \in ProgramActive THEN "Init" ELSE @]}
        /\ After("ClearAlarm") =
              {[c EXCEPT !.alarm_active = FALSE, !.program = IF @ = "Error" THEN "Init" ELSE @]}
    BY DEF After
  <2>2. \/ d = [c EXCEPT !.program = IF @ \in ProgramActive THEN "Init" ELSE @]
        \/ d = [c EXCEPT !.alarm_active = FALSE,
                         !.program = IF @ = "Error" THEN "Init" ELSE @]
    BY <1>3, <2>1
  <2>3. Calm(c, d)
    BY <1>0, <2>2 DEF Calm, Controllers, ProgramActive
  <2> QED BY <1>3, <2>3 DEF Calm, Looking, Quiet, Questions
<1>4. CASE step \in {"ApiAcquire", "ApiDrop", "ApiRelease", "PowerOn"}
  <2>1. /\ After("ApiAcquire") = {[c EXCEPT !.api_control = TRUE]}
        /\ After("ApiDrop") = {[c EXCEPT !.api_control = FALSE]}
        /\ After("ApiRelease") = {[c EXCEPT !.api_control = FALSE]}
        /\ After("PowerOn") = {[c EXCEPT !.servo_on = TRUE]}
    BY DEF After
  <2>2. \/ d = [c EXCEPT !.api_control = TRUE]
        \/ d = [c EXCEPT !.api_control = FALSE]
        \/ d = [c EXCEPT !.servo_on = TRUE]
    BY <1>4, <2>1
  <2>3. Calm(c, d)
    BY <1>0, <2>2 DEF Calm, Controllers
  <2> QED BY <1>4, <2>3 DEF Calm, Looking, Quiet, Questions
<1>5. CASE step \in Paths
  <2>1. \A s \in Paths :
           After(s) = {[c EXCEPT !.motion = m] : m \in {"Running", c.motion} \ {"None"}}
    BY DEF After, Paths
  <2>2. PICK m \in {"Running", c.motion} : d = [c EXCEPT !.motion = m]
    <3> HIDE DEF c
    <3> QED BY <1>5, <2>1
  <2>3. step \notin Looking \cup Calming \cup {"JogStop"}
    BY <1>5 DEF Paths, Looking, Quiet, Questions, Calming
  <2> QED BY <1>0, <2>2, <2>3 DEF Controllers
<1>6. CASE step = "MOVEHOLD"
  <2>1. After("MOVEHOLD") =
           {[c EXCEPT !.motion = IF @ = "Running" THEN "Held" ELSE @,
                      !.program = p, !.jogs = j] :
               p \in {c.program, IF c.program = "Run" THEN "Pause" ELSE c.program},
               j \in {c.jogs, {}}}
    BY DEF After
  <2>2. PICK p \in {c.program, IF c.program = "Run" THEN "Pause" ELSE c.program},
             j \in {c.jogs, {}} :
           d = [c EXCEPT !.motion = IF @ = "Running" THEN "Held" ELSE @,
                         !.program = p, !.jogs = j]
    BY <1>6, <2>1
  <2> QED BY <1>0, <1>6, <2>2 DEF Controllers, ProgramActive, Looking, Quiet, Questions, Calming
<1>7. CASE step = "MOVERESUME"
  <2>1. After("MOVERESUME") =
           {[c EXCEPT !.motion = IF @ = "Held" THEN "Running" ELSE @,
                      !.program = IF @ = "Pause" THEN "Run" ELSE @]}
    BY DEF After
  <2>2. d = [c EXCEPT !.motion = IF @ = "Held" THEN "Running" ELSE @,
                      !.program = IF @ = "Pause" THEN "Run" ELSE @]
    BY <1>7, <2>1
  <2> QED BY <1>0, <1>7, <2>2 DEF Controllers, ProgramActive, Looking, Quiet, Questions, Calming
<1>8. CASE step \in {"MOVECLEAR", "StartProgram"}
  <2>1. /\ After("MOVECLEAR") = {[c EXCEPT !.motion = IF @ = "Held" THEN "None" ELSE @]}
        /\ After("StartProgram") = {[c EXCEPT !.program = "Run"]}
    BY DEF After
  <2>2. \/ d = [c EXCEPT !.motion = IF @ = "Held" THEN "None" ELSE @]
        \/ d = [c EXCEPT !.program = "Run"]
    BY <1>8, <2>1
  <2> QED BY <1>0, <1>8, <2>2 DEF Controllers, ProgramActive, Looking, Quiet, Questions, Calming
<1>9. CASE step = "SetGlobalSpeed"
  <2> DEFINE ratio == call.req.payload.ratio
  <2>1. After("SetGlobalSpeed") = {[c EXCEPT !.speed_ratio = ratio]}
    BY DEF After
  <2>2. ratio \in Nat
    BY <1>9
  <2>3. d = [c EXCEPT !.speed_ratio = ratio]
    BY <1>9, <2>1
  <2> HIDE DEF ratio
  <2> QED BY <1>0, <1>9, <2>2, <2>3 DEF Controllers, Looking, Quiet, Questions, Calming
<1>10. CASE step = "JogStart"
  <2> DEFINE axis == call.req.payload.axis
  <2>1. After("JogStart") = {[c EXCEPT !.jogs = @ \cup {axis}]} /\ JogAxis("JogStart") = {axis}
    BY DEF After, JogAxis
  <2>2. axis \in 1..kEfortAxisCount
    BY <1>10
  <2>3. d = [c EXCEPT !.jogs = @ \cup {axis}]
    BY <1>10, <2>1
  <2> HIDE DEF axis
  <2> QED BY <1>0, <1>10, <2>1, <2>2, <2>3 DEF Controllers, Looking, Quiet, Questions, Calming
<1>11. CASE step = "JogStop"
  <2>1. After("JogStop") = {[c EXCEPT !.jogs = @ \ {driver.jog}]}
    BY DEF After
  <2>2. d = [c EXCEPT !.jogs = @ \ {driver.jog}]
    BY <1>11, <2>1
  <2>3. Calm(c, d)
    BY <1>0, <2>2 DEF Calm, Controllers
  <2> QED BY <1>11, <2>3 DEF Calm, Looking, Quiet, Questions
<1> QED BY <1>1, <1>2, <1>3, <1>4, <1>5, <1>6, <1>7, <1>8, <1>9, <1>10, <1>11
        DEF Calming, Paths, Holding

\* What a command or a shutdown may be about to call, and with which argument.
Commands == Stopping \cup Moves \cup Simple \cup
            {"Jog", "StartProgram", "Hold", "Resume", "StopProgram"}

\* The SDK calls a command has yet to make.
LEMMA CommandCalls ==
    ASSUME DriverInv, Method \in Commands, Left # <<>>
    PROVE  /\ GoesOn
           /\ Head(Left) \in Looking \cup Calming \cup Paths \cup Holding \cup
                             {"SetGlobalSpeed", "StartProgram", "JogStart", "JogStop",
                              "ClearPause", "SetPause"}
           /\ Head(Left) # "GetCurrentRobotType"
           /\ Head(Left) = "SetGlobalSpeed" => call.req.payload.ratio \in 1..100
           /\ Head(Left) = "JogStart" =>
                 JogOver /\ call.req.payload.axis \in 1..kEfortAxisCount
<1> DEFINE Known ==
      /\ GoesOn
      /\ Head(Left) \in Looking \cup Calming \cup Paths \cup Holding \cup
                        {"SetGlobalSpeed", "StartProgram", "JogStart", "JogStop",
                         "ClearPause", "SetPause"}
      /\ Head(Left) # "GetCurrentRobotType"
      /\ Head(Left) = "SetGlobalSpeed" => call.req.payload.ratio \in 1..100
      /\ Head(Left) = "JogStart" =>
            JogOver /\ call.req.payload.axis \in 1..kEfortAxisCount
<1>0. SUFFICES Known
  OBVIOUS
<1>1. CASE Method \in Stopping
  <2>1. StopStage /\ GoesOn
    BY <1>1 DEF DriverInv, Stages, StopStage, DidIt, GaveUp
  <2>2. Head(Left) \in {"Refuse", "JogStop", "ClearPause", "PowerOff", "GetProStatus",
                        "StopProgram", "GetMoveState", "MOVEHOLD", "MOVECLEAR"}
    BY <2>1 DEF StopStage, DidIt, GaveUp, PowerOff, ControlledStop
  <2> QED BY <2>1, <2>2 DEF Looking, Calming, Holding
<1>2. CASE Method \in Moves
  <2>1. MoveStage /\ GoesOn
    BY <1>2 DEF DriverInv, Stages, MoveStage, StartStage, DidIt, GaveUp
  <2>2. CASE Left = <<"Refuse">>
    <3>1. Head(Left) = "Refuse"
      BY <2>2
    <3> QED BY <2>1, <3>1 DEF Looking
  <2>3. CASE Left \in MoveLeft
    BY <2>1, <2>3, MoveCalls DEF Looking, Quiet, Paths
  <2> QED BY <2>1, <2>2, <2>3 DEF MoveStage, StartStage, DidIt, GaveUp
<1>3. CASE Method \in Simple
  <2>1. SimpleStage /\ GoesOn
    BY <1>3 DEF DriverInv, Stages, SimpleStage, DidIt, GaveUp
  <2>2. Left = <<"SetGlobalSpeed">> => call.req.payload.ratio \in 1..100
    BY <2>1 DEF SimpleStage, DidIt, GaveUp
  <2>3. CASE Left = <<"GetEmgStatus", "ClearAlarm">>
    <3>1. Head(Left) = "GetEmgStatus"
      BY <2>3
    <3> QED BY <2>1, <3>1 DEF Looking, Quiet
  <2>4. CASE Left # <<"GetEmgStatus", "ClearAlarm">>
    <3>1. PICK step \in {"ApiAcquire", "ApiDrop", "PowerOn", "ClearAlarm", "SetGlobalSpeed",
                         "WriteDOut", "LoadProgram", "Refuse"} : Left = <<step>>
      BY <2>1, <2>4 DEF SimpleStage, DidIt, GaveUp
    <3>2. Head(Left) = step
      BY <3>1
    <3> QED BY <2>1, <2>2, <3>1, <3>2 DEF Looking, Quiet, Calming
  <2> QED BY <2>3, <2>4
<1>4. CASE Method = "Jog"
  <2>1. JogStage /\ GoesOn
    BY <1>4 DEF DriverInv, Stages, JogStage, DidIt, GaveUp
  <2>2. /\ Head(Left) \in {"Refuse", "JogStop", "SetJogMode", "JogStart"}
        /\ Head(Left) = "JogStart" =>
              JogOver /\ call.req.payload.axis \in 1..kEfortAxisCount
    BY <2>1 DEF JogStage, DidIt, GaveUp, NewJog
  <2> QED BY <2>1, <2>2 DEF Looking, Quiet
<1>5. CASE Method = "StartProgram"
  <2>1. ProgramStage /\ GoesOn
    BY <1>5 DEF DriverInv, Stages, ProgramStage, StartStage, DidIt, GaveUp
  <2>2. Head(Left) \in {"Refuse", "ClearPause", "StartProgram"}
    BY <2>1 DEF ProgramStage, StartStage, DidIt, GaveUp
  <2> QED BY <2>1, <2>2 DEF Looking
<1>6. CASE Method \in {"Hold", "Resume", "StopProgram"}
  <2>1. GoesOn /\ (HoldStage \/ ResumeStage \/ StopProgramStage)
    BY <1>6 DEF DriverInv, Stages, HoldStage, ResumeStage, StopProgramStage, DidIt, GaveUp
  <2>2. Head(Left) \in {"MOVEHOLD", "SetPause", "MOVERESUME", "ClearPause", "StopProgram"}
    BY <2>1 DEF HoldStage, ResumeStage, StopProgramStage, DidIt, GaveUp
  <2> QED BY <2>1, <2>2 DEF Holding, Calming
<1> QED BY <1>1, <1>2, <1>3, <1>4, <1>5, <1>6 DEF Commands

\* A command, or the stop of a shutdown, whose call fails is given up, and in doubt.
LEMMA GivingUp ==
    ASSUME DriverInv, Method \in Commands, StepFails
    PROVE  DriverInv'
<1> DEFINE step == Head(Left)
<1>1. Common /\ TypeOK /\ CallOK /\ JogsKnown /\ Left # <<>> /\ ~Local(step)
  BY AnyFailure DEF DriverInv, Common
<1>2. /\ GoesOn
      /\ step \in Looking \cup Calming \cup Paths \cup Holding \cup
                 {"SetGlobalSpeed", "StartProgram", "JogStart", "JogStop"}
      /\ step # "GetCurrentRobotType"
      /\ step = "SetGlobalSpeed" => call.req.payload.ratio \in 1..100
      /\ step = "JogStart" => JogOver /\ call.req.payload.axis \in 1..kEfortAxisCount
  BY <1>1, CommandCalls DEF Local
<1>3. Method \notin {"None", "ReadState", "Connect", "Disconnect"}
  BY DEF Commands, Stopping, Halts, Moves, Simple
<1>4. step \notin {"ConnectRobot", "DisconnectRobot"}
  BY <1>2 DEF Looking, Quiet, Questions, Calming, Paths, Holding
<1>5. /\ controller' = controller \/ controller' \in After(step)
      /\ incidents' \in 0..MaxIncidents
      /\ driver' = DriverAfterFailure(step)
      /\ call' = [call EXCEPT !.rest = <<>>, !.ok = FALSE, !.tolerant = TRUE]
      /\ lost' = lost \cup JogAxis(step)
      /\ doubt' = TRUE
      /\ UNCHANGED <<reading, jog_active, loaded, active,
                     latest, overtaken, late, stray>>
  <2>1. Recovery(step) = <<>> /\ ~call.tolerant
    BY <1>2 DEF Recovery, GoesOn
  <2> QED BY <1>1, <1>3, <1>4, <2>1, AnyFailure
<1>6. /\ controller' \in Controllers /\ controller'.session = controller.session
      /\ controller'.jogs \subseteq controller.jogs \cup JogAxis(step)
      /\ step # "JogStart" => controller'.jogs \subseteq controller.jogs
  BY <1>1, <1>2, <1>5, Effects DEF TypeOK
<1>7. /\ Method' = Method /\ call'.req = call.req /\ GaveUp'
      /\ CallOK' /\ call'.tolerant \in BOOLEAN /\ call'.ok \in BOOLEAN
  BY <1>1, <1>5 DEF CallOK, Method, Left, GaveUp
<1>8. JogAxis("JogStop") = {driver.jog} \ {0} /\ JogAxis("JogStart") = {call.req.payload.axis}
  BY DEF JogAxis
<1>9. step \notin {"JogStop", "JogStart"} => JogAxis(step) = {}
  <2>1. \A s \in Looking \cup Calming \cup Paths \cup Holding \cup
              {"SetGlobalSpeed", "StartProgram"} : JogAxis(s) = {}
    BY DEF JogAxis, Looking, Quiet, Questions, Calming, Paths, Holding
  <2> QED BY <1>2, <2>1
<1>10. /\ driver' \in Drivers /\ driver'.connected = driver.connected
       /\ driver'.paused = driver.paused
       /\ driver'.jog = IF step = "JogStop" THEN 0 ELSE driver.jog
  BY <1>1, <1>4, <1>5 DEF DriverAfterFailure, TypeOK, Drivers, kEfortAxisCount
<1>11. lost' \subseteq 1..kEfortAxisCount
  BY <1>1, <1>2, <1>5, <1>8, <1>9 DEF TypeOK, Drivers, kEfortAxisCount
<1>12. JogsKnown'
  <2>1. controller.jogs \subseteq 1..kEfortAxisCount
    BY <1>1 DEF TypeOK, Controllers
  <2>2. CASE step = "JogStart"
    BY <1>1, <1>2, <1>5, <1>6, <1>8, <2>1, <2>2 DEF JogsKnown, JogOver, kEfortAxisCount
  <2>3. CASE step = "JogStop"
    BY <1>1, <1>5, <1>6, <1>8, <1>10, <2>1, <2>3 DEF JogsKnown, kEfortAxisCount
  <2>4. CASE step \notin {"JogStop", "JogStart"}
    <3>1. /\ controller.jogs \subseteq lost \cup {driver.jog}
          /\ controller.jogs \subseteq lost \/ jog_active
      BY <1>1, <1>2 DEF JogsKnown, DidIt
    <3> QED BY <1>5, <1>6, <1>9, <1>10, <2>4, <3>1 DEF JogsKnown
  <2> QED BY <2>2, <2>3, <2>4
<1>13. TypeOK'
  BY <1>1, <1>5, <1>6, <1>7, <1>10, <1>11 DEF TypeOK
<1>14. Connected' /\ MotionKnown' /\ ReadingKnown'
  BY <1>1, <1>3, <1>5, <1>6, <1>7, <1>10, NoSnapshotMeans
     DEF Common, Connected, MotionKnown, ReadingKnown, RestIsTrue, AtRest
<1>17. LatestKnown'
  <2>1. controller.jogs \subseteq lost => controller'.jogs \subseteq lost'
    BY <1>5, <1>6
  <2> QED BY <1>1, <1>5, <1>7, <2>1 DEF Common, LatestKnown, Admissible
<1>15. Common'
  BY <1>7, <1>12, <1>13, <1>14, <1>17 DEF Common
<1>16. Stages'
  <2>1. CASE Method \in Stopping
    BY <1>5, <1>7, <2>1 DEF Stages, StopStage, Stopping, Halts, Moves, Simple
  <2>2. CASE Method \in Moves
    <3>1. active = "None"
      BY <2>2 DEF DriverInv, Stages, MoveStage, StartStage
    <3> QED BY <1>5, <1>7, <2>2, <3>1
            DEF Stages, MoveStage, StartStage, Stopping, Halts, Moves, Simple
  <2>3. CASE Method \in Simple
    BY <1>5, <1>7, <2>3 DEF Stages, SimpleStage, Stopping, Halts, Moves, Simple
  <2>4. CASE Method = "Jog"
    <3>1. call.req.payload.start \in BOOLEAN
      BY <2>4 DEF DriverInv, Stages, JogStage
    <3> QED BY <1>5, <1>7, <2>4, <3>1 DEF Stages, JogStage, Stopping, Halts, Moves, Simple
  <2>5. CASE Method = "StartProgram"
    <3>1. active = "None"
      BY <2>5 DEF DriverInv, Stages, ProgramStage, StartStage
    <3> QED BY <1>5, <1>7, <2>5, <3>1
            DEF Stages, ProgramStage, StartStage, Stopping, Halts, Moves, Simple
  <2>6. CASE Method = "Hold"
    <3>1. driver.connected
      BY <2>6 DEF DriverInv, Stages, HoldStage
    <3> QED BY <1>5, <1>7, <1>10, <2>6, <3>1 DEF Stages, HoldStage, Stopping, Halts, Moves, Simple
  <2>7. CASE Method = "Resume"
    BY <1>5, <1>7, <2>7 DEF Stages, ResumeStage, Stopping, Halts, Moves, Simple
  <2>8. CASE Method = "StopProgram"
    <3>1. active # "Motion"
      BY <2>8 DEF DriverInv, Stages, StopProgramStage
    <3> QED BY <1>5, <1>7, <2>8, <3>1
            DEF Stages, StopProgramStage, Stopping, Halts, Moves, Simple
  <2> QED BY <2>1, <2>2, <2>3, <2>4, <2>5, <2>6, <2>7, <2>8 DEF Commands
<1> QED BY <1>15, <1>16 DEF DriverInv

\* A reading that fails is no reading.
LEMMA ReadGivingUp ==
    ASSUME DriverInv, Method = "ReadState", StepFails
    PROVE  DriverInv'
<1> DEFINE step == Head(Left)
<1>1. Common /\ ReadStage /\ Left # <<>> /\ TypeOK /\ CallOK /\ ~Local(step)
  BY AnyFailure DEF DriverInv, Stages, Common
<1>2. Left # ReadState
  BY <1>1, ReadCalls DEF Local
<1>3. GoesOn /\ reading.lifecycle = "Unknown" /\ Left \in {Read1, Read2, Read3, Read4, Read5, Read6}
  BY <1>1, <1>2 DEF ReadStage, DidIt, GaveUp
<1>4. step \in Questions \cup {"GetPosition"}
  BY <1>3, ReadCalls DEF Questions
<1>5. Recovery(step) = <<>> /\ JogAxis(step) = {} /\ DriverAfterFailure(step) = driver
  <2>1. \A s \in Questions \cup {"GetPosition"} :
           Recovery(s) = <<>> /\ JogAxis(s) = {} /\ DriverAfterFailure(s) = driver
    BY DEF Recovery, JogAxis, DriverAfterFailure, Questions
  <2> QED BY <1>4, <2>1
<1>6. controller' = controller
  BY <1>1, <1>4, AnyFailure, Effects DEF Looking, Questions
<1>7. /\ incidents' \in 0..MaxIncidents
      /\ call' = [call EXCEPT !.rest = <<>>, !.ok = FALSE, !.tolerant = TRUE]
      /\ doubt' = doubt
      /\ UNCHANGED <<driver, lost, reading, jog_active, loaded, active,
                     latest, overtaken, late, stray>>
  <2>1. step \notin {"ConnectRobot", "DisconnectRobot"}
    BY <1>4 DEF Questions
  <2> QED BY <1>1, <1>3, <1>5, <2>1, AnyFailure DEF GoesOn, TypeOK
<1>8. /\ Method' = Method /\ call'.req = call.req /\ GaveUp'
      /\ CallOK' /\ call'.tolerant \in BOOLEAN /\ call'.ok \in BOOLEAN
  BY <1>1, <1>7 DEF CallOK, Method, Left, GaveUp
<1>9. TypeOK' /\ Connected' /\ ReadingKnown'
  BY <1>1, <1>3, <1>6, <1>7, <1>8
     DEF Common, TypeOK, Connected, ReadingKnown, RestIsTrue, AtRest
<1>10. JogsKnown'
  BY <1>1, <1>6, <1>7, <1>8 DEF Common, JogsKnown
<1>11. MotionKnown'
  BY <1>1, <1>6, <1>7, <1>8 DEF Common, MotionKnown, Moves, Stopping, Halts
<1>12. ReadStage'
  BY <1>3, <1>7, <1>8 DEF ReadStage
<1>13. LatestKnown'
  BY <1>1, <1>6, <1>7, <1>8 DEF Common, LatestKnown, NothingOn, NoProgram, Moves
<1> QED BY <1>8, <1>9, <1>10, <1>11, <1>12, <1>13
        DEF DriverInv, Common, Stages, Stopping, Halts, Moves, Simple

\* What is left to do of a method when a call fails.
LEMMA FailedCall ==
    ASSUME StepFails, TypeOK, CallOK
    PROVE  /\ Method' = Method /\ call'.req = call.req /\ CallOK'
           /\ call'.tolerant = TRUE /\ call'.ok = (call.ok /\ call.tolerant)
           /\ Left' = IF call.tolerant THEN Tail(Left) ELSE Recovery(Head(Left))
<1>1. call' = IF call.tolerant THEN [call EXCEPT !.rest = Tail(Left)]
              ELSE [call EXCEPT !.rest = Recovery(Head(Left)), !.ok = FALSE,
                                !.tolerant = TRUE]
  BY AnyFailure
<1>2. CASE call.tolerant
  <2>1. call' = [call EXCEPT !.rest = Tail(Left)]
    BY <1>1, <1>2
  <2> QED BY <1>2, <2>1 DEF CallOK, Method, Left, TypeOK
<1>3. CASE ~call.tolerant
  <2>1. call' = [call EXCEPT !.rest = Recovery(Head(Left)), !.ok = FALSE, !.tolerant = TRUE]
    BY <1>1, <1>3
  <2> QED BY <1>3, <2>1 DEF CallOK, Method, Left, TypeOK
<1> QED BY <1>2, <1>3

\* A call that opens or closes the session and fails leaves the driver without one,
\* and says so where the SDK has kept one.
LEMMA SessionFailure ==
    ASSUME Common, Method \in {"Connect", "Disconnect"}, StepFails,
           Head(Left) \in {"ConnectRobot", "DisconnectRobot"},
           Head(Left) = "DisconnectRobot" =>
              JogOver /\ (controller.motion # "Held" \/ doubt \/ ~driver.paused)
    PROVE  /\ Common' /\ Method' = Method
           /\ controller'.motion = controller.motion
           /\ driver' = IF Head(Left) = "ConnectRobot" THEN driver ELSE Fresh
           /\ call'.tolerant /\ call'.ok = (call.ok /\ call.tolerant)
           /\ Left' = IF call.tolerant THEN Tail(Left) ELSE Recovery(Head(Left))
           /\ doubt' = (doubt \/ Method = "Disconnect")
<1> DEFINE step == Head(Left)
<1>1. TypeOK /\ CallOK /\ JogsKnown /\ Left # <<>>
  BY AnyFailure DEF Common
<1>2. /\ incidents' \in 0..MaxIncidents
      /\ driver' = DriverAfterFailure(step)
      /\ lost' = lost \cup JogAxis(step)
      /\ stray' \in BOOLEAN /\ (stray \/ controller'.session => stray')
      /\ doubt' = (doubt \/ Method = "Disconnect")
      /\ UNCHANGED <<reading, jog_active, loaded, active, latest, overtaken, late>>
  BY <1>1, AnyFailure
<1>3. lost' = lost /\ driver' = IF step = "ConnectRobot" THEN driver ELSE Fresh
  <2>1. /\ JogAxis("ConnectRobot") = {} /\ JogAxis("DisconnectRobot") = {}
        /\ DriverAfterFailure("ConnectRobot") = driver
        /\ DriverAfterFailure("DisconnectRobot") = Fresh
    BY DEF JogAxis, DriverAfterFailure
  <2> QED BY <1>2, <2>1
<1>4. \E left \in BOOLEAN : controller' = [controller EXCEPT !.session = left]
  <2>1. /\ After("ConnectRobot") = {[controller EXCEPT !.session = TRUE]}
        /\ After("DisconnectRobot") =
              {[controller EXCEPT !.session = left] : left \in {FALSE, stray}}
    BY DEF After
  <2>2. CASE controller' = controller
    <3>1. /\ controller.session \in BOOLEAN
          /\ controller' = [controller EXCEPT !.session = controller.session]
      BY <1>1, <2>2 DEF TypeOK, Controllers
    <3> QED BY <3>1
  <2>3. CASE controller' \in After(step) /\ step = "ConnectRobot"
    BY <2>1, <2>3
  <2>4. CASE controller' \in After(step) /\ step = "DisconnectRobot"
    <3>1. PICK left \in {FALSE, stray} : controller' = [controller EXCEPT !.session = left]
      BY <2>1, <2>4
    <3>2. left \in BOOLEAN
      BY <1>1 DEF TypeOK
    <3> QED BY <2>4, <3>1, <3>2
  <2> QED BY <1>1, <2>2, <2>3, <2>4, AnyFailure
<1>5. /\ controller' \in Controllers /\ controller'.motion = controller.motion
      /\ controller'.jogs = controller.jogs /\ controller'.program = controller.program
      /\ controller'.session \in BOOLEAN
  <2>1. PICK left \in BOOLEAN : controller' = [controller EXCEPT !.session = left]
    BY <1>4
  <2>2. controller \in Controllers
    BY <1>1 DEF TypeOK
  <2> HIDE DEF step
  <2> QED BY <2>1, <2>2 DEF Controllers
<1>6. /\ driver' \in Drivers
      /\ driver' = driver \/ driver' = Fresh
      /\ step = "DisconnectRobot" =>
            ~driver'.connected /\ driver'.jog = 0 /\ ~driver'.paused
      /\ step = "ConnectRobot" => driver' = driver
  BY <1>1, <1>3 DEF TypeOK, Fresh, Drivers, kEfortAxisCount
<1>7. /\ Method' = Method /\ call'.req = call.req /\ CallOK'
      /\ call'.tolerant = TRUE /\ call'.ok = (call.ok /\ call.tolerant)
      /\ Left' = IF call.tolerant THEN Tail(Left) ELSE Recovery(step)
  BY <1>1, FailedCall
<1>8. TypeOK'
  BY <1>1, <1>2, <1>3, <1>5, <1>6, <1>7 DEF TypeOK
<1>9. Connected'
  <2>1. CASE step = "ConnectRobot"
    <3>1. driver.connected => controller'.session
      <4>1. controller' = controller \/ controller' \in After("ConnectRobot")
        BY <1>1, <2>1, AnyFailure
      <4>2. After("ConnectRobot") = {[controller EXCEPT !.session = TRUE]}
        BY DEF After
      <4>3. driver.connected => controller.session
        BY DEF Common, Connected
      <4>4. controller \in Controllers
        BY <1>1 DEF TypeOK
      <4> QED BY <4>1, <4>2, <4>3, <4>4 DEF Controllers
    <3>2. controller'.session => stray'
      BY <1>2
    <3> QED BY <1>6, <2>1, <3>1, <3>2 DEF Common, Connected
  <2>2. CASE step = "DisconnectRobot"
    BY <1>2, <1>6, <2>2 DEF Connected
  <2> QED BY <2>1, <2>2
<1>10. JogsKnown'
  BY <1>1, <1>2, <1>3, <1>5, <1>6, <1>7 DEF JogsKnown, JogOver, DidIt
<1>11. MotionKnown'
  BY <1>1, <1>2, <1>5, <1>6, <1>7 DEF Common, MotionKnown, DidIt, Stopping, Halts, Moves
<1>12. ReadingKnown'
  <2>1. Moving(controller') = Moving(controller) /\ (driver'.paused => driver.paused)
    BY <1>5, <1>6 DEF Moving
  <2>2. MotionRead => MotionRead'
    BY <1>2, <1>5, <2>1 DEF MotionRead
  <2>3. RestIsTrue'
    BY <1>2, <1>5, <2>1 DEF Common, ReadingKnown, RestIsTrue, AtRest
  <2> QED BY <1>2, <1>7, <2>2, <2>3 DEF Common, ReadingKnown
<1>13. LatestKnown'
  BY <1>2, <1>3, <1>5, <1>7 DEF Common, LatestKnown, NothingOn, NoProgram, Moves
<1> QED BY <1>2, <1>3, <1>5, <1>7, <1>8, <1>9, <1>10, <1>11, <1>12, <1>13 DEF Common

\* Connect and Disconnect go on without the call that failed.
LEMMA TolerantFrame ==
    ASSUME Common, Method \in {"Connect", "Disconnect"}, StepFails,
           Head(Left) \in {"GetCurrentRobotType", "JogStop", "ApiDrop", "ApiRelease"}
    PROVE  /\ Common' /\ Method' = Method
           /\ controller'.motion \in {controller.motion, "None"}
           /\ driver'.connected = driver.connected /\ driver'.paused = driver.paused
           /\ driver'.jog = IF Head(Left) = "JogStop" THEN 0 ELSE driver.jog
           /\ call'.tolerant /\ call'.ok = (call.ok /\ call.tolerant)
           /\ Left' = IF call.tolerant THEN Tail(Left) ELSE Recovery(Head(Left))
           /\ doubt' = (doubt \/ Method = "Disconnect")
<1> DEFINE step == Head(Left)
<1>1. TypeOK /\ CallOK /\ JogsKnown /\ Left # <<>> /\ ~Local(step)
  BY AnyFailure DEF Common
<1>2. /\ incidents' \in 0..MaxIncidents
      /\ driver' = DriverAfterFailure(step)
      /\ lost' = lost \cup JogAxis(step)
      /\ doubt' = (doubt \/ Method = "Disconnect")
      /\ UNCHANGED <<reading, jog_active, loaded, active, latest, overtaken, late, stray>>
  BY <1>1, AnyFailure
<1>3. Calm(controller, controller')
  <2>1. CASE controller' = controller
    BY <1>1, <2>1 DEF Calm, TypeOK
  <2>2. CASE controller' # controller
    <3>1. step \in Looking \cup Calming \cup {"JogStop"} /\ controller' \in After(step)
      BY <1>1, <2>2, AnyFailure DEF Looking, Quiet, Calming
    <3>2. step \notin {"SetGlobalSpeed", "JogStart"}
      OBVIOUS
    <3> QED BY <1>1, <2>2, <3>1, <3>2, Effects
  <2> QED BY <2>1, <2>2
<1>4. JogAxis(step) = IF step = "JogStop" THEN {driver.jog} \ {0} ELSE {}
  <2>1. /\ JogAxis("JogStop") = {driver.jog} \ {0} /\ JogAxis("ApiDrop") = {}
        /\ JogAxis("GetCurrentRobotType") = {} /\ JogAxis("ApiRelease") = {}
    BY DEF JogAxis
  <2> QED BY <2>1
<1>5. /\ driver' \in Drivers /\ driver'.connected = driver.connected
      /\ driver'.paused = driver.paused
      /\ driver'.jog = IF step = "JogStop" THEN 0 ELSE driver.jog
  <2>1. DriverAfterFailure(step) = IF step = "JogStop" THEN [driver EXCEPT !.jog = 0] ELSE driver
    BY DEF DriverAfterFailure
  <2> QED BY <1>1, <1>2, <2>1 DEF TypeOK, Drivers, kEfortAxisCount
<1>6. /\ Method' = Method /\ call'.req = call.req /\ CallOK'
      /\ call'.tolerant = TRUE /\ call'.ok = (call.ok /\ call.tolerant)
      /\ Left' = IF call.tolerant THEN Tail(Left) ELSE Recovery(step)
  BY <1>1, FailedCall
<1>7. /\ lost' \subseteq 1..kEfortAxisCount /\ lost \subseteq lost'
      /\ controller'.jogs \subseteq lost' \cup {driver'.jog}
  <2>1. /\ controller'.jogs \subseteq lost \cup {driver.jog}
        /\ controller'.jogs \subseteq 1..kEfortAxisCount
    BY <1>1, <1>3 DEF Calm, JogsKnown, TypeOK, Controllers
  <2>2. lost \subseteq 1..kEfortAxisCount /\ driver.jog \in 0..kEfortAxisCount
    BY <1>1 DEF TypeOK, Drivers
  <2>3. CASE step = "JogStop"
    <3> DEFINE jog == driver.jog
               jogs == controller'.jogs
    <3>1. lost' = lost \cup ({jog} \ {0})
      BY <1>2, <1>4, <2>3
    <3>2. /\ jogs \subseteq lost \cup {jog} /\ jogs \subseteq 1..kEfortAxisCount
          /\ lost \subseteq 1..kEfortAxisCount /\ jog \in 0..kEfortAxisCount
      BY <2>1, <2>2
    <3> HIDE DEF jog, jogs
    <3>3. lost' \subseteq 1..kEfortAxisCount /\ lost \subseteq lost' /\ jogs \subseteq lost'
      BY <3>1, <3>2 DEF kEfortAxisCount
    <3> QED BY <3>3 DEF jogs
  <2>4. CASE step # "JogStop"
    BY <1>2, <1>4, <1>5, <2>1, <2>2, <2>4
  <2> QED BY <2>3, <2>4
<1>8. TypeOK'
  BY <1>1, <1>2, <1>3, <1>5, <1>6, <1>7 DEF TypeOK, Calm
<1>9. Connected' /\ JogsKnown'
  BY <1>2, <1>3, <1>5, <1>6, <1>7 DEF Common, Connected, JogsKnown, Calm
<1>10. MotionKnown'
  BY <1>2, <1>3, <1>5, <1>6 DEF Common, MotionKnown, Calm, Moves, Stopping, Halts
<1>11. ReadingKnown'
  <2>1. RestIsTrue'
    BY <1>2, <1>3 DEF Common, ReadingKnown, RestIsTrue, AtRest, Moving, Calm
  <2>2. MotionRead => MotionRead'
    BY <1>2, <1>3, <1>5 DEF MotionRead, Moving, Calm
  <2> QED BY <1>2, <1>6, <2>1, <2>2 DEF Common, ReadingKnown
<1>12. LatestKnown'
  <2>1. controller.jogs \subseteq lost => controller'.jogs \subseteq lost'
    BY <1>3, <1>7 DEF Calm
  <2>2. NothingOn => NothingOn'
    BY <1>3, <2>1 DEF NothingOn, NoProgram, ProgramActive, Calm
  <2> QED BY <1>2, <1>6, <2>1, <2>2 DEF Common, LatestKnown, Moves
<1> QED BY <1>2, <1>3, <1>5, <1>6, <1>8, <1>9, <1>10, <1>11, <1>12 DEF Common, Calm

\* Connect gives up: a session it has opened is given back.
LEMMA ConnectGivingUp ==
    ASSUME DriverInv, Method = "Connect", StepFails
    PROVE  DriverInv'
<1> DEFINE step == Head(Left)
<1>1. Common /\ ConnectStage /\ Left # <<>> /\ ~driver.paused
  BY AnyFailure DEF DriverInv, Stages, Common, ConnectStage
<1>0. SUFFICES Common' /\ Method' = "Connect" /\ ConnectStage'
  BY DEF DriverInv, Stages, Stopping, Halts, Moves, Simple
<1>2. ASSUME step \in {"GetCurrentRobotType", "JogStop", "ApiRelease"}
      PROVE  /\ Common' /\ Method' = "Connect" /\ ~driver'.paused
             /\ driver'.jog = IF step = "JogStop" THEN 0 ELSE driver.jog
             /\ call'.tolerant /\ call'.ok = (call.ok /\ call.tolerant)
             /\ Left' = IF call.tolerant THEN Tail(Left) ELSE Recovery(step)
  BY <1>1, <1>2, TolerantFrame
<1>3. ASSUME step \in {"ConnectRobot", "DisconnectRobot"}, step = "DisconnectRobot" => JogOver
      PROVE  /\ Common' /\ Method' = "Connect"
             /\ driver' = IF step = "ConnectRobot" THEN driver ELSE Fresh
             /\ call'.tolerant /\ call'.ok = (call.ok /\ call.tolerant)
             /\ Left' = IF call.tolerant THEN Tail(Left) ELSE Recovery(step)
  BY <1>1, <1>3, SessionFailure
<1>4. CASE GoesOn /\ ~driver.connected /\ Left = <<"ConnectRobot", "GetCurrentRobotType">>
  <2>1. step = "ConnectRobot" /\ Recovery("ConnectRobot") = <<>>
    BY <1>4 DEF Recovery
  <2>2. /\ Common' /\ Method' = "Connect" /\ driver' = driver
        /\ call'.tolerant /\ ~call'.ok /\ Left' = <<>>
    BY <1>3, <1>4, <2>1 DEF GoesOn
  <2> QED BY <1>1, <1>4, <2>2 DEF ConnectStage, GaveUp
<1>5. CASE GoesOn /\ Left = <<"GetCurrentRobotType">>
  <2>1. step = "GetCurrentRobotType" /\ Recovery("GetCurrentRobotType") = Disconnect
    BY <1>5 DEF Recovery
  <2> QED BY <1>2, <1>5, <2>1 DEF ConnectStage, GoesOn
<1>6. CASE ~call.ok /\ call.tolerant /\ Left = Disconnect
  <2>1. step = "JogStop" /\ Tail(Left) = <<"ApiRelease", "DisconnectRobot">>
    BY <1>6 DEF Disconnect
  <2> QED BY <1>2, <1>6, <2>1 DEF ConnectStage, JogOver, Leaving
<1>7. CASE ~call.ok /\ call.tolerant /\ JogOver /\ Left = <<"ApiRelease", "DisconnectRobot">>
  <2>1. step = "ApiRelease" /\ Tail(Left) = <<"DisconnectRobot">>
    BY <1>7
  <2> QED BY <1>2, <1>7, <2>1 DEF ConnectStage, JogOver, Leaving
<1>8. CASE ~call.ok /\ call.tolerant /\ JogOver /\ Left = <<"DisconnectRobot">>
  <2>1. step = "DisconnectRobot" /\ Tail(Left) = <<>>
    BY <1>8
  <2>2. /\ Common' /\ Method' = "Connect" /\ driver' = Fresh
        /\ call'.tolerant /\ ~call'.ok /\ Left' = <<>>
    BY <1>3, <1>8, <2>1
  <2> QED BY <2>2 DEF ConnectStage, GaveUp, Fresh
<1> QED BY <1>1, <1>4, <1>5, <1>6, <1>7, <1>8 DEF ConnectStage, Leaving, DidIt, GaveUp

\* Disconnect goes on past a call that fails, to the end.
LEMMA DisconnectGivingUp ==
    ASSUME DriverInv, Method = "Disconnect", StepFails
    PROVE  DriverInv'
<1> DEFINE step == Head(Left)
<1>1. Common /\ DisconnectStage /\ Left # <<>> /\ call.tolerant
  BY AnyFailure DEF DriverInv, Stages, Common, DisconnectStage
<1>0. SUFFICES Common' /\ Method' = "Disconnect" /\ DisconnectStage'
  BY DEF DriverInv, Stages, Stopping, Halts, Moves, Simple
<1>2. ASSUME step \in {"JogStop", "ApiDrop", "ApiRelease"}
      PROVE  /\ Common' /\ Method' = "Disconnect" /\ call'.tolerant /\ doubt'
             /\ driver'.jog = IF step = "JogStop" THEN 0 ELSE driver.jog
             /\ Left' = Tail(Left)
  BY <1>1, <1>2, TolerantFrame
<1>3. CASE Left = <<"ApiDrop", "JogStop", "ApiRelease", "DisconnectRobot">>
  <2>1. step = "ApiDrop" /\ Tail(Left) = Disconnect
    BY <1>3 DEF Disconnect
  <2> QED BY <1>2, <2>1 DEF DisconnectStage
<1>4. CASE Left = Disconnect
  <2>1. step = "JogStop" /\ Tail(Left) = <<"ApiRelease", "DisconnectRobot">>
    BY <1>4 DEF Disconnect
  <2> QED BY <1>2, <2>1 DEF DisconnectStage, JogOver, Leaving
<1>5. CASE JogOver /\ Left = <<"ApiRelease", "DisconnectRobot">>
  <2>1. step = "ApiRelease" /\ Tail(Left) = <<"DisconnectRobot">>
    BY <1>5
  <2> QED BY <1>2, <1>5, <2>1 DEF DisconnectStage, JogOver, Leaving
<1>6. CASE JogOver /\ Left = <<"DisconnectRobot">>
  <2>1. step = "DisconnectRobot" /\ Tail(Left) = <<>>
    BY <1>6
  <2>2. controller.motion # "Held" \/ doubt
    BY <1>1 DEF DisconnectStage
  <2>3. /\ Common' /\ Method' = "Disconnect" /\ driver' = Fresh
        /\ call'.tolerant /\ doubt' /\ Left' = <<>>
    BY <1>1, <1>6, <2>1, <2>2, SessionFailure
  <2> QED BY <2>3 DEF DisconnectStage, JogOver, Fresh
<1> QED BY <1>1, <1>3, <1>4, <1>5, <1>6 DEF DisconnectStage, Leaving

\* A call that fails keeps the invariant, whatever the method.
LEMMA FailuresKeep ==
    ASSUME DriverInv, StepFails
    PROVE  DriverInv'
<1>1. TypeOK /\ Method \in Methods
  BY DEF DriverInv, Common, CallOK
<1>2. Method # "None"
  BY <1>1, AnyFailure DEF DriverInv, Stages, Idle, Left
<1>3. Methods = {"None", "Connect", "Disconnect", "ReadState"} \cup Commands
  BY DEF Methods, CommandTypes, Commands, Stopping, Halts, Moves, Simple
<1> QED BY <1>1, <1>2, <1>3, ConnectGivingUp, DisconnectGivingUp, ReadGivingUp, GivingUp

-----------------------------------------------------------------------------
\* The scripts the driver puts together.
LEMMA Joins ==
    /\ <<"JogStop", "ClearPause">> \o PowerOff =
          <<"JogStop", "ClearPause", "JogStop", "ClearPause", "PowerOff">>
    /\ SelectFrames \o <<"CheckTarget", "ClearPause", "MLIN">> =
          <<"SetTool", "SetUframe", "CheckTarget", "ClearPause", "MLIN">>
    /\ SelectFrames \o <<"CheckTarget", "CheckTarget", "ClearPause", "MCIRC">> =
          <<"SetTool", "SetUframe", "CheckTarget", "CheckTarget", "ClearPause", "MCIRC">>
    /\ <<"ApiDrop">> \o Disconnect =
          <<"ApiDrop", "JogStop", "ApiRelease", "DisconnectRobot">>
<1> DEFINE Names == {"JogStop", "ClearPause", "PowerOff", "SetTool", "SetUframe", "CheckTarget",
                     "MLIN", "MCIRC", "ApiDrop", "ApiRelease", "DisconnectRobot"}
<1>1. ASSUME NEW S, NEW s \in Seq(S), NEW t \in Seq(S), NEW u \in Seq(S),
             Len(u) = Len(s) + Len(t),
             \A i \in 1..Len(s) : u[i] = s[i],
             \A i \in 1..Len(t) : u[Len(s) + i] = t[i]
      PROVE  s \o t = u
  <2>1. s \o t \in Seq(S) /\ Len(s \o t) = Len(u)
    BY <1>1
  <2>2. ASSUME NEW i \in 1..Len(u)
        PROVE  (s \o t)[i] = u[i]
    <3>1. CASE i \in 1..Len(s)
      BY <1>1, <3>1
    <3>2. CASE i \notin 1..Len(s)
      <4>1. i - Len(s) \in 1..Len(t) /\ i = Len(s) + (i - Len(s))
        BY <1>1, <3>2
      <4> QED BY <1>1, <3>2, <4>1
    <3> QED BY <3>1, <3>2
  <2> DEFINE v == s \o t
  <2>3. /\ v \in Seq(S) /\ u \in Seq(S) /\ Len(v) = Len(u)
        /\ \A i \in 1..Len(u) : v[i] = u[i]
    BY <1>1, <2>1, <2>2
  <2> HIDE DEF v
  <2>4. v = u
    BY <2>3, SeqEqual
  <2> QED BY <2>4 DEF v
<1>2. <<"JogStop", "ClearPause">> \o <<"JogStop", "ClearPause", "PowerOff">> =
         <<"JogStop", "ClearPause", "JogStop", "ClearPause", "PowerOff">>
  <2> DEFINE s == <<"JogStop", "ClearPause">>
             t == <<"JogStop", "ClearPause", "PowerOff">>
             u == <<"JogStop", "ClearPause", "JogStop", "ClearPause", "PowerOff">>
  <2>1. s \in Seq(Names) /\ t \in Seq(Names) /\ u \in Seq(Names)
    OBVIOUS
  <2>2. Len(s) = 2 /\ Len(t) = 3 /\ Len(u) = 5
    OBVIOUS
  <2>3. \A i \in 1..2 : u[i] = s[i]
    OBVIOUS
  <2>4. \A i \in 1..3 : u[2 + i] = t[i]
    OBVIOUS
  <2> HIDE DEF Names, s, t, u
  <2>5. /\ Len(u) = Len(s) + Len(t)
        /\ \A i \in 1..Len(s) : u[i] = s[i]
        /\ \A i \in 1..Len(t) : u[Len(s) + i] = t[i]
    BY <2>2, <2>3, <2>4
  <2>6. s \o t = u
    BY <1>1, <2>1, <2>5
  <2> QED BY <2>6 DEF s, t, u
<1>3. <<"SetTool", "SetUframe">> \o <<"CheckTarget", "ClearPause", "MLIN">> =
         <<"SetTool", "SetUframe", "CheckTarget", "ClearPause", "MLIN">>
  <2> DEFINE s == <<"SetTool", "SetUframe">>
             t == <<"CheckTarget", "ClearPause", "MLIN">>
             u == <<"SetTool", "SetUframe", "CheckTarget", "ClearPause", "MLIN">>
  <2>1. s \in Seq(Names) /\ t \in Seq(Names) /\ u \in Seq(Names)
    OBVIOUS
  <2>2. Len(s) = 2 /\ Len(t) = 3 /\ Len(u) = 5
    OBVIOUS
  <2>3. \A i \in 1..2 : u[i] = s[i]
    OBVIOUS
  <2>4. \A i \in 1..3 : u[2 + i] = t[i]
    OBVIOUS
  <2> HIDE DEF Names, s, t, u
  <2>5. /\ Len(u) = Len(s) + Len(t)
        /\ \A i \in 1..Len(s) : u[i] = s[i]
        /\ \A i \in 1..Len(t) : u[Len(s) + i] = t[i]
    BY <2>2, <2>3, <2>4
  <2>6. s \o t = u
    BY <1>1, <2>1, <2>5
  <2> QED BY <2>6 DEF s, t, u
<1>4. <<"SetTool", "SetUframe">> \o <<"CheckTarget", "CheckTarget", "ClearPause", "MCIRC">> =
         <<"SetTool", "SetUframe", "CheckTarget", "CheckTarget", "ClearPause", "MCIRC">>
  <2> DEFINE s == <<"SetTool", "SetUframe">>
             t == <<"CheckTarget", "CheckTarget", "ClearPause", "MCIRC">>
             u == <<"SetTool", "SetUframe", "CheckTarget", "CheckTarget", "ClearPause", "MCIRC">>
  <2>1. s \in Seq(Names) /\ t \in Seq(Names) /\ u \in Seq(Names)
    OBVIOUS
  <2>2. Len(s) = 2 /\ Len(t) = 4 /\ Len(u) = 6
    OBVIOUS
  <2>3. \A i \in 1..2 : u[i] = s[i]
    OBVIOUS
  <2>4. \A i \in 1..4 : u[2 + i] = t[i]
    OBVIOUS
  <2> HIDE DEF Names, s, t, u
  <2>5. /\ Len(u) = Len(s) + Len(t)
        /\ \A i \in 1..Len(s) : u[i] = s[i]
        /\ \A i \in 1..Len(t) : u[Len(s) + i] = t[i]
    BY <2>2, <2>3, <2>4
  <2>6. s \o t = u
    BY <1>1, <2>1, <2>5
  <2> QED BY <2>6 DEF s, t, u
<1>5. <<"ApiDrop">> \o <<"JogStop", "ApiRelease", "DisconnectRobot">> =
         <<"ApiDrop", "JogStop", "ApiRelease", "DisconnectRobot">>
  <2> DEFINE s == <<"ApiDrop">>
             t == <<"JogStop", "ApiRelease", "DisconnectRobot">>
             u == <<"ApiDrop", "JogStop", "ApiRelease", "DisconnectRobot">>
  <2>1. s \in Seq(Names) /\ t \in Seq(Names) /\ u \in Seq(Names)
    OBVIOUS
  <2>2. Len(s) = 1 /\ Len(t) = 3 /\ Len(u) = 4
    OBVIOUS
  <2>3. \A i \in 1..1 : u[i] = s[i]
    OBVIOUS
  <2>4. \A i \in 1..3 : u[1 + i] = t[i]
    OBVIOUS
  <2> HIDE DEF Names, s, t, u
  <2>5. /\ Len(u) = Len(s) + Len(t)
        /\ \A i \in 1..Len(s) : u[i] = s[i]
        /\ \A i \in 1..Len(t) : u[Len(s) + i] = t[i]
    BY <2>2, <2>3, <2>4
  <2>6. s \o t = u
    BY <1>1, <2>1, <2>5
  <2> QED BY <2>6 DEF s, t, u
<1> QED BY <1>2, <1>3, <1>4, <1>5 DEF PowerOff, SelectFrames, Disconnect

\* A method that has come to its end, and what the executor makes of it.
LEMMA AnyReturn ==
    ASSUME Return, TypeOK
    PROVE  /\ Left = <<>> /\ call # Idle
           /\ Method = "Shutdown" => reading = NoSnapshot
           /\ call' = IF LeavesTo # <<>>
                      THEN [Idle EXCEPT !.req = Internal("Disconnect"),
                                        !.rest = LeavesTo, !.tolerant = TRUE]
                      ELSE Idle
           /\ \/ reading' = reading
              \/ Method = "ReadState" /\ ~call.ok
           /\ Method = "ReadState" /\ ~call.ok =>
                 reading' \in {NoSnapshot, [latest EXCEPT !.lifecycle = "Unknown"]}
           /\ jog_active' = IF Method = "Disconnect" THEN FALSE
                            ELSE IF ~call.ok THEN jog_active
                            ELSE IF Method = "Jog" THEN call.req.payload.start
                            ELSE jog_active /\ Method \notin Halts
           /\ loaded' \in BOOLEAN
           /\ active' = IF Method = "Disconnect" THEN "None"
                        ELSE IF call.ok THEN ActiveAfterCommand(Method) ELSE active
           /\ latest' = IF Method = "Disconnect" THEN NoSnapshot ELSE latest
           /\ late' = (late /\ Method # "Disconnect")
           /\ doubt' = (doubt /\ ~(call.ok /\ Method \in Halts))
           /\ UNCHANGED <<controller, driver, overtaken, incidents, lost, stray>>
BY DEF Return, Method, Left, TypeOK

\* The executor's idea of the active motion after a command.
LEMMA ActiveKinds ==
    ASSUME TypeOK
    PROVE  /\ \A m \in Moves : ActiveAfterCommand(m) = "Motion"
           /\ ActiveAfterCommand("StartProgram") = "Program"
           /\ \A m \in Halts : ActiveAfterCommand(m) = "None"
           /\ ActiveAfterCommand("StopProgram") = IF active = "Program" THEN "None"
                                                                        ELSE active
           /\ \A m \in Methods \ (Moves \cup Halts \cup {"StartProgram", "StopProgram"}) :
                 ActiveAfterCommand(m) = active
<1>1. \A m \in Moves : ActiveAfterCommand(m) = "Motion"
  BY DEF ActiveAfterCommand, Moves, Halts
<1>2. ActiveAfterCommand("StartProgram") = "Program"
  BY DEF ActiveAfterCommand, Halts
<1>3. \A m \in Halts : ActiveAfterCommand(m) = "None"
  BY DEF ActiveAfterCommand, Halts
<1>4. ActiveAfterCommand("StopProgram") = IF active = "Program" THEN "None" ELSE active
  BY DEF ActiveAfterCommand, Halts
<1>5. \A m \in Methods \ (Moves \cup Halts \cup {"StartProgram", "StopProgram"}) :
         ActiveAfterCommand(m) = active
  BY DEF ActiveAfterCommand, Moves, Halts, Methods, CommandTypes
<1> QED BY <1>1, <1>2, <1>3, <1>4, <1>5

\* A method that ends has given up or done what it was asked.
LEMMA Endings ==
    ASSUME DriverInv, Left = <<>>, call # Idle
    PROVE  /\ Method \in {"Connect", "Disconnect", "ReadState"} \cup Commands
           /\ Method \in Stopping =>
                 \/ call.ok /\ JogOver /\ NoProgram /\ controller.motion = "None"
                 \/ ~call.ok /\ doubt
           /\ Method = "Disconnect" => /\ JogOver /\ ~driver.connected
                                       /\ controller.motion = "None" \/ doubt
           /\ Method = "ReadState" /\ call.ok =>
                 reading.lifecycle = "Disconnected" \/ MotionRead
           /\ Method = "Jog" => /\ call.req.payload.start \in BOOLEAN
                                /\ call.ok => call.req.payload.start \/ JogOver
           /\ Method \in {"StartProgram", "StopProgram"} => active # "Motion"
           /\ Method = "StopProgram" /\ call.ok => NoProgram
<1>1. Method # "None" /\ Method \in Methods
  BY DEF DriverInv, Common, CallOK, Stages
<1>2. Method \in {"Connect", "Disconnect", "ReadState"} \cup Commands
  BY <1>1 DEF Methods, CommandTypes, Commands, Stopping, Halts, Moves, Simple
<1>3. Method \in Stopping =>
         \/ call.ok /\ JogOver /\ NoProgram /\ controller.motion = "None"
         \/ ~call.ok /\ doubt
  BY DEF DriverInv, Stages, StopStage, DidIt, GaveUp, PowerOff, ControlledStop
<1>4. Method = "Disconnect" => /\ JogOver /\ ~driver.connected
                               /\ controller.motion = "None" \/ doubt
  BY DEF DriverInv, Stages, DisconnectStage, Disconnect, Leaving
<1>5. <<>> \notin {ReadState, Read6, Read5, Read4, Read3, Read2, Read1}
  BY DEF ReadState, Read6, Read5, Read4, Read3, Read2, Read1
<1>6. Method = "ReadState" /\ call.ok => reading.lifecycle = "Disconnected" \/ MotionRead
  BY <1>5 DEF DriverInv, Stages, ReadStage, DidIt, GaveUp
<1>7. Method = "Jog" => /\ call.req.payload.start \in BOOLEAN
                        /\ call.ok => call.req.payload.start \/ JogOver
  BY DEF DriverInv, Stages, JogStage, DidIt, GaveUp, NewJog
<1>8. /\ Method = "StartProgram" => active = "None"
      /\ Method = "StopProgram" => active # "Motion" /\ (call.ok => NoProgram)
  BY DEF DriverInv, Stages, ProgramStage, StartStage, StopProgramStage, DidIt, GaveUp
<1> QED BY <1>1, <1>2, <1>3, <1>4, <1>6, <1>7, <1>8

\* A jog that is over for the driver has ended, or its end has failed.
LEMMA JogsOver ==
    ASSUME Common, JogOver
    PROVE  controller.jogs \subseteq lost
<1>1. controller.jogs \subseteq 1..kEfortAxisCount
  BY DEF Common, TypeOK, Controllers
<1> QED BY <1>1 DEF Common, JogsKnown, JogOver, kEfortAxisCount

\* The executor's jog, and its active motion, after a method that returns.
LEMMA ReturnTracks ==
    ASSUME DriverInv, Return
    PROVE  /\ JogsKnown' /\ jog_active' \in BOOLEAN
           /\ controller.motion # "None" => doubt' \/ active' = "Motion"
           /\ controller.motion = "Held" => doubt' \/ driver.paused
           /\ active' \in {"None", "Motion", "Program"}
<1>1. Common /\ TypeOK /\ CallOK
  BY DEF DriverInv, Common
<1>2. /\ Left = <<>> /\ call # Idle
      /\ UNCHANGED <<controller, driver, lost>>
  BY <1>1, AnyReturn
<1>3. Method \in {"Connect", "Disconnect", "ReadState"} \cup Commands
  BY <1>2, Endings
<1>4. call.ok \in BOOLEAN
  BY <1>1 DEF TypeOK
<1>5. JogOver => controller.jogs \subseteq lost
  BY <1>1, JogsOver
<1>6. JogsKnown' /\ jog_active' \in BOOLEAN
  <2>1. CASE Method = "Disconnect"
    <3>1. jog_active' = FALSE /\ JogOver
      BY <1>1, <1>2, <2>1, AnyReturn, Endings
    <3> QED BY <1>2, <1>5, <3>1 DEF JogsKnown
  <2>2. CASE Method # "Disconnect" /\ ~call.ok
    <3>1. jog_active' = jog_active
      BY <1>1, <2>2, AnyReturn
    <3> QED BY <1>1, <1>2, <2>2, <3>1 DEF Common, JogsKnown, DidIt, TypeOK
  <2>3. CASE Method = "Jog" /\ call.ok
    <3>1. jog_active' = call.req.payload.start
      BY <1>1, <2>3, AnyReturn
    <3>2. call.req.payload.start \in BOOLEAN
      BY <1>2, <2>3, Endings
    <3>3. jog_active' \in BOOLEAN
      BY <3>1, <3>2
    <3>4. jog_active' \/ JogOver
      BY <1>2, <2>3, <3>1, <3>2, Endings
    <3> QED BY <1>1, <1>2, <1>5, <3>3, <3>4 DEF Common, JogsKnown
  <2>4. CASE Method \notin {"Jog", "Disconnect"} /\ call.ok
    <3>1. jog_active' = (jog_active /\ Method \notin Halts)
      BY <1>1, <2>4, AnyReturn
    <3>2. Method \in Halts => JogOver
      BY <1>2, <2>4, Endings DEF Stopping
    <3> QED BY <1>1, <1>2, <1>5, <2>4, <3>1, <3>2 DEF Common, JogsKnown, TypeOK
  <2> QED BY <1>4, <2>1, <2>2, <2>3, <2>4
<1>7. /\ controller.motion # "None" => doubt' \/ active' = "Motion"
      /\ active' \in {"None", "Motion", "Program"}
  <2>0. active \in {"None", "Motion", "Program"}
    BY <1>1 DEF TypeOK
  <2>1. CASE Method = "Disconnect"
    BY <1>1, <1>2, <2>1, AnyReturn, Endings DEF Halts
  <2>2. CASE Method # "Disconnect" /\ ~call.ok
    <3>1. active' = active /\ (doubt => doubt')
      BY <1>1, <2>2, AnyReturn
    <3> QED BY <1>1, <2>0, <2>2, <3>1 DEF Common, MotionKnown, DidIt
  <2>3. CASE Method \in Halts /\ call.ok
    <3>1. controller.motion = "None"
      BY <1>2, <2>3, Endings DEF Stopping
    <3>2. active' = "None"
      BY <1>1, <2>3, AnyReturn, ActiveKinds DEF Halts
    <3> QED BY <3>1, <3>2
  <2>4. CASE Method \notin Halts \cup {"Disconnect"} /\ call.ok
    <3>1. active' = ActiveAfterCommand(Method) /\ (doubt => doubt')
      BY <1>1, <2>4, AnyReturn
    <3>2. CASE Method \in Moves
      BY <1>1, <3>1, <3>2, ActiveKinds
    <3>3. CASE Method \in {"StartProgram", "StopProgram"}
      <4>1. active # "Motion"
        BY <1>2, <3>3, Endings
      <4>2. controller.motion # "None" => doubt
        BY <1>1, <3>3, <4>1 DEF Common, MotionKnown, Moves
      <4> QED BY <1>1, <2>0, <3>1, <3>3, <4>2, ActiveKinds
    <3>4. CASE Method \notin Moves \cup {"StartProgram", "StopProgram"}
      <4>1. Method \in Methods
        BY <1>1 DEF CallOK
      <4>2. active' = active
        BY <1>1, <2>4, <3>1, <3>4, <4>1, ActiveKinds
      <4> QED BY <1>1, <2>0, <3>1, <3>4, <4>2 DEF Common, MotionKnown
    <3> QED BY <3>2, <3>3, <3>4
  <2> QED BY <1>4, <2>1, <2>2, <2>3, <2>4
<1>8. controller.motion = "Held" => doubt' \/ driver.paused
  <2>1. CASE Method \in Stopping
    BY <1>1, <1>2, <2>1, AnyReturn, Endings
  <2>2. CASE Method \notin Stopping
    <3>1. doubt => doubt'
      BY <1>1, <2>2, AnyReturn DEF Stopping
    <3> QED BY <1>1, <1>2, <2>2, <3>1 DEF Common, MotionKnown
  <2> QED BY <2>1, <2>2
<1> QED BY <1>6, <1>7, <1>8

\* A method returns to nothing, or to the Disconnect of a service that leaves.
LEMMA Leavings ==
    ASSUME DriverInv, Return
    PROVE  /\ CallOK' /\ call'.ok = TRUE /\ call'.tolerant \in BOOLEAN
           /\ \/ call' = Idle /\ Method' = "None"
              \/ /\ Method = "Shutdown" \/ (Method = "ReadState" /\ ~call.ok
                                            /\ latest = NoSnapshot)
                 /\ Method' = "Disconnect" /\ call'.tolerant
                 /\ Left' \in {<<"ApiDrop", "JogStop", "ApiRelease", "DisconnectRobot">>,
                               Disconnect}
<1>1. TypeOK
  BY DEF DriverInv, Common
<1>2. call' = IF LeavesTo # <<>>
              THEN [Idle EXCEPT !.req = Internal("Disconnect"),
                                !.rest = LeavesTo, !.tolerant = TRUE]
              ELSE Idle
  BY <1>1, AnyReturn
<1>3. CASE LeavesTo = <<>>
  <2>1. call' = Idle
    BY <1>2, <1>3
  <2> QED BY <2>1 DEF Idle, Internal, CallOK, Method, Left, Methods
<1>4. CASE LeavesTo # <<>>
  <2>1. /\ Method = "Shutdown" \/ (Method = "ReadState" /\ ~call.ok /\ latest = NoSnapshot)
        /\ LeavesTo \in {<<"ApiDrop">> \o Disconnect, Disconnect}
    BY <1>4 DEF LeavesTo, Method
  <2>2. call' = [Idle EXCEPT !.req = Internal("Disconnect"), !.rest = LeavesTo,
                             !.tolerant = TRUE]
    BY <1>2, <1>4
  <2>3. /\ CallOK' /\ Method' = "Disconnect" /\ call'.tolerant = TRUE /\ call'.ok = TRUE
        /\ Left' = LeavesTo
    BY <2>2 DEF Idle, Internal, CallOK, Method, Left, Methods
  <2> QED BY <2>1, <2>3, Joins
<1> QED BY <1>3, <1>4

\* The reading that waits to be published, after a method that returns.
LEMMA ReturnReading ==
    ASSUME DriverInv, Return
    PROVE  reading' \in Snapshots /\ ReadingKnown'
<1>1. Common /\ TypeOK /\ ReadingKnown
  BY DEF DriverInv, Common
<1>2. /\ Left = <<>> /\ call # Idle
      /\ UNCHANGED <<controller, driver, overtaken, lost>>
      /\ doubt' = (doubt /\ ~(call.ok /\ Method \in Halts))
  BY <1>1, AnyReturn
<1>3. Method \in {"Connect", "Disconnect", "ReadState"} \cup Commands
  BY <1>2, Endings
<1>4. CASE Method = "ReadState" /\ ~call.ok
  <2>1. reading' \in {NoSnapshot, [latest EXCEPT !.lifecycle = "Unknown"]}
    BY <1>1, <1>4, AnyReturn
  <2>2. reading' \in Snapshots /\ reading'.lifecycle = "Unknown"
    <3>1. latest \in Snapshots
      BY <1>1 DEF TypeOK
    <3> QED BY <2>1, <3>1, NoSnapshotMeans DEF Snapshots, Lifecycles
  <2>3. latest = NoSnapshot => reading' = NoSnapshot
    BY <2>1 DEF NoSnapshot
  <2>4. Method' = "None" \/ (Method' = "Disconnect" /\ reading' = NoSnapshot)
    BY <1>4, <2>3, Leavings
  <2> QED BY <2>2, <2>4 DEF ReadingKnown, RestIsTrue, AtRest, Unhealthy
<1>5. CASE ~(Method = "ReadState" /\ ~call.ok)
  <2>1. reading' = reading
    BY <1>1, <1>5, AnyReturn
  <2>2. /\ reading' \in Snapshots /\ (AtRest' <=> AtRest)
        /\ Moving(controller') = Moving(controller) /\ (MotionRead => MotionRead')
    BY <1>1, <1>2, <2>1 DEF TypeOK, AtRest, MotionRead, Moving
  <2>3. AtRest => Method \in {"Connect", "ReadState"}
    BY <1>1, <1>3, NoSnapshotMeans
       DEF ReadingKnown, AtRest, Commands, Stopping, Halts, Moves, Simple
  <2>4. RestIsTrue'
    BY <1>1, <1>2, <2>2, <2>3 DEF ReadingKnown, RestIsTrue, Halts
  <2>5. CASE Method' = "None"
    <3>1. overtaken \/ reading.lifecycle \in Unhealthy \/ MotionRead
      <4>1. CASE Method = "Connect"
        BY <1>1, <4>1 DEF ReadingKnown
      <4>2. CASE Method = "ReadState"
        <5>1. reading.lifecycle = "Disconnected" \/ MotionRead
          BY <1>1, <1>2, <1>5, <4>2, Endings DEF TypeOK
        <5> QED BY <5>1 DEF Unhealthy
      <4>3. CASE Method \notin {"Connect", "ReadState"}
        <5>1. overtaken \/ reading = NoSnapshot
          BY <1>1, <1>3, <4>3 DEF ReadingKnown, Commands, Stopping, Halts, Moves, Simple
        <5> QED BY <5>1, NoSnapshotMeans DEF Unhealthy
      <4> QED BY <4>1, <4>2, <4>3
    <3> QED BY <1>2, <2>1, <2>2, <2>4, <2>5, <3>1 DEF ReadingKnown
  <2>6. CASE Method' = "Disconnect"
    <3>1. Method = "Shutdown"
      BY <1>5, <2>6, Leavings
    <3>2. reading' = NoSnapshot
      BY <1>1, <2>1, <3>1, AnyReturn
    <3> QED BY <2>2, <2>4, <2>6, <3>2 DEF ReadingKnown
  <2> QED BY <2>2, <2>5, <2>6, Leavings
<1> QED BY <1>4, <1>5

\* The latest snapshot after a method that returns.
LEMMA ReturnLatest ==
    ASSUME DriverInv, Return
    PROVE  latest' \in Snapshots /\ late' \in BOOLEAN /\ LatestKnown'
<1>1. Common /\ TypeOK /\ LatestKnown
  BY DEF DriverInv, Common
<1>2. /\ Left = <<>> /\ call # Idle
      /\ UNCHANGED <<controller, driver, lost>>
      /\ latest' = IF Method = "Disconnect" THEN NoSnapshot ELSE latest
      /\ late' = (late /\ Method # "Disconnect")
      /\ doubt' = (doubt /\ ~(call.ok /\ Method \in Halts))
  BY <1>1, AnyReturn
<1>3. latest' \in Snapshots /\ late' \in BOOLEAN
  BY <1>1, <1>2, NoSnapshotMeans DEF TypeOK
<1>4. Method' \in {"None", "Disconnect"}
  BY Leavings
<1>5. CASE Method = "Disconnect"
  <2>1. latest' = NoSnapshot /\ active' = "None"
    BY <1>1, <1>2, <1>5, AnyReturn
  <2> QED BY <1>3, <1>4, <2>1, NoSnapshotMeans DEF LatestKnown, Admissible
<1>6. CASE Method # "Disconnect"
  <2>1. /\ latest' = latest /\ late' = late
        /\ Admissible(latest') = Admissible(latest)
        /\ NothingOn' = NothingOn
    BY <1>1, <1>2, <1>6 DEF Admissible, NothingOn, NoProgram, TypeOK
  <2>2. active' = IF call.ok THEN ActiveAfterCommand(Method) ELSE active
    BY <1>1, <1>6, AnyReturn
  <2>3. latest = NoSnapshot => active' = "None"
    <3>1. latest = NoSnapshot => active = "None" /\ Method \in {"Connect", "ReadState"}
      <4>1. Method # "None"
        BY <1>2, Endings DEF Commands, Stopping, Halts, Moves, Simple
      <4> QED BY <1>1, <1>6, <4>1 DEF LatestKnown
    <3>2. \A m \in {"Connect", "ReadState"} : ActiveAfterCommand(m) = active
      BY DEF ActiveAfterCommand, Halts
    <3> QED BY <2>2, <3>1, <3>2
  <2>4. ASSUME Admissible(latest), ~late
        PROVE  controller.jogs \subseteq lost /\ (doubt' \/ NothingOn \/ active' # "None")
    <3>1. /\ controller.jogs \subseteq lost
          /\ \/ doubt \/ NothingOn \/ active # "None"
             \/ Method \in Moves \cup {"StartProgram"} /\ DidIt
      BY <1>1, <2>4 DEF LatestKnown
    <3>2. CASE ~call.ok
      BY <1>2, <2>2, <3>1, <3>2 DEF DidIt
    <3>3. CASE call.ok /\ Method \in Halts
      BY <1>2, <3>1, <3>3, Endings DEF Stopping, NothingOn
    <3>4. CASE call.ok /\ Method \in Moves \cup {"StartProgram"}
      <4>1. active' \in {"Motion", "Program"}
        BY <1>1, <2>2, <3>4, ActiveKinds
      <4> QED BY <3>1, <4>1
    <3>5. CASE call.ok /\ Method = "StopProgram"
      <4>1. NoProgram /\ active # "Motion" /\ doubt' = doubt
        BY <1>1, <1>2, <3>5, Endings DEF TypeOK, Halts
      <4>2. controller.motion = "None" \/ doubt
        BY <1>1, <3>5, <4>1 DEF Common, MotionKnown, Moves
      <4> QED BY <3>1, <4>1, <4>2 DEF NothingOn
    <3>6. CASE call.ok /\ Method \notin Moves \cup Halts \cup {"StartProgram", "StopProgram"}
      <4>1. Method \in Methods
        BY <1>1 DEF Common, CallOK
      <4>2. active' = active /\ doubt' = doubt
        BY <1>1, <1>2, <2>2, <3>6, <4>1, ActiveKinds DEF TypeOK
      <4> QED BY <3>1, <3>6, <4>2
    <3>7. call.ok \in BOOLEAN
      BY <1>1 DEF TypeOK
    <3> QED BY <3>2, <3>3, <3>4, <3>5, <3>6, <3>7
  <2> QED BY <1>2, <1>3, <1>4, <2>1, <2>3, <2>4 DEF LatestKnown
<1> QED BY <1>5, <1>6

\* A method that returns keeps the invariant.
LEMMA ReturnKeeps ==
    ASSUME DriverInv, Return
    PROVE  DriverInv'
<1>1. Common /\ TypeOK
  BY DEF DriverInv, Common
<1>2. /\ Left = <<>> /\ call # Idle
      /\ UNCHANGED <<controller, driver, overtaken, incidents, lost, stray>>
      /\ loaded' \in BOOLEAN
      /\ doubt' = (doubt /\ ~(call.ok /\ Method \in Halts))
  BY <1>1, AnyReturn
<1>3. CallOK' /\ call'.ok = TRUE /\ call'.tolerant \in BOOLEAN
      /\ Method' \in {"None", "Disconnect"}
  BY Leavings
<1>4. TypeOK'
  BY <1>1, <1>2, <1>3, ReturnTracks, ReturnReading, ReturnLatest DEF TypeOK
<1>5. Connected'
  BY <1>1, <1>2 DEF Common, Connected
<1>6. MotionKnown'
  BY <1>2, <1>3, ReturnTracks DEF MotionKnown
<1>7. Common'
  BY <1>3, <1>4, <1>5, <1>6, ReturnTracks, ReturnReading, ReturnLatest DEF Common
<1>8. CASE call' = Idle
  <2>1. Method' = "None" /\ Idle' = Idle
    BY <1>8 DEF Method, Idle, Internal
  <2> QED BY <1>7, <1>8, <2>1 DEF DriverInv, Stages, Stopping, Halts, Moves, Simple
<1>9. CASE call' # Idle
  <2>1. /\ Method = "Shutdown" \/ (Method = "ReadState" /\ ~call.ok /\ latest = NoSnapshot)
        /\ Method' = "Disconnect" /\ call'.tolerant
        /\ Left' \in {<<"ApiDrop", "JogStop", "ApiRelease", "DisconnectRobot">>, Disconnect}
    BY <1>9, Leavings
  <2>2. doubt' = doubt
    BY <1>1, <1>2, <2>1 DEF TypeOK, Halts
  <2>3. controller.motion = "None" \/ doubt
    <3>1. CASE Method = "Shutdown"
      BY <1>2, <3>1, Endings DEF Stopping
    <3>2. CASE Method = "ReadState" /\ latest = NoSnapshot
      <4>1. active = "None"
        BY <1>1, <3>2 DEF Common, LatestKnown
      <4> QED BY <1>1, <3>2, <4>1 DEF Common, MotionKnown, Moves
    <3> QED BY <2>1, <3>1, <3>2
  <2>4. DisconnectStage'
    BY <1>2, <2>1, <2>2, <2>3 DEF DisconnectStage, Disconnect
  <2> QED BY <1>7, <2>1, <2>4 DEF DriverInv, Stages, Stopping, Halts, Moves, Simple
<1> QED BY <1>8, <1>9

-----------------------------------------------------------------------------
\* The monitor publishes what it has read.
LEMMA AnyPublish ==
    ASSUME Publish
    PROVE  /\ reading # NoSnapshot /\ Method # "ReadState"
           /\ latest' = reading /\ late' = overtaken
           /\ reading' = NoSnapshot /\ overtaken' = FALSE
           /\ active' \in ActiveAfterReading
           /\ active' = active \/ active' = "None"
           /\ doubt' = \/ doubt
                       \/ /\ active # "None" /\ active' = "None"
                          /\ overtaken \/ reading.lifecycle \in Unhealthy
           /\ UNCHANGED <<controller, driver, call, jog_active, loaded, incidents, lost, stray>>
<1>1. ActiveAfterReading \subseteq {active, "None"}
  BY DEF ActiveAfterReading
<1> QED BY <1>1 DEF Publish, Method

\* A motion that a reading ends has ended, or the executor has lost track of it.
LEMMA PublishTracks ==
    ASSUME DriverInv, Publish
    PROVE  MotionKnown'
<1>1. Common /\ TypeOK
  BY DEF DriverInv, Common
<1>2. /\ reading # NoSnapshot /\ Method # "ReadState"
      /\ active' \in ActiveAfterReading /\ (active' = active \/ active' = "None")
      /\ doubt' = \/ doubt
                  \/ /\ active # "None" /\ active' = "None"
                     /\ overtaken \/ reading.lifecycle \in Unhealthy
      /\ UNCHANGED <<controller, driver, call>>
  BY AnyPublish
<1>3. Method' = Method /\ Left' = Left /\ DidIt' = DidIt
  BY <1>2 DEF Method, Left, DidIt
<1>4. controller.motion = "Held" =>
         \/ doubt' \/ driver.paused \/ Method \in Stopping
         \/ Method = "Hold" /\ Left = <<"SetPause">>
  BY <1>1, <1>2 DEF Common, MotionKnown
<1>5. controller.motion # "None" =>
         doubt' \/ active' = "Motion" \/ (Method \in Moves /\ DidIt)
  <2>1. SUFFICES ASSUME controller.motion # "None", ~doubt', active = "Motion", active' = "None"
                 PROVE  FALSE
    BY <1>1, <1>2 DEF Common, MotionKnown
  <2>2. ~doubt /\ ~overtaken /\ reading.lifecycle \notin Unhealthy
    BY <1>2, <2>1
  <2>3. Method \in {"None", "Connect"} /\ MotionRead
    BY <1>1, <1>2, <2>2 DEF Common, ReadingKnown
  <2>4. ~reading.paused /\ ~reading.moving
    BY <1>2, <2>1, <2>2 DEF ActiveAfterReading
  <2>5. controller.motion = "Held" /\ ~driver.paused
    BY <1>1, <2>1, <2>3, <2>4 DEF MotionRead, Moving, TypeOK, Controllers
  <2> QED BY <1>1, <2>2, <2>3, <2>5 DEF Common, MotionKnown, Stopping, Halts
<1> QED BY <1>2, <1>3, <1>4, <1>5 DEF MotionKnown

\* A reading that is published keeps the invariant, also one that is overtaken.
LEMMA PublishKeeps ==
    ASSUME DriverInv, Publish
    PROVE  DriverInv'
<1>1. Common /\ Stages /\ TypeOK
  BY DEF DriverInv, Common
<1>2. /\ reading # NoSnapshot /\ Method # "ReadState"
      /\ latest' = reading /\ late' = overtaken
      /\ reading' = NoSnapshot /\ overtaken' = FALSE
      /\ active' = active \/ active' = "None"
      /\ doubt' \in BOOLEAN /\ (doubt => doubt')
      /\ UNCHANGED <<controller, driver, call, jog_active, loaded, incidents, lost, stray>>
  BY <1>1, AnyPublish DEF TypeOK
<1>3. /\ Method' = Method /\ Left' = Left /\ DidIt' = DidIt /\ GoesOn' = GoesOn
      /\ GaveUp' = GaveUp /\ JogOver' = JogOver /\ NoProgram' = NoProgram
      /\ NothingOn' = NothingOn /\ CallOK' = CallOK
  BY <1>2 DEF Method, Left, DidIt, GoesOn, GaveUp, JogOver, NoProgram, NothingOn, CallOK
<1>4. TypeOK' /\ Connected' /\ JogsKnown'
  <2>1. TypeOK'
    BY <1>1, <1>2, NoSnapshotMeans DEF TypeOK
  <2>2. Connected' /\ JogsKnown'
    BY <1>1, <1>2, <1>3 DEF Common, Connected, JogsKnown
  <2> QED BY <2>1, <2>2
<1>5. ReadingKnown'
  BY <1>2, <1>3, NoSnapshotMeans DEF ReadingKnown, RestIsTrue, AtRest, Unhealthy
<1>6. ~overtaken => Method \in {"None", "Connect"}
  BY <1>1, <1>2 DEF Common, ReadingKnown
<1>7. LatestKnown'
  <2>1. latest' # NoSnapshot
    BY <1>2
  <2>2. ASSUME Admissible(latest'), ~late'
        PROVE  controller.jogs \subseteq lost /\ (doubt \/ NothingOn)
    <3>1. AtRest
      BY <1>2, <2>2 DEF Admissible, AtRest
    <3>2. ~Moving(controller) /\ controller.program # "Pause" /\ (controller.motion = "Held" => doubt)
      BY <1>1, <3>1 DEF Common, ReadingKnown, RestIsTrue
    <3> QED BY <1>1, <3>2 DEF Moving, NothingOn, NoProgram, ProgramActive, TypeOK, Controllers
  <2> QED BY <1>2, <1>3, <1>6, <2>1, <2>2 DEF LatestKnown
<1>8. Common'
  BY <1>1, <1>3, <1>4, <1>5, <1>7, PublishTracks DEF Common
<1>9. Stages'
  <2>1. /\ ConnectStage => ConnectStage'
        /\ DisconnectStage => DisconnectStage'
    BY <1>2, <1>3 DEF ConnectStage, DisconnectStage
  <2>2. /\ StopStage => StopStage'
        /\ JogStage => JogStage'
        /\ HoldStage => HoldStage'
        /\ ResumeStage => ResumeStage'
        /\ SimpleStage => SimpleStage'
    BY <1>2, <1>3 DEF StopStage, JogStage, HoldStage, ResumeStage, SimpleStage
  <2>3. StopProgramStage => StopProgramStage'
    BY <1>2, <1>3 DEF StopProgramStage
  <2>4. Method \in Moves \cup {"StartProgram"} => late'
    BY <1>2, <1>6 DEF Moves
  <2>5. /\ Method \in Moves /\ MoveStage => MoveStage'
        /\ Method = "StartProgram" /\ ProgramStage => ProgramStage'
    BY <1>2, <1>3, <2>4 DEF MoveStage, ProgramStage, StartStage, FromRest
  <2>6. (call = Idle)' = (call = Idle)
    BY <1>2 DEF Idle, Internal
  <2> QED BY <1>1, <1>2, <1>3, <2>1, <2>2, <2>3, <2>5, <2>6 DEF Stages
<1> QED BY <1>8, <1>9 DEF DriverInv

-----------------------------------------------------------------------------
\* A method begins: the reading that waits is overtaken, unless the method is one of
\* the service that changes nothing.
LEMMA BeginFrame ==
    ASSUME DriverInv, call = Idle, NEW req, NEW script, Begin(req, script),
           req.type \in Methods,
           UNCHANGED <<controller, driver, reading, jog_active, loaded, active,
                       latest, late, incidents, doubt, lost, stray>>,
           overtaken' \in BOOLEAN, overtaken => overtaken' \/ reading = NoSnapshot,
           \/ req.type = "Connect"
           \/ req.type = "ReadState" /\ reading = NoSnapshot
           \/ latest # NoSnapshot /\ (reading # NoSnapshot => overtaken'),
           Admissible(latest) /\ ~late => req.type \notin {"Jog", "Hold", "Resume"}
    PROVE  /\ Common' /\ GoesOn' /\ Left' = script
           /\ Method' = req.type /\ call'.req = req
<1>1. Common /\ TypeOK /\ Method = "None" /\ Left = <<>>
  BY DEF DriverInv, Common, Idle, Internal, Method, Left
<1>2. /\ Method' = req.type /\ call'.req = req /\ CallOK' /\ GoesOn' /\ Left' = script
      /\ call'.ok = TRUE /\ call'.tolerant = FALSE
  BY DEF Begin, Idle, CallOK, GoesOn, Method, Left
<1>3. TypeOK'
  BY <1>1, <1>2 DEF TypeOK
<1>4. Connected' /\ JogsKnown' /\ MotionKnown'
  BY <1>1, <1>2 DEF Common, Connected, JogsKnown, MotionKnown, Moves, Stopping, Halts
<1>5. ReadingKnown'
  <2>1. (MotionRead => MotionRead') /\ Moving(controller') = Moving(controller)
    BY DEF MotionRead, Moving
  <2>2. RestIsTrue'
    BY <1>1, <2>1, NoSnapshotMeans DEF Common, ReadingKnown, RestIsTrue, AtRest
  <2>3. overtaken \/ reading.lifecycle \in Unhealthy \/ MotionRead
    BY <1>1 DEF Common, ReadingKnown
  <2>4. Method' \notin {"None", "Connect", "ReadState"} => overtaken' \/ reading' = NoSnapshot
    BY <1>2
  <2>5. Method' \in {"None", "Connect"} =>
           overtaken' \/ reading'.lifecycle \in Unhealthy \/ MotionRead'
    BY <1>2, <2>1, <2>3, NoSnapshotMeans DEF Unhealthy
  <2> QED BY <2>2, <2>4, <2>5 DEF ReadingKnown
<1>6. LatestKnown'
  <2>1. Admissible(latest') = Admissible(latest) /\ NothingOn' = NothingOn
    BY DEF Admissible, NothingOn, NoProgram
  <2>2. Admissible(latest) /\ ~late =>
           controller.jogs \subseteq lost /\ (doubt \/ NothingOn \/ active # "None")
    BY <1>1 DEF Common, LatestKnown, Moves
  <2>3. latest = NoSnapshot => active = "None" /\ req.type \in {"Connect", "ReadState"}
    BY <1>1 DEF Common, LatestKnown
  <2> QED BY <1>2, <2>1, <2>2, <2>3 DEF LatestKnown
<1> QED BY <1>2, <1>3, <1>4, <1>5, <1>6 DEF Common

\* Connect, the monitor's reading and Shutdown begin with their first call.
LEMMA ServiceBegins ==
    ASSUME DriverInv, Connect \/ Poll \/ Shutdown
    PROVE  DriverInv'
<1>0. overtaken \in BOOLEAN
  BY DEF DriverInv, Common, TypeOK
<1>1. CASE Connect
  <2> DEFINE script == <<"ConnectRobot", "GetCurrentRobotType">>
  <2>1. /\ call = Idle /\ ~driver.connected /\ Begin(Internal("Connect"), script)
        /\ overtaken' = overtaken
        /\ UNCHANGED <<controller, driver, reading, jog_active, loaded, active,
                       latest, late, incidents, doubt, lost, stray>>
    BY <1>1 DEF Connect, executor, snapshot, history
  <2>2. Internal("Connect").type = "Connect" /\ "Connect" \in Methods
    BY DEF Internal, Methods
  <2>3. Common' /\ GoesOn' /\ Left' = script /\ Method' = "Connect"
    BY <1>0, <2>1, <2>2, BeginFrame
  <2>4. ~driver'.paused /\ ~driver'.connected
    BY <2>1 DEF DriverInv, Common, Connected
  <2> QED BY <2>3, <2>4 DEF DriverInv, Stages, ConnectStage, Stopping, Halts, Moves, Simple
<1>2. CASE Poll
  <2>1. /\ call = Idle /\ Begin(Internal("ReadState"), ReadState)
        /\ reading = NoSnapshot /\ overtaken' = overtaken
        /\ UNCHANGED <<controller, driver, reading, jog_active, loaded, active,
                       latest, late, incidents, doubt, lost, stray>>
    BY <1>2 DEF Poll, executor, snapshot, history
  <2>2. Internal("ReadState").type = "ReadState" /\ "ReadState" \in Methods
    BY DEF Internal, Methods
  <2>3. Common' /\ GoesOn' /\ Left' = ReadState /\ Method' = "ReadState"
    BY <1>0, <2>1, <2>2, BeginFrame
  <2> QED BY <2>3 DEF DriverInv, Stages, ReadStage, Stopping, Halts, Moves, Simple
<1>3. CASE Shutdown
  <2>1. /\ call = Idle /\ Begin(Internal("Shutdown"), Stop("Controlled"))
        /\ latest # NoSnapshot /\ overtaken' = (reading # NoSnapshot)
        /\ UNCHANGED <<controller, driver, reading, jog_active, loaded, active,
                       latest, late, incidents, doubt, lost, stray>>
    BY <1>3 DEF Shutdown, Overtake, executor, history
  <2>2. /\ Internal("Shutdown").type = "Shutdown" /\ "Shutdown" \in Methods
        /\ Stop("Controlled") = ControlledStop
    BY DEF Internal, Methods, Stop
  <2>3. /\ overtaken' \in BOOLEAN /\ (reading # NoSnapshot => overtaken')
        /\ overtaken => overtaken' \/ reading = NoSnapshot
    BY <2>1
  <2>4. Common' /\ GoesOn' /\ Left' = Stop("Controlled") /\ Method' = "Shutdown"
    BY <2>1, <2>2, <2>3, BeginFrame
  <2> QED BY <2>2, <2>4 DEF DriverInv, Stages, StopStage, Stopping, Halts, Moves, Simple
<1> QED BY <1>1, <1>2, <1>3

\* On a snapshot that admits a motion the guard admits no jog, hold or resume.
LEMMA GuardTellsApart ==
    ASSUME NEW req, Admissible(latest), Validate(req, latest, TRUE, jog_active) = "Ok"
    PROVE  req.type \notin {"Jog", "Hold", "Resume"}
<1>1. ASSUME req.type = "Jog" PROVE FALSE
  <2>1. ValidateJog(req.payload, latest, TRUE, jog_active) = "Ok"
    BY <1>1 DEF Validate
  <2>2. latest.mode = "Manual"
    BY <2>1 DEF ValidateJog
  <2> QED BY <2>2 DEF Admissible
<1>2. ASSUME req.type = "Hold" PROVE FALSE
  <2>1. RequireThenLease(latest.moving \/ latest.program_running, TRUE) = "Ok"
    BY <1>2 DEF Validate
  <2> QED BY <2>1 DEF RequireThenLease, Admissible
<1>3. ASSUME req.type = "Resume" PROVE FALSE
  <2>1. RequireThenLease(latest.paused, TRUE) = "Ok"
    BY <1>3 DEF Validate
  <2> QED BY <2>1 DEF RequireThenLease, Admissible
<1> QED BY <1>1, <1>2, <1>3

\* What the executor and the guard have made sure of when a command begins.
LEMMA Admission ==
    ASSUME Common, NEW req \in Requests, Execute(req)
    PROVE  /\ call = Idle /\ Begin(req, Script(req)) /\ driver.connected
           /\ latest # NoSnapshot
           /\ overtaken' \in BOOLEAN /\ (reading # NoSnapshot => overtaken')
           /\ overtaken => overtaken' \/ reading = NoSnapshot
           /\ UNCHANGED <<controller, driver, reading, jog_active, loaded, active,
                          latest, late, incidents, doubt, lost, stray>>
           /\ req.type \in CommandTypes
           /\ Admissible(latest) => req.type \notin {"Jog", "Hold", "Resume"}
           /\ req.type \in Moves \cup {"StartProgram"} => active = "None" /\ FromRest
           /\ req.type = "StopProgram" => active # "Motion"
           /\ req.type = "Jog" =>
                 req.payload.axis \in Int /\ req.payload.start \in BOOLEAN
<1>1. /\ call = Idle /\ Begin(req, Script(req)) /\ driver.connected
      /\ latest # NoSnapshot
      /\ overtaken' = (reading # NoSnapshot)
      /\ UNCHANGED <<controller, driver, reading, jog_active, loaded, active,
                     latest, late, incidents, doubt, lost, stray>>
      /\ Validate(req, latest, TRUE, jog_active) = "Ok" /\ MayRun(req.type)
  BY DEF Execute, Overtake, executor, history
<1>2. req.type \in CommandTypes
  BY RequestsAssumption
<1>3. req.type = "StopProgram" => active # "Motion"
  BY <1>1 DEF MayRun
<1>4. Admissible(latest) => req.type \notin {"Jog", "Hold", "Resume"}
  BY <1>1, GuardTellsApart
<1>5. ASSUME req.type \in Moves \cup {"StartProgram"}
      PROVE  active = "None" /\ FromRest
  <2>1. active = "None"
    BY <1>1, <1>5 DEF MayRun, Moves
  <2>2. ValidateCommonMotion(latest, TRUE) = "Ok"
    BY <1>1, <1>5 DEF Validate, Moves
  <2>3. Admissible(latest)
    BY <2>2 DEF ValidateCommonMotion, Admissible
  <2>4. Method = "None"
    BY <1>1 DEF Method, Idle, Internal
  <2> QED BY <2>1, <2>3, <2>4 DEF Common, LatestKnown, FromRest, Moves
<1>6. ASSUME req.type = "Jog"
      PROVE  req.payload.axis \in Int /\ req.payload.start \in BOOLEAN
  <2>1. ValidatePayloadType(req)
    BY <1>1 DEF Validate
  <2>2. req.payload.kind = "Jog"
    BY <1>6, <2>1 DEF ValidatePayloadType, PayloadKinds
  <2> QED BY <2>2, RequestsAssumption
<1> QED BY <1>1, <1>2, <1>3, <1>4, <1>5, <1>6

\* The calls a move starts with are those of MoveLeft, or it is refused.
LEMMA MoveScripts ==
    ASSUME NEW req, req.type \in Moves
    PROVE  Script(req) \in MoveLeft \cup {<<"Refuse">>}
<1>1. CASE req.type = "MoveJ"
  <2>1. Script(req) = Unless(Len(req.payload.degrees) # kEfortAxisCount,
                             <<"CheckTarget", "ClearPause", "MJOINT">>)
    BY <1>1 DEF Script
  <2> QED BY <2>1 DEF Unless, MoveLeft
<1>2. CASE req.type = "MoveL"
  <2>1. Script(req) = SelectFrames \o <<"CheckTarget", "ClearPause", "MLIN">>
    BY <1>2 DEF Script
  <2> QED BY <2>1, Joins DEF MoveLeft
<1>3. CASE req.type = "MoveC"
  <2>1. Script(req) = SelectFrames \o <<"CheckTarget", "CheckTarget", "ClearPause", "MCIRC">>
    BY <1>3 DEF Script
  <2> QED BY <2>1, Joins DEF MoveLeft
<1> QED BY <1>1, <1>2, <1>3 DEF Moves

\* The calls of Stop and PowerOff.
LEMMA HaltScripts ==
    ASSUME NEW req, req.type \in Halts
    PROVE  Script(req) \in {<<"Refuse">>, PowerOff, ControlledStop,
                      <<"JogStop", "ClearPause", "JogStop", "ClearPause", "PowerOff">>}
<1>1. CASE req.type = "PowerOff"
  BY <1>1 DEF Script
<1>2. CASE req.type = "Stop"
  <2> DEFINE mode == IF req.payload.kind = "None" THEN "Controlled" ELSE req.payload.mode
  <2>1. Script(req) = Stop(mode)
    BY <1>2 DEF Script
  <2>2. Stop(mode) \in {<<"Refuse">>, ControlledStop, <<"JogStop", "ClearPause">> \o PowerOff}
    <3> HIDE DEF mode
    <3> QED BY DEF Stop
  <2> QED BY <2>1, <2>2, Joins
<1> QED BY <1>1, <1>2 DEF Halts

\* The calls of the methods of a single purpose.
LEMMA SimpleScripts ==
    ASSUME NEW req, req.type \in Simple
    PROVE  /\ Script(req) \in {<<"ApiAcquire">>, <<"ApiDrop">>, <<"PowerOn">>,
                               <<"GetEmgStatus", "ClearAlarm">>, <<"SetGlobalSpeed">>,
                               <<"WriteDOut">>, <<"LoadProgram">>, <<"Refuse">>}
           /\ Script(req) = <<"SetGlobalSpeed">> => req.payload.ratio \in 1..100
<1> DEFINE p == req.payload
<1>1. CASE req.type = "SetGlobalSpeed"
  <2>1. Script(req) = Unless(p.ratio \notin 1..100, <<"SetGlobalSpeed">>)
    BY <1>1 DEF Script
  <2>2. <<"Refuse">> # <<"SetGlobalSpeed">>
    OBVIOUS
  <2> QED BY <2>1, <2>2 DEF Unless
<1>2. CASE req.type # "SetGlobalSpeed"
  <2>1. /\ req.type = "AcquireControl" => Script(req) = <<"ApiAcquire">>
        /\ req.type = "ReleaseControl" => Script(req) = <<"ApiDrop">>
        /\ req.type = "PowerOn" => Script(req) = <<"PowerOn">>
        /\ req.type = "ClearFault" => Script(req) = <<"GetEmgStatus", "ClearAlarm">>
    BY DEF Script
  <2>2. /\ req.type = "WriteDigitalOutput" =>
              Script(req) = Unless(p.index >= kEfortDigitalIoCount, <<"WriteDOut">>)
        /\ req.type = "LoadProgram" =>
              Script(req) = Unless(p.name = "", <<"LoadProgram">>)
    BY DEF Script
  <2>3. Script(req) \in {<<"ApiAcquire">>, <<"ApiDrop">>, <<"PowerOn">>,
                         <<"GetEmgStatus", "ClearAlarm">>, <<"WriteDOut">>,
                         <<"LoadProgram">>, <<"Refuse">>}
    BY <1>2, <2>1, <2>2 DEF Unless, Simple
  <2>4. <<"SetGlobalSpeed">> \notin {<<"ApiAcquire">>, <<"ApiDrop">>, <<"PowerOn">>,
                         <<"GetEmgStatus", "ClearAlarm">>, <<"WriteDOut">>,
                         <<"LoadProgram">>, <<"Refuse">>}
    OBVIOUS
  <2> QED BY <2>3, <2>4
<1> QED BY <1>1, <1>2

\* A command the executor passes on begins with its first call.
LEMMA CommandBegins ==
    ASSUME DriverInv, NEW req \in Requests, Execute(req)
    PROVE  DriverInv'
<1> DEFINE p == req.payload
<1>1. Common
  BY DEF DriverInv
<1>2. /\ driver.connected /\ req.type \in CommandTypes
      /\ UNCHANGED <<controller, driver, active, late, doubt, lost>>
  BY <1>1, Admission
<1>3. /\ Common' /\ GoesOn' /\ Left' = Script(req)
      /\ Method' = req.type /\ call'.req = req
  <2>1. req.type \in Methods
    BY <1>2 DEF Methods
  <2> QED BY <1>1, <2>1, Admission, BeginFrame
<1>0. SUFFICES Stages'
  BY <1>3 DEF DriverInv
<1>4. CASE req.type \in Halts
  <2>1. StopStage'
    BY <1>3, <1>4, HaltScripts DEF StopStage
  <2> QED BY <1>3, <1>4, <2>1 DEF Stages, Stopping, Halts, Moves, Simple
<1>5. CASE req.type \in Moves
  <2>1. active' = "None" /\ FromRest'
    BY <1>1, <1>2, <1>5, Admission DEF FromRest, NothingOn, NoProgram
  <2>2. MoveStage'
    BY <1>3, <1>5, <2>1, MoveScripts DEF MoveStage, StartStage
  <2> QED BY <1>3, <1>5, <2>2 DEF Stages, Stopping, Halts, Moves, Simple
<1>6. CASE req.type \in Simple
  <2>1. SimpleStage'
    BY <1>3, <1>6, SimpleScripts DEF SimpleStage
  <2> QED BY <1>3, <1>6, <2>1 DEF Stages, Stopping, Halts, Moves, Simple
<1>7. CASE req.type = "Jog"
  <2>1. p.axis \in Int /\ p.start \in BOOLEAN
    BY <1>1, <1>7, Admission
  <2>2. Script(req) = Jog(p)
    BY <1>7 DEF Script
  <2>3. \/ Jog(p) = <<"Refuse">>
        \/ Jog(p) = <<"JogStop">> /\ ~p.start
        \/ Jog(p) = <<>> /\ p.start
        \/ Jog(p) = NewJog /\ p.start /\ p.axis \in 1..kEfortAxisCount
    BY DEF Jog
  <2>4. JogStage'
    BY <1>3, <2>1, <2>2, <2>3 DEF JogStage, GoesOn, DidIt
  <2> QED BY <1>3, <1>7, <2>4 DEF Stages, Stopping, Halts, Moves, Simple
<1>8. CASE req.type = "StartProgram"
  <2>1. active' = "None" /\ FromRest'
    BY <1>1, <1>2, <1>8, Admission DEF FromRest, NothingOn, NoProgram
  <2>2. Script(req) = <<"ClearPause", "StartProgram">>
    BY <1>8 DEF Script
  <2>3. ProgramStage'
    BY <1>3, <2>1, <2>2 DEF ProgramStage, StartStage
  <2> QED BY <1>3, <1>8, <2>3 DEF Stages, Stopping, Halts, Moves, Simple
<1>9. CASE req.type = "Hold"
  <2>1. Script(req) = <<"MOVEHOLD", "SetPause">>
    BY <1>9 DEF Script
  <2>2. HoldStage'
    BY <1>2, <1>3, <2>1 DEF HoldStage
  <2> QED BY <1>3, <1>9, <2>2 DEF Stages, Stopping, Halts, Moves, Simple
<1>10. CASE req.type = "Resume"
  <2>1. Script(req) = <<"MOVERESUME", "ClearPause">>
    BY <1>10 DEF Script
  <2>2. ResumeStage'
    BY <1>3, <2>1 DEF ResumeStage
  <2> QED BY <1>3, <1>10, <2>2 DEF Stages, Stopping, Halts, Moves, Simple
<1>11. CASE req.type = "StopProgram"
  <2>1. active # "Motion"
    BY <1>1, <1>11, Admission
  <2>2. Script(req) = <<"StopProgram", "ClearPause">>
    BY <1>11 DEF Script
  <2>3. StopProgramStage'
    BY <1>2, <1>3, <2>1, <2>2 DEF StopProgramStage
  <2> QED BY <1>3, <1>11, <2>3 DEF Stages, Stopping, Halts, Moves, Simple
<1> QED BY <1>2, <1>4, <1>5, <1>6, <1>7, <1>8, <1>9, <1>10, <1>11
        DEF CommandTypes, Halts, Moves, Simple

-----------------------------------------------------------------------------
\* The world.  The controller by itself only calms down.
LEMMA Halting ==
    ASSUME NEW c \in Controllers
    PROVE  Halted(c) \in Controllers /\ Calm(c, Halted(c))
BY DEF Halted, Calm, Controllers, ProgramActive

LEMMA SettlesCalm ==
    ASSUME TypeOK, ControllerSettles
    PROVE  Calm(controller, controller') /\ UNCHANGED incidents
<1> DEFINE c == controller
<1>1. /\ UNCHANGED incidents
      /\ \/ controller' = [c EXCEPT !.motion = "None"]
         \/ \E p \in {"Init", "Error"} : controller' = [c EXCEPT !.program = p]
         \/ controller' = [c EXCEPT !.emergency_stop = FALSE]
         \/ controller' = [c EXCEPT !.link = TRUE]
  BY DEF ControllerSettles, Happens
<1>2. c \in Controllers
  BY DEF TypeOK
<1>3. CASE controller' = [c EXCEPT !.motion = "None"]
  BY <1>1, <1>2, <1>3 DEF Calm, Controllers
<1>4. CASE \E p \in {"Init", "Error"} : controller' = [c EXCEPT !.program = p]
  BY <1>1, <1>2, <1>4 DEF Calm, Controllers
<1>5. CASE controller' = [c EXCEPT !.emergency_stop = FALSE]
  BY <1>1, <1>2, <1>5 DEF Calm, Controllers
<1>6. CASE controller' = [c EXCEPT !.link = TRUE]
  BY <1>1, <1>2, <1>6 DEF Calm, Controllers
<1> QED BY <1>1, <1>3, <1>4, <1>5, <1>6

LEMMA EventsCalm ==
    ASSUME TypeOK, ControllerEvent
    PROVE  Calm(controller, controller') /\ incidents' \in 0..MaxIncidents
<1> DEFINE c == controller
           h == Halted(controller)
<1>1. /\ incidents < MaxIncidents /\ incidents' = incidents + 1
      /\ \/ controller' = [h EXCEPT !.emergency_stop = TRUE, !.servo_on = FALSE]
         \/ controller' = [h EXCEPT !.alarm_active = TRUE]
         \/ controller' = [c EXCEPT !.link = FALSE]
         \/ \E mode \in {"Manual", "Automatic"} : controller' = [c EXCEPT !.mode = mode]
  BY DEF ControllerEvent, Incident, Happens
<1>2. incidents' \in 0..MaxIncidents
  BY <1>1, IncidentsAssumption DEF TypeOK
<1>3. c \in Controllers /\ h \in Controllers /\ Calm(c, h)
  BY Halting DEF TypeOK
<1>0. SUFFICES Calm(controller, controller')
  BY <1>2
<1>4. CASE \/ controller' = [h EXCEPT !.emergency_stop = TRUE, !.servo_on = FALSE]
           \/ controller' = [h EXCEPT !.alarm_active = TRUE]
  <2> HIDE DEF h
  <2>1. h \in Controllers /\ Calm(c, h)
    BY <1>3
  <2>2. controller' \in Controllers
    BY <1>4, <2>1 DEF Controllers
  <2>3. /\ controller'.session = h.session /\ controller'.jogs = h.jogs
        /\ controller'.motion = h.motion /\ controller'.program = h.program
    BY <1>4, <2>1 DEF Controllers
  <2> QED BY <2>1, <2>2, <2>3 DEF Calm
<1>5. CASE controller' = [c EXCEPT !.link = FALSE]
  BY <1>3, <1>5 DEF Calm, Controllers
<1>6. CASE \E mode \in {"Manual", "Automatic"} : controller' = [c EXCEPT !.mode = mode]
  BY <1>3, <1>6 DEF Calm, Controllers, ControllerModes
<1> QED BY <1>1, <1>4, <1>5, <1>6

\* What is known of a method in progress outlasts a controller that calms down.
LEMMA StagesOutlast ==
    ASSUME Common, Stages, Calm(controller, controller'),
           UNCHANGED <<driver, call, reading, active, late, doubt, lost>>
    PROVE  Stages'
<1>1. /\ Method' = Method /\ Left' = Left /\ JogOver' = JogOver /\ GoesOn' = GoesOn
      /\ GaveUp' = GaveUp /\ DidIt' = DidIt
      /\ ConnectStage' = ConnectStage
      /\ JogStage' = JogStage /\ HoldStage' = HoldStage
      /\ SimpleStage' = SimpleStage
  BY DEF Method, Left, JogOver, GoesOn, GaveUp, DidIt, ConnectStage, JogStage,
         HoldStage, SimpleStage
<1>2. /\ NoProgram => NoProgram'
      /\ controller.motion = "None" => controller'.motion = "None"
      /\ controller.motion # "Running" => controller'.motion # "Running"
      /\ controller.motion # "Held" => controller'.motion # "Held"
      /\ NothingOn => NothingOn'
      /\ ~Moving(controller) => ~Moving(controller')
      /\ controller.program # "Pause" => controller'.program # "Pause"
  BY DEF Calm, NoProgram, NothingOn, Moving, ProgramActive
<1>3. ProgramRead => ProgramRead'
  BY <1>2 DEF ProgramRead
<1>4. MotionRead => MotionRead'
  BY <1>2 DEF MotionRead, Moving
<1>5. DisconnectStage => DisconnectStage'
  BY <1>1, <1>2 DEF DisconnectStage
<1>6. ReadStage => ReadStage'
  BY <1>1, <1>3, <1>4 DEF ReadStage
<1>7. StopStage => StopStage'
  BY <1>1, <1>2 DEF StopStage
<1>8. (MoveStage => MoveStage') /\ (ProgramStage => ProgramStage')
  BY <1>1, <1>2 DEF MoveStage, ProgramStage, StartStage, FromRest
<1>9. ResumeStage => ResumeStage'
  BY <1>1, <1>2 DEF ResumeStage
<1>10. StopProgramStage => StopProgramStage'
  BY <1>1, <1>2 DEF StopProgramStage
<1>11. (call = Idle)' = (call = Idle)
  BY DEF Idle, Internal
<1> QED BY <1>1, <1>5, <1>6, <1>7, <1>8, <1>9, <1>10, <1>11 DEF Stages

\* What the controller does by itself keeps the invariant.
LEMMA EventsKeep ==
    ASSUME DriverInv, ControllerSettles \/ ControllerEvent
    PROVE  DriverInv'
<1>1. Common /\ Stages /\ TypeOK
  BY DEF DriverInv, Common
<1>2. UNCHANGED <<driver, call, reading, jog_active, loaded, active, latest, overtaken,
                  late, doubt, lost, stray>>
  BY DEF ControllerSettles, ControllerEvent, Happens, executor, snapshot
<1>3. Calm(controller, controller') /\ (incidents' = incidents \/ incidents' \in 0..MaxIncidents)
  BY <1>1, SettlesCalm, EventsCalm
<1>4. Common'
  BY <1>1, <1>2, <1>3, CalmFrame
<1>5. Stages'
  BY <1>1, <1>2, <1>3, StagesOutlast
<1> QED BY <1>4, <1>5 DEF DriverInv

\* A restart of the process keeps the invariant: what still jogs is lost to the driver.
LEMMA CrashKeeps ==
    ASSUME DriverInv, Crash
    PROVE  DriverInv'
<1>1. TypeOK
  BY DEF DriverInv, Common
<1>2. /\ driver' = Fresh /\ call' = Idle /\ reading' = NoSnapshot /\ latest' = NoSnapshot
      /\ overtaken' = FALSE /\ late' = FALSE /\ stray' = FALSE
      /\ controller' = [controller EXCEPT !.session = FALSE]
      /\ jog_active' = FALSE /\ loaded' = FALSE /\ active' = "None"
      /\ doubt' = TRUE /\ lost' = lost \cup controller.jogs
      /\ incidents < MaxIncidents /\ incidents' = incidents + 1
  BY DEF Crash, Incident
<1>3. /\ controller' \in Controllers /\ controller'.session = FALSE
      /\ controller'.jogs = controller.jogs
      /\ controller.jogs \subseteq 1..kEfortAxisCount
  BY <1>1, <1>2 DEF TypeOK, Controllers
<1>4. Fresh \in Drivers /\ Fresh.connected = FALSE /\ Fresh.paused = FALSE
  BY DEF Fresh, Drivers, kEfortAxisCount
<1>5. /\ CallOK' /\ Method' = "None" /\ call'.ok = TRUE /\ call'.tolerant = FALSE
      /\ (call = Idle)'
  BY <1>2 DEF CallOK, Method, Left, Idle, Internal, Methods
<1>6. incidents' \in 0..MaxIncidents
  BY <1>1, <1>2, IncidentsAssumption DEF TypeOK
<1>7. TypeOK'
  BY <1>1, <1>2, <1>3, <1>4, <1>5, <1>6, NoSnapshotMeans DEF TypeOK
<1>8. Connected' /\ JogsKnown' /\ MotionKnown'
  BY <1>2, <1>3, <1>4, <1>5 DEF Connected, JogsKnown, MotionKnown
<1>9. ReadingKnown' /\ LatestKnown'
  BY <1>2, <1>5, NoSnapshotMeans
     DEF ReadingKnown, RestIsTrue, AtRest, Unhealthy, LatestKnown, Admissible
<1>10. Stages'
  BY <1>5 DEF Stages, Stopping, Halts, Moves, Simple
<1> QED BY <1>5, <1>7, <1>8, <1>9, <1>10 DEF DriverInv, Common

\* The invariant holds at the start.
LEMMA InitHolds ==
    ASSUME Init
    PROVE  DriverInv
<1>1. /\ call = Idle /\ Method = "None" /\ CallOK /\ call.ok = TRUE /\ call.tolerant = FALSE
  BY DEF Init, CallOK, Method, Left, Idle, Internal, Methods
<1>2. /\ controller \in Controllers /\ controller.session = FALSE
      /\ controller.jogs = {} /\ controller.motion = "None"
  BY DEF Init, Controllers, ControllerModes, kEfortAxisCount
<1>3. driver \in Drivers /\ driver.connected = FALSE /\ driver.paused = FALSE
  BY DEF Init, Fresh, Drivers, kEfortAxisCount
<1>4. /\ reading = NoSnapshot /\ latest = NoSnapshot
      /\ overtaken = FALSE /\ late = FALSE /\ stray = FALSE
  BY DEF Init
<1>5. TypeOK
  <2>1. incidents \in 0..MaxIncidents
    BY IncidentsAssumption DEF Init
  <2>2. /\ jog_active \in BOOLEAN /\ loaded \in BOOLEAN /\ doubt \in BOOLEAN
        /\ active \in {"None", "Motion", "Program"} /\ lost \subseteq 1..kEfortAxisCount
    BY DEF Init
  <2> QED BY <1>1, <1>2, <1>3, <1>4, <2>1, <2>2, NoSnapshotMeans DEF TypeOK
<1>6. Connected /\ JogsKnown /\ MotionKnown
  BY <1>1, <1>2, <1>3 DEF Connected, JogsKnown, MotionKnown
<1>8. ReadingKnown /\ LatestKnown
  <2>1. active = "None"
    BY DEF Init
  <2> QED BY <1>1, <1>4, <2>1, NoSnapshotMeans
          DEF ReadingKnown, RestIsTrue, AtRest, Unhealthy, LatestKnown, Admissible
<1>7. Stages
  BY <1>1 DEF Stages, Stopping, Halts, Moves, Simple
<1> QED BY <1>1, <1>5, <1>6, <1>7, <1>8 DEF DriverInv, Common

\* Every step keeps the invariant.
LEMMA NextKeeps ==
    ASSUME DriverInv, [Next]_vars
    PROVE  DriverInv'
<1>1. CASE Connect \/ Poll \/ Shutdown
  BY <1>1, ServiceBegins
<1>2. CASE \E req \in Requests : Execute(req)
  BY <1>2, CommandBegins
<1>3. CASE StepSucceeds
  BY <1>3, SuccessesKeep
<1>4. CASE StepFails
  BY <1>4, FailuresKeep
<1>5. CASE Return
  BY <1>5, ReturnKeeps
<1>6. CASE ControllerSettles \/ ControllerEvent
  BY <1>6, EventsKeep
<1>7. CASE Crash
  BY <1>7, CrashKeeps
<1>9. CASE Publish
  BY <1>9, PublishKeeps
<1>8. CASE UNCHANGED vars
  <2>1. Common /\ Stages /\ controller \in Controllers
    BY DEF DriverInv, Common, TypeOK
  <2>2. /\ Calm(controller, controller')
        /\ UNCHANGED <<driver, call, reading, jog_active, loaded, active, latest, overtaken,
                       late, incidents, doubt, lost, stray>>
    BY <1>8, <2>1 DEF vars, executor, snapshot, history, Calm
  <2> QED BY <2>1, <2>2, CalmFrame, StagesOutlast DEF DriverInv
<1> QED BY <1>1, <1>2, <1>3, <1>4, <1>5, <1>6, <1>7, <1>8, <1>9 DEF Next

-----------------------------------------------------------------------------
(***************************************************************************)
(* The theorems.                                                           *)
(***************************************************************************)
\* What is known at each SDK call that a method has yet to make holds on every
\* behaviour.
THEOREM DriverInvariant == Spec => []DriverInv
<1>1. Init => DriverInv
  BY InitHolds
<1>2. DriverInv /\ [Next]_vars => DriverInv'
  BY NextKeeps
<1> QED BY <1>1, <1>2, PTL DEF Spec

\* Every variable of the driver, the controller and the executor keeps its type.
THEOREM DriverTypes == Spec => []TypeOK
<1>1. DriverInv => TypeOK
  BY DEF DriverInv, Common
<1> QED BY <1>1, DriverInvariant, PTL

\* Stop and PowerOff that report success have ended every motion, also one on hold,
\* every program and every jog but those whose jog call had failed.
THEOREM HaltsAreComplete == Spec => []HaltIsComplete
<1>1. DriverInv => HaltIsComplete
  <2>1. SUFFICES ASSUME DriverInv, Method \in Halts, Left = <<>>, call.ok
                 PROVE  /\ controller.motion = "None"
                        /\ controller.program \notin ProgramActive
                        /\ controller.jogs \subseteq lost
    BY DEF HaltIsComplete, Method, Left
  <2>2. call # Idle
    BY <2>1 DEF Method, Idle, Internal, Halts
  <2>3. JogOver /\ NoProgram /\ controller.motion = "None"
    BY <2>1, <2>2, Endings DEF Stopping
  <2>4. controller.jogs \subseteq lost
    BY <2>1, <2>3
       DEF DriverInv, Common, JogsKnown, TypeOK, Controllers, JogOver, kEfortAxisCount
  <2> QED BY <2>3, <2>4 DEF NoProgram
<1> QED BY <1>1, DriverInvariant, PTL

\* A reading that says the arm is at rest is right while it is used, although the
\* controller lives on between the calls it is made of.
THEOREM ReadingsOfRestAreTrue == Spec => []RestIsTrue
<1>1. DriverInv => RestIsTrue
  BY DEF DriverInv, Common, ReadingKnown
<1> QED BY <1>1, DriverInvariant, PTL

\* A jog that runs is known to the driver, and between two methods to the executor.
THEOREM JogsAreKnown == Spec => []JogIsKnown
<1>1. DriverInv => JogIsKnown
  <2>1. call = Idle => Method # "Jog"
    BY DEF Method, Idle, Internal
  <2> QED BY <2>1 DEF DriverInv, Common, JogsKnown, JogIsKnown
<1> QED BY <1>1, DriverInvariant, PTL

\* A driver that is connected has a session, a session outlives its driver only where
\* ConnectRobot or DisconnectRobot itself failed, and Disconnect and a Connect that
\* fails forget the connection whatever else fails on the way.
THEOREM SessionsAreClosed == Spec => []NoSessionLeft
<1>1. DriverInv => NoSessionLeft
  <2>1. SUFFICES ASSUME DriverInv
                 PROVE  NoSessionLeft
    OBVIOUS
  <2>2. /\ driver.connected => controller.session
        /\ controller.session => driver.connected \/ stray
    BY <2>1 DEF DriverInv, Common, Connected
  <2>3. ASSUME Method = "Connect", Left = <<>>, ~call.ok
        PROVE  ~driver.connected
    BY <2>1, <2>3
       DEF DriverInv, Stages, ConnectStage, Disconnect, Leaving, DidIt, GaveUp, GoesOn
  <2>4. ASSUME Method = "Disconnect", Left = <<>>
        PROVE  ~driver.connected
    BY <2>1, <2>4 DEF DriverInv, Stages, DisconnectStage, Disconnect, Leaving
  <2> QED BY <2>2, <2>3, <2>4 DEF NoSessionLeft, Method, Left
<1> QED BY <1>1, DriverInvariant, PTL

\* Only a motion command or StartProgram starts a path or a program, and at rest.
LEMMA StartsAreStages ==
    ASSUME DriverInv, Left # <<>>, Head(Left) \in Paths \cup {"StartProgram"}
    PROVE  Method \in Commands /\ FromRest
<1>1. Method # "None" /\ Method \in Methods
  BY DEF DriverInv, Common, CallOK, Stages, Idle, Left
<1>2. CASE Method = "Connect"
  BY <1>2 DEF DriverInv, Stages, ConnectStage, Disconnect, Leaving, DidIt, GaveUp, Paths
<1>3. CASE Method = "Disconnect"
  BY <1>3 DEF DriverInv, Stages, DisconnectStage, Disconnect, Leaving, Paths
<1>4. CASE Method = "ReadState"
  BY <1>4, ReadCalls DEF DriverInv, Stages, ReadStage, DidIt, GaveUp, Paths
<1>5. CASE Method \in Stopping
  BY <1>5 DEF DriverInv, Stages, StopStage, DidIt, GaveUp, PowerOff, ControlledStop, Paths
<1>6. CASE Method = "Jog"
  BY <1>6 DEF DriverInv, Stages, JogStage, DidIt, GaveUp, NewJog, Paths
<1>7. CASE Method \in Moves
  <2>1. Left # <<"Refuse">>
    BY DEF Paths
  <2> QED BY <1>7, <2>1 DEF DriverInv, Stages, MoveStage, StartStage, DidIt, GaveUp, Commands
<1>8. CASE Method = "StartProgram"
  <2>1. Left # <<"Refuse">>
    BY DEF Paths
  <2> QED BY <1>8, <2>1 DEF DriverInv, Stages, ProgramStage, StartStage, DidIt, GaveUp, Commands
<1>9. CASE Method \in {"Hold", "Resume", "StopProgram"}
  BY <1>9 DEF DriverInv, Stages, HoldStage, ResumeStage, StopProgramStage,
              DidIt, GaveUp, Paths
<1>10. CASE Method \in Simple
  <2>1. SimpleStage
    BY <1>10 DEF DriverInv, Stages
  <2>2. CASE Left = <<"GetEmgStatus", "ClearAlarm">>
    BY <2>2 DEF Paths
  <2>3. CASE Left # <<"GetEmgStatus", "ClearAlarm">>
    <3>1. PICK s \in {"ApiAcquire", "ApiDrop", "PowerOn", "ClearAlarm", "SetGlobalSpeed",
                      "WriteDOut", "LoadProgram", "Refuse"} : Left = <<s>>
      BY <2>1, <2>3 DEF SimpleStage, DidIt, GaveUp
    <3> QED BY <3>1 DEF Paths
  <2> QED BY <2>2, <2>3
<1> QED BY <1>1, <1>2, <1>3, <1>4, <1>5, <1>6, <1>7, <1>8, <1>9, <1>10
        DEF Methods, CommandTypes, Stopping, Halts, Moves, Simple

\* A path or a program is started on a controller that has none under way, neither
\* running nor on hold, and that does not jog, although the guard looks at a snapshot
\* the executor keeps: unless something failed or the executor lost track of a motion
\* before, or a command had overtaken the snapshot when it was published.
THEOREM StartsAreFromRest == Spec => StartsFromRest
<1> DEFINE StartsAtRest ==
      Left # <<>> /\ Head(Left) \in Starts \ {"JogStart", "MOVERESUME"}
         /\ controller' # controller
      => \/ doubt' \/ late
         \/ /\ controller.motion = "None"
            /\ controller.program \notin ProgramActive
            /\ controller.jogs \subseteq lost
<1>1. DriverInv /\ [Next]_vars => [StartsAtRest]_vars
  <2>1. SUFFICES ASSUME DriverInv, Next, Left # <<>>,
                        Head(Left) \in Starts \ {"JogStart", "MOVERESUME"},
                        controller' # controller
                 PROVE  doubt' \/ late \/ NothingOn
    BY DEF NothingOn, NoProgram
  <2>2. Method \in Commands /\ (doubt \/ late \/ NothingOn)
    BY <2>1, StartsAreStages DEF Starts, Paths, FromRest
  <2>3. CASE StepSucceeds
    BY <2>2, <2>3, AnyStep
  <2>4. CASE StepFails
    <3>1. Method \notin {"ReadState", "Connect"}
      BY <2>2 DEF Commands, Stopping, Halts, Moves, Simple
    <3> QED BY <2>1, <2>4, <3>1, AnyFailure DEF DriverInv, Common
  <2>5. CASE ControllerSettles \/ ControllerEvent
    BY <2>2, <2>5 DEF ControllerSettles, ControllerEvent, Happens
  <2>6. CASE Crash
    BY <2>6 DEF Crash
  <2>7. CASE Return \/ Publish
    BY <2>1, <2>7 DEF Return, Publish
  <2>8. CASE Connect \/ Poll \/ Shutdown \/ \E req \in Requests : Execute(req)
    <3>1. call = Idle
      BY <2>8 DEF Connect, Poll, Shutdown, Execute
    <3> QED BY <2>1, <3>1 DEF Idle, Left
  <2> QED BY <2>1, <2>3, <2>4, <2>5, <2>6, <2>7, <2>8 DEF Next
<1>2. [StartsAtRest]_vars => [/\ call.rest # <<>>
                          /\ Head(call.rest) \in Starts \ {"JogStart", "MOVERESUME"}
                          /\ controller' # controller
                          => \/ doubt' \/ late
                             \/ /\ controller.motion = "None"
                                /\ controller.program \notin ProgramActive
                                /\ controller.jogs \subseteq lost]_vars
  BY DEF Left
<1> QED BY <1>1, <1>2, DriverInvariant, PTL DEF Spec, StartsFromRest
=============================================================================
