------------------------ MODULE GuardedDriverProofs -------------------------
(***************************************************************************)
(* Proofs about guard and driver together, for every site policy the       *)
(* configuration loader accepts, every controller size and every set of    *)
(* requests.                                                               *)
(***************************************************************************)
EXTENDS GuardedDriver, TLAPS

\* PoweredMotion of a state of driver and controller.
Powered(r) ==
    (r.moving \/ r.paused) => r.connected /\ r.servo_on /\ ~r.emergency_stop

\* What a driver call may not undo.
Kept(r, s) == /\ s \in Robots
              /\ Powered(s)
              /\ s.connected = r.connected
              /\ r.program_loaded => s.program_loaded

\* The inductive invariant: the connection stays, and the executor believes that a
\* program is loaded only when the driver has one.
DriverInv == /\ TypeOK
             /\ Powered(robot)
             /\ robot.connected
             /\ loaded => robot.program_loaded

-----------------------------------------------------------------------------
\* Each driver method keeps the type and the power rule.
LEMMA DriverCallsKeep ==
    ASSUME NEW r \in Robots, Powered(r)
    PROVE  /\ Kept(r, AcquireControl(r).robot)
           /\ Kept(r, ReleaseControl(r).robot)
           /\ Kept(r, PowerOn(r).robot)
           /\ Kept(r, PowerOff(r).robot)
           /\ Kept(r, ClearFault(r).robot)
           /\ \A ratio : Kept(r, SetGlobalSpeed(r, ratio).robot)
           /\ \A S, speed : Kept(r, Move(r, S, speed).robot)
           /\ Kept(r, Hold(r).robot)
           /\ Kept(r, Resume(r).robot)
           /\ \A mode : Kept(r, Stop(r, mode).robot)
           /\ \A p : Kept(r, Jog(r, p).robot)
           /\ \A name : Kept(r, LoadProgram(r, name).robot)
           /\ Kept(r, StartProgram(r).robot)
           /\ Kept(r, StopProgram(r).robot)
<1> USE DEF Robots, Powered, Kept, Accept, Refuse
<1>1. Kept(r, AcquireControl(r).robot) /\ Kept(r, ReleaseControl(r).robot)
  BY DEF AcquireControl, ReleaseControl
<1>2. Kept(r, PowerOn(r).robot) /\ Kept(r, PowerOff(r).robot)
  BY DEF PowerOn, PowerOff, AtRest
<1>3. Kept(r, ClearFault(r).robot)
  BY DEF ClearFault
<1>4. ASSUME NEW ratio PROVE Kept(r, SetGlobalSpeed(r, ratio).robot)
  BY DEF SetGlobalSpeed
<1>5. ASSUME NEW S, NEW speed PROVE Kept(r, Move(r, S, speed).robot)
  BY DEF Move, CheckReadyLocked, BeginMotionLocked
<1>6. Kept(r, Hold(r).robot) /\ Kept(r, Resume(r).robot)
  BY DEF Hold, Resume, RefreshMotionLocked, BeginMotionLocked
<1>7. ASSUME NEW mode PROVE Kept(r, Stop(r, mode).robot)
  BY DEF Stop, AtRest
<1>8. ASSUME NEW p PROVE Kept(r, Jog(r, p).robot)
  BY DEF Jog, CheckReadyLocked
<1>9. ASSUME NEW name PROVE Kept(r, LoadProgram(r, name).robot)
  BY DEF LoadProgram
<1>10. Kept(r, StartProgram(r).robot) /\ Kept(r, StopProgram(r).robot)
  BY DEF StartProgram, StopProgram, AtRest, CheckReadyLocked, BeginMotionLocked
<1> QED BY <1>1, <1>2, <1>3, <1>4, <1>5, <1>6, <1>7, <1>8, <1>9, <1>10

\* So does a write to an output the policy names.
LEMMA WriteKeeps ==
    ASSUME NEW r \in Robots, Powered(r), NEW index \in Nat, NEW value
    PROVE  Kept(r, WriteDigitalOutput(r, index, value).robot)
<1> DEFINE outputs == IF value THEN r.outputs \cup {index} ELSE r.outputs \ {index}
<1>1. CASE index < DigitalIoCount
  <2>1. outputs \in SUBSET (0..(DigitalIoCount - 1))
    BY <1>1, DigitalIoAssumption DEF Robots
  <2>2. WriteDigitalOutput(r, index, value).robot = [r EXCEPT !.outputs = outputs]
    BY <1>1 DEF WriteDigitalOutput, Accept, Robots
  <2> QED BY <2>1, <2>2 DEF Robots, Kept, Powered
<1>2. CASE ~(index < DigitalIoCount)
  BY <1>2 DEF WriteDigitalOutput, Refuse, Kept
<1> QED BY <1>1, <1>2

\* ReadState refreshes the motion: it can only end it.
LEMMA RefreshKeeps ==
    ASSUME NEW r \in Robots, Powered(r)
    PROVE  Kept(r, RefreshMotionLocked(r))
BY DEF RefreshMotionLocked, Robots, Kept, Powered

\* The guard admits a write only to an output the policy names.
LEMMA AdmittedWrite ==
    ASSUME NEW req \in Requests, Admitted(req), req.type = "WriteDigitalOutput"
    PROVE  req.payload.index \in Nat
<1>1. req.payload.index \in Policy.writable_digital_outputs
  BY DEF Admitted, Validate, RequireThenLease, RequireLease
<1> QED BY <1>1, PolicyAssumption

\* An admitted command keeps what driver calls keep.
LEMMA ExecuteKeeps ==
    ASSUME NEW r \in Robots, Powered(r), NEW req \in Requests, Admitted(req)
    PROVE  Kept(r, Execute(r, req).robot)
<1>1. req.type \in CommandTypes
  BY RequestsAssumption
<1>2. CASE req.type \in {"AcquireControl", "ReleaseControl", "PowerOn", "PowerOff",
                         "ClearFault", "SetGlobalSpeed", "MoveJ", "MoveL", "MoveC"}
  BY <1>2, DriverCallsKeep DEF Execute
<1>3. CASE req.type \in {"Hold", "Resume", "Stop", "Jog", "LoadProgram",
                         "StartProgram", "StopProgram"}
  BY <1>3, DriverCallsKeep DEF Execute
<1>4. CASE req.type = "WriteDigitalOutput"
  <2>1. Execute(r, req) = WriteDigitalOutput(r, req.payload.index, req.payload.value)
    BY <1>4 DEF Execute
  <2> QED BY <1>4, <2>1, AdmittedWrite, WriteKeeps
<1> QED BY <1>1, <1>2, <1>3, <1>4 DEF CommandTypes

\* A successful LoadProgram leaves a program in the driver.
LEMMA LoadLeavesProgram ==
    ASSUME NEW r \in Robots, NEW req, req.type = "LoadProgram", Execute(r, req).ok
    PROVE  Execute(r, req).robot.program_loaded
<1>1. Execute(r, req) = LoadProgram(r, req.payload.name)
  BY DEF Execute
<1>2. CASE LoadProgram(r, req.payload.name) = Refuse(r)
  <2>1. Refuse(r).ok = FALSE
    BY DEF Refuse
  <2> QED BY <1>1, <1>2, <2>1
<1>3. CASE LoadProgram(r, req.payload.name) = Accept([r EXCEPT !.program_loaded = TRUE])
  <2>1. Accept([r EXCEPT !.program_loaded = TRUE]).robot.program_loaded = TRUE
    BY DEF Accept, Robots
  <2> QED BY <1>1, <1>3, <2>1
<1> QED BY <1>2, <1>3 DEF LoadProgram

\* Every initial state satisfies the invariant.
LEMMA DriverInvInit == Init => DriverInv
<1> SUFFICES ASSUME Init PROVE DriverInv
  OBVIOUS
<1>1. robot = [Unconnected({}) EXCEPT !.connected = TRUE, !.mode = "Automatic",
                                      !.speed_ratio = 10]
  BY DEF Init, Connect, Unconnected, Accept
<1>2. robot \in Robots
  BY <1>1, DigitalIoAssumption DEF Unconnected, Robots, ControllerModes
<1> QED BY <1>1, <1>2 DEF DriverInv, TypeOK, Powered, Unconnected, Init

\* One step per kind of event.
LEMMA DriverInvNext == DriverInv /\ [Next]_vars => DriverInv'
<1> SUFFICES ASSUME DriverInv, [Next]_vars PROVE DriverInv'
  OBVIOUS
<1> DEFINE fresh == RefreshMotionLocked(robot)
<1>1. robot \in Robots /\ Powered(robot)
  BY DEF DriverInv, TypeOK
<1>2. Kept(robot, fresh)
  BY <1>1, RefreshKeeps
<1>3. ASSUME NEW req \in Requests, Run(req) PROVE DriverInv'
  <2>1. robot' = Execute(fresh, req).robot /\ Admitted(req)
    BY <1>3 DEF Run
  <2>2. Kept(fresh, robot')
    BY <1>2, <2>1, ExecuteKeeps DEF Kept
  <2>3. robot' \in Robots /\ Powered(robot') /\ robot'.connected
    BY <1>2, <2>2 DEF Kept, DriverInv
  <2>4. jog_active' \in BOOLEAN /\ loaded' \in BOOLEAN
    <3>1. loaded' \in BOOLEAN
      BY <1>3 DEF Run
    <3>2. req.type = "Jog" => req.payload.kind = "Jog"
      BY <2>1 DEF Admitted, Validate, ValidatePayloadType, PayloadKinds
    <3>3. req.type = "Jog" => req.payload.start \in BOOLEAN
      BY <3>2, RequestsAssumption
    <3>4. jog_active' \in BOOLEAN
      BY <1>3, <3>3 DEF Run, DriverInv, TypeOK
    <3> QED BY <3>1, <3>4
  <2>5. loaded' => robot'.program_loaded
    BY <1>2, <1>3, <2>1, <2>2, LoadLeavesProgram DEF Run, Kept, DriverInv
  <2> QED BY <2>3, <2>4, <2>5 DEF DriverInv, TypeOK
<1>4. CASE MotionEnds
  BY <1>1, <1>4 DEF MotionEnds, DriverInv, TypeOK, Robots, Powered
<1>5. CASE EmergencyStop
  BY <1>1, <1>5 DEF EmergencyStop, SetEmergencyStop, DriverInv, TypeOK, Robots, Powered
<1>6. CASE ControllerAlarm
  BY <1>1, <1>6 DEF ControllerAlarm, SetAlarm, DriverInv, TypeOK, Robots, Powered
<1>7. CASE ModeSwitch
  BY <1>1, <1>7 DEF ModeSwitch, SetControllerMode, DriverInv, TypeOK, Robots, Powered,
                    ControllerModes
<1>8. CASE UNCHANGED vars
  BY <1>8 DEF vars, DriverInv, TypeOK, Powered
<1> QED BY <1>3, <1>4, <1>5, <1>6, <1>7, <1>8 DEF Next

\* The inductive invariant of the guarded driver holds in every reachable state, for
\* every policy and every set of requests the assumptions allow.
THEOREM DriverInvariant == Spec => []DriverInv
BY DriverInvInit, DriverInvNext, PTL DEF Spec

\* Type correctness of guard and driver.
THEOREM TypeCorrect == Spec => []TypeOK
BY DriverInvariant, PTL DEF DriverInv

\* The controller moves, or holds a motion it may resume, only with a connection and
\* servo power and without an emergency stop.
THEOREM MotionIsPowered == Spec => []PoweredMotion
<1>1. DriverInv => PoweredMotion
  BY DEF DriverInv, Powered, PoweredMotion
<1> QED BY <1>1, DriverInvariant, PTL

-----------------------------------------------------------------------------
\* A snapshot shows the driver's state as it is.
LEMMA SnapshotShows ==
    ASSUME NEW r
    PROVE  LET s == Snapshot(r) IN
           /\ s.connected = r.connected /\ s.api_control = r.api_control
           /\ s.servo_on = r.servo_on /\ s.emergency_stop = r.emergency_stop
           /\ s.alarm_active = r.alarm_active /\ s.moving = r.moving
           /\ s.paused = r.paused
BY DEF Snapshot

\* The preconditions of a motion are those of the driver.
LEMMA MotionIsReady ==
    ASSUME NEW r, ValidateCommonMotion(Snapshot(r), TRUE) = "Ok"
    PROVE  CheckReadyLocked(r)
BY SnapshotShows DEF ValidateCommonMotion, CheckReadyLocked

\* The checks of a target end with a speed the driver takes.
LEMMA SpeedIsAccepted ==
    ASSUME NEW p
    PROVE  /\ ValidateMoveJ(p) = "Ok" => p.speed \in 1..100
           /\ ValidateMoveL(p) = "Ok" => p.speed \in Nat \ {0}
           /\ ValidateMoveC(p) = "Ok" => p.speed \in Nat \ {0}
<1>1. ValidateMoveJ(p) = "Ok" => p.speed \in 1..Policy.maximum_joint_speed_percent
  BY DEF ValidateMoveJ
<1>2. ASSUME NEW poses, ValidateCartesian(p, poses) = "Ok"
      PROVE  p.speed \in 1..Policy.maximum_linear_speed
  BY <1>2 DEF ValidateCartesian
<1> QED BY <1>1, <1>2, PolicyAssumption DEF ValidateMoveL, ValidateMoveC

\* The guard is at least as strict as the driver, for every policy and every state
\* that commands and controller events reach.
THEOREM GuardIsStrict == Spec => []GuardCoversDriver
<1>1. ASSUME DriverInv, NEW req \in Requests, Admitted(req), ~Exempt(req)
      PROVE  Execute(RefreshMotionLocked(robot), req).ok
  <2> DEFINE r == RefreshMotionLocked(robot)
             s == Snapshot(r)
             p == req.payload
  <2> HIDE DEF r
  <2>1. r \in Robots /\ r.connected /\ (loaded => r.program_loaded)
    BY <1>1, RefreshKeeps DEF r, DriverInv, TypeOK, Kept
  <2>2. /\ Validate(req, s, TRUE, jog_active) = "Ok"
        /\ req.type = "StartProgram" => loaded
        /\ p.kind \in PayloadKinds(req.type)
    BY <1>1 DEF Admitted, Validate, ValidatePayloadType, r
  <2>3. CASE req.type \in {"MoveJ", "MoveL", "MoveC"}
    <3>1. ValidateCommonMotion(s, TRUE) = "Ok"
      BY <2>2, <2>3 DEF Validate
    <3>2. CheckReadyLocked(r)
      BY <3>1, MotionIsReady
    <3>3. CASE req.type = "MoveJ"
      <4>1. p.speed \in 1..100
        BY <2>2, <3>3, SpeedIsAccepted DEF Validate
      <4>2. Execute(r, req) = Move(r, 1..100, p.speed)
        BY <3>3 DEF Execute
      <4> QED BY <3>2, <4>1, <4>2 DEF Move, Accept, r
    <3>4. CASE req.type = "MoveL"
      <4>1. p.speed \in Nat \ {0}
        BY <2>2, <3>4, SpeedIsAccepted DEF Validate
      <4>2. Execute(r, req) = Move(r, Nat \ {0}, p.speed)
        BY <3>4 DEF Execute
      <4> QED BY <3>2, <4>1, <4>2 DEF Move, Accept, r
    <3>5. CASE req.type = "MoveC"
      <4>1. p.speed \in Nat \ {0}
        BY <2>2, <3>5, SpeedIsAccepted DEF Validate
      <4>2. Execute(r, req) = Move(r, Nat \ {0}, p.speed)
        BY <3>5 DEF Execute
      <4> QED BY <3>2, <4>1, <4>2 DEF Move, Accept, r
    <3> QED BY <2>3, <3>3, <3>4, <3>5 DEF r
  <2>4. CASE req.type = "StartProgram"
    <3>1. CheckReadyLocked(r)
      BY <2>2, <2>4, MotionIsReady DEF Validate
    <3> QED BY <2>1, <2>2, <2>4, <3>1 DEF Execute, StartProgram, Accept, r
  <2>5. CASE req.type \in {"AcquireControl", "ReleaseControl", "PowerOff", "StopProgram"}
    BY <2>1, <2>5 DEF Execute, AcquireControl, ReleaseControl, PowerOff, StopProgram,
                      Accept, r
  <2>6. CASE req.type = "PowerOn"
    <3>1. r.api_control /\ ~r.emergency_stop /\ ~r.alarm_active
      BY <2>2, <2>6, SnapshotShows DEF Validate, RequireThenLease
    <3> QED BY <2>1, <2>6, <3>1 DEF Execute, PowerOn, Accept, r
  <2>7. CASE req.type = "ClearFault"
    <3>1. ~r.emergency_stop
      BY <2>2, <2>7, SnapshotShows DEF Validate, RequireThenLease
    <3> QED BY <2>7, <3>1 DEF Execute, ClearFault, Accept, r
  <2>8. CASE req.type = "SetGlobalSpeed"
    <3>1. p.ratio \in Nat
      BY <2>2, <2>8, RequestsAssumption DEF PayloadKinds
    <3>2. SafeRatio(p.ratio)
      BY <2>2, <2>8 DEF Validate
    <3>3. p.ratio \in 1..100
      BY <3>1, <3>2, PolicyAssumption DEF SafeRatio
    <3> QED BY <2>8, <3>3 DEF Execute, SetGlobalSpeed, Accept, r
  <2>9. CASE req.type = "Resume"
    <3>1. r.paused
      BY <2>2, <2>9, SnapshotShows DEF Validate, RequireThenLease
    <3> QED BY <2>9, <3>1 DEF Execute, Resume, Accept, r
  <2>10. CASE req.type = "Stop"
    <3>1. (IF p.kind = "None" THEN "Controlled" ELSE p.mode) # "Quick"
      BY <1>1, <2>2, <2>10 DEF Exempt, PayloadKinds
    <3> QED BY <2>10, <3>1 DEF Execute, Stop, Accept, r
  <2>11. CASE req.type = "LoadProgram"
    <3>1. r.api_control /\ p.name # ""
      BY <2>2, <2>11, SnapshotShows DEF Validate, RequireThenLease
    <3> QED BY <2>1, <2>11, <3>1 DEF Execute, LoadProgram, Accept, r
  <2>12. CASE req.type = "Jog"
    <3>1. /\ ValidateJog(p, s, TRUE, jog_active) = "Ok"
          /\ ~jog_active /\ Policy.joint_limits_verified
      BY <1>1, <2>2, <2>12 DEF Validate, Exempt
    <3>2. p.axis \in Int /\ p.start \in BOOLEAN
      BY <2>2, <2>12, RequestsAssumption DEF PayloadKinds
    <3>3. p.axis \in 1..AxisCount
      BY <3>1, <3>2, AxisAssumption DEF ValidateJog
    <3>4. p.start => CheckReadyLocked(r)
      BY <3>1, <3>2, SnapshotShows DEF ValidateJog, CheckReadyLocked
    <3>5. Execute(r, req) = Jog(r, p)
      BY <2>12 DEF Execute
    <3> QED BY <3>2, <3>3, <3>4, <3>5 DEF Jog, Accept, r
  <2> QED
    BY <1>1, <2>3, <2>4, <2>5, <2>6, <2>7, <2>8, <2>9, <2>10, <2>11, <2>12,
       RequestsAssumption DEF CommandTypes, Exempt
<1>2. DriverInv => GuardCoversDriver
  BY <1>1 DEF GuardCoversDriver
<1> QED BY <1>2, DriverInvariant, PTL
=============================================================================
