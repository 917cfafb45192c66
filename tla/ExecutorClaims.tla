--------------------------- MODULE ExecutorClaims ---------------------------
(***************************************************************************)
(* What documents of the repository say about the command executor and     *)
(* what its code does not keep.  Each claim is the subject of a run whose  *)
(* counterexample is an execution of the code.                             *)
(***************************************************************************)
EXTENDS CommandExecutor

\* docs/application_integration_zh.md: when the jog watchdog expires, the service
\* queues an internal Stop.
WatchdogStops ==
    [][poll.pc = "publish" /\ poll'.pc = "check" /\ book.jog.active /\ book.jog.due
          => StopPending(book')]_vars

\* Shutdown requests a controlled stop, joins the threads and then disconnects: the
\* arm it lets go of is at rest when the stop was carried out.
ShutdownLeavesAtRest ==
    /\ shutdown.pc = "stopped" /\ shutdown.ok
    /\ worker.pc = "exited" /\ poll.pc = "exited"
    => ~robot.moving

\* docs/application_integration_zh.md: a motion command becomes SUCCEEDED only when
\* the polled state has confirmed that the motion is complete.
SucceededMeansDone ==
    [][\A id \in OpenCommands(book) \cap DOMAIN book'.commands :
          /\ Type(book, id) \in MotionTypes
          /\ State(book', id) = "Succeeded"
          => ~robot.moving]_vars
=============================================================================
