------------------------------- MODULE MCJog --------------------------------
(***************************************************************************)
(* A jog with a heartbeat next to a motion.  The first call of the jog and *)
(* the heartbeat differ in nothing but their idempotency keys.             *)
(***************************************************************************)
EXTENDS MCExecutor, TLC

CONSTANT Keys

JogAndMove == {Request("Jog", JogPayload(1, TRUE), "c1", k) : k \in Keys} \cup
              {Request("MoveJ", Home, "c1", "move")}

KeySymmetry == Permutations(Keys)
=============================================================================
