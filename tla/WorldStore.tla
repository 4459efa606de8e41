----------------------------- MODULE WorldStore -----------------------------
(***************************************************************************)
(* What replacing an instance's world promises (core/worldops.ts, header): *)
(* the world on disk is exchanged for another in one step, or not at all,  *)
(* and only while no server has it open.  Nothing of the journal, of the   *)
(* staging directories or of recovery is visible here.                     *)
(*                                                                         *)
(* A world is a function from the directories that make it up (the level   *)
(* directory and, in the split layout, its nether and end siblings) to the *)
(* lineage of what each one holds, NoDir for a directory that is absent.   *)
(***************************************************************************)
CONSTANTS Dirs,        \* the directories one world is made of
          Tasks,       \* the replacements asked for; a lineage each
          NoDir,       \* the directory is not there
          FirstWorld,  \* lineage of the world the instance starts out with
          GrownWorld   \* lineage of a directory the server generated itself

VARIABLES world,   \* the instance's world, whole
          asked,   \* the worlds the operator has asked for so far
          server   \* "on" while a server has it open

(* A world of one lineage, present in the directories of D only. *)
WorldOf(l, D) == [d \in Dirs |-> IF d \in D THEN l ELSE NoDir]

Init ==
    /\ \E D \in SUBSET Dirs : world = WorldOf(FirstWorld, D)
    /\ asked = {}
    /\ server = "off"

(* A replace, a restore or (D = {}) a reset is asked for. *)
Ask ==
    /\ \E t \in Tasks, D \in SUBSET Dirs : asked' = asked \cup {WorldOf(t, D)}
    /\ UNCHANGED <<world, server>>

(* The whole exchange: exactly what was asked for, every directory of it. *)
Replace ==
    /\ server = "off"
    /\ world' \in asked
    /\ UNCHANGED <<asked, server>>

Launch == server = "off" /\ server' = "on" /\ UNCHANGED <<world, asked>>

Halt == server = "on" /\ server' = "off" /\ UNCHANGED <<world, asked>>

(* A running server generates the dimensions its world does not have yet. *)
Grow ==
    /\ server = "on"
    /\ world' = [d \in Dirs |-> IF world[d] = NoDir THEN GrownWorld ELSE world[d]]
    /\ UNCHANGED <<asked, server>>

Next == Ask \/ Replace \/ Launch \/ Halt \/ Grow

Spec == Init /\ [][Next]_<<world, asked, server>>
=============================================================================
