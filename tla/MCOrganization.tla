--------------------------- MODULE MCOrganization ---------------------------
(***************************************************************************)
(* Constants of the TLC model of OrganizationSystem.                       *)
(***************************************************************************)
EXTENDS OrganizationSystem, TLC

\* Started a month before the clock does: all has vested.
AlreadyVested == [start |-> -1, cliff |-> 0, duration |-> 1, interval |-> 1, paused |-> FALSE]

MCSchedules == {AlreadyVested}

\* The equity handlers that link a person, and those that unlink them.
Linking == {"createPlan", "createGrant", "deleteGrant", "createExerciseRequest",
            "createTransaction"}

Symmetry == Permutations(Persons)
==============================================================================
