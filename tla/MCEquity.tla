------------------------------ MODULE MCEquity ------------------------------
(***************************************************************************)
(* Constants of the TLC models of EquitySystem.                            *)
(***************************************************************************)
EXTENDS EquitySystem, TLC

\* Nothing for a month, then half, then all.
TwoSteps == [start |-> 0, cliff |-> 1, duration |-> 2, interval |-> 1, paused |-> FALSE]

\* Started a month before the clock does: all has vested.
AlreadyVested == [start |-> -1, cliff |-> 0, duration |-> 1, interval |-> 1, paused |-> FALSE]

MCSchedules == {TwoSteps}

\* All handlers but the free-form ledger entries and the pool settings.
GrantAndExercise == HandlerNames \ {"createTransaction", "updateCapTablePools"}

\* No handler changes a grant once it exists.
GrantAndExerciseWithoutEdits == GrantAndExercise \ {"updateGrant", "deleteGrant"}

\* What moves shares between people.
Transfers == {"createPlan", "createGrant", "deleteGrant", "createTransaction"}

MCVested == {AlreadyVested}

WorkerSymmetry == Permutations(Workers)

PersonSymmetry == Permutations(Persons)

Symmetry == Permutations(Grants) \cup Permutations(Requests)
==============================================================================
