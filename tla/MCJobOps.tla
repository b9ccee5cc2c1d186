------------------------------ MODULE MCJobOps ------------------------------
(* Instances of JobOps for TLC: constants a configuration cannot write. *)
EXTENDS JobOps, TLC

AllCpu == [j \in Jobs |-> "cpu"]
OneSlot == [p \in Profiles |-> 1]
AnyWorker == [w \in Workers |-> Jobs]

\* Workers of one kind are interchangeable; only safety properties are checked with it.
InterchangeableWorkers == Permutations(Workers)
=============================================================================
