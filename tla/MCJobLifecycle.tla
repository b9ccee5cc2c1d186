--------------------------- MODULE MCJobLifecycle ---------------------------
(* Instances of JobLifecycle for TLC: constants a configuration cannot write. *)
EXTENDS JobLifecycle

\* Every job takes the CPU slot of Deucalion, which has one.
AllCpu == [j \in Jobs |-> "cpu"]
OneSlot == [p \in Profiles |-> 1]

\* Every worker can run every job.
AnyWorker == [w \in Workers |-> Jobs]
=============================================================================
