----------------------------- MODULE MCJobCrash -----------------------------
(* Instances of JobCrash for TLC: constants a configuration cannot write. *)
EXTENDS JobCrash

AllCpu == [j \in Jobs |-> "cpu"]
OneSlot == [p \in Profiles |-> 1]
AnyWorker == [w \in Workers |-> Jobs]
=============================================================================
