-------------------------- MODULE MCUnionRecovery --------------------------
(* Instances of UnionRecovery for TLC: constants a configuration cannot write. *)
EXTENDS UnionRecovery

AllCpu == [j \in Jobs |-> "cpu"]
OneSlot == [p \in Profiles |-> 1]
AnyWorker == [w \in Workers |-> Jobs]
=============================================================================
