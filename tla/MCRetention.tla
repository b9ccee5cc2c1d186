---------------------------- MODULE MCRetention ----------------------------
(* Instances of Retention for TLC: constants a configuration cannot write. *)
EXTENDS Retention, TLC

\* The first job is one owner's, the others are another's.
TwoSubmitters ==
    LET first == CHOOSE o \in Owners : TRUE
        other == CHOOSE o \in Owners : Owners = {first} \/ o # first
        job == CHOOSE j \in Jobs : TRUE
    IN  [j \in Jobs |-> IF j = job THEN first ELSE other]

\* No definition and no configuration names a folder or a folder name; only
\* safety properties are checked with it.
InterchangeableFolders ==
    {f @@ n : f \in Permutations(Folders), n \in Permutations(Names)}
=============================================================================
