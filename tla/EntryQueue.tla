------------------------------ MODULE EntryQueue ------------------------------
(***************************************************************************)
(* What a queue store promises to those who put entries into it and to the *)
(* polls: an entry is handed to at most one poll, and only while it is in  *)
(* the queue.  Entries are distinct; a new one may displace others.        *)
(***************************************************************************)
VARIABLES
    live,    \* entries in the queue
    taken    \* entries handed to a poll

EntryInit ==
    /\ live = {}
    /\ taken = {}

Add(n) ==
    /\ n \notin live \cup taken
    /\ live' \ {n} \subseteq live
    /\ n \in live'
    /\ UNCHANGED taken

Drop ==
    /\ live' \subseteq live
    /\ UNCHANGED taken

Take(n) ==
    /\ n \in live
    /\ live' = live \ {n}
    /\ taken' = taken \cup {n}

EntryNext ==
    \/ \E n \in live' : Add(n)
    \/ Drop
    \/ \E n \in live : Take(n)

EntrySpec == EntryInit /\ [][EntryNext]_<<live, taken>>
=============================================================================
