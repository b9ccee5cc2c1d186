--------------------------- MODULE FileQueueProofs ---------------------------
(***************************************************************************)
(* FileQueue, for any number of jobs, workers, requests without a lock,    *)
(* entries and kills: an entry is in one file only, it is handed out at    *)
(* most once, and only a kill loses it, out of the hands of a poll or of   *)
(* an operation.                                                           *)
(***************************************************************************)
EXTENDS FileQueue, FiniteSetTheorems, WellFoundedInduction, TLAPS

-----------------------------------------------------------------------------
(* The invariants. *)

PollTodo == (Jobs \X Workers) \cup (Nat \X Jobs)

Poll == [pc : {"idle", "restore", "scan", "claimed", "accepted", "refused", "taken"},
         todo : SUBSET PollTodo, job : Jobs \cup {None}, entry : Nat]

Operation == [pc : {"idle", "unlink", "list", "claims", "open", "write"},
              kind : {"requeue", "enqueue", "remove"}, todo : SUBSET (Workers \cup {None} \cup Nat)]

Shapes ==
    /\ written \in 0 .. MaxEntries
    /\ pin \in [1 .. MaxEntries -> Pins \cup {None}]
    /\ partial \cup old \cup taken \subseteq Entries
    /\ launched \cup due \subseteq Jobs
    /\ kills \in Nat
    /\ poll \in [Workers -> Poll]
    /\ op \in [Tasks -> Operation]
    /\ \A t \in Tasks : op[t].pc = "claims" => op[t].todo \subseteq Workers \cup {None}

\* An entry is in one place only: two files of different names hold different ones.
Distinct ==
    /\ \A i, j \in Jobs : (file[i] # 0 /\ file[i] = file[j]) => i = j
    /\ \A i, j \in Jobs, v, w \in Workers :
          (claim[i][v] # 0 /\ claim[i][v] = claim[j][w]) => i = j /\ v = w
    /\ \A i, j \in Jobs, w \in Workers : file[i] # 0 => file[i] # claim[j][w]

Directory ==
    /\ written \in Nat
    /\ file \in [Jobs -> 0 .. written]
    /\ claim \in [Jobs -> [Workers -> 0 .. written]]
    /\ Distinct

\* What a poll knows: the places it is to restore, the entries it is to try, the job
\* whose entry it has claimed; and what it has read is what it claimed.
Knows(w) ==
    LET p == poll[w] IN
    /\ p.pc = "restore" => p.todo \subseteq Jobs \X Workers
    /\ p.pc \in {"scan", "claimed", "accepted", "refused"} => p.todo \subseteq Nat \X Jobs
    /\ p.pc \in {"claimed", "accepted", "refused", "taken"} => p.job \in Jobs
    /\ p.entry <= written
    /\ p.pc = "accepted" => p.entry # 0 /\ claim[p.job][w] \in {0, p.entry}

QueueInv == Shapes /\ Directory /\ \A w \in Workers : Knows(w)

-----------------------------------------------------------------------------
(* The next entry a poll tries. *)

LEMMA OldestIsThere ==
    ASSUME NEW todo \in SUBSET (Nat \X Jobs), todo # {}
    PROVE  Oldest(todo) \in todo
<1> DEFINE T == {1 .. c[1] : c \in todo}
<1>1. T \subseteq FiniteSubsetsOf(Nat) /\ T # {}
  <2>1. \A n \in Nat : 1 .. n \in SUBSET Nat /\ IsFiniteSet(1 .. n)
    BY FS_Interval
  <2> QED
    BY <2>1 DEF FiniteSubsetsOf
<1>2. \E S \in T : \A R \in T : ~(<<R, S>> \in StrictSubsetOrdering(Nat))
  <2> HIDE DEF T
  <2> QED
    BY <1>1, WFMin, FS_StrictSubsetOrderingWellFounded
<1>3. PICK c \in todo : \A d \in todo : ~(<<1 .. d[1], 1 .. c[1]>> \in StrictSubsetOrdering(Nat))
  BY <1>2
<1>4. ASSUME NEW d \in todo PROVE c[1] <= d[1]
  <2> SUFFICES ASSUME d[1] < c[1] PROVE FALSE
    OBVIOUS
  <2>1. /\ 1 .. d[1] \subseteq 1 .. c[1] /\ 1 .. c[1] \subseteq Nat
        /\ c[1] \in 1 .. c[1] /\ c[1] \notin 1 .. d[1]
    OBVIOUS
  <2> QED
    BY <1>3, <2>1 DEF StrictSubsetOrdering
<1> QED
  BY <1>4 DEF Oldest
-----------------------------------------------------------------------------
(* The effects on the directory.                                            *)

LEMMA LiveIs ==
    \A n : n \in Live <=> /\ n # 0
                          /\ \E j \in Jobs : file[j] = n \/ \E w \in Workers : claim[j][w] = n
BY DEF Live, Held

LEMMA HeldIs ==
    ASSUME NEW j \in Jobs
    PROVE  Held(j) # {0} <=> (file[j] # 0 \/ \E w \in Workers : claim[j][w] # 0)
BY DEF Held

\* The files of other jobs are left alone.
Elsewhere(j) == \A k \in Jobs \ {j} : file'[k] = file[k] /\ claim'[k] = claim[k]

LEMMA Removes ==
    ASSUME Directory, NEW j \in Jobs, file' = [file EXCEPT ![j] = 0],
           UNCHANGED <<claim, written>>
    PROVE  Directory' /\ Live' \subseteq Live /\ Elsewhere(j)
<1>1. file'[j] = 0 /\ \A k \in Jobs \ {j} : file'[k] = file[k]
  BY DEF Directory
<1>2. file' \in [Jobs -> 0 .. written']
  BY DEF Directory
<1>3. Distinct'
  BY <1>1 DEF Directory, Distinct
<1>4. Live' \subseteq Live
  BY <1>1 DEF Live, Held
<1> QED
  BY <1>1, <1>2, <1>3, <1>4 DEF Directory, Elsewhere

LEMMA RemovesClaim ==
    ASSUME Directory, NEW j \in Jobs, NEW w \in Workers, claim' = [claim EXCEPT ![j][w] = 0],
           UNCHANGED <<file, written>>
    PROVE  /\ Directory' /\ Live' = Live \ {claim[j][w]} /\ Elsewhere(j)
           /\ claim'[j][w] = 0
<1>1. /\ claim'[j][w] = 0
      /\ \A v \in Workers \ {w} : claim'[j][v] = claim[j][v]
      /\ \A k \in Jobs \ {j} : claim'[k] = claim[k]
  BY DEF Directory
<1>2. claim' \in [Jobs -> [Workers -> 0 .. written']]
  BY DEF Directory
<1>3. \A k \in Jobs, v \in Workers : claim'[k][v] \in {0, claim[k][v]}
  BY <1>1
<1>4. Distinct'
  BY <1>3 DEF Directory, Distinct
<1>5. ASSUME NEW n PROVE n \in Live' <=> n \in Live \ {claim[j][w]}
  <2>1. ASSUME NEW k \in Jobs, file[k] = n, n # 0 PROVE n # claim[j][w]
    BY <2>1 DEF Directory, Distinct
  <2>2. ASSUME NEW k \in Jobs, NEW v \in Workers, claim'[k][v] = n, n # 0
        PROVE  n # claim[j][w] /\ claim[k][v] = n
    <3>1. claim[k][v] = n /\ (k # j \/ v # w)
      BY <1>1, <1>3, <2>2
    <3> QED
      BY <2>2, <3>1 DEF Directory, Distinct
  <2>3. ASSUME NEW k \in Jobs, NEW v \in Workers, claim[k][v] = n, n # claim[j][w]
        PROVE  claim'[k][v] = n
    BY <1>1, <2>3
  <2>4. n \in Live' <=> /\ n # 0
                        /\ \E k \in Jobs : file[k] = n \/ \E v \in Workers : claim'[k][v] = n
    BY DEF Live, Held
  <2> QED
    BY <2>1, <2>2, <2>3, <2>4, LiveIs
<1> QED
  BY <1>1, <1>2, <1>4, <1>5 DEF Directory, Elsewhere

LEMMA Claims ==
    ASSUME Directory, NEW j \in Jobs, NEW w \in Workers, file[j] # 0,
           claim' = [claim EXCEPT ![j][w] = file[j]], file' = [file EXCEPT ![j] = 0],
           UNCHANGED written
    PROVE  /\ Directory' /\ Live' \subseteq Live /\ Elsewhere(j) /\ Held(j)' # {0}
           /\ \A v \in Workers \ {w} : claim'[j][v] = claim[j][v]
<1>1. /\ claim'[j][w] = file[j] /\ file'[j] = 0
      /\ \A v \in Workers \ {w} : claim'[j][v] = claim[j][v]
      /\ \A k \in Jobs \ {j} : file'[k] = file[k] /\ claim'[k] = claim[k]
  BY DEF Directory
<1>2. /\ file' \in [Jobs -> 0 .. written']
      /\ claim' \in [Jobs -> [Workers -> 0 .. written']]
  BY DEF Directory
<1>3. Distinct'
  BY <1>1 DEF Directory, Distinct
<1>4. Live' \subseteq Live
  BY <1>1 DEF Live, Held
<1>5. Held(j)' # {0}
  BY <1>1 DEF Held
<1> QED
  BY <1>1, <1>2, <1>3, <1>4, <1>5 DEF Directory, Elsewhere

LEMMA PutsBack ==
    ASSUME Directory, NEW j \in Jobs, NEW v \in Workers, MovedBack(j, v), UNCHANGED written
    PROVE  /\ Directory' /\ Live' \subseteq Live /\ Elsewhere(j)
           /\ claim[j][v] # 0 => Held(j)' # {0}
           /\ claim'[j][v] = 0
           /\ \A u \in Workers \ {v} : claim'[j][u] = claim[j][u]
<1>1. /\ file'[j] = claim[j][v] /\ claim'[j][v] = 0
      /\ \A u \in Workers \ {v} : claim'[j][u] = claim[j][u]
      /\ \A k \in Jobs \ {j} : file'[k] = file[k] /\ claim'[k] = claim[k]
  BY DEF MovedBack, Directory
<1>2. /\ file' \in [Jobs -> 0 .. written']
      /\ claim' \in [Jobs -> [Workers -> 0 .. written']]
  BY DEF MovedBack, Directory
<1>3. Distinct'
  <2>1. \A i \in Jobs, u \in Workers :
           claim'[i][u] # 0 => claim'[i][u] = claim[i][u] /\ (i # j \/ u # v)
    BY <1>1
  <2>2. \A i, k \in Jobs : (file'[i] # 0 /\ file'[i] = file'[k]) => i = k
    BY <1>1 DEF Directory, Distinct
  <2>3. \A i, k \in Jobs, u, w \in Workers :
           (claim'[i][u] # 0 /\ claim'[i][u] = claim'[k][w]) => i = k /\ u = w
    BY <2>1 DEF Directory, Distinct
  <2>4. \A i, k \in Jobs, w \in Workers : file'[i] # 0 => file'[i] # claim'[k][w]
    <3> SUFFICES ASSUME NEW i \in Jobs, NEW k \in Jobs, NEW w \in Workers,
                        file'[i] # 0, file'[i] = claim'[k][w]
                 PROVE  FALSE
      OBVIOUS
    <3>1. claim[k][w] = file'[i] /\ (k # j \/ w # v)
      BY <2>1
    <3>2. CASE i = j
      BY <1>1, <3>1, <3>2 DEF Directory, Distinct
    <3>3. CASE i # j
      BY <1>1, <3>1, <3>3 DEF Directory, Distinct
    <3> QED
      BY <3>2, <3>3
  <2> QED
    BY <2>2, <2>3, <2>4 DEF Distinct
<1>4. Live' \subseteq Live
  BY <1>1 DEF Live, Held
<1>5. claim[j][v] # 0 => Held(j)' # {0}
  BY <1>1 DEF Held
<1> QED
  BY <1>1, <1>2, <1>3, <1>4, <1>5 DEF Directory, Elsewhere

LEMMA Adds ==
    ASSUME Directory, NEW j \in Jobs, written' = written + 1,
           file' = [file EXCEPT ![j] = written + 1], UNCHANGED claim
    PROVE  /\ Directory' /\ Elsewhere(j) /\ Held(j)' # {0}
           /\ Live' \ {written'} \subseteq Live /\ written' \in Live' /\ written' \notin Live
<1>1. file'[j] = written + 1 /\ \A k \in Jobs \ {j} : file'[k] = file[k]
  BY DEF Directory
<1>2. /\ \A k \in Jobs : file[k] \in Nat /\ file[k] <= written
      /\ \A k \in Jobs, w \in Workers : claim[k][w] \in Nat /\ claim[k][w] <= written
  BY DEF Directory
<1>3. written' \in Nat /\ file' \in [Jobs -> 0 .. written']
  BY <1>2 DEF Directory
<1>4. claim' \in [Jobs -> [Workers -> 0 .. written']]
  BY <1>2 DEF Directory
<1>5. Distinct'
  BY <1>1, <1>2 DEF Directory, Distinct
<1>6. Live' \ {written'} \subseteq Live
  <2> SUFFICES ASSUME NEW n \in Live', n # written' PROVE n \in Live
    OBVIOUS
  <2>1. n # 0 /\ \E k \in Jobs : file'[k] = n \/ \E w \in Workers : claim[k][w] = n
    BY DEF Live, Held
  <2>2. \E k \in Jobs : file[k] = n \/ \E w \in Workers : claim[k][w] = n
    BY <1>1, <2>1
  <2> QED
    BY <2>1, <2>2 DEF Live, Held
<1>7. written' \in Live' /\ Held(j)' # {0}
  <2>1. written' # 0
    BY DEF Directory
  <2>2. written' \in Held(j)'
    BY <1>1 DEF Held
  <2>3. written' \in UNION {Held(k)' : k \in Jobs}
    BY <2>2
  <2> QED
    BY <2>1, <2>2, <2>3 DEF Live
<1>8. written' \notin Live
  BY <1>2, LiveIs DEF Directory
<1> QED
  BY <1>1, <1>3, <1>4, <1>5, <1>6, <1>7, <1>8 DEF Directory, Elsewhere
LEMMA SameDirectory ==
    ASSUME Directory, UNCHANGED <<file, claim, written>>
    PROVE  Directory' /\ Live' = Live
BY DEF Directory, Distinct, Live, Held

LEMMA ScannedJob ==
    ASSUME QueueInv, NEW w \in Workers, poll[w].pc = "scan", poll[w].todo # {}
    PROVE  Oldest(poll[w].todo) \in poll[w].todo /\ Oldest(poll[w].todo)[2] \in Jobs
<1>1. poll[w].todo \in SUBSET (Nat \X Jobs)
  BY DEF QueueInv, Knows
<1> QED
  BY <1>1, OldestIsThere

\* A poll that finds its claim gone goes on, another takes the entry that it has read.
LEMMA CommitTakes ==
    ASSUME QueueInv, NEW w \in Workers, Commit(w)
    PROVE  Directory' /\ (Queue!EntryNext \/ UNCHANGED <<Live, taken>>)
<1> DEFINE j == poll[w].job
           n == poll[w].entry
<1>1. /\ j \in Jobs /\ n # 0 /\ claim[j][w] \in {0, n}
      /\ claim' = [claim EXCEPT ![j][w] = 0]
      /\ UNCHANGED <<file, written>>
  BY DEF Commit, QueueInv, Knows
<1>2. Directory' /\ Live' = Live \ {claim[j][w]}
  BY <1>1, RemovesClaim DEF QueueInv
<1>3. CASE Keeps(w)
  <2>1. claim[j][w] = n /\ taken' = taken \cup {n}
    BY <1>1, <1>3 DEF Keeps, Commit
  <2>2. n \in Live
    BY <1>1, <2>1, LiveIs
  <2>3. Queue!Take(n)
    BY <1>2, <2>1, <2>2 DEF Queue!Take
  <2> QED
    BY <1>2, <2>2, <2>3 DEF Queue!EntryNext
<1>4. CASE ~Keeps(w)
  <2>1. Queue!Drop
    BY <1>2, <1>4 DEF Commit, Queue!Drop
  <2> QED
    BY <1>2, <2>1 DEF Queue!EntryNext
<1> QED
  BY <1>3, <1>4

LEMMA OpenAdds ==
    ASSUME QueueInv, NEW t \in Tasks, NEW host \in Pins, Open(t, host)
    PROVE  Directory' /\ Queue!EntryNext
<1>0. t[1] \in Jobs
  BY DEF Tasks
<1>1. /\ Directory'
      /\ Live' \ {written'} \subseteq Live /\ written' \in Live' /\ written' \notin Live
  BY <1>0, Adds DEF Open, QueueInv
<1>2. written' \notin taken /\ taken' = taken
  BY DEF Open, QueueInv, Shapes, Entries
<1>3. Queue!Add(written')
  BY <1>1, <1>2 DEF Queue!Add
<1> QED
  BY <1>1, <1>3 DEF Queue!EntryNext

LEMMA DirectoryStep ==
    ASSUME QueueInv, [Next]_queueVars
    PROVE  Directory' /\ (Queue!EntryNext \/ UNCHANGED <<Live, taken>>)
<1> USE DEF dirVars
<1>a. Directory
  BY DEF QueueInv
<1>b. CASE UNCHANGED <<file, claim, written, taken>>
  BY <1>a, <1>b, SameDirectory
<1>c. CASE Directory' /\ Live' \subseteq Live /\ taken' = taken
  BY <1>c DEF Queue!EntryNext, Queue!Drop
<1>1. ASSUME NEW t \in Tasks, NEW kind, Begin(t, kind) \/ Purge(t, kind)
      PROVE  UNCHANGED <<file, claim, written, taken>>
  BY <1>1 DEF Begin, Purge
<1>2. ASSUME NEW t \in Tasks, OpStep(t)
      PROVE  Directory' /\ (Queue!EntryNext \/ UNCHANGED <<Live, taken>>)
  <2>0. t[1] \in Jobs
    BY DEF Tasks
  <2>1. CASE Unlink(t)
    BY <1>a, <1>b, <1>c, <2>0, <2>1, Removes DEF Unlink
  <2>2. CASE UnlinkListed(t)
    <3>1. UNCHANGED <<written, taken>>
      BY <2>2 DEF UnlinkListed
    <3>2. PICK w \in op[t].todo :
             \/ w \in Workers /\ claim' = [claim EXCEPT ![t[1]][w] = 0] /\ UNCHANGED file
             \/ file' = [file EXCEPT ![t[1]] = 0] /\ UNCHANGED claim
      BY <2>2 DEF UnlinkListed
    <3>3. Directory' /\ Live' \subseteq Live
      BY <1>a, <2>0, <3>1, <3>2, RemovesClaim, Removes
    <3> QED
      BY <1>c, <3>1, <3>3
  <2>3. ASSUME NEW host \in Pins, Open(t, host)
        PROVE  Directory' /\ (Queue!EntryNext \/ UNCHANGED <<Live, taken>>)
    BY <2>3, OpenAdds
  <2>4. ListClaims(t) \/ Removed(t) \/ Write(t) => UNCHANGED <<file, claim, written, taken>>
    BY DEF ListClaims, Removed, Write
  <2> QED
    BY <1>2, <1>b, <2>1, <2>2, <2>3, <2>4 DEF OpStep
<1>3. ASSUME NEW w \in Workers, PollStep(w)
      PROVE  Directory' /\ (Queue!EntryNext \/ UNCHANGED <<Live, taken>>)
  <2>1. CASE RestoreClaim(w)
    <3> PICK c \in poll[w].todo : \/ MovedBack(c[1], c[2])
                                  \/ UNCHANGED <<file, claim>>
      BY <2>1 DEF RestoreClaim
    <3>1. c[1] \in Jobs /\ c[2] \in Workers
      BY <2>1 DEF RestoreClaim, QueueInv, Knows
    <3>2. UNCHANGED <<written, taken>>
      BY <2>1 DEF RestoreClaim
    <3> QED
      BY <1>a, <1>b, <1>c, <3>1, <3>2, PutsBack
  <2>2. CASE Rename(w)
    <3> DEFINE j == Oldest(poll[w].todo)[2]
    <3>1. j \in Jobs
      BY <2>2, ScannedJob DEF Rename
    <3>2. CASE /\ file[j] # 0
               /\ claim' = [claim EXCEPT ![j][w] = file[j]]
               /\ file' = [file EXCEPT ![j] = 0]
      <4> HIDE DEF j
      <4>1. Directory' /\ Live' \subseteq Live
        BY <1>a, <2>2, <3>1, <3>2, Claims DEF Rename
      <4> QED
        BY <1>c, <2>2, <4>1 DEF Rename
    <3>3. CASE UNCHANGED <<file, claim>>
      BY <1>b, <2>2, <3>3 DEF Rename
    <3> QED
      BY <2>2, <3>2, <3>3 DEF Rename
  <2>3. CASE Refuse(w)
    <3>1. poll[w].job \in Jobs /\ UNCHANGED <<written, taken>>
      BY <2>3 DEF Refuse, QueueInv, Knows
    <3>2. MovedBack(poll[w].job, w) \/ UNCHANGED <<file, claim>>
      BY <2>3 DEF Refuse
    <3> QED
      BY <1>a, <1>b, <1>c, <3>1, <3>2, PutsBack
  <2>4. CASE Commit(w)
    BY <2>4, CommitTakes
  <2>5. PollBegin(w) \/ List(w) \/ Read(w) \/ Dispatch(w) \/ PollEnd(w)
           => UNCHANGED <<file, claim, written, taken>>
    BY DEF PollBegin, List, Read, Dispatch, PollEnd
  <2> QED
    BY <1>3, <1>b, <2>1, <2>2, <2>3, <2>4, <2>5 DEF PollStep
<1>4. ASSUME NEW n, Age(n) PROVE UNCHANGED <<file, claim, written, taken>>
  BY <1>4 DEF Age
<1>5. Kill => UNCHANGED <<file, claim, written, taken>>
  BY DEF Kill
<1>6. UNCHANGED queueVars => UNCHANGED <<file, claim, written, taken>>
  BY DEF queueVars
<1> QED
  BY <1>b, <1>1, <1>2, <1>3, <1>4, <1>5, <1>6 DEF Next
-----------------------------------------------------------------------------
(* The shapes of polls and operations.                                      *)

LEMMA Records ==
    /\ NoOp \in Operation /\ NoOp.pc = "idle"
    /\ \A kind \in {"requeue", "enqueue", "remove"}, pc \in {"open", "unlink", "list"} :
          [pc |-> pc, kind |-> kind, todo |-> {}] \in Operation
    /\ \A n \in Nat : /\ [NoOp EXCEPT !.pc = "write", !.todo = {n}] \in Operation
                      /\ [NoOp EXCEPT !.pc = "write", !.todo = {n}].pc = "write"
    /\ Idle \in Poll /\ Idle.pc = "idle" /\ Idle.entry = 0
    /\ \A todo \in SUBSET (Nat \X Jobs) : /\ Scanning(todo) \in Poll
                                         /\ Scanning(todo).pc = "scan"
                                         /\ Scanning(todo).todo = todo
                                         /\ Scanning(todo).entry = 0
BY DEF NoOp, Operation, Idle, Scanning, Poll, PollTodo

LEMMA OperationFields ==
    ASSUME NEW r \in Operation
    PROVE  /\ [r EXCEPT !.pc = "list"] \in Operation
           /\ [r EXCEPT !.pc = "list"].pc = "list"
BY DEF Operation

LEMMA OpChanges ==
    ASSUME Shapes, NEW t \in Tasks, NEW r \in Operation, op' = [op EXCEPT ![t] = r],
           r.pc = "claims" => r.todo \subseteq Workers \cup {None}
    PROVE  /\ op' \in [Tasks -> Operation]
           /\ \A u \in Tasks : op'[u].pc = "claims" => op'[u].todo \subseteq Workers \cup {None}
           /\ op'[t] = r /\ \A u \in Tasks \ {t} : op'[u] = op[u]
<1>1. op'[t] = r /\ \A u \in Tasks \ {t} : op'[u] = op[u]
  BY DEF Shapes
<1>2. op' \in [Tasks -> Operation]
  BY DEF Shapes
<1> QED
  BY <1>1, <1>2 DEF Shapes

\* What becomes of the operation t.
OpMoves(t, r) ==
    /\ r \in Operation
    /\ r.pc = "claims" => r.todo \subseteq Workers \cup {None}
    /\ op' = [op EXCEPT ![t] = r]

LEMMA BeginMoves ==
    ASSUME NEW t \in Tasks, NEW kind \in {"requeue", "enqueue", "remove"}, Begin(t, kind)
    PROVE  \E r : OpMoves(t, r)
<1> DEFINE pc == IF kind = "enqueue" THEN "open" ELSE IF file[t[1]] # 0 THEN "unlink" ELSE "list"
           r == [pc |-> pc, kind |-> kind, todo |-> {}]
<1>1. pc \in {"unlink", "open", "list"}
  OBVIOUS
<1>2. op' = [op EXCEPT ![t] = r]
  BY DEF Begin
<1> HIDE DEF pc
<1>3. r \in Operation /\ r.pc = pc
  BY <1>1, Records
<1> QED
  BY <1>1, <1>2, <1>3 DEF OpMoves

LEMMA PurgeMoves ==
    ASSUME NEW t \in Tasks, NEW forced, Purge(t, forced)
    PROVE  \E r : OpMoves(t, r)
<1> DEFINE todo == {None : n \in {file[t[1]]} \ {0}}
                      \cup {w \in Workers : forced /\ claim[t[1]][w] # 0}
           r == [pc |-> "claims", kind |-> "remove", todo |-> todo]
<1>1. op' = [op EXCEPT ![t] = r]
  BY DEF Purge
<1>2. todo \subseteq Workers \cup {None}
  OBVIOUS
<1> HIDE DEF todo
<1>3. r \in Operation /\ r.todo = todo
  BY <1>2 DEF Operation
<1> HIDE DEF r
<1> QED
  BY <1>1, <1>2, <1>3 DEF OpMoves

LEMMA OpStepMoves ==
    ASSUME Shapes, Directory, NEW t \in Tasks
    PROVE  /\ Unlink(t) => \E r : OpMoves(t, r) /\ op[t].pc = "unlink" /\
                              ((r.pc = "idle" /\ file' = file) \/ r.pc = "list")
           /\ ListClaims(t) => \E r : OpMoves(t, r) /\ r.pc = "claims"
           /\ UnlinkListed(t) => \E r : OpMoves(t, r) /\ r.pc = "claims"
           /\ Removed(t) => \E r : OpMoves(t, r) /\ r.pc = "idle"
           /\ \A host \in Pins : Open(t, host) => \E r : OpMoves(t, r) /\ r.pc = "write"
           /\ Write(t) => \E r : OpMoves(t, r) /\ r.pc = "idle"
<1> DEFINE o == op[t]
<1>0. o \in Operation
  BY DEF Shapes
<1>2. ASSUME Unlink(t)
      PROVE  \E r : OpMoves(t, r) /\ op[t].pc = "unlink" /\
                ((r.pc = "idle" /\ file' = file) \/ r.pc = "list")
  <2>1. CASE op' = [op EXCEPT ![t] = NoOp] /\ file' = file
    BY <1>2, <2>1, Records DEF OpMoves, Unlink
  <2>2. CASE op' = [op EXCEPT ![t].pc = "list"]
    <3>1. op' = [op EXCEPT ![t] = [o EXCEPT !.pc = "list"]]
      BY <2>2 DEF Shapes
    <3> QED
      BY <1>0, <1>2, <2>2, <3>1, OperationFields DEF OpMoves, Unlink
  <2> QED
    BY <1>2, <2>1, <2>2 DEF Unlink
<1>3. ASSUME ListClaims(t) PROVE \E r : OpMoves(t, r) /\ r.pc = "claims"
  <2> DEFINE todo == {w \in Workers : claim[t[1]][w] # 0}
             r == [o EXCEPT !.pc = "claims", !.todo = todo]
  <2>1. op' = [op EXCEPT ![t] = r]
    BY <1>3 DEF ListClaims, Shapes
  <2>2. todo \subseteq Workers
    OBVIOUS
  <2>3. r \in Operation /\ r.pc = "claims" /\ r.todo = todo
    <3> HIDE DEF todo, o
    <3> QED
      BY <1>0, <2>2 DEF Operation
  <2> HIDE DEF r
  <2> QED
    BY <2>1, <2>2, <2>3 DEF OpMoves
<1>4. ASSUME UnlinkListed(t) PROVE \E r : OpMoves(t, r) /\ r.pc = "claims"
  <2> PICK w \in op[t].todo : op' = [op EXCEPT ![t].todo = @ \ {w}]
    BY <1>4 DEF UnlinkListed
  <2> DEFINE r == [o EXCEPT !.todo = @ \ {w}]
  <2>1. op' = [op EXCEPT ![t] = r]
    BY DEF Shapes
  <2>2. o.pc = "claims" /\ o.todo \subseteq Workers \cup {None}
    BY <1>4 DEF UnlinkListed, Shapes
  <2>3. r \in Operation /\ r.pc = o.pc /\ r.todo = o.todo \ {w}
    <3> HIDE DEF o
    <3> QED
      BY <1>0 DEF Operation
  <2> HIDE DEF r
  <2> QED
    BY <2>1, <2>2, <2>3 DEF OpMoves
<1>5. ASSUME Removed(t) PROVE \E r : OpMoves(t, r) /\ r.pc = "idle"
  BY <1>5, Records DEF Removed, OpMoves
<1>6. ASSUME NEW host \in Pins, Open(t, host) PROVE \E r : OpMoves(t, r) /\ r.pc = "write"
  <2>1. written + 1 \in Nat
    BY DEF Directory
  <2>2. op' = [op EXCEPT ![t] = [NoOp EXCEPT !.pc = "write", !.todo = {written + 1}]]
    BY <1>6 DEF Open
  <2> QED
    BY <2>1, <2>2, Records DEF OpMoves
<1>7. ASSUME Write(t) PROVE \E r : OpMoves(t, r) /\ r.pc = "idle"
  BY <1>7, Records DEF Write, OpMoves
<1> QED
  BY <1>2, <1>3, <1>4, <1>5, <1>6, <1>7

-----------------------------------------------------------------------------
(* What polls know.                                                         *)

\* What becomes of the poll of w, which knows what Knows says.
PollMoves(w, r) ==
    /\ r \in Poll
    /\ poll' = [poll EXCEPT ![w] = r]
    /\ r.pc = "restore" => r.todo \subseteq Jobs \X Workers
    /\ r.pc \in {"scan", "claimed", "accepted", "refused"} => r.todo \subseteq Nat \X Jobs
    /\ r.pc \in {"claimed", "accepted", "refused", "taken"} => r.job \in Jobs
    /\ r.entry <= written'
    /\ r.pc = "accepted" => r.entry # 0 /\ claim'[r.job][w] \in {0, r.entry}

LEMMA Scans ==
    ASSUME NEW w \in Workers, NEW todo, todo \subseteq Nat \X Jobs, written \in Nat,
           written' = written, poll' = [poll EXCEPT ![w] = Scanning(todo)]
    PROVE  \E r : PollMoves(w, r)
<1> DEFINE r == Scanning(todo)
<1>1. todo \subseteq PollTodo
  BY DEF PollTodo
<1>2. /\ r \in Poll /\ r.pc = "scan" /\ r.todo \subseteq Nat \X Jobs /\ r.entry <= written'
      /\ poll' = [poll EXCEPT ![w] = r]
  <2> HIDE DEF r
  <2>1. r \in Poll /\ r.pc = "scan" /\ r.todo = todo /\ r.entry = 0
    BY <1>1 DEF r, Scanning, Idle, Poll
  <2>2. poll' = [poll EXCEPT ![w] = r]
    BY DEF r
  <2>3. r.entry <= written'
    BY <2>1
  <2>4. r.todo \subseteq Nat \X Jobs
    BY <2>1
  <2>5. r \in Poll /\ r.pc = "scan"
    BY <2>1
  <2> QED
    BY <2>2, <2>3, <2>4, <2>5
<1> HIDE DEF r
<1>3. PollMoves(w, r)
  BY <1>2 DEF PollMoves
<1> QED
  BY <1>3

LEMMA PollStepKnows ==
    ASSUME QueueInv, NEW w \in Workers, PollStep(w)
    PROVE  \E r : PollMoves(w, r)
<1> DEFINE p == poll[w]
<1>0. p \in Poll /\ Knows(w) /\ written \in Nat
  BY DEF QueueInv, Shapes, Directory
<1>1. CASE PollBegin(w)
  <2> DEFINE todo == {c \in Jobs \X Workers : claim[c[1]][c[2]] # 0}
             r == [Idle EXCEPT !.pc = "restore", !.todo = todo]
  <2>1. poll' = [poll EXCEPT ![w] = r] /\ written' = written
    BY <1>1 DEF PollBegin, dirVars
  <2>2. todo \subseteq Jobs \X Workers
    OBVIOUS
  <2> HIDE DEF todo
  <2>3. r \in Poll /\ r.pc = "restore" /\ r.todo = todo /\ r.entry = 0
    BY <2>2 DEF Idle, Poll, PollTodo
  <2> HIDE DEF r
  <2>4. PollMoves(w, r)
    BY <1>0, <2>1, <2>2, <2>3 DEF PollMoves
  <2> QED
    BY <2>4
<1>2. CASE RestoreClaim(w)
  <2> PICK c \in poll[w].todo : poll' = [poll EXCEPT ![w].todo = @ \ {c}]
    BY <1>2 DEF RestoreClaim
  <2> DEFINE r == [p EXCEPT !.todo = @ \ {c}]
  <2>1. poll' = [poll EXCEPT ![w] = r]
    BY DEF QueueInv, Shapes
  <2>2. r \in Poll /\ r.pc = "restore" /\ r.todo \subseteq p.todo /\ r.entry = p.entry
    BY <1>0, <1>2 DEF Poll, RestoreClaim
  <2>3. p.todo \subseteq Jobs \X Workers /\ p.entry <= written /\ written' = written
    BY <1>0, <1>2 DEF Knows, RestoreClaim
  <2> HIDE DEF r
  <2>4. PollMoves(w, r)
    BY <2>1, <2>2, <2>3 DEF PollMoves
  <2> QED
    BY <2>4
<1>3. CASE List(w)
  <2> DEFINE todo == {<<file[j], j>> : j \in {i \in Jobs : file[i] # 0}}
  <2>1. todo \in SUBSET (Nat \X Jobs)
    BY DEF QueueInv, Directory
  <2>2. poll' = [poll EXCEPT ![w] = Scanning(todo)] /\ written' = written
    BY <1>3 DEF List, dirVars
  <2> HIDE DEF todo
  <2> QED
    BY <1>0, <2>1, <2>2, Scans
<1>4. CASE Rename(w)
  <2> DEFINE c == Oldest(p.todo)
             r == [p EXCEPT !.pc = "claimed", !.job = c[2], !.todo = @ \ {c}]
             q == [p EXCEPT !.todo = @ \ {c}]
  <2>1. c \in p.todo /\ c[2] \in Jobs
    BY <1>4, ScannedJob DEF Rename
  <2>2. p.todo \subseteq Nat \X Jobs /\ p.entry <= written /\ p.pc = "scan"
    BY <1>0, <1>4 DEF Knows, Rename
  <2>3. poll' = [poll EXCEPT ![w] = r] \/ poll' = [poll EXCEPT ![w] = q]
    <3>1. \/ poll' = [poll EXCEPT ![w] = [p EXCEPT !.pc = "claimed", !.job = c[2], !.todo = @ \ {c}]]
          \/ poll' = [poll EXCEPT ![w].todo = @ \ {c}]
      BY <1>4 DEF Rename
    <3>2. poll \in [Workers -> Poll]
      BY DEF QueueInv, Shapes
    <3> HIDE DEF c
    <3>3. CASE poll' = [poll EXCEPT ![w] = [p EXCEPT !.pc = "claimed", !.job = c[2], !.todo = @ \ {c}]]
      BY <3>3
    <3>4. CASE poll' = [poll EXCEPT ![w].todo = @ \ {c}]
      BY <3>2, <3>4
    <3> QED
      BY <3>1, <3>3, <3>4
  <2>4. written' = written
    BY <1>4 DEF Rename
  <2> HIDE DEF c, p
  <2>5. r \in Poll /\ r.pc = "claimed" /\ r.job = c[2] /\ r.todo \subseteq p.todo /\ r.entry = p.entry
    BY <1>0, <2>1 DEF Poll
  <2>6. q \in Poll /\ q.pc = p.pc /\ q.todo \subseteq p.todo /\ q.entry = p.entry
    BY <1>0 DEF Poll
  <2> HIDE DEF r, q
  <2>7. CASE poll' = [poll EXCEPT ![w] = r]
    <3>1. PollMoves(w, r)
      BY <2>1, <2>2, <2>4, <2>5, <2>7 DEF PollMoves
    <3> QED
      BY <3>1
  <2>8. CASE poll' = [poll EXCEPT ![w] = q]
    <3>1. PollMoves(w, q)
      BY <2>2, <2>4, <2>6, <2>8 DEF PollMoves
    <3> QED
      BY <3>1
  <2> QED
    BY <2>3, <2>7, <2>8
<1>5. CASE Read(w)
  <2> DEFINE n == claim[p.job][w]
  <2>1. p.job \in Jobs /\ p.todo \in SUBSET (Nat \X Jobs) /\ n \in Nat /\ n <= written
    BY <1>0, <1>5 DEF Read, Knows, QueueInv, Directory
  <2>2. written' = written /\ claim' = claim
    BY <1>5 DEF Read, dirVars
  <2>3. CASE n = 0
    <3>1. poll' = [poll EXCEPT ![w] = Scanning(p.todo)]
      BY <1>5, <2>3 DEF Read, QueueInv, Shapes
    <3> QED
      BY <1>0, <2>1, <2>2, <3>1, Scans
  <2>4. CASE n # 0
    <3> DEFINE pc == IF n \notin partial /\ pin[n] \in {None, w} THEN "accepted" ELSE "refused"
               r == [p EXCEPT !.entry = n, !.pc = pc]
    <3>1. poll' = [poll EXCEPT ![w] = r]
      BY <1>5, <2>4 DEF Read, QueueInv, Shapes
    <3>2. pc \in {"accepted", "refused"}
      OBVIOUS
    <3> HIDE DEF pc
    <3>3. r \in Poll /\ r.pc = pc /\ r.entry = n /\ r.job = p.job /\ r.todo = p.todo
      <4> HIDE DEF p, n
      <4> QED
        BY <1>0, <2>1, <3>2 DEF Poll
    <3>4. claim'[p.job][w] = n /\ n <= written'
      BY <2>1, <2>2
    <3> HIDE DEF r, n, p
    <3>5. r.pc = "accepted" => r.entry # 0 /\ claim'[r.job][w] \in {0, r.entry}
      BY <2>4, <3>3, <3>4
    <3>6. r.entry <= written' /\ r.pc \in {"accepted", "refused"}
      BY <3>2, <3>3, <3>4
    <3>7. PollMoves(w, r)
      BY <2>1, <3>1, <3>3, <3>5, <3>6 DEF PollMoves
    <3> QED
      BY <3>7
  <2> QED
    BY <2>3, <2>4
<1>6. CASE Refuse(w)
  <2>1. p.todo \in SUBSET (Nat \X Jobs)
    BY <1>0, <1>6 DEF Knows, Refuse
  <2>2. poll' = [poll EXCEPT ![w] = Scanning(p.todo)] /\ written' = written
    BY <1>6 DEF Refuse, QueueInv, Shapes
  <2> QED
    BY <1>0, <2>1, <2>2, Scans
<1>7. CASE Commit(w)
  <2> DEFINE r == [p EXCEPT !.pc = "taken"]
  <2>1. p.todo \in SUBSET (Nat \X Jobs) /\ p.job \in Jobs /\ p.entry <= written
    BY <1>0, <1>7 DEF Knows, Commit
  <2>2. poll' = [poll EXCEPT ![w] = r] \/ poll' = [poll EXCEPT ![w] = Scanning(p.todo)]
    BY <1>7 DEF Commit, QueueInv, Shapes
  <2>3. written' = written
    BY <1>7 DEF Commit
  <2> HIDE DEF p
  <2>4. r \in Poll /\ r.pc = "taken" /\ r.job = p.job /\ r.entry = p.entry
    BY <1>0 DEF Poll
  <2> HIDE DEF r
  <2>5. CASE poll' = [poll EXCEPT ![w] = r]
    <3>1. PollMoves(w, r)
      BY <2>1, <2>3, <2>4, <2>5 DEF PollMoves
    <3> QED
      BY <3>1
  <2>6. CASE poll' = [poll EXCEPT ![w] = Scanning(p.todo)]
    BY <1>0, <2>1, <2>3, <2>6, Scans
  <2> QED
    BY <2>2, <2>5, <2>6
<1>8. CASE Dispatch(w) \/ PollEnd(w)
  <2>1. poll' = [poll EXCEPT ![w] = Idle] /\ written' = written
    BY <1>8 DEF Dispatch, PollEnd, dirVars
  <2>2. PollMoves(w, Idle)
    BY <1>0, <2>1 DEF PollMoves, Idle, Poll
  <2> QED
    BY <2>2
<1> QED
  BY <1>1, <1>2, <1>3, <1>4, <1>5, <1>6, <1>7, <1>8 DEF PollStep

\* Who else works on the directory does not put another entry in a claim of w.
LEMMA ClaimsOfOthers ==
    ASSUME QueueInv, [Next]_queueVars, NEW w \in Workers, ~PollStep(w)
    PROVE  \A k \in Jobs : claim'[k][w] \in {0, claim[k][w]}
<1> USE DEF dirVars
<1>a. claim \in [Jobs -> [Workers -> 0 .. written]]
  BY DEF QueueInv, Directory
<1>0. CASE UNCHANGED claim
  BY <1>0
<1>b. ASSUME NEW j \in Jobs, NEW v \in Workers, claim' = [claim EXCEPT ![j][v] = 0]
      PROVE  \A k \in Jobs : claim'[k][w] \in {0, claim[k][w]}
  BY <1>a, <1>b
<1>1. ASSUME NEW t \in Tasks, NEW kind, Begin(t, kind) \/ Purge(t, kind) PROVE UNCHANGED claim
  BY <1>1 DEF Begin, Purge
<1>2. ASSUME NEW t \in Tasks, OpStep(t) PROVE \A k \in Jobs : claim'[k][w] \in {0, claim[k][w]}
  <2>1. CASE UnlinkListed(t)
    <3> PICK v \in op[t].todo :
           \/ v \in Workers /\ claim' = [claim EXCEPT ![t[1]][v] = 0]
           \/ UNCHANGED claim
      BY <2>1 DEF UnlinkListed
    <3>1. t[1] \in Jobs
      BY DEF Tasks
    <3> QED
      BY <1>0, <1>b, <3>1
  <2>2. ASSUME ~UnlinkListed(t) PROVE UNCHANGED claim
    BY <1>2, <2>2 DEF OpStep, Unlink, ListClaims, Removed, Open, Write
  <2> QED
    BY <1>0, <2>1, <2>2
<1>3. ASSUME NEW v \in Workers, PollStep(v) PROVE \A k \in Jobs : claim'[k][w] \in {0, claim[k][w]}
  <2>0. v # w
    BY <1>3
  <2>1. CASE RestoreClaim(v)
    <3> PICK c \in poll[v].todo : MovedBack(c[1], c[2]) \/ UNCHANGED claim
      BY <2>1 DEF RestoreClaim
    <3>1. c[1] \in Jobs /\ c[2] \in Workers
      BY <2>1 DEF RestoreClaim, QueueInv, Knows
    <3> QED
      BY <1>0, <1>b, <3>1 DEF MovedBack
  <2>2. CASE Rename(v)
    <3> DEFINE j == Oldest(poll[v].todo)[2]
    <3>1. j \in Jobs
      BY <2>2, ScannedJob DEF Rename
    <3>2. claim' = [claim EXCEPT ![j][v] = file[j]] \/ UNCHANGED claim
      BY <2>2 DEF Rename
    <3> HIDE DEF j
    <3> QED
      BY <1>a, <2>0, <3>1, <3>2
  <2>3. CASE Refuse(v) \/ Commit(v)
    <3>1. poll[v].job \in Jobs
      BY <2>3 DEF Refuse, Commit, QueueInv, Knows
    <3>2. claim' = [claim EXCEPT ![poll[v].job][v] = 0] \/ UNCHANGED claim
      BY <2>3 DEF Refuse, Commit, MovedBack
    <3> QED
      BY <1>0, <1>b, <3>1, <3>2
  <2>4. PollBegin(v) \/ List(v) \/ Read(v) \/ Dispatch(v) \/ PollEnd(v) => UNCHANGED claim
    BY DEF PollBegin, List, Read, Dispatch, PollEnd
  <2> QED
    BY <1>3, <1>0, <2>1, <2>2, <2>3, <2>4 DEF PollStep
<1>4. ASSUME NEW n, Age(n) PROVE UNCHANGED claim
  BY <1>4 DEF Age
<1>5. Kill => UNCHANGED claim
  BY DEF Kill
<1>6. UNCHANGED queueVars => UNCHANGED claim
  BY DEF queueVars
<1> QED
  BY <1>0, <1>1, <1>2, <1>3, <1>4, <1>5, <1>6 DEF Next

LEMMA PollShapes ==
    ASSUME QueueInv, [Next]_queueVars
    PROVE  poll' \in [Workers -> Poll] /\ written' \in Nat /\ written <= written'
<1> USE DEF dirVars
<1>1. poll \in [Workers -> Poll] /\ written \in Nat
  BY DEF QueueInv, Shapes, Directory
<1>2. UNCHANGED poll \/ Kill \/ \E w \in Workers : PollStep(w)
  BY DEF Next, Begin, Purge, OpStep, Unlink, ListClaims, UnlinkListed, Removed, Open, Write, Age,
         queueVars
<1>3. ASSUME NEW w \in Workers, PollStep(w) PROVE poll' \in [Workers -> Poll]
  <2>1. PICK r : PollMoves(w, r)
    BY <1>3, PollStepKnows
  <2> QED
    BY <1>1, <2>1 DEF PollMoves
<1>4. written' \in {written, written + 1}
  <2>1. ASSUME NEW w \in Workers, PollStep(w) PROVE written' = written
    BY <2>1 DEF PollStep, PollBegin, List, Read, Dispatch, PollEnd, RestoreClaim, Rename, Refuse,
                Commit
  <2>2. ASSUME NEW t \in Tasks, OpStep(t) PROVE written' \in {written, written + 1}
    BY <2>2 DEF OpStep, Unlink, ListClaims, UnlinkListed, Removed, Open, Write
  <2>3. ASSUME ~\E w \in Workers : PollStep(w), ~\E t \in Tasks : OpStep(t)
        PROVE  written' = written
    BY <2>3 DEF Next, Begin, Purge, Age, Kill, queueVars
  <2> QED
    BY <2>1, <2>2, <2>3
<1>5. CASE Kill
  <2>1. poll' = [w \in Workers |-> Idle]
    BY <1>5 DEF Kill
  <2>2. Idle \in Poll
    BY Records
  <2>3. poll' \in [Workers -> Poll]
    BY <2>1, <2>2
  <2> QED
    BY <1>1, <1>4, <2>3
<1> QED
  BY <1>1, <1>2, <1>3, <1>4, <1>5

LEMMA KnowsStep ==
    ASSUME QueueInv, [Next]_queueVars, NEW w \in Workers
    PROVE  Knows(w)'
<1>1. CASE PollStep(w)
  <2> PICK r : PollMoves(w, r)
    BY <1>1, PollStepKnows
  <2>1. poll'[w] = r
    BY DEF PollMoves, QueueInv, Shapes
  <2> QED
    BY <2>1 DEF Knows, PollMoves
<1>2. CASE ~PollStep(w)
  <2>1. CASE poll'[w] = poll[w]
    <3>1. /\ \A k \in Jobs : claim'[k][w] \in {0, claim[k][w]}
          /\ written' \in Nat /\ written <= written' /\ written \in Nat /\ poll[w] \in Poll
      BY <1>2, ClaimsOfOthers, PollShapes DEF QueueInv, Shapes, Directory
    <3>2. poll[w].entry \in Nat /\ Knows(w)
      BY <3>1 DEF Poll, QueueInv
    <3> QED
      BY <2>1, <3>1, <3>2 DEF Knows
  <2>2. CASE Kill
    <3>1. poll'[w] = Idle /\ written' \in Nat
      BY <2>2, PollShapes DEF Kill
    <3> QED
      BY <3>1 DEF Knows, Idle
  <2>3. ASSUME NEW v \in Workers, PollStep(v) PROVE poll'[w] = poll[w]
    <3>1. PICK r : PollMoves(v, r)
      BY <2>3, PollStepKnows
    <3> QED
      BY <1>2, <2>3, <3>1 DEF PollMoves, QueueInv, Shapes
  <2>4. UNCHANGED poll \/ Kill \/ \E v \in Workers : PollStep(v)
    BY DEF Next, Begin, Purge, OpStep, Unlink, ListClaims, UnlinkListed, Removed, Open, Write, Age,
           queueVars, dirVars
  <2> QED
    BY <2>1, <2>2, <2>3, <2>4
<1> QED
  BY <1>1, <1>2

-----------------------------------------------------------------------------
(* The shapes are kept.                                                     *)

LEMMA OpShapes ==
    ASSUME QueueInv, [Next]_queueVars
    PROVE  /\ op' \in [Tasks -> Operation]
           /\ \A t \in Tasks : op'[t].pc = "claims" => op'[t].todo \subseteq Workers \cup {None}
<1>0. Shapes /\ Directory
  BY DEF QueueInv
<1>1. ASSUME NEW t \in Tasks, NEW r, OpMoves(t, r)
      PROVE  /\ op' \in [Tasks -> Operation]
             /\ \A u \in Tasks : op'[u].pc = "claims" => op'[u].todo \subseteq Workers \cup {None}
  BY <1>0, <1>1, OpChanges DEF OpMoves
<1>2. ASSUME NEW t \in Tasks, NEW kind \in Kinds(t), Begin(t, kind) PROVE \E r : OpMoves(t, r)
  BY <1>2, BeginMoves DEF Kinds
<1>a. ASSUME NEW t \in Tasks, NEW forced, Purge(t, forced) PROVE \E r : OpMoves(t, r)
  BY <1>a, PurgeMoves
<1>3. ASSUME NEW t \in Tasks, OpStep(t) PROVE \E r : OpMoves(t, r)
  BY <1>0, <1>3, OpStepMoves DEF OpStep
<1>4. ASSUME UNCHANGED op
      PROVE  /\ op' \in [Tasks -> Operation]
             /\ \A t \in Tasks : op'[t].pc = "claims" => op'[t].todo \subseteq Workers \cup {None}
  BY <1>0, <1>4 DEF Shapes
<1>5. ASSUME NEW w \in Workers, PollStep(w) PROVE UNCHANGED op
  BY <1>5 DEF PollStep, PollBegin, List, Read, Dispatch, PollEnd, RestoreClaim, Rename, Refuse,
              Commit
<1>6. ASSUME NEW n, Age(n) PROVE UNCHANGED op
  BY <1>6 DEF Age
<1>7. UNCHANGED queueVars => UNCHANGED op
  BY DEF queueVars
<1>8. CASE Kill
  <2>1. op' = [t \in Tasks |-> NoOp]
    BY <1>8 DEF Kill
  <2> QED
    BY <2>1, Records
<1> QED
  BY <1>1, <1>2, <1>a, <1>3, <1>4, <1>5, <1>6, <1>7, <1>8 DEF Next

LEMMA HistoryShapes ==
    ASSUME QueueInv, [Next]_queueVars
    PROVE  /\ written' \in 0 .. MaxEntries
           /\ pin' \in [1 .. MaxEntries -> Pins \cup {None}]
           /\ (partial \cup old \cup taken)' \subseteq Entries'
           /\ (launched \cup due)' \subseteq Jobs
           /\ kills' \in Nat
<1> USE DEF dirVars
<1> DEFINE marked == partial \cup old \cup taken
           known == launched \cup due
           Kept == UNCHANGED <<written, pin>> /\ marked' \subseteq marked /\ known' \subseteq known
<1>0. /\ written \in 0 .. MaxEntries /\ pin \in [1 .. MaxEntries -> Pins \cup {None}]
      /\ marked \subseteq Entries /\ known \subseteq Jobs /\ Directory
  BY DEF QueueInv, Shapes
<1>k. kills' \in Nat
  <2>1. UNCHANGED kills \/ Kill
    BY DEF Next, Begin, Purge, OpStep, Unlink, ListClaims, UnlinkListed, Removed, Open, Write, Age,
           queueVars, PollStep, PollBegin, List, Read, Dispatch, PollEnd, RestoreClaim, Rename,
           Refuse, Commit
  <2> QED
    BY <2>1 DEF Kill, QueueInv, Shapes
<1>a. CASE Kept
  BY <1>0, <1>k, <1>a DEF Entries
<1>1. ASSUME NEW t \in Tasks, NEW kind, Begin(t, kind)
      PROVE  UNCHANGED <<written, pin, marked>> /\ known' \subseteq Jobs
  <2>1. t[1] \in Jobs
    BY DEF Tasks
  <2> QED
    BY <1>0, <1>1, <2>1 DEF Begin
<1>b. ASSUME NEW t \in Tasks, NEW forced, Purge(t, forced) PROVE Kept
  BY <1>b DEF Purge
<1>2. ASSUME NEW t \in Tasks, Unlink(t) \/ ListClaims(t) \/ UnlinkListed(t) \/ Removed(t) PROVE Kept
  BY <1>2 DEF Unlink, ListClaims, UnlinkListed, Removed
<1>3. ASSUME NEW t \in Tasks, NEW host \in Pins, Open(t, host)
      PROVE  /\ written' \in 0 .. MaxEntries
             /\ pin' \in [1 .. MaxEntries -> Pins \cup {None}]
             /\ marked' \subseteq Entries'
             /\ known' \subseteq Jobs
  <2>1. written' = written + 1 /\ written + 1 <= MaxEntries /\ marked' = marked \cup {written + 1}
    BY <1>3 DEF Open
  <2>2. pin' = [pin EXCEPT ![written + 1] = host] /\ known' = known
    BY <1>3 DEF Open
  <2> HIDE DEF marked, known
  <2> QED
    BY <1>0, <2>1, <2>2, QueueBounds DEF Entries
<1>4. ASSUME NEW t \in Tasks, Write(t)
      PROVE  UNCHANGED <<written, pin>> /\ marked' \subseteq marked /\ known' \subseteq Jobs
  <2>1. t[1] \in Jobs
    BY DEF Tasks
  <2> QED
    BY <1>0, <1>4, <2>1 DEF Write
<1>5. ASSUME NEW w \in Workers, PollStep(w)
      PROVE  UNCHANGED <<written, pin>> /\ marked' \subseteq Entries /\ known' \subseteq known
  <2>1. CASE Commit(w)
    <3>1. poll[w].entry \in Entries
      <4>1. poll[w].entry <= written /\ poll[w].entry # 0 /\ poll[w].entry \in Nat
        BY <2>1 DEF Commit, QueueInv, Shapes, Poll, Knows
      <4> QED
        BY <1>0, <4>1 DEF Entries
    <3> QED
      BY <1>0, <2>1, <3>1 DEF Commit
  <2>2. CASE ~Commit(w)
    BY <1>0, <1>5, <2>2 DEF PollStep, PollBegin, List, Read, Dispatch, PollEnd, RestoreClaim,
                           Rename, Refuse
  <2> QED
    BY <2>1, <2>2
<1>6. ASSUME NEW n \in Live, Age(n)
      PROVE  UNCHANGED <<written, pin, known>> /\ marked' \subseteq Entries
  <2>1. n \in Entries
    BY <1>0, LiveIs DEF Directory, Entries
  <2>2. 1 .. n \subseteq Entries
    BY <1>0, <2>1 DEF Entries
  <2> QED
    BY <1>0, <1>6, <2>2 DEF Age
<1>7. Kill => Kept
  BY DEF Kill
<1>8. UNCHANGED queueVars => Kept
  BY DEF queueVars
<1> QED
  BY <1>0, <1>a, <1>1, <1>b, <1>2, <1>3, <1>4, <1>5, <1>6, <1>7, <1>8, <1>k
     DEF Next, OpStep, Entries

LEMMA QueueInvStep ==
    ASSUME QueueInv, [Next]_queueVars
    PROVE  QueueInv'
<1>1. Shapes'
  BY HistoryShapes, OpShapes, PollShapes DEF Shapes
<1>2. Directory'
  BY DirectoryStep
<1>3. \A w \in Workers : Knows(w)'
  BY KnowsStep
<1> QED
  BY <1>1, <1>2, <1>3 DEF QueueInv

-----------------------------------------------------------------------------
(* Only kills lose entries.                                                 *)

LEMMA OpKeeps ==
    ASSUME QueueInv, NEW t \in Tasks, NEW j \in due', j \in due => Present(j),
           \/ OpStep(t)
           \/ \E kind \in Kinds(t) : Begin(t, kind)
           \/ \E forced \in BOOLEAN : Purge(t, forced)
    PROVE  Present(j)'
<1> USE DEF dirVars
<1>0. Shapes /\ Directory /\ poll' = poll /\ t[1] \in Jobs
  BY DEF QueueInv, OpStep, Begin, Purge, Unlink, ListClaims, UnlinkListed, Removed, Open, Write, Tasks
<1>1. \E r : OpMoves(t, r)
  <2>1. ASSUME NEW kind \in Kinds(t), Begin(t, kind) PROVE \E r : OpMoves(t, r)
    BY <2>1, BeginMoves DEF Kinds
  <2>2. ASSUME OpStep(t) PROVE \E r : OpMoves(t, r)
    BY <1>0, <2>2, OpStepMoves DEF OpStep
  <2> QED
    BY <2>1, <2>2, PurgeMoves
<1>2. \A u \in Tasks \ {t} : op'[u] = op[u]
  BY <1>0, <1>1 DEF OpMoves, Shapes
<1>3. j \in Jobs /\ \A l \in Lanes : <<j, l>> \in Tasks
  <2>1. j \in due \/ j = t[1]
    BY <1>0 DEF OpStep, Begin, Purge, Unlink, ListClaims, UnlinkListed, Removed, Open, Write
  <2> QED
    BY <1>0, <2>1 DEF Shapes, Tasks
\* The task does not count, and the files are as they were.
<1>4. ASSUME UNCHANGED <<file, claim>>, j \in due, op[t].pc \in {"idle", "unlink"} \/ j # t[1]
      PROVE  Present(j)'
  <2>1. Held(j)' = Held(j) /\ \A w \in Workers : HandedOut(w, j)' <=> HandedOut(w, j)
    BY <1>0, <1>4 DEF Held, HandedOut
  <2>2. ASSUME NEW l \in Lanes, op[<<j, l>>].pc \notin {"idle", "unlink"}
        PROVE  op'[<<j, l>>].pc \notin {"idle", "unlink"}
    <3>1. <<j, l>> \in Tasks \ {t}
      BY <1>3, <1>4, <2>2
    <3> QED
      BY <1>2, <2>2, <3>1
  <2> QED
    BY <1>4, <2>1, <2>2 DEF Present, InHand
\* The task counts.
<1>5. ASSUME j = t[1], op'[t].pc \notin {"idle", "unlink"} PROVE Present(j)'
  <2>1. t[2] \in Lanes /\ t = <<j, t[2]>>
    BY <1>5 DEF Tasks
  <2> QED
    BY <1>5, <2>1 DEF Present, InHand
<1>6. CASE j # t[1]
  <2>1. Elsewhere(t[1])
    <3>1. CASE UNCHANGED <<file, claim>>
      BY <3>1 DEF Elsewhere
    <3>2. CASE Unlink(t)
      BY <1>0, <3>1, <3>2, Removes DEF Unlink
    <3>3. CASE UnlinkListed(t)
      <4>1. written' = written
        BY <3>3 DEF UnlinkListed
      <4>2. PICK w \in op[t].todo :
               \/ w \in Workers /\ claim' = [claim EXCEPT ![t[1]][w] = 0] /\ UNCHANGED file
               \/ file' = [file EXCEPT ![t[1]] = 0] /\ UNCHANGED claim
        BY <3>3 DEF UnlinkListed
      <4> QED
        BY <1>0, <4>1, <4>2, RemovesClaim, Removes
    <3>4. ASSUME NEW host \in Pins, Open(t, host) PROVE Elsewhere(t[1])
      BY <1>0, <3>4, Adds DEF Open
    <3> QED
      BY <3>1, <3>2, <3>3, <3>4 DEF OpStep, Begin, Purge, ListClaims, Removed, Write
  <2>2. j \in due
    BY <1>6 DEF OpStep, Begin, Purge, Unlink, ListClaims, UnlinkListed, Removed, Open, Write
  <2>3. Held(j)' = Held(j) /\ \A w \in Workers : HandedOut(w, j)' <=> HandedOut(w, j)
    BY <1>0, <1>3, <1>6, <2>1 DEF Elsewhere, Held, HandedOut
  <2>4. \A l \in Lanes : op'[<<j, l>>] = op[<<j, l>>]
    BY <1>2, <1>3, <1>6
  <2> QED
    BY <2>2, <2>3, <2>4 DEF Present, InHand
<1>7. CASE j = t[1]
  <2>1. ASSUME NEW r, OpMoves(t, r) PROVE op'[t] = r
    BY <1>0, <2>1 DEF OpMoves, Shapes
  <2>2. ASSUME NEW kind, Begin(t, kind) \/ Purge(t, kind) PROVE Present(j)'
    BY <1>4, <2>2 DEF Begin, Purge
  <2>3. CASE Unlink(t)
    <3>1. PICK r : OpMoves(t, r) /\ op[t].pc = "unlink" /\
                      ((r.pc = "idle" /\ file' = file) \/ r.pc = "list")
      BY <1>0, <2>3, OpStepMoves
    <3>2. CASE r.pc = "list"
      BY <1>5, <1>7, <2>1, <3>1, <3>2
    <3>3. CASE file' = file
      BY <1>4, <2>3, <3>1, <3>3 DEF Unlink
    <3> QED
      BY <3>1, <3>2, <3>3
  <2>4. CASE ListClaims(t) \/ UnlinkListed(t)
    <3>1. PICK r : OpMoves(t, r) /\ r.pc = "claims"
      BY <1>0, <2>4, OpStepMoves
    <3> QED
      BY <1>5, <1>7, <2>1, <3>1
  <2>5. CASE Removed(t) \/ Write(t)
    <3>1. UNCHANGED <<file, claim>> /\ (Held(j) = {0} => j \notin due')
      BY <1>7, <2>5 DEF Removed, Write
    <3>2. Held(j)' = Held(j)
      BY <3>1 DEF Held
    <3> QED
      BY <3>1, <3>2 DEF Present
  <2>6. ASSUME NEW host \in Pins, Open(t, host) PROVE Present(j)'
    <3>1. PICK r : OpMoves(t, r) /\ r.pc = "write"
      BY <1>0, <2>6, OpStepMoves
    <3> QED
      BY <1>5, <1>7, <2>1, <3>1
  <2> QED
    BY <2>2, <2>3, <2>4, <2>5, <2>6 DEF OpStep
<1> QED
  BY <1>6, <1>7

LEMMA PollKeeps ==
    ASSUME QueueInv, NEW w \in Workers, PollStep(w), NEW k \in due', k \in due => Present(k)
    PROVE  Present(k)'
<1> USE DEF dirVars
<1>0. /\ Shapes /\ Directory /\ poll \in [Workers -> Poll] /\ op' = op
      /\ due' \subseteq due /\ k \in Jobs /\ Present(k)
  <2>1. op' = op /\ due' \subseteq due
    BY DEF PollStep, PollBegin, List, Read, Dispatch, PollEnd, RestoreClaim, Rename, Refuse, Commit
  <2> QED
    BY <2>1 DEF QueueInv, Shapes
<1>1. \A v \in Workers \ {w} : poll'[v] = poll[v]
  <2>1. PICK r : PollMoves(w, r)
    BY PollStepKnows
  <2> QED
    BY <1>0, <2>1 DEF PollMoves
<1>2. ASSUME Held(k) # {0} => Present(k)', ~HandedOut(w, k) PROVE Present(k)'
  <2>1. ASSUME NEW v \in Workers, HandedOut(v, k) PROVE Present(k)'
    BY <1>1, <1>2, <2>1 DEF HandedOut, Present, InHand
  <2>2. ASSUME NEW l \in Lanes, op[<<k, l>>].pc \notin {"idle", "unlink"} PROVE Present(k)'
    BY <1>0, <2>2 DEF Present, InHand
  <2> QED
    BY <1>0, <1>2, <2>1, <2>2 DEF Present, InHand
<1>3. ASSUME NEW j \in Jobs, Elsewhere(j), poll[w].pc # "taken", Held(j) # {0} => Present(j)'
      PROVE  Present(k)'
  <2>1. Held(k) # {0} => Present(k)'
    BY <1>0, <1>3 DEF Elsewhere, Present, Held
  <2> QED
    BY <1>2, <1>3, <2>1 DEF HandedOut
<1>4. ASSUME UNCHANGED <<file, claim>>, poll[w].pc # "taken" PROVE Present(k)'
  <2>1. Held(k)' = Held(k)
    BY <1>4 DEF Held
  <2> QED
    BY <1>2, <1>4, <2>1 DEF HandedOut, Present
<1>5. ASSUME NEW j \in Jobs, NEW v \in Workers, MovedBack(j, v), claim[j][v] # 0,
             written' = written, poll[w].pc # "taken"
      PROVE  Present(k)'
  BY <1>0, <1>3, <1>5, PutsBack DEF Present
<1>6. CASE RestoreClaim(w)
  <2> PICK c \in poll[w].todo : \/ Restorable(claim[c[1]][c[2]]) /\ MovedBack(c[1], c[2])
                                \/ UNCHANGED <<file, claim>>
    BY <1>6 DEF RestoreClaim
  <2>1. c[1] \in Jobs /\ c[2] \in Workers
    BY <1>6 DEF RestoreClaim, QueueInv, Knows
  <2>2. Restorable(claim[c[1]][c[2]]) => claim[c[1]][c[2]] # 0
    BY <1>0 DEF Restorable, Shapes, Entries
  <2> QED
    BY <1>4, <1>5, <1>6, <2>1, <2>2 DEF RestoreClaim
<1>7. CASE Rename(w)
  <2>1. PICK j \in Jobs : j = Oldest(poll[w].todo)[2]
    BY <1>7, ScannedJob DEF Rename
  <2>2. CASE /\ file[j] # 0
             /\ claim' = [claim EXCEPT ![j][w] = file[j]]
             /\ file' = [file EXCEPT ![j] = 0]
    <3>1. Elsewhere(j) /\ Held(j)' # {0}
      BY <1>0, <1>7, <2>1, <2>2, Claims DEF Rename
    <3> QED
      BY <1>3, <1>7, <2>1, <3>1 DEF Rename, Present
  <2>3. CASE UNCHANGED <<file, claim>>
    BY <1>4, <1>7, <2>3 DEF Rename
  <2> QED
    BY <1>7, <2>1, <2>2, <2>3 DEF Rename
<1>8. CASE Refuse(w)
  <2>1. poll[w].job \in Jobs
    BY <1>8 DEF Refuse, QueueInv, Knows
  <2> QED
    BY <1>4, <1>5, <1>8, <2>1 DEF Refuse
<1>9. CASE Commit(w)
  <2>1. PICK j \in Jobs : j = poll[w].job
    BY <1>9 DEF Commit, QueueInv, Knows
  <2>2. CASE Keeps(w)
    <3>1. HandedOut(w, j)'
      BY <1>0, <1>9, <2>1, <2>2 DEF Commit, HandedOut, Poll
    <3>2. Elsewhere(j)
      BY <1>0, <1>9, <2>1, RemovesClaim DEF Commit
    <3> QED
      BY <1>3, <1>9, <2>1, <3>1, <3>2 DEF Commit, Present, InHand
  <2>3. CASE ~Keeps(w)
    <3>1. UNCHANGED <<file, claim>>
      BY <1>0, <1>9, <2>1, <2>3 DEF Commit, Keeps, Directory
    <3> QED
      BY <1>4, <1>9, <3>1 DEF Commit
  <2> QED
    BY <2>2, <2>3
<1>10. CASE Dispatch(w)
  <2>1. Held(k)' = Held(k) /\ ~HandedOut(w, k)
    BY <1>10 DEF Dispatch, Held, HandedOut
  <2> QED
    BY <1>2, <2>1 DEF Present
<1>11. CASE PollBegin(w) \/ List(w) \/ Read(w) \/ PollEnd(w)
  BY <1>4, <1>11 DEF PollBegin, List, Read, PollEnd
<1> QED
  BY <1>6, <1>7, <1>8, <1>9, <1>10, <1>11 DEF PollStep

LEMMA StepLoses ==
    ASSUME QueueInv, [Next]_queueVars, NEW j \in due', j \in due => Present(j), ~Present(j)'
    PROVE  kills' # kills /\ InHand(j)
<1> USE DEF dirVars
<1>1. CASE Kill
  <2>1. Held(j)' = Held(j) /\ due' = due
    BY <1>1 DEF Kill, Held
  <2>2. kills' # kills
    BY <1>1 DEF Kill, QueueInv, Shapes
  <2> QED
    BY <2>1, <2>2 DEF Present
<1>2. ASSUME UNCHANGED <<file, claim, poll, op, due>> PROVE FALSE
  BY <1>2 DEF Present, InHand, Held, HandedOut
<1>3. ASSUME NEW n, Age(n) PROVE FALSE
  BY <1>2, <1>3 DEF Age
<1>4. UNCHANGED queueVars => FALSE
  BY <1>2 DEF queueVars
<1>5. ASSUME NEW t \in Tasks,
             \/ OpStep(t)
             \/ \E kind \in Kinds(t) : Begin(t, kind)
             \/ \E forced \in BOOLEAN : Purge(t, forced)
      PROVE  FALSE
  BY <1>5, OpKeeps
<1>6. ASSUME NEW w \in Workers, PollStep(w) PROVE FALSE
  BY <1>6, PollKeeps
<1> QED
  BY <1>1, <1>3, <1>4, <1>5, <1>6 DEF Next

-----------------------------------------------------------------------------
(* The theorems.                                                            *)

LEMMA QueueInit ==
    ASSUME Init
    PROVE  QueueInv
<1>1. Shapes
  <2>1. /\ written = 0 /\ partial = {} /\ old = {} /\ taken = {} /\ launched = {} /\ due = {}
        /\ kills = 0 /\ pin = [n \in 1 .. MaxEntries |-> None]
    BY DEF Init
  <2>2. poll \in [Workers -> Poll] /\ op \in [Tasks -> Operation]
        /\ \A t \in Tasks : op[t].pc # "claims"
    <3>1. poll = [w \in Workers |-> Idle] /\ op = [t \in Tasks |-> NoOp]
      BY DEF Init
    <3> QED
      BY <3>1, Records
  <2> QED
    BY <2>1, <2>2, QueueBounds DEF Shapes, Entries
<1>2. Directory
  BY DEF Init, Directory, Distinct
<1>3. ASSUME NEW w \in Workers PROVE Knows(w)
  <2>1. poll[w] = Idle /\ written = 0
    BY DEF Init
  <2> QED
    BY <2>1 DEF Knows, Idle
<1> QED
  BY <1>1, <1>2, <1>3 DEF QueueInv

LEMMA QueueAlways == Spec => []QueueInv
<1>1. Init => QueueInv
  BY QueueInit
<1>2. QueueInv /\ [Next]_queueVars => QueueInv'
  BY QueueInvStep
<1> QED
  BY <1>1, <1>2, PTL DEF Spec

LEMMA InOneFile ==
    ASSUME Directory, NEW n \in Live
    PROVE  Cardinality({p \in Places : At(p) = n}) = 1
<1>1. None \notin Workers
  BY PinTypes
<1>2. ASSUME NEW p \in Places, NEW q \in Places, At(p) = n, At(q) = n PROVE p = q
  <2>1. /\ p = <<p[1], p[2]>> /\ p[1] \in Jobs /\ p[2] \in Workers \cup {None}
        /\ q = <<q[1], q[2]>> /\ q[1] \in Jobs /\ q[2] \in Workers \cup {None}
    BY DEF Places
  <2>2. n # 0
    BY DEF Live
  <2>3. CASE p[2] = None /\ q[2] = None
    <3>1. file[p[1]] = n /\ file[q[1]] = n
      BY <1>2, <2>3 DEF At
    <3>2. p[1] = q[1]
      BY <2>1, <2>2, <3>1 DEF Directory, Distinct
    <3> QED
      BY <2>1, <2>3, <3>2
  <2>4. CASE p[2] = None /\ q[2] # None
    <3>1. file[p[1]] = n /\ claim[q[1]][q[2]] = n /\ q[2] \in Workers
      BY <1>2, <2>1, <2>4 DEF At
    <3> QED
      BY <2>1, <2>2, <3>1 DEF Directory, Distinct
  <2>5. CASE p[2] # None /\ q[2] = None
    <3>1. file[q[1]] = n /\ claim[p[1]][p[2]] = n /\ p[2] \in Workers
      BY <1>2, <2>1, <2>5 DEF At
    <3> QED
      BY <2>1, <2>2, <3>1 DEF Directory, Distinct
  <2>6. CASE p[2] # None /\ q[2] # None
    <3>1. /\ claim[p[1]][p[2]] = n /\ p[2] \in Workers
          /\ claim[q[1]][q[2]] = n /\ q[2] \in Workers
      BY <1>2, <2>1, <2>6 DEF At
    <3>2. p[1] = q[1] /\ p[2] = q[2]
      BY <2>1, <2>2, <3>1 DEF Directory, Distinct
    <3> QED
      BY <2>1, <3>2
  <2> QED
    BY <2>3, <2>4, <2>5, <2>6
<1>3. \E p \in Places : At(p) = n
  <2>1. PICK j \in Jobs : file[j] = n \/ \E w \in Workers : claim[j][w] = n
    BY LiveIs
  <2>2. CASE file[j] = n
    <3>1. <<j, None>> \in Places /\ At(<<j, None>>) = n
      BY <2>2 DEF Places, At
    <3> QED
      BY <3>1
  <2>3. ASSUME NEW w \in Workers, claim[j][w] = n PROVE \E p \in Places : At(p) = n
    <3>1. <<j, w>> \in Places /\ At(<<j, w>>) = n
      BY <1>1, <2>3 DEF Places, At
    <3> QED
      BY <3>1
  <2> QED
    BY <2>1, <2>2, <2>3
<1>4. PICK p : {q \in Places : At(q) = n} = {p}
  BY <1>2, <1>3
<1> QED
  BY <1>4, FS_Singleton

\* The directory and those who work on it are of the shapes described, and an entry is
\* never in two files: os.replace moves it, and what is put back is what was claimed
\* (_restore_stale_claims, agent_pop_next_job of job_utils.py).
THEOREM QueueTypes == Spec => []QueueTypeOK
<1>1. QueueInv => QueueTypeOK
  <2> SUFFICES ASSUME QueueInv PROVE QueueTypeOK
    OBVIOUS
  <2>1. /\ file \in [Jobs -> 0 .. written] /\ claim \in [Jobs -> [Workers -> 0 .. written]]
        /\ \A n \in Live : Cardinality({p \in Places : At(p) = n}) = 1
    BY InOneFile DEF QueueInv, Directory
  <2>2. ASSUME NEW w \in Workers
        PROVE  /\ poll[w].pc \in {"idle", "restore", "scan", "claimed", "accepted", "refused", "taken"}
               /\ poll[w].job \in Jobs \cup {None}
               /\ poll[w].entry \in 0 .. written
    <3>1. poll[w] \in Poll /\ Knows(w) /\ written \in Nat
      BY DEF QueueInv, Shapes, Directory
    <3>2. poll[w].entry \in Nat /\ poll[w].entry <= written
      BY <3>1 DEF Poll, Knows
    <3> QED
      BY <3>1, <3>2 DEF Poll
  <2>3. \A t \in Tasks : op[t].pc \in {"idle", "unlink", "list", "claims", "open", "write"}
    BY DEF QueueInv, Shapes, Operation
  <2> QED
    BY <2>1, <2>2, <2>3 DEF QueueTypeOK, QueueInv, Shapes
<1> QED
  BY <1>1, QueueAlways, PTL

\* Only a kill loses the entry of a job, and only one that a poll has taken and not yet
\* dispatched, or that an operation has begun to remove or to replace: whatever polls
\* rename, restore, refuse and remove at the same time, and whatever operations add and
\* remove with the state lock or without (enqueue_job, remove_from_queue and
\* agent_pop_next_job of job_utils.py).
THEOREM LostByKillsOnly == Spec => OnlyKillsLose
<1> DEFINE Loses == \A j \in due' : (j \in due => Present(j)) /\ ~Present(j)' =>
                                       kills' # kills /\ InHand(j)
<1>1. QueueInv /\ [Next]_queueVars => [Loses]_queueVars
  BY StepLoses
<1> QED
  BY <1>1, QueueAlways, PTL DEF Spec, OnlyKillsLose

\* The files implement the abstract queue: an entry is handed out at most once, and
\* never after it was removed or replaced, because os.remove of the claim succeeds for
\* one poll only.
THEOREM FilesAreAQueue == Spec => ImplementsEntryQueue
<1>1. Init => Queue!EntryInit
  <2> SUFFICES ASSUME Init PROVE Live = {} /\ taken = {}
    BY DEF Queue!EntryInit
  <2>1. \A j \in Jobs : file[j] = 0 /\ \A w \in Workers : claim[j][w] = 0
    BY DEF Init
  <2> QED
    BY <2>1, LiveIs DEF Init
<1>2. QueueInv /\ [Next]_queueVars => [Queue!EntryNext]_<<Live, taken>>
  <2> SUFFICES ASSUME QueueInv, [Next]_queueVars PROVE [Queue!EntryNext]_<<Live, taken>>
    OBVIOUS
  <2>1. Queue!EntryNext \/ UNCHANGED <<Live, taken>>
    BY DirectoryStep
  <2> QED
    BY <2>1
<1> QED
  BY <1>1, <1>2, QueueAlways, PTL DEF Spec, ImplementsEntryQueue, Queue!EntrySpec
=============================================================================
