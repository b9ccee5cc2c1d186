------------------------------ MODULE FileQueue ------------------------------
(***************************************************************************)
(* The file queue at the level of file operations (app/utils/job_utils.py).*)
(* An entry is the file queue/<job>.json.  A poll claims it by renaming it *)
(* to <job>.json.claim.<worker>, reads it, and either renames it back or   *)
(* removes it; who removes the claim has the entry.  Polls of one worker   *)
(* exclude each other (_dispatch_lock), polls of different workers do not. *)
(* A poll first renames back claims that are older than QUEUE_CLAIM_TTL.   *)
(* The age of a claim is that of the entry, since a rename keeps the time  *)
(* of modification: a claim in progress may be old.                        *)
(*                                                                         *)
(* A requeue, the sweep, a stop and a report that ends a job change its    *)
(* entry with the state lock of the job held, so one of them at a time.  A *)
(* launch, ops_fail_job, ops_cancel_job, delete_job and the cleanups hold  *)
(* no lock: such a request has a lane of its own, beside that of the lock. *)
(* JobLifecycle has all this as two atomic steps, Claim and the change of  *)
(* the queue in the operation.                                             *)
(*                                                                         *)
(* Left out: two requests that write the same file at the same time.       *)
(***************************************************************************)
EXTENDS Naturals, FiniteSets

CONSTANTS
    Jobs,         \* job identifiers
    Workers,      \* workers that poll
    None,         \* no worker, no job
    Pins,         \* workers (or None) an entry may be pinned to
    Unlocked,     \* requests that work on entries without a lock
    Removers,     \* lanes in which entries are removed; in the code, all of them
    MaxEntries,   \* bound: how often an entry is written
    MaxKills      \* bound: how often the server is killed

ASSUME PinTypes == Pins \subseteq Workers \cup {None} /\ None \notin Workers \cup Jobs
ASSUME QueueBounds == MaxEntries \in Nat /\ MaxKills \in Nat

VARIABLES
    file,      \* the entry in queue/<job>.json, 0 without
    claim,     \* the entry in <job>.json.claim.<worker>, 0 without
    pin,       \* the preferred and required host of each entry
    partial,   \* entries of which the file is not written completely
    old,       \* entries whose file is older than QUEUE_CLAIM_TTL
    poll,      \* where the poll of each worker is
    op,        \* what is in progress on the entry of each job, in each lane
    written,   \* how many entries were opened for writing
    kills,     \* bounds the model: kills so far
    taken,     \* history: entries handed to a poll
    launched,  \* history: jobs of which the launch got to the queue
    due        \* history: jobs whose entry was written, and neither found removed by an
               \* operation that ended nor handed to a dispatch

dirVars   == <<file, claim, pin, partial, old, written>>
queueVars == <<dirVars, poll, op, kills, taken, launched, due>>

Entries == 1 .. written

Idle == [pc |-> "idle", todo |-> {}, job |-> None, entry |-> 0]
Scanning(todo) == [Idle EXCEPT !.pc = "scan", !.todo = todo]
NoOp == [pc |-> "idle", kind |-> "remove", todo |-> {}]

\* Who works on the entry of a job: whoever has its state lock, and the others.
Lanes == {"locked"} \cup Unlocked
Tasks == Jobs \X Lanes

\* A job is launched once and without the lock; what is enqueued again holds it.
Kinds(t) ==
    {k \in {"requeue", "enqueue", "remove"} :
        \/ k = "enqueue" /\ (t[1] \in launched <=> t[2] = "locked")
        \/ k = "requeue" /\ t[1] \in launched /\ t[2] = "locked"
        \/ k = "remove" /\ t[1] \in launched /\ t[2] \in Removers}

\* The places an entry of j can be in.
Held(j) == {file[j]} \cup {claim[j][w] : w \in Workers}

\* Entries in a file; entries of which the writer was killed.
Live == (UNION {Held(j) : j \in Jobs}) \ {0}
Writing == {t \in Tasks : op[t].pc = "write"}
Torn == partial \ UNION {op[t].todo : t \in Writing}

-----------------------------------------------------------------------------
(* Removing and adding the entry of the job t[1], in the lane t[2].         *)

\* Operations that are going to write an entry; the bound leaves each its own.
ToWrite == {t \in Tasks : op[t].kind # "remove"}

\* A launch and the sweep enqueue a job that is new or dispatched; a requeue removes
\* the entry before, a stop removes it: they look whether there is a file.
Begin(t, kind) ==
    /\ op[t].pc = "idle"
    /\ kind \in Kinds(t)
    /\ kind # "remove" => written + Cardinality(ToWrite) < MaxEntries
    /\ kind = "enqueue" => t[1] \notin due
    /\ op' = [op EXCEPT ![t] = [pc |-> IF kind = "enqueue" THEN "open"
                                       ELSE IF file[t[1]] # 0 THEN "unlink" ELSE "list",
                                kind |-> kind, todo |-> {}]]
    /\ launched' = launched \cup {t[1]}
    /\ UNCHANGED <<dirVars, poll, kills, taken, due>>

\* The forced cleanup of the queue lists the file with the claims, the other only the file.
Purge(t, forced) ==
    /\ op[t].pc = "idle"
    /\ t[2] \in Unlocked \cap Removers
    /\ op' = [op EXCEPT ![t] = [pc |-> "claims", kind |-> "remove",
                                todo |-> {None : n \in {file[t[1]]} \ {0}}
                                   \cup {w \in Workers : forced /\ claim[t[1]][w] # 0}]]
    /\ UNCHANGED <<dirVars, poll, kills, taken, launched, due>>

\* The file may be gone, renamed by a poll or removed in another lane: os.remove
\* raises, and with it the operation ends.
Unlink(t) ==
    LET j == t[1] IN
    /\ op[t].pc = "unlink"
    /\ \/ file[j] # 0 /\ file' = [file EXCEPT ![j] = 0] /\ op' = [op EXCEPT ![t].pc = "list"]
       \/ file[j] = 0 /\ op' = [op EXCEPT ![t] = NoOp] /\ UNCHANGED file
    /\ UNCHANGED <<claim, pin, partial, old, written, poll, kills, taken, launched, due>>

ListClaims(t) ==
    /\ op[t].pc = "list"
    /\ op' = [op EXCEPT ![t].pc = "claims", ![t].todo = {w \in Workers : claim[t[1]][w] # 0}]
    /\ UNCHANGED <<dirVars, poll, kills, taken, launched, due>>

\* What was listed is removed if it is there.
UnlinkListed(t) ==
    /\ op[t].pc = "claims"
    /\ \E w \in op[t].todo :
         /\ \/ w \in Workers /\ claim' = [claim EXCEPT ![t[1]][w] = 0] /\ UNCHANGED file
            \/ w = None /\ file' = [file EXCEPT ![t[1]] = 0] /\ UNCHANGED claim
         /\ op' = [op EXCEPT ![t].todo = @ \ {w}]
    /\ UNCHANGED <<pin, partial, old, written, poll, kills, taken, launched, due>>

NothingLeft(t) == op[t].pc = "claims" /\ op[t].todo = {}

Removed(t) ==
    /\ NothingLeft(t)
    /\ op[t].kind = "remove"
    /\ op' = [op EXCEPT ![t] = NoOp]
    /\ due' = IF Held(t[1]) = {0} THEN due \ {t[1]} ELSE due
    /\ UNCHANGED <<dirVars, poll, kills, taken, launched>>

\* open(path, "w"): what the file held is gone; it is empty until it is closed.
Open(t, host) ==
    LET n == written + 1
        j == t[1]
    IN
    /\ op[t].pc = "open" \/ (NothingLeft(t) /\ op[t].kind = "requeue")
    /\ n <= MaxEntries
    /\ \A u \in Writing : u[1] # j
    /\ written' = n
    /\ file' = [file EXCEPT ![j] = n]
    /\ pin' = [pin EXCEPT ![n] = host]
    /\ partial' = partial \cup {n}
    /\ op' = [op EXCEPT ![t] = [NoOp EXCEPT !.pc = "write", !.todo = {n}]]
    /\ UNCHANGED <<claim, old, poll, kills, taken, launched, due>>

\* The file is complete, under whatever name it has by now, if it has one.
Write(t) ==
    /\ op[t].pc = "write"
    /\ partial' = partial \ op[t].todo
    /\ op' = [op EXCEPT ![t] = NoOp]
    /\ due' = IF Held(t[1]) = {0} THEN due \ {t[1]} ELSE due \cup {t[1]}
    /\ UNCHANGED <<file, claim, pin, old, written, poll, kills, taken, launched>>

OpStep(t) ==
    \/ Unlink(t) \/ ListClaims(t) \/ UnlinkListed(t) \/ Removed(t)
    \/ (\E host \in Pins : Open(t, host)) \/ Write(t)

-----------------------------------------------------------------------------
(* A poll: restore old claims, list the entries, try one after the other. *)

PollBegin(w) ==
    /\ poll[w].pc = "idle"
    /\ poll' = [poll EXCEPT ![w] = [Idle EXCEPT !.pc = "restore",
                   !.todo = {c \in Jobs \X Workers : claim[c[1]][c[2]] # 0}]]
    /\ UNCHANGED <<dirVars, op, kills, taken, launched, due>>

\* Mutant: the claim is copied, and stays.
CopiedBack(j, v) ==
    /\ file' = [file EXCEPT ![j] = claim[j][v]]
    /\ UNCHANGED claim

\* Mutant: a claim that is not wanted is removed.
NotPutBack(j, v) ==
    /\ claim' = [claim EXCEPT ![j][v] = 0]
    /\ UNCHANGED file

\* The claim becomes the entry again, in place of one added since.
MovedBack(j, v) ==
    /\ file' = [file EXCEPT ![j] = claim[j][v]]
    /\ claim' = [claim EXCEPT ![j][v] = 0]

\* Mutant: the comparison with the TTL is the wrong way round.
RestorableYoung(n) == n # 0 /\ n \notin old

\* _restore_stale_claims takes a claim on entry n back.
Restorable(n) == n \in old

RestoreClaim(w) ==
    /\ poll[w].pc = "restore"
    /\ \E c \in poll[w].todo :
         /\ \/ Restorable(claim[c[1]][c[2]]) /\ MovedBack(c[1], c[2])
            \/ ~Restorable(claim[c[1]][c[2]]) /\ UNCHANGED <<file, claim>>
         /\ poll' = [poll EXCEPT ![w].todo = @ \ {c}]
    /\ UNCHANGED <<pin, partial, old, written, op, kills, taken, launched, due>>

\* The jobs with an entry are listed, with the age their entries have now.
List(w) ==
    /\ poll[w].pc = "restore"
    /\ poll[w].todo = {}
    /\ poll' = [poll EXCEPT ![w] =
                  Scanning({<<file[j], j>> : j \in {i \in Jobs : file[i] # 0}})]
    /\ UNCHANGED <<dirVars, op, kills, taken, launched, due>>

Oldest(todo) == CHOOSE c \in todo : \A d \in todo : c[1] <= d[1]

\* os.replace(path, claim_path); a file that is gone is passed over.
Rename(w) ==
    LET c == Oldest(poll[w].todo)
        j == c[2]
    IN
    /\ poll[w].pc = "scan"
    /\ poll[w].todo # {}
    /\ \/ /\ file[j] # 0
          /\ claim' = [claim EXCEPT ![j][w] = file[j]]
          /\ file' = [file EXCEPT ![j] = 0]
          /\ poll' = [poll EXCEPT ![w] = [poll[w] EXCEPT !.pc = "claimed", !.job = j,
                                                        !.todo = @ \ {c}]]
       \/ /\ file[j] = 0
          /\ poll' = [poll EXCEPT ![w].todo = @ \ {c}]
          /\ UNCHANGED <<file, claim>>
    /\ UNCHANGED <<pin, partial, old, written, op, kills, taken, launched, due>>

\* The claim may have been removed or restored by others, or not be complete.
Read(w) ==
    LET n == claim[poll[w].job][w] IN
    /\ poll[w].pc = "claimed"
    /\ poll' = [poll EXCEPT ![w] =
           IF n = 0 THEN Scanning(@.todo)
           ELSE [@ EXCEPT !.entry = n,
                          !.pc = IF n \notin partial /\ pin[n] \in {None, w}
                                 THEN "accepted" ELSE "refused"]]
    /\ UNCHANGED <<dirVars, op, kills, taken, launched, due>>

Refuse(w) ==
    LET j == poll[w].job IN
    /\ poll[w].pc = "refused"
    /\ \/ claim[j][w] # 0 /\ MovedBack(j, w)
       \/ claim[j][w] = 0 /\ UNCHANGED <<file, claim>>
    /\ poll' = [poll EXCEPT ![w] = Scanning(@.todo)]
    /\ UNCHANGED <<pin, partial, old, written, op, kills, taken, launched, due>>

\* Mutant: that the claim is still there is not looked at.
KeepsAlways(w) == TRUE

\* os.remove(claim_path) finds the claim.
Keeps(w) == claim[poll[w].job][w] # 0

\* Removing the claim decides: the entry is handed out, or the poll goes on.
Commit(w) ==
    /\ poll[w].pc = "accepted"
    /\ claim' = [claim EXCEPT ![poll[w].job][w] = 0]
    /\ \/ /\ Keeps(w)
          /\ taken' = taken \cup {poll[w].entry}
          /\ poll' = [poll EXCEPT ![w].pc = "taken"]
       \/ /\ ~Keeps(w)
          /\ poll' = [poll EXCEPT ![w] = Scanning(@.todo)]
          /\ UNCHANGED taken
    /\ UNCHANGED <<file, pin, partial, old, written, op, kills, launched, due>>

\* With the entry, the poll waits for the state lock of the job and dispatches it.
Dispatch(w) ==
    LET j == poll[w].job IN
    /\ poll[w].pc = "taken"
    /\ op[<<j, "locked">>].pc = "idle"
    /\ due' = due \ {j}
    /\ poll' = [poll EXCEPT ![w] = Idle]
    /\ UNCHANGED <<dirVars, op, kills, taken, launched>>

PollEnd(w) ==
    /\ poll[w].pc = "scan"
    /\ poll[w].todo = {}
    /\ poll' = [poll EXCEPT ![w] = Idle]
    /\ UNCHANGED <<dirVars, op, kills, taken, launched, due>>

PollStep(w) ==
    \/ PollBegin(w) \/ RestoreClaim(w) \/ List(w) \/ Rename(w) \/ Read(w)
    \/ Refuse(w) \/ Commit(w) \/ Dispatch(w) \/ PollEnd(w)

-----------------------------------------------------------------------------
\* An entry gets older than the TTL, and so is what was written before it.
Age(n) ==
    /\ n \in Live \ old
    /\ old' = 1 .. n
    /\ UNCHANGED <<file, claim, pin, partial, written, poll, op, kills, taken, launched, due>>

\* w has the entry of j and did not dispatch the job yet.
HandedOut(w, j) == poll[w].pc = "taken" /\ poll[w].job = j

\* A poll has taken the entry of j, or an operation is past looking for it.
InHand(j) ==
    \/ \E w \in Workers : HandedOut(w, j)
    \/ \E l \in Lanes : op[<<j, l>>].pc \notin {"idle", "unlink"}

\* The server is killed: polls and operations stop where they are.
Kill ==
    /\ kills < MaxKills
    /\ kills' = kills + 1
    /\ poll' = [w \in Workers |-> Idle]
    /\ op' = [t \in Tasks |-> NoOp]
    /\ UNCHANGED <<dirVars, taken, launched, due>>

Init ==
    /\ file = [j \in Jobs |-> 0]
    /\ claim = [j \in Jobs |-> [w \in Workers |-> 0]]
    /\ pin = [n \in 1 .. MaxEntries |-> None]
    /\ partial = {}
    /\ old = {}
    /\ poll = [w \in Workers |-> Idle]
    /\ op = [t \in Tasks |-> NoOp]
    /\ written = 0
    /\ kills = 0
    /\ taken = {}
    /\ launched = {}
    /\ due = {}

Next ==
    \/ \E t \in Tasks : \/ \E kind \in Kinds(t) : Begin(t, kind)
                        \/ \E forced \in BOOLEAN : Purge(t, forced)
                        \/ OpStep(t)
    \/ \E w \in Workers : PollStep(w)
    \/ \E n \in Live : Age(n)
    \/ Kill

Spec == Init /\ [][Next]_queueVars

\* Workers poll for ever, a request in progress runs to its end, time passes.
Fairness ==
    /\ \A w \in Workers : WF_queueVars(PollStep(w))
    /\ \A t \in Tasks : WF_queueVars(OpStep(t))
    /\ WF_queueVars(\E n \in Live : Age(n))

FairSpec == Spec /\ Fairness

-----------------------------------------------------------------------------
(* Correctness. *)

\* The names a file may have: that of the entry, or that of a claim.
Places == Jobs \X (Workers \cup {None})
At(p) == IF p[2] = None THEN file[p[1]] ELSE claim[p[1]][p[2]]

\* The directory and those who work on it are of the shapes described above, and an
\* entry is in one file only.
QueueTypeOK ==
    /\ file \in [Jobs -> 0 .. written]
    /\ claim \in [Jobs -> [Workers -> 0 .. written]]
    /\ \A n \in Live : Cardinality({p \in Places : At(p) = n}) = 1
    /\ pin \in [1 .. MaxEntries -> Pins \cup {None}]
    /\ partial \cup old \cup taken \subseteq Entries
    /\ launched \cup due \subseteq Jobs
    /\ written \in 0 .. MaxEntries
    /\ \A w \in Workers : /\ poll[w].pc \in {"idle", "restore", "scan", "claimed",
                                             "accepted", "refused", "taken"}
                          /\ poll[w].job \in Jobs \cup {None}
                          /\ poll[w].entry \in 0 .. written
    /\ \A t \in Tasks :
         op[t].pc \in {"idle", "unlink", "list", "claims", "open", "write"}

\* The entry of the job is in a file, or somebody has it in hand.
Present(j) == Held(j) # {0} \/ InHand(j)

\* A job whose entry was written and not removed has it still: not so, a kill loses what
\* a poll has taken and not dispatched, and what a requeue has removed and not written.
NothingLost == \A j \in due : Present(j)

\* Whatever polls rename, restore, refuse and remove at the same time, and whatever
\* operations add and remove with the lock or without: only a kill loses the entry of
\* a job, and only one that was in hand.
OnlyKillsLose ==
    [][\A j \in due' : (j \in due => Present(j)) /\ ~Present(j)' =>
           kills' # kills /\ InHand(j)]_queueVars

\* No entry is left that cannot be read: not so, a kill may come before the file
\* is complete (enqueue_job opens it under its final name).
NothingTorn == Torn \cap Live = {}

\* The entry a poll takes is the newest of its job: not so, a poll that refused an
\* older one may put it back over, or beside, one written since.
NewestIsTaken ==
    [][\A w \in Workers, j \in Jobs : HandedOut(w, j)' /\ ~HandedOut(w, j) =>
           \A m \in Held(j) : m <= poll'[w].entry]_queueVars

\* An entry that polls may have and no kill loses or tears is handed out or removed in
\* the end, also one whose claim was left behind by a poll that died, if the polls of
\* different workers do not get in each other's way for ever.
Alone == Cardinality({w \in Workers : poll[w].pc # "idle"}) <= 1

EntriesAreTaken ==
    <>[]Alone => \A j \in Jobs : (j \in due /\ Present(j))
                                     ~> (j \notin due \/ ~Present(j) \/ Torn # {})

-----------------------------------------------------------------------------
(* FileQueue implements EntryQueue: an entry is in the queue while it is in  *)
(* a file of any name.                                                      *)

Queue == INSTANCE EntryQueue WITH live <- Live, taken <- taken

\* No entry is handed out twice, or after it was removed or replaced (refinement).
ImplementsEntryQueue == Queue!EntrySpec
=============================================================================
