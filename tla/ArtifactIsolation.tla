-------------------------- MODULE ArtifactIsolation --------------------------
(***************************************************************************)
(* The artifacts of one job: every isolated attempt writes in a directory  *)
(* of its own, and the paths of the job are links to the directory of the  *)
(* current attempt (app/utils/attempt_artifacts.py and its call in         *)
(* _dispatch_claimed_job).                                                 *)
(*                                                                         *)
(* prepare moves what the job has of its own aside and links one path      *)
(* after the other, so each is an action; it holds the state lock of the   *)
(* job.  Attempts write at any time, also when they were superseded.       *)
(* A preparation that was cut short may leave a part of the submitted      *)
(* configuration: a part that does not parse fails every later one.        *)
(***************************************************************************)
EXTENDS Integers

CONSTANTS
    Artifacts,     \* DIRECTORIES and FILES, the linked paths
    Scaffolding,   \* the ones a launch leaves: log directory, configuration, info
    Pollers,       \* whether the workers that poll negotiate isolation
    MaxAttempts,   \* bound: dispatches
    MaxFailures    \* bound: how often a preparation is cut short

ASSUME ArtifactConstants ==
    /\ Scaffolding \subseteq Artifacts
    /\ Pollers \subseteq BOOLEAN
    /\ MaxAttempts \in Nat

VARIABLES
    view,       \* what each path of the job is
    saved,      \* the paths kept in .attempts/before-isolation
    submitted,  \* config.submitted.yaml
    prep,       \* the preparation in progress
    queued,     \* the job says queued
    entry,      \* it has an entry in the queue
    claims,     \* polls that claimed the entry and have not dispatched yet
    attempt,    \* attempt_number of the record
    isolated,   \* artifact_isolation_enabled of the record
    handed,     \* the attempts handed out: number, isolation, configuration
    writers,    \* history: the attempts that wrote in each attempt's directory
    own,        \* history: the paths that ever held something of the job's own
    complete,   \* history: the last isolated attempt handed out, 0 after a failure
    failures

recordVars == <<queued, entry, attempt, isolated, handed>>
vars == <<view, saved, submitted, prep, claims, recordVars, writers, own, complete, failures>>

Missing == -1    \* no such path
Own == 0         \* a file or directory of the job's own; n > 0 links to attempt n

Attempts == 1 .. MaxAttempts

NotPreparing == [pc |-> "idle", attempt |-> 0, todo |-> {}]

-----------------------------------------------------------------------------
\* A job that is isolated is only offered to workers that isolate.
Claim(i) ==
    /\ entry
    /\ isolated => i
    /\ i \notin claims
    /\ claims' = claims \cup {i}
    /\ entry' = FALSE
    /\ UNCHANGED <<view, saved, submitted, prep, queued, attempt, isolated, handed,
                   writers, own, complete, failures>>

\* A requeue or the sweep, while no dispatch holds the lock.
Requeue ==
    /\ prep.pc = "idle"
    /\ attempt < MaxAttempts
    /\ queued' = TRUE
    /\ entry' = TRUE
    /\ UNCHANGED <<view, saved, submitted, prep, claims, attempt, isolated, handed,
                   writers, own, complete, failures>>

Skip(i) ==
    /\ prep.pc = "idle"
    /\ i \in claims
    /\ ~queued
    /\ claims' = claims \ {i}
    /\ UNCHANGED <<view, saved, submitted, prep, recordVars, writers, own, complete, failures>>

\* Mutant: any attempt may be the first isolated one.
IsolatesAnyTime(i) == i

\* Isolation is negotiated on the first dispatch.
Isolates(i) == i /\ (attempt = 0 \/ isolated)

\* Attempt n is handed out, with its configuration, in its own directory or not.
HandOut(n, apart, config) ==
    /\ attempt' = n
    /\ handed' = handed \cup {[number |-> n, apart |-> apart, config |-> config]}
    /\ queued' = FALSE
    /\ UNCHANGED entry

\* Dispatch without isolation: the attempt uses the paths of the job.
DispatchPlain(i) ==
    /\ prep.pc = "idle"
    /\ i \in claims
    /\ queued
    /\ ~Isolates(i)
    /\ HandOut(attempt + 1, FALSE, "whole")
    /\ claims' = claims \ {i}
    /\ UNCHANGED <<view, saved, submitted, prep, isolated, writers, own, complete, failures>>

Begin(i) ==
    /\ prep.pc = "idle"
    /\ i \in claims
    /\ queued
    /\ Isolates(i)
    /\ prep' = [pc |-> "copy", attempt |-> attempt + 1, todo |-> Artifacts]
    /\ UNCHANGED <<view, saved, submitted, claims, recordVars, writers, own, complete, failures>>

\* config.submitted.yaml is made once and never again.
KeptConfig == IF submitted = "absent" THEN "whole" ELSE submitted

\* The submitted configuration is kept, then copied for the attempt and parsed.
Copy ==
    /\ prep.pc = "copy"
    /\ submitted # "torn"
    /\ submitted' = KeptConfig
    /\ prep' = [prep EXCEPT !.pc = "link"]
    /\ UNCHANGED <<view, saved, claims, recordVars, writers, own, complete, failures>>

\* Something of the job's own is moved aside.
Move(a) ==
    /\ prep.pc = "link"
    /\ a \in prep.todo \ saved
    /\ view[a] = Own
    /\ view' = [view EXCEPT ![a] = Missing]
    /\ saved' = saved \cup {a}
    /\ UNCHANGED <<submitted, prep, claims, recordVars, writers, own, complete, failures>>

\* Mutant: a path that is a link already is left alone.
Unlinked(a) == IF view[a] > 0 THEN view[a] ELSE prep.attempt

\* The link of a path, replaced in one step (os.replace).
Linked(a) == prep.attempt

\* Mutant: whatever is in the way is replaced.
Replaces(a) == TRUE

\* Nothing of the job's own is in the way.
Free(a) == view[a] # Own

Link(a) ==
    /\ prep.pc = "link"
    /\ a \in prep.todo
    /\ Free(a)
    /\ view' = [view EXCEPT ![a] = Linked(a)]
    /\ prep' = [prep EXCEPT !.todo = @ \ {a}]
    /\ UNCHANGED <<saved, submitted, claims, recordVars, writers, own, complete, failures>>

\* All paths are linked: the attempt is handed out.
Finish ==
    /\ prep.pc = "link"
    /\ prep.todo = {}
    /\ HandOut(prep.attempt, TRUE, submitted)
    /\ isolated' = TRUE
    /\ claims' = claims \ {TRUE}
    /\ complete' = prep.attempt
    /\ prep' = NotPreparing
    /\ UNCHANGED <<view, saved, submitted, writers, own, failures>>

\* The dispatch ends without an attempt.  With SQL the entry is offered again.
GiveUp ==
    /\ prep' = NotPreparing
    /\ claims' = claims \ {TRUE}
    /\ entry' \in {entry, TRUE}
    /\ complete' = 0
    /\ UNCHANGED <<view, saved, queued, attempt, isolated, handed, writers, own>>

\* The preparation is cut short by an error or by the death of the server; a
\* copy that had begun stays incomplete, and what is there of it may parse or not.
Fail ==
    /\ prep.pc # "idle"
    /\ failures < MaxFailures
    /\ failures' = failures + 1
    /\ submitted' \in IF prep.pc = "copy" /\ submitted = "absent"
                      THEN {"absent", "torn", "partial"} ELSE {submitted}
    /\ GiveUp

\* What is there of the submitted configuration does not parse: the file exists, so it
\* is not made again, and every preparation raises here.
Raise ==
    /\ prep.pc = "copy"
    /\ submitted = "torn"
    /\ GiveUp
    /\ UNCHANGED <<submitted, failures>>

\* An attempt writes: in its own directory, or through a path of the job.
Write(h, a) ==
    /\ \/ /\ h.apart
          /\ writers' = [writers EXCEPT ![h.number] = @ \cup {h.number}]
          /\ UNCHANGED <<view, own>>
       \/ /\ ~h.apart
          /\ view[a] > 0
          /\ writers' = [writers EXCEPT ![view[a]] = @ \cup {h.number}]
          /\ UNCHANGED <<view, own>>
       \/ /\ ~h.apart
          /\ view[a] = Missing
          /\ view' = [view EXCEPT ![a] = Own]
          /\ own' = own \cup {a}
          /\ UNCHANGED writers
    /\ UNCHANGED <<saved, submitted, prep, claims, recordVars, complete, failures>>

-----------------------------------------------------------------------------
\* A job that was launched.
Init ==
    /\ own = Scaffolding
    /\ view = [a \in Artifacts |-> IF a \in own THEN Own ELSE Missing]
    /\ saved = {}
    /\ submitted = "absent"
    /\ prep = NotPreparing
    /\ queued = TRUE
    /\ entry = TRUE
    /\ claims = {}
    /\ attempt = 0
    /\ isolated = FALSE
    /\ handed = {}
    /\ writers = [n \in Attempts |-> {}]
    /\ complete = 0
    /\ failures = 0

Next ==
    \/ \E i \in Pollers : Claim(i) \/ Skip(i) \/ DispatchPlain(i) \/ Begin(i)
    \/ \E a \in Artifacts : Move(a) \/ Link(a) \/ \E h \in handed : Write(h, a)
    \/ Requeue \/ Copy \/ Finish \/ Fail \/ Raise

Spec == Init /\ [][Next]_vars

-----------------------------------------------------------------------------
(* Correctness. *)

\* The paths, the attempts and the preparation keep their shapes.
ArtifactTypeOK ==
    /\ view \in [Artifacts -> Missing .. MaxAttempts]
    /\ saved \subseteq Artifacts
    /\ submitted \in {"absent", "torn", "partial", "whole"}
    /\ prep \in [pc : {"idle", "copy", "link"}, attempt : 0 .. MaxAttempts, todo : SUBSET Artifacts]
    /\ claims \subseteq BOOLEAN
    /\ attempt \in 0 .. MaxAttempts
    /\ handed \subseteq [number : Attempts, apart : BOOLEAN, config : {"partial", "whole"}]

\* "First-dispatch log/config scaffolding is preserved, never erased": what the
\* job had of its own is in its place or kept aside, wherever prepare stops.
NothingErased == \A a \in own : view[a] = Own \/ a \in saved

\* prepare never meets an artifact of the job's own at a path it has moved one from
\* already, whatever wrote between its interruption and its repetition: "Unexpected
\* existing artifact" is not what stops a job.
NothingInTheWay == prep.pc = "link" => \A a \in prep.todo \cap saved : view[a] # Own

\* A preparation can be repeated.  The code does not keep it: what an interrupted copy
\* left of the submitted configuration may not parse, and is never made again.
RetryPossible == prep.pc = "copy" => submitted # "torn"

\* Once an isolated attempt was handed out, every path shows it, or the next
\* one while that is prepared; a mixture only follows an interruption.
ViewIsCurrent ==
    \A a \in Artifacts : complete # 0 =>
        view[a] = complete \/ (prep.pc = "link" /\ a \notin prep.todo /\ view[a] = prep.attempt)

\* "Revoked writers retain only their own attempt's directory" (releases.md):
\* nobody else writes in the directory of an isolated attempt.
OwnDirectoryOnly == \A h \in handed : h.apart => writers[h.number] \subseteq {h.number}

\* "Prior attempts and the submitted config are retained" (releases.md): no
\* attempt is handed out with a part of the submitted configuration.
ConfigIsWhole == \A h \in handed : h.config = "whole"
=============================================================================
