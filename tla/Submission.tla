----------------------------- MODULE Submission -----------------------------
(***************************************************************************)
(* Submissions that carry an idempotency key (launch_simulation and        *)
(* app/utils/submission_store.py).  A request holds the lock of its key    *)
(* from the first read of the submission record to the last write of it,   *)
(* so requests with the same key never overlap; everything else, and the   *)
(* death of the server, may come between its steps.                        *)
(*                                                                         *)
(* The registry is a parameter here: which jobs are known, and which of    *)
(* them are still launching.                                               *)
(***************************************************************************)
EXTENDS JobStatus, JobIds, Naturals

CONSTANTS
    Keys,     \* submission identities
    Params    \* request fingerprints

ASSUME AbsentIsNoJob == Absent \notin Jobs /\ Absent \notin Params

VARIABLES
    records,  \* the stored submissions: fingerprint, job, and whether answered
    submit,   \* where the request that holds the lock of a key is
    launched, \* history: the jobs each key has launched
    launches  \* history: how often a launch for a key has completed

submissionVars == <<records, submit, launched, launches>>

NoSubmission == [params |-> Absent, job |-> Absent, answered |-> FALSE]

SubmissionInit ==
    /\ records = [k \in Keys |-> NoSubmission]
    /\ submit = [k \in Keys |-> "idle"]
    /\ launched = [k \in Keys |-> {}]
    /\ launches = [k \in Keys |-> 0]

Drawn == {records[k].job : k \in Keys} \cup UNION {launched[k] : k \in Keys}

New(params) == {[params |-> params, job |-> job, answered |-> FALSE] : job \in Jobs \ Drawn}

\* Mutant: a request that was never answered starts over with a new identifier.
IntentUntilAnswered(k, params) ==
    IF ~records[k].answered THEN New(params) ELSE {records[k]}

\* The record a request goes on with: the stored one, or a new one.
Intent(k, params) == IF records[k] = NoSubmission THEN New(params) ELSE {records[k]}

\* The intent is stored before the launch; other parameters are refused.
Record(k, params) ==
    /\ submit[k] = "idle"
    /\ records[k] = NoSubmission \/ records[k].params = params
    /\ \E record \in Intent(k, params) : records' = [records EXCEPT ![k] = record]
    /\ submit' = [submit EXCEPT ![k] = "recorded"]
    /\ UNCHANGED <<launched, launches>>

\* Mutant: a job that is not known is launched, answered or not.
NeverGone(k, known) == FALSE

\* "The original job was deleted": the request is refused.
Gone(k, known) == records[k].answered /\ records[k].job \notin known

RefuseDeleted(k, known) ==
    /\ submit[k] = "recorded"
    /\ Gone(k, known)
    /\ submit' = [submit EXCEPT ![k] = "idle"]
    /\ UNCHANGED <<records, launched, launches>>

\* A job that is known and no longer launching only needs an answer.
FindLaunched(k, known, launching) ==
    /\ submit[k] = "recorded"
    /\ records[k].job \in known \ launching
    /\ submit' = [submit EXCEPT ![k] = "launched"]
    /\ UNCHANGED <<records, launched, launches>>

MayLaunch(k, known, launching) ==
    /\ submit[k] = "recorded"
    /\ ~Gone(k, known)
    /\ records[k].job \notin known \ launching

\* The launch itself: the caller puts the job into the registry and the queue.
LaunchFor(k, known, launching) ==
    /\ MayLaunch(k, known, launching)
    /\ submit' = [submit EXCEPT ![k] = "launched"]
    /\ launched' = [launched EXCEPT ![k] = @ \cup {records[k].job}]
    /\ launches' = [launches EXCEPT ![k] = @ + 1]
    /\ UNCHANGED records

\* The answer is stored with the record and returned.
Answer(k) ==
    /\ submit[k] = "launched"
    /\ records' = [records EXCEPT ![k].answered = TRUE]
    /\ submit' = [submit EXCEPT ![k] = "idle"]
    /\ UNCHANGED <<launched, launches>>

\* The launch raised, or the server died: the request ends without an answer.
\* Whether the launch had begun to store the job is up to the caller.
Abandon(ended, begun) ==
    /\ submit' = [k \in Keys |-> IF k \in ended THEN "idle" ELSE submit[k]]
    /\ launched' = [k \in Keys |-> IF k \in begun THEN launched[k] \cup {records[k].job}
                                   ELSE launched[k]]
    /\ UNCHANGED <<records, launches>>

-----------------------------------------------------------------------------
(* Correctness. *)

\* Submissions keep their shapes.
SubmissionTypeOK ==
    /\ records \in [Keys -> [params : Params \cup {Absent}, job : Jobs \cup {Absent},
                             answered : BOOLEAN]]
    /\ submit \in [Keys -> {"idle", "recorded", "launched"}]
    /\ launched \in [Keys -> SUBSET Jobs]
    /\ launches \in [Keys -> Nat]

\* However often a client retries a key, and wherever the server dies, the key
\* never launches two different jobs.
OneJobPerKey == \A k \in Keys : \A i, j \in launched[k] : i = j
=============================================================================
