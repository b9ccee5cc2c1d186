--------------------------- MODULE AttemptFencing ---------------------------
(***************************************************************************)
(* What attempt fencing promises, without queue, statuses or time: a job   *)
(* has at most one live token; a token is granted once, never comes back   *)
(* after it was revoked, and only the live token authors the state of its  *)
(* job.  JobLifecycle implements this specification.                       *)
(***************************************************************************)
EXTENDS Naturals

CONSTANT Jobs

VARIABLES
    token,    \* the live token of each job, 0 when there is none
    last,     \* tokens up to this one have been used
    author    \* the token whose holder wrote the job's state, 0 for the orchestrator

fencingVars == <<token, last, author>>

FencingInit ==
    /\ token = [j \in Jobs |-> 0]
    /\ last = 0
    /\ author = [j \in Jobs |-> 0]

\* A dispatch uses up a number; the attempt is fenced by it, or carries no token.
Grant(j) ==
    /\ last' = last + 1
    /\ token' \in {token, [token EXCEPT ![j] = last + 1]}
    /\ author' = [author EXCEPT ![j] = 0]

\* The job returns to the queue: no token is live.
Withdraw(j) ==
    /\ token' = [token EXCEPT ![j] = 0]
    /\ author' = [author EXCEPT ![j] = 0]
    /\ UNCHANGED last

\* The holder of the live token writes the state of the job.
Publish(j) ==
    /\ author' = [author EXCEPT ![j] = token[j]]
    /\ UNCHANGED <<token, last>>

\* The orchestrator writes the state of the job; the token stays live.
Override(j) ==
    /\ author' = [author EXCEPT ![j] = 0]
    /\ UNCHANGED <<token, last>>

FencingNext ==
    \E j \in Jobs : Grant(j) \/ Withdraw(j) \/ Publish(j) \/ Override(j)

FencingSpec == FencingInit /\ [][FencingNext]_fencingVars

\* The state of a job comes from its live token or from the orchestrator.
AuthorIsLive == \A j \in Jobs : author[j] \in {0, token[j]}

\* A token that is not live any more never becomes live again: whatever becomes
\* live was never used before.
TokensAreNotRevived ==
    [][\A j \in Jobs : token'[j] \in {0, token[j]} \/ token'[j] > last]_fencingVars
=============================================================================
