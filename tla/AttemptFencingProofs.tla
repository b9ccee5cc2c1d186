------------------------ MODULE AttemptFencingProofs ------------------------
(***************************************************************************)
(* What the fencing protocol guarantees, for any set of jobs.              *)
(***************************************************************************)
EXTENDS AttemptFencing, TLAPS

\* The shapes the two theorems need, with the first of them.
FencingInv ==
    /\ token \in [Jobs -> Nat]
    /\ last \in Nat
    /\ author \in [Jobs -> Nat]
    /\ AuthorIsLive

LEMMA FencingInvInit == FencingInit => FencingInv
BY DEF FencingInit, FencingInv, AuthorIsLive

LEMMA FencingInvStep == FencingInv /\ [FencingNext]_fencingVars => FencingInv'
<1> SUFFICES ASSUME FencingInv, [FencingNext]_fencingVars PROVE FencingInv'
  OBVIOUS
<1> USE DEF FencingInv, AuthorIsLive
<1>1. ASSUME NEW j \in Jobs, Grant(j) PROVE FencingInv'
  <2>1. [token EXCEPT ![j] = last + 1] \in [Jobs -> Nat]
    OBVIOUS
  <2> QED
    BY <1>1, <2>1 DEF Grant
<1>2. ASSUME NEW j \in Jobs, Withdraw(j) PROVE FencingInv'
  BY <1>2 DEF Withdraw
<1>3. ASSUME NEW j \in Jobs, Publish(j) PROVE FencingInv'
  BY <1>3 DEF Publish
<1>4. ASSUME NEW j \in Jobs, Override(j) PROVE FencingInv'
  BY <1>4 DEF Override
<1>5. CASE UNCHANGED fencingVars
  BY <1>5 DEF fencingVars
<1> QED
  BY <1>1, <1>2, <1>3, <1>4, <1>5 DEF FencingNext

LEMMA FencingInvAlways == FencingSpec => []FencingInv
BY FencingInvInit, FencingInvStep, PTL DEF FencingSpec

\* The state of a job was written by the orchestrator or by the holder of the
\* token that is live now: an attempt that lost its token left nothing behind.
THEOREM LiveAuthors == FencingSpec => []AuthorIsLive
<1>1. FencingInv => AuthorIsLive
  BY DEF FencingInv
<1> QED
  BY <1>1, FencingInvAlways, PTL

\* A token that was revoked or replaced is never live again.
THEOREM NoRevival == FencingSpec => TokensAreNotRevived
<1>1. FencingInv /\ [FencingNext]_fencingVars
         => [\A j \in Jobs : token'[j] \in {0, token[j]} \/ token'[j] > last]_fencingVars
  <2> SUFFICES ASSUME FencingInv, FencingNext,
                      NEW j \in Jobs
               PROVE  token'[j] \in {0, token[j]} \/ token'[j] > last
    BY DEF fencingVars
  <2> PICK k \in Jobs : Grant(k) \/ Withdraw(k) \/ Publish(k) \/ Override(k)
    BY DEF FencingNext
  <2>1. CASE Grant(k)
    BY <2>1 DEF Grant, FencingInv
  <2>2. CASE Withdraw(k) \/ Publish(k) \/ Override(k)
    BY <2>2 DEF Withdraw, Publish, Override, FencingInv
  <2> QED
    BY <2>1, <2>2
<1> QED
  BY <1>1, FencingInvAlways, PTL DEF FencingSpec, TokensAreNotRevived
=============================================================================
