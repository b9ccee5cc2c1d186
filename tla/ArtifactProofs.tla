---------------------------- MODULE ArtifactProofs ----------------------------
(***************************************************************************)
(* ArtifactIsolation, for any artifacts and any number of attempts and of  *)
(* failures: nothing of the job's own is lost, none of it is in the way of *)
(* a preparation that is repeated, and the paths of the job show the       *)
(* isolated attempt that was handed out last.                              *)
(***************************************************************************)
EXTENDS ArtifactIsolation, TLAPS

Preparation == [pc : {"idle", "copy", "link"}, attempt : Nat, todo : SUBSET Artifacts]

ArtifactShapes ==
    /\ view \in [Artifacts -> Int]
    /\ prep \in Preparation
    /\ attempt \in Nat
    /\ isolated \in BOOLEAN
    /\ own \subseteq Artifacts /\ saved \subseteq Artifacts

\* Only the first dispatch begins to isolate.  Until it is done nobody writes, and
\* afterwards every path is a link: that is why no path that was moved aside comes back.
Negotiated ==
    /\ prep.pc # "idle" => prep.attempt = attempt + 1 /\ (attempt = 0 \/ isolated)
    /\ attempt = 0 => handed = {}
    /\ isolated => \A a \in Artifacts : view[a] > 0
    /\ attempt = 0 => \A a \in saved : view[a] # Own

\* What is done already of a preparation is not undone, and what was complete before
\* is replaced by links only.
Progress ==
    /\ prep.pc = "copy" => prep.todo = Artifacts
    /\ prep.pc = "link" => \A a \in Artifacts \ prep.todo : view[a] = prep.attempt
    /\ complete # 0 => isolated
    /\ complete # 0 => \A a \in Artifacts :
          view[a] = complete \/ (prep.pc = "link" /\ a \notin prep.todo)

ArtifactInv == ArtifactShapes /\ NothingErased /\ Negotiated /\ Progress

LEMMA ArtifactStart == Init => ArtifactInv
<1> SUFFICES ASSUME Init PROVE ArtifactInv
  OBVIOUS
<1>1. /\ view = [a \in Artifacts |-> IF a \in own THEN 0 ELSE -1]
      /\ own \subseteq Artifacts /\ saved = {} /\ prep = NotPreparing /\ prep.pc = "idle"
      /\ attempt = 0 /\ isolated = FALSE /\ handed = {} /\ complete = 0
  BY ArtifactConstants DEF Init, Own, Missing, NotPreparing
<1>2. NotPreparing \in Preparation
  BY DEF NotPreparing, Preparation
<1>3. ArtifactShapes
  <2>1. view \in [Artifacts -> Int]
    BY <1>1
  <2> QED
    BY <1>1, <1>2, <2>1 DEF ArtifactShapes
<1>4. NothingErased
  BY <1>1 DEF NothingErased, Own
<1> QED
  BY <1>1, <1>3, <1>4 DEF ArtifactInv, Negotiated, Progress

\* What a preparation does between its begin and its end.
LEMMA Preparing ==
    ASSUME ArtifactInv, NEW a \in Artifacts, Move(a) \/ Link(a)
    PROVE  ArtifactInv'
<1>1. /\ ArtifactShapes /\ NothingErased /\ Negotiated /\ Progress /\ prep.pc = "link"
      /\ a \in prep.todo /\ UNCHANGED <<attempt, isolated, handed, own, complete>>
  BY DEF ArtifactInv, Move, Link, recordVars
<1>2. CASE Move(a)
  <2>1. /\ view' \in [Artifacts -> Int] /\ view'[a] = -1 /\ view[a] = 0
        /\ \A b \in Artifacts \ {a} : view'[b] = view[b]
        /\ saved' = saved \cup {a} /\ prep' = prep
    BY <1>1, <1>2 DEF Move, ArtifactShapes, Missing, Own
  <2>2. ~isolated /\ complete = 0
    BY <1>1, <2>1 DEF Negotiated, Progress, ArtifactShapes
  <2>3. ArtifactShapes'
    BY <1>1, <2>1 DEF ArtifactShapes
  <2>4. NothingErased'
    BY <1>1, <2>1 DEF NothingErased, ArtifactShapes
  <2>5. Negotiated'
    <3>1. \A b \in saved' : b # a => b \in saved /\ b \in Artifacts /\ view'[b] = view[b]
      BY <1>1, <2>1 DEF ArtifactShapes
    <3>2. attempt = 0 => \A b \in saved' : view'[b] # 0
      BY <1>1, <2>1, <3>1 DEF Negotiated, Own
    <3> QED
      BY <1>1, <2>1, <2>2, <3>2 DEF Negotiated, Own
  <2>6. Progress'
    BY <1>1, <2>1, <2>2 DEF Progress
  <2> QED
    BY <2>3, <2>4, <2>5, <2>6 DEF ArtifactInv
<1>3. CASE Link(a)
  <2>1. /\ view[a] # Own /\ saved' = saved
        /\ view' = [view EXCEPT ![a] = prep.attempt] /\ prep' = [prep EXCEPT !.todo = @ \ {a}]
    BY <1>3 DEF Link, Free, Linked
  <2>2. prep.attempt \in Nat /\ prep.attempt > 0
    BY <1>1 DEF ArtifactShapes, Preparation, Negotiated
  <2>3. /\ view' \in [Artifacts -> Int] /\ view'[a] = prep.attempt
        /\ \A b \in Artifacts \ {a} : view'[b] = view[b]
    BY <1>1, <2>1, <2>2 DEF ArtifactShapes
  <2>4. /\ prep' \in Preparation /\ prep'.todo = prep.todo \ {a}
        /\ prep'.attempt = prep.attempt /\ prep'.pc = prep.pc
    BY <1>1, <2>1 DEF ArtifactShapes, Preparation
  <2>5. ArtifactShapes'
    BY <1>1, <2>1, <2>3, <2>4 DEF ArtifactShapes
  <2>6. NothingErased'
    <3>1. \A b \in own : b = a \/ view'[b] = view[b]
      BY <1>1, <2>3 DEF ArtifactShapes
    <3>2. \A b \in own : view'[b] = 0 \/ b \in saved
      BY <1>1, <2>1, <3>1 DEF NothingErased, Own
    <3> QED
      BY <1>1, <2>1, <3>2 DEF NothingErased, Own
  <2>7. Negotiated'
    <3>1. attempt = 0 => \A b \in saved : view'[b] # 0
      BY <1>1, <2>2, <2>3 DEF Negotiated, Own, ArtifactShapes
    <3>2. isolated => \A b \in Artifacts : view'[b] > 0
      BY <1>1, <2>2, <2>3 DEF Negotiated
    <3> QED
      BY <1>1, <2>1, <2>4, <3>1, <3>2 DEF Negotiated, Own
  <2>8. Progress'
    BY <1>1, <2>3, <2>4 DEF Progress
  <2> QED
    BY <2>5, <2>6, <2>7, <2>8 DEF ArtifactInv
<1> QED
  BY <1>2, <1>3

LEMMA Dispatching ==
    ASSUME ArtifactInv, Copy \/ Finish \/ Fail \/ Raise \/ \E i \in Pollers : DispatchPlain(i) \/ Begin(i)
    PROVE  ArtifactInv'
<1>1. /\ ArtifactShapes /\ NothingErased /\ Negotiated /\ Progress
      /\ UNCHANGED <<view, saved, own>>
  BY DEF ArtifactInv, Copy, Finish, Fail, Raise, GiveUp, DispatchPlain, Begin
<1>2. NotPreparing \in Preparation /\ NotPreparing.pc = "idle"
  BY DEF NotPreparing, Preparation
<1>3. NothingErased'
  BY <1>1 DEF NothingErased
<1>4. CASE Copy
  <2>1. /\ prep' \in Preparation /\ prep.pc = "copy" /\ prep'.pc = "link"
        /\ prep'.attempt = prep.attempt /\ prep'.todo = prep.todo
        /\ UNCHANGED <<attempt, isolated, handed, complete>>
    BY <1>1, <1>4 DEF Copy, recordVars, ArtifactShapes, Preparation
  <2> QED
    BY <1>1, <1>3, <2>1 DEF ArtifactInv, ArtifactShapes, Negotiated, Progress
<1>5. CASE Finish
  <2>1. /\ prep.pc = "link" /\ prep.todo = {} /\ prep' = NotPreparing
        /\ attempt' = prep.attempt /\ isolated' = TRUE /\ complete' = prep.attempt
    BY <1>5 DEF Finish, HandOut
  <2>2. prep.attempt \in Nat /\ prep.attempt > 0
    BY <1>1, <2>1 DEF ArtifactShapes, Preparation, Negotiated
  <2>3. \A a \in Artifacts : view[a] = prep.attempt
    BY <1>1, <2>1 DEF Progress
  <2>4. ArtifactShapes'
    BY <1>1, <1>2, <2>1, <2>2 DEF ArtifactShapes
  <2>5. Negotiated' /\ Progress'
    BY <1>1, <1>2, <2>1, <2>2, <2>3 DEF Negotiated, Progress
  <2> QED
    BY <1>3, <2>4, <2>5 DEF ArtifactInv
<1>6. CASE Fail \/ Raise
  <2>1. prep' = NotPreparing /\ complete' = 0 /\ UNCHANGED <<attempt, isolated, handed>>
    BY <1>6 DEF Fail, Raise, GiveUp
  <2> QED
    BY <1>1, <1>2, <1>3, <2>1 DEF ArtifactInv, ArtifactShapes, Negotiated, Progress
<1>7. ASSUME NEW i \in Pollers, DispatchPlain(i) PROVE ArtifactInv'
  <2>1. attempt' = attempt + 1 /\ prep.pc = "idle" /\ UNCHANGED <<prep, isolated, complete>>
    BY <1>7 DEF DispatchPlain, HandOut
  <2>2. attempt' \in Nat /\ attempt' # 0
    BY <1>1, <2>1 DEF ArtifactShapes
  <2> QED
    BY <1>1, <1>3, <2>1, <2>2 DEF ArtifactInv, ArtifactShapes, Negotiated, Progress
<1>8. ASSUME NEW i \in Pollers, Begin(i) PROVE ArtifactInv'
  <2>1. /\ prep' = [pc |-> "copy", attempt |-> attempt + 1, todo |-> Artifacts]
        /\ attempt = 0 \/ isolated
        /\ prep.pc = "idle" /\ UNCHANGED <<attempt, isolated, handed, complete>>
    BY <1>8 DEF Begin, Isolates, recordVars
  <2>2. /\ prep' \in Preparation /\ prep'.pc = "copy" /\ prep'.attempt = attempt + 1
        /\ prep'.todo = Artifacts
    BY <1>1, <2>1 DEF ArtifactShapes, Preparation
  <2> QED
    BY <1>1, <1>3, <2>1, <2>2 DEF ArtifactInv, ArtifactShapes, Negotiated, Progress
<1> QED
  BY <1>4, <1>5, <1>6, <1>7, <1>8

\* An attempt that is not isolated writes what was not there, and only when no attempt
\* was ever isolated: the links are not its to replace.
LEMMA Writing ==
    ASSUME ArtifactInv, NEW h \in handed, NEW a \in Artifacts, Write(h, a)
    PROVE  ArtifactInv'
<1>1. /\ ArtifactShapes /\ NothingErased /\ Negotiated /\ Progress
      /\ UNCHANGED <<saved, prep, attempt, isolated, handed, complete>>
  BY DEF ArtifactInv, Write, recordVars
<1>2. CASE UNCHANGED <<view, own>>
  BY <1>1, <1>2 DEF ArtifactInv, ArtifactShapes, NothingErased, Negotiated, Progress
<1>3. CASE view[a] = Missing /\ view' = [view EXCEPT ![a] = Own] /\ own' = own \cup {a}
  <2>1. /\ view' \in [Artifacts -> Int] /\ view'[a] = 0 /\ view[a] = -1
        /\ \A b \in Artifacts \ {a} : view'[b] = view[b]
    BY <1>1, <1>3 DEF ArtifactShapes, Missing, Own
  <2>2. ~isolated /\ complete = 0 /\ attempt # 0 /\ prep.pc = "idle"
    BY <1>1, <2>1 DEF Negotiated, Progress, ArtifactShapes
  <2>3. ArtifactShapes'
    BY <1>1, <1>3, <2>1 DEF ArtifactShapes
  <2>4. NothingErased'
    BY <1>1, <1>3, <2>1 DEF NothingErased, ArtifactShapes, Own
  <2>5. Negotiated' /\ Progress'
    BY <1>1, <2>1, <2>2 DEF Negotiated, Progress
  <2> QED
    BY <2>3, <2>4, <2>5 DEF ArtifactInv
<1> QED
  BY <1>2, <1>3 DEF Write

LEMMA ArtifactStep == ArtifactInv /\ [Next]_vars => ArtifactInv'
<1> SUFFICES ASSUME ArtifactInv, [Next]_vars PROVE ArtifactInv'
  OBVIOUS
<1>1. CASE UNCHANGED <<view, saved, prep, attempt, isolated, handed, own, complete>>
  BY <1>1 DEF ArtifactInv, ArtifactShapes, NothingErased, Negotiated, Progress
<1>2. ASSUME NEW i \in Pollers, Claim(i) \/ Skip(i) PROVE ArtifactInv'
  BY <1>1, <1>2 DEF Claim, Skip, recordVars
<1>3. CASE Requeue
  BY <1>1, <1>3 DEF Requeue
<1>4. CASE UNCHANGED vars
  BY <1>1, <1>4 DEF vars, recordVars
<1>5. ASSUME NEW a \in Artifacts, Move(a) \/ Link(a) PROVE ArtifactInv'
  BY <1>5, Preparing
<1>6. ASSUME NEW a \in Artifacts, NEW h \in handed, Write(h, a) PROVE ArtifactInv'
  BY <1>6, Writing
<1>7. ASSUME Copy \/ Finish \/ Fail \/ Raise \/ \E i \in Pollers : DispatchPlain(i) \/ Begin(i)
      PROVE  ArtifactInv'
  BY <1>7, Dispatching
<1> QED
  BY <1>2, <1>3, <1>4, <1>5, <1>6, <1>7 DEF Next

LEMMA ArtifactAlways == Spec => []ArtifactInv
BY ArtifactStart, ArtifactStep, PTL DEF Spec

\* Whatever the job had of its own is in its place or kept aside, wherever
\* prepare_attempt_artifacts stops and whoever writes meanwhile (attempt_artifacts.py).
THEOREM Preserved == Spec => []NothingErased
<1>1. ArtifactInv => NothingErased
  BY DEF ArtifactInv
<1> QED
  BY <1>1, ArtifactAlways, PTL

\* No path that was moved aside holds something of the job's own again while a
\* preparation links, however many were interrupted before it: "Unexpected existing
\* artifact" is never raised for it (attempt_artifacts.py).
THEOREM NeverInTheWay == Spec => []NothingInTheWay
<1>1. ArtifactInv => NothingInTheWay
  <2> SUFFICES ASSUME ArtifactInv, prep.pc = "link", NEW a \in prep.todo \cap saved
               PROVE  view[a] # Own
    BY DEF NothingInTheWay
  <2>1. a \in Artifacts
    BY DEF ArtifactInv, ArtifactShapes, Preparation
  <2>2. CASE isolated
    BY <2>1, <2>2 DEF ArtifactInv, Negotiated, Own
  <2>3. CASE ~isolated
    BY <2>3 DEF ArtifactInv, Negotiated
  <2> QED
    BY <2>2, <2>3
<1> QED
  BY <1>1, ArtifactAlways, PTL

\* After an isolated attempt was handed out, every path of the job shows it, or the one
\* that is being prepared; attempts that are not isolated and that were claimed before
\* write through the links and do not replace them (os.replace in attempt_artifacts.py).
THEOREM ShowsCurrent == Spec => []ViewIsCurrent
<1>1. ArtifactInv => ViewIsCurrent
  BY DEF ArtifactInv, Progress, ViewIsCurrent
<1> QED
  BY <1>1, ArtifactAlways, PTL
=============================================================================
