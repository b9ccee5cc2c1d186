--------------------------- MODULE JobTimesProofs ---------------------------
(***************************************************************************)
(* The times of a job and its mails, for every limit and clock (JobTimes). *)
(* A listing may put back a record it has read long before, so everything  *)
(* that is to hold of the record must hold of the listing's copy too.      *)
(***************************************************************************)
EXTENDS JobTimes, SequenceTheorems, WellFoundedInduction, TLAPS

-----------------------------------------------------------------------------
(* The invariants. *)

\* The record m is of the right shape and no time in it is later than t.  Submission
\* is at time 1.
Bounded(m, t) ==
    /\ m \in Record
    /\ Len(m.mails) <= HistoryLimit
    /\ m.submitted <= 1
    /\ m.queued <= t /\ m.dispatched <= t /\ m.started <= t /\ m.computed <= t /\ m.finished <= t

\* It also has an end exactly if its status says so, and then nothing after it.
Sound(m, t) ==
    /\ Bounded(m, t)
    /\ m.finished # NoTime <=> m.status \in Terminal
    /\ m.status \in Terminal => m.started <= m.finished /\ m.computed <= m.finished

\* No mail is from the future, and none that says running is later than r.
Dated(ms, t, r) ==
    \A i \in DOMAIN ms : ms[i].at <= t /\ (ms[i].status = RUNNING => ms[i].at <= r)

\* The first running report of the attempt, if the job runs.
RanBy == IF file.status = RUNNING THEN attempt.ran ELSE now

AttemptRecord ==
    [number : Nat, dispatched : Times, began : Times, ended : Times, ran : Times]

Shapes ==
    /\ now \in 1 .. MaxTime
    /\ file \in [status : Status \ {LAUNCHING}, mails : Seq(Mail)]
    /\ Len(file.mails) <= HistoryLimit
    /\ attempt \in AttemptRecord
    /\ sending \in Mail \cup {NoMail}
    /\ returns \in 0 .. MaxReturns
    /\ mails \in Seq(Mail)
    /\ displaced \in BOOLEAN
    /\ rec.status = file.status
    /\ rec.submitted = 1
    /\ listing # NoRecord => listing.submitted = 1

\* Clocks agree: nothing that is known of the attempt, the record or its copy is of
\* the future.
Clocks ==
    /\ Sound(rec, now)
    /\ Sound(listing, now)
    /\ attempt.dispatched <= now /\ attempt.began <= now /\ attempt.ended <= now /\ attempt.ran <= now
    /\ Dated(rec.mails, now, RanBy) /\ Dated(listing.mails, now, RanBy)
    /\ Dated(file.mails, now, RanBy)
    /\ sending # NoMail => sending.at <= now /\ (sending.status = RUNNING => sending.at <= RanBy)

\* Statuses of an attempt that has not ended to run.
Early == {DISPATCHED, SETUP, RUNNING}

\* A record of the attempt at work has no start from before its dispatch, and once
\* it runs, one that is no later than the first running report.
Fits(m) ==
    (file.status \in Early /\ m.number = attempt.number) =>
        /\ attempt.dispatched <= m.dispatched
        /\ ~StaleStart(m)
        /\ m.dispatched # NoTime
        /\ m.status \in Early
        /\ file.status = RUNNING => m.started <= attempt.ran
        /\ m.status = RUNNING => m.started # NoTime

\* Only a dispatch makes an attempt, and a job in the queue has none.
Attempts ==
    /\ attempt.number = 0 => attempt = NoAttempt
    /\ file.status = QUEUED => attempt = NoAttempt
    /\ file.status \in Early => attempt.number # 0
    /\ file.status \in {DISPATCHED, SETUP} => attempt.ran = NoTime
    /\ listing.number <= rec.number
    /\ Fits(rec)
    /\ Fits(listing)

\* The mails in the stores are the last that were sent; while one is being sent, the
\* last before it.  Displaced records are given up.
Mailed ==
    ~displaced =>
        /\ sending = NoMail => file.mails = LastOf(mails)
        /\ sending # NoMail =>
             \E before \in Seq(Mail) : /\ mails = Append(before, sending)
                                       /\ file.mails = LastOf(before)
                                       /\ rec.mails = LastOf(before)
        /\ file.mails = <<>> => rec.mails = <<>> /\ listing.mails = <<>>

TimesInv == Shapes /\ Clocks /\ Attempts

-----------------------------------------------------------------------------
(* What the functions on records make of one. *)

\* A set of times that is not empty has a least one.
LEMMA LeastOf ==
    ASSUME NEW S \in SUBSET Nat, S # {}
    PROVE  Least(S) \in S /\ \A y \in S : Least(S) <= y
<1>1. PICK x \in S : \A y \in S : <<y, x>> \notin OpToRel(<, Nat)
  BY NatLessThanWellFounded, WFMin, Zenon
<1>2. \A y \in S : y \in Nat => ~(y < x)
  BY <1>1, Zenon DEF OpToRel
<1>3. \A y \in S : x <= y
  BY <1>2
<1> QED
  BY <1>3 DEF Least

LEMMA TimeSet == Times \subseteq Nat /\ NoTime \in Times
BY Limits DEF Times, NoTime

LEMMA DefaultTime ==
    ASSUME NEW t \in Times, NEW u \in Times
    PROVE  Default(t, u) \in Times /\ Default(t, u) \in {t, u}
BY DEF Default

\* The branches of a status write exclude each other.
LEMMA StatusNames ==
    /\ QUEUED \notin {DISPATCHED, SETUP, RUNNING, RECOVERING} \cup Terminal
    /\ DISPATCHED \notin {SETUP, RUNNING, RECOVERING} \cup Terminal
    /\ SETUP \notin {RUNNING, RECOVERING} \cup Terminal
    /\ RUNNING \notin {RECOVERING} \cup Terminal
    /\ RECOVERING \notin Terminal
BY DEF QUEUED, DISPATCHED, SETUP, RUNNING, RECOVERING, Terminal, FINISHED, FAILED, STOPPED,
       CANCELED

\* A status write keeps the mails, dates an end, and counts an attempt for a dispatch.
LEMMA LifecycleOf ==
    ASSUME NEW m \in Record, NEW s \in Status, NEW t \in Times
    PROVE  LET r == Lifecycle(m, m.status, s, t) IN
           /\ r \in Record
           /\ r.status = s
           /\ r.submitted = Default(m.submitted, t)
           /\ r.mails = m.mails
           /\ r.computed = m.computed
           /\ r.queued \in {m.queued, t}
           /\ r.dispatched \in {m.dispatched, t}
           /\ r.started = IF s = RUNNING THEN Started(m, m.status, t) ELSE m.started
           /\ r.finished \in {m.finished, t, NoTime}
           /\ s \in Terminal => r.finished = t
           /\ r.number = IF s = DISPATCHED /\ m.status # DISPATCHED THEN m.number + 1
                         ELSE m.number
           /\ s = DISPATCHED => r.dispatched = t
           /\ s = SETUP => r.dispatched = Default(m.dispatched, t)
           /\ s = RUNNING => r.dispatched = m.dispatched
<1> DEFINE q == [m EXCEPT !.status = s, !.submitted = Default(@, t)]
           w == [q EXCEPT !.queued = Default(@, t)]
           r == Lifecycle(m, m.status, s, t)
<1>0. NoTime \in Times
  BY TimeSet
<1>1. q \in Record /\ w \in Record
  <2>1. q \in Record
    BY DefaultTime DEF Record
  <2>2. w \in Record
    BY <2>1, DefaultTime DEF Record
  <2> QED
    BY <2>1, <2>2
<1>2. Started(m, m.status, t) \in Times
  BY <1>0 DEF Started, Record
<1>3. /\ q.status = s /\ q.submitted = Default(m.submitted, t) /\ q.number = m.number
      /\ \A f \in DOMAIN m \ {"status", "submitted"} : q[f] = m[f]
      /\ DOMAIN q = DOMAIN m
  BY DEF Record
<1>4. /\ w.queued \in {m.queued, t} /\ w.number = m.number
      /\ \A f \in DOMAIN m \ {"queued"} : w[f] = q[f]
      /\ DOMAIN w = DOMAIN m
  BY <1>1, <1>3 DEF Record, Default
<1>5. DOMAIN m = {"status", "submitted", "queued", "dispatched", "started", "computed",
                  "finished", "number", "requeues", "mails"}
  BY DEF Record
<1> HIDE DEF w, q
<1>6. CASE s = QUEUED
  <2>1. r = Queued(q, m.status, t)
    BY <1>6, StatusNames DEF Lifecycle, q
  <2> HIDE DEF r
  <2>2. r \in Record
    <3>1. q.requeues + 1 \in Nat /\ Default(q.queued, t) \in Times
      BY <1>1, DefaultTime DEF Record
    <3>2. [q EXCEPT !.queued = Default(@, t)] \in Record
      BY <1>1, <3>1 DEF Record
    <3>3. [q EXCEPT !.queued = t, !.requeues = @ + 1] \in Record
      BY <1>1, <3>1 DEF Record
    <3> QED
      BY <1>1, <2>1, <3>2, <3>3 DEF Queued
  <2>3. /\ r.queued \in {m.queued, t}
        /\ \A f \in DOMAIN m \ {"queued", "requeues"} : r[f] = q[f]
    BY <1>1, <1>3, <2>1 DEF Queued, Record, Default
  <2> QED
    BY <1>3, <1>5, <1>6, <2>2, <2>3, StatusNames DEF r
<1>7. CASE s = DISPATCHED
  <2>1. r = [w EXCEPT !.dispatched = t,
                      !.number = IF m.status # DISPATCHED THEN @ + 1 ELSE @]
    BY <1>7, StatusNames DEF Lifecycle, q, w
  <2> HIDE DEF r
  <2>2. r \in Record
    <3>1. (IF m.status # DISPATCHED THEN w.number + 1 ELSE w.number) \in Nat
      BY <1>1 DEF Record
    <3> QED
      BY <1>1, <2>1, <3>1 DEF Record
  <2>3. /\ r.dispatched = t
        /\ r.number = IF m.status # DISPATCHED THEN m.number + 1 ELSE m.number
        /\ \A f \in DOMAIN m \ {"dispatched", "number"} : r[f] = w[f]
    BY <1>1, <1>4, <1>5, <2>1 DEF Record
  <2> QED
    BY <1>3, <1>4, <1>5, <1>7, <2>2, <2>3, StatusNames DEF r
<1>8. CASE s = SETUP
  <2>1. r = [w EXCEPT !.dispatched = Default(@, t), !.finished = NoTime]
    BY <1>8, StatusNames DEF Lifecycle, q, w
  <2> HIDE DEF r
  <2>2. r \in Record
    BY <1>0, <1>1, <1>2, <2>1, DefaultTime DEF Record
  <2>3. /\ r.dispatched = Default(w.dispatched, t) /\ r.finished = NoTime
        /\ \A f \in DOMAIN m \ {"dispatched", "finished"} : r[f] = w[f]
    BY <1>1, <1>4, <1>5, <2>1 DEF Record
  <2> QED
    BY <1>3, <1>4, <1>5, <1>8, <2>2, <2>3, StatusNames DEF r, Default
<1>9. CASE s = RUNNING
  <2>1. r = [w EXCEPT !.started = Started(m, m.status, t), !.finished = NoTime]
    BY <1>9, StatusNames DEF Lifecycle, q, w
  <2> HIDE DEF r
  <2>2. r \in Record
    BY <1>0, <1>1, <1>2, <2>1 DEF Record
  <2>3. /\ r.started = Started(m, m.status, t) /\ r.finished = NoTime
        /\ \A f \in DOMAIN m \ {"started", "finished"} : r[f] = w[f]
    BY <1>1, <1>4, <1>5, <2>1 DEF Record
  <2> QED
    BY <1>3, <1>4, <1>5, <1>9, <2>2, <2>3, StatusNames DEF r
<1>10. CASE s = RECOVERING
  <2>1. r = [w EXCEPT !.finished = NoTime]
    BY <1>10, StatusNames DEF Lifecycle, q, w
  <2> HIDE DEF r
  <2>2. r \in Record
    BY <1>0, <1>1, <1>2, <2>1 DEF Record
  <2>3. /\ r.finished = NoTime
        /\ \A f \in DOMAIN m \ {"finished"} : r[f] = w[f]
    BY <1>1, <1>4, <1>5, <2>1 DEF Record
  <2> QED
    BY <1>3, <1>4, <1>5, <1>10, <2>2, <2>3, StatusNames DEF r
<1>11. CASE s \in Terminal
  <2>1. r = [q EXCEPT !.finished = t]
    BY <1>11, StatusNames DEF Lifecycle, q
  <2> HIDE DEF r
  <2>2. r \in Record
    BY <1>1, <2>1 DEF Record
  <2>3. r.finished = t /\ \A f \in DOMAIN m \ {"finished"} : r[f] = q[f]
    BY <1>1, <1>3, <1>5, <2>1 DEF Record
  <2> QED
    BY <1>3, <1>5, <1>11, <2>2, <2>3, StatusNames DEF r
<1>12. CASE s \notin {QUEUED, DISPATCHED, SETUP, RUNNING, RECOVERING} \cup Terminal
  <2>1. r = q
    BY <1>12 DEF Lifecycle, q
  <2> HIDE DEF r
  <2> QED
    BY <1>1, <1>3, <1>5, <1>12, <2>1 DEF r
<1> HIDE DEF r
<1> QED
  BY <1>6, <1>7, <1>8, <1>9, <1>10, <1>11, <1>12 DEF r

\* The history of the file is handed on, and nothing else.
LEMMA HandedOnOf ==
    ASSUME NEW m \in Record, file.mails \in Seq(Mail)
    PROVE  /\ HandedOn(m) \in Record
           /\ \A f \in DOMAIN m \ {"mails"} : HandedOn(m)[f] = m[f]
           /\ HandedOn(m).mails = IF file.mails = <<>> THEN m.mails ELSE file.mails
BY DEF HandedOn, Record

\* A running job's start is moved forward at most as far as the dispatch.
LEMMA DetailedOf ==
    ASSUME NEW m \in Record, NEW t \in Times, NEW d \in [started : Times, computed : Times]
    PROVE  LET r == Detailed(m, d, t) IN
           /\ r \in Record
           /\ \A f \in DOMAIN m \ {"started", "computed", "queued"} : r[f] = m[f]
           /\ r.queued \in {m.queued, m.submitted}
           /\ r.computed \in {m.computed, d.computed}
           /\ r.started \in {m.started, d.started, t}
           /\ (m.started # NoTime /\ ~StaleStart(m)) =>
                 r.started # NoTime /\ r.started <= m.started /\ ~StaleStart(r)
<1> DEFINE s == StartOf(m, d)
           started == IF s = NoTime THEN m.started
                      ELSE IF m.started = NoTime \/ StaleStart(m) THEN s
                      ELSE Least({m.started, s})
           shown == IF started = NoTime /\ m.status \in Terminal THEN t ELSE started
           r == Detailed(m, d, t)
<1>1. s \in {NoTime, d.started} /\ m.started \in Times /\ d.started \in Times
  BY DEF StartOf, Record
<1>2. /\ Least({m.started, s}) \in {m.started, s}
      /\ Least({m.started, s}) <= m.started
  BY <1>1, TimeSet, LeastOf
<1>3. started \in {m.started, d.started} /\ started \in Times
  BY <1>1, <1>2, TimeSet
<1>4. shown \in {m.started, d.started, t} /\ shown \in Times
  BY <1>3
<1>5. (m.started # NoTime /\ ~StaleStart(m)) => 
        /\ shown # NoTime /\ shown <= m.started
        /\ m.dispatched # NoTime => ~(shown < m.dispatched)
  <2> SUFFICES ASSUME m.started # NoTime, ~StaleStart(m)
               PROVE  /\ shown # NoTime /\ shown <= m.started
                      /\ m.dispatched # NoTime => ~(shown < m.dispatched)
    OBVIOUS
  <2>1. started = IF s = NoTime THEN m.started ELSE Least({m.started, s})
    OBVIOUS
  <2>2. started # NoTime /\ started <= m.started
    <3>0. m.started \in Nat
      BY <1>1, TimeSet
    <3>1. m.started <= m.started
      BY <3>0
    <3>2. Least({m.started, s}) = NoTime => s = NoTime
      BY <1>2
    <3> HIDE DEF s
    <3> QED
      BY <1>2, <2>1, <3>1, <3>2
  <2>3. m.dispatched # NoTime => ~(m.started < m.dispatched)
    BY DEF StaleStart
  <2>4. m.dispatched # NoTime => s = NoTime \/ ~(s < m.dispatched)
    BY DEF StartOf
  <2>5. started = m.started \/ (started = s /\ s # NoTime)
    <3> HIDE DEF s
    <3> QED
      BY <1>2, <2>1
  <2> HIDE DEF s, started
  <2> QED
    BY <2>2, <2>3, <2>4, <2>5
<1>6. r = [m EXCEPT !.started = shown, !.computed = Default(d.computed, @),
                    !.queued = Default(@, m.submitted)]
  BY DEF Detailed
<1> HIDE DEF r, shown, started, s
<1>7. r \in Record
  BY <1>4, <1>6, DefaultTime DEF Record
<1> QED
  <2>1. /\ r.started = shown /\ r.dispatched = m.dispatched
        /\ r.computed = Default(d.computed, m.computed)
        /\ r.queued = Default(m.queued, m.submitted)
        /\ \A f \in DOMAIN m \ {"started", "computed", "queued"} : r[f] = m[f]
    BY <1>6 DEF Record
  <2>2. (m.started # NoTime /\ ~StaleStart(m)) =>
           r.started # NoTime /\ r.started <= m.started /\ ~StaleStart(r)
    BY <1>5, <2>1 DEF StaleStart
  <2> QED
    BY <1>4, <1>7, <2>1, <2>2 DEF Default, r

\* A repair leaves a start that is not stale; one it finds itself is a running mail's.
LEMMA RepairedOf ==
    ASSUME NEW m \in Record
    PROVE  LET r == Repaired(m) IN
           /\ r \in Record
           /\ \A f \in DOMAIN m \ {"started", "finished"} : r[f] = m[f]
           /\ r.finished = IF m.status \in Terminal THEN m.finished ELSE NoTime
           /\ m.status \in Terminal => r.started = m.started
           /\ m.status \in {QUEUED} \cup Early => ~StaleStart(r)
           /\ r.started \in {m.started, NoTime} \cup RunningMails(m)
           /\ r.started # m.started => StaleStart(m) \/ m.started = NoTime
           /\ r.started # m.started => r.started = NoTime \/ m.status = RUNNING
<1> DEFINE r == Repaired(m)
<1>1. RunningMails(m) \subseteq Times /\ \A u \in RunningMails(m) : u >= m.dispatched
  <2>1. m.mails \in Seq(Mail)
    BY DEF Record
  <2>2. \A i \in DOMAIN m.mails : m.mails[i] \in Mail
    BY <2>1, LenProperties, ElementOfSeq
  <2>3. \A i \in DOMAIN m.mails : m.mails[i].at \in Times
    BY <2>2 DEF Mail
  <2> QED
    BY <2>3 DEF RunningMails
<1>2. RunningMails(m) # {} => Least(RunningMails(m)) \in RunningMails(m)
  BY <1>1, TimeSet, LeastOf
<1>3. RepairedStart(m) \in {m.started, NoTime} \cup RunningMails(m)
  BY <1>2 DEF RepairedStart
<1>4. RepairedStart(m) \in Times
  BY <1>1, <1>3, TimeSet DEF Record
<1>5. r = [m EXCEPT !.finished = IF m.status \in Terminal THEN @ ELSE NoTime,
                    !.started = RepairedStart(m)]
  BY DEF Repaired
<1> HIDE DEF r
<1>6. r \in Record
  BY <1>4, <1>5, TimeSet DEF Record
<1>7. /\ r.started = RepairedStart(m) /\ r.dispatched = m.dispatched
      /\ r.finished = IF m.status \in Terminal THEN m.finished ELSE NoTime
      /\ \A f \in DOMAIN m \ {"started", "finished"} : r[f] = m[f]
  BY <1>5 DEF Record
<1>8. m.status \in Terminal => RepairedStart(m) = m.started
  BY DEF RepairedStart, Terminal, RUNNING, QUEUED, DISPATCHED, SETUP, FINISHED, FAILED,
         STOPPED, CANCELED
<1>9. RepairedStart(m) # m.started => StaleStart(m) \/ m.started = NoTime
  BY DEF RepairedStart
<1>10. RepairedStart(m) # m.started => RepairedStart(m) = NoTime \/ m.status = RUNNING
  BY DEF RepairedStart
<1>11. m.status \in {QUEUED} \cup Early => ~StaleStart(r)
  <2> SUFFICES ASSUME m.status \in {QUEUED} \cup Early, StaleStart(r) PROVE FALSE
    OBVIOUS
  <2>1. RepairedStart(m) # NoTime /\ RepairedStart(m) < m.dispatched
    BY <1>7 DEF StaleStart
  <2>2. RepairedStart(m) = m.started => StaleStart(m)
    BY <2>1, <1>7 DEF StaleStart
  <2>3. RepairedStart(m) \notin RunningMails(m)
    <3>1. m.dispatched \in Nat /\ RepairedStart(m) \in Nat
      BY <1>4, TimeSet DEF Record
    <3>2. ~(RepairedStart(m) >= m.dispatched)
      BY <2>1, <3>1
    <3> QED
      BY <1>1, <3>2
  <2>4. RepairedStart(m) = m.started /\ StaleStart(m)
    BY <1>3, <2>1, <2>2, <2>3
  <2> QED
    BY <1>2, <2>1, <2>3, <2>4 DEF RepairedStart, Early
<1> QED
  BY <1>3, <1>6, <1>7, <1>8, <1>9, <1>10, <1>11 DEF r

Details == [started : Times, computed : Times]

\* What may be written over: the record, or what an operation has made of it.
Writes(m, s, d) ==
    /\ Bounded(m, now)
    /\ m.submitted = 1
    /\ Dated(m.mails, now, RanBy)
    /\ s \in Status \ {LAUNCHING}
    /\ d \in Details /\ d.started <= now /\ d.computed <= now
    /\ Write(m, s, d)

\* Mails that are not of the future say of no start in the future.
LEMMA MailsBound ==
    ASSUME NEW m, NEW t, NEW r, Dated(m.mails, t, r)
    PROVE  \A u \in RunningMails(m) : u <= t /\ u <= r
BY DEF Dated, RunningMails

\* A status write leaves a sound record, and to one that was of the attempt at work
\* the start it had, or an earlier one.
LEMMA WriteRecord ==
    ASSUME TimesInv, NEW m, NEW s, NEW d, Writes(m, s, d)
    PROVE  /\ Sound(rec', now)
           /\ rec'.status = s
           /\ rec'.submitted = 1
           /\ rec'.mails = IF file.mails = <<>> THEN m.mails ELSE file.mails
           /\ rec'.number = IF s = DISPATCHED /\ m.status # DISPATCHED THEN m.number + 1
                            ELSE m.number
           /\ s = DISPATCHED => rec'.dispatched = now
           /\ s = SETUP => rec'.dispatched = Default(m.dispatched, now)
           /\ s = RUNNING => rec'.dispatched = m.dispatched
           /\ s \in {QUEUED} \cup Early => ~StaleStart(rec')
           /\ (/\ s = RUNNING /\ m.dispatched # NoTime /\ ~StaleStart(m)
               /\ m.status = RUNNING => m.started # NoTime)
              => /\ rec'.started # NoTime
                 /\ rec'.started <= IF m.started # NoTime THEN m.started ELSE now
<1> DEFINE l == Lifecycle(m, m.status, s, now)
           h == HandedOn(l)
           e == Detailed(h, d, now)
           r == Repaired(e)
<1>0. /\ m \in Record /\ s \in Status /\ now \in Times /\ d \in Details
      /\ file.mails \in Seq(Mail) /\ now # NoTime
  BY Limits DEF TimesInv, Shapes, Writes, Bounded, Times, NoTime
<1>1. rec' = r
  BY DEF Writes, Write
<1> HIDE DEF r
<1>2. /\ l \in Record
      /\ l.status = s
      /\ l.submitted = 1
      /\ l.mails = m.mails
      /\ l.computed = m.computed
      /\ l.queued \in {m.queued, now}
      /\ l.dispatched \in {m.dispatched, now}
      /\ l.started = IF s = RUNNING THEN Started(m, m.status, now) ELSE m.started
      /\ l.finished \in {m.finished, now, NoTime}
      /\ s \in Terminal => l.finished = now
      /\ l.number = IF s = DISPATCHED /\ m.status # DISPATCHED THEN m.number + 1
                    ELSE m.number
      /\ s = DISPATCHED => l.dispatched = now
      /\ s = SETUP => l.dispatched = Default(m.dispatched, now)
      /\ s = RUNNING => l.dispatched = m.dispatched
  <2>1. Default(m.submitted, now) = 1
    BY DEF Writes, Default, NoTime
  <2> QED
    BY <1>0, <2>1, LifecycleOf
<1> HIDE DEF l
<1>3. /\ h \in Record
      /\ \A f \in DOMAIN l \ {"mails"} : h[f] = l[f]
      /\ h.mails = IF file.mails = <<>> THEN l.mails ELSE file.mails
  BY <1>0, <1>2, HandedOnOf
<1> HIDE DEF h
<1>4. /\ e \in Record
      /\ \A f \in DOMAIN h \ {"started", "computed", "queued"} : e[f] = h[f]
      /\ e.queued \in {h.queued, h.submitted}
      /\ e.computed \in {h.computed, d.computed}
      /\ e.started \in {h.started, d.started, now}
      /\ (h.started # NoTime /\ ~StaleStart(h)) =>
            e.started # NoTime /\ e.started <= h.started /\ ~StaleStart(e)
  BY <1>0, <1>3, DetailedOf DEF Details
<1> HIDE DEF e
<1>5. /\ r \in Record
      /\ \A f \in DOMAIN e \ {"started", "finished"} : r[f] = e[f]
      /\ r.finished = IF e.status \in Terminal THEN e.finished ELSE NoTime
      /\ e.status \in Terminal => r.started = e.started
      /\ e.status \in {QUEUED} \cup Early => ~StaleStart(r)
      /\ r.started \in {e.started, NoTime} \cup RunningMails(e)
      /\ r.started # e.started => StaleStart(e) \/ e.started = NoTime
  BY <1>4, RepairedOf DEF r
<1>6. DOMAIN l = DOMAIN h /\ DOMAIN h = DOMAIN e
      /\ DOMAIN l = {"status", "submitted", "queued", "dispatched", "started", "computed",
                     "finished", "number", "requeues", "mails"}
  BY <1>2, <1>3, <1>4 DEF Record
<1>7. /\ r.status = s /\ r.submitted = 1 /\ r.number = l.number
      /\ r.mails = (IF file.mails = <<>> THEN m.mails ELSE file.mails)
      /\ r.dispatched = l.dispatched
  BY <1>2, <1>3, <1>4, <1>5, <1>6
<1>8. /\ r.queued \in {m.queued, now, 1}
      /\ r.dispatched \in {m.dispatched, now}
      /\ r.computed \in {m.computed, d.computed}
      /\ r.finished = IF s \in Terminal THEN now ELSE NoTime
  BY <1>2, <1>3, <1>4, <1>5, <1>6
<1>9. e.started \in {m.started, d.started, now, NoTime}
  BY <1>2, <1>3, <1>4, <1>6 DEF Started
<1>10. \A u \in RunningMails(e) : u <= now
  <2>1. Dated(e.mails, now, RanBy)
    BY <1>2, <1>3, <1>4, <1>6 DEF TimesInv, Clocks, Writes
  <2> QED
    BY <2>1, MailsBound
<1>11. /\ m.queued <= now /\ m.dispatched <= now /\ m.started <= now /\ m.computed <= now
       /\ d.started <= now /\ d.computed <= now /\ now <= now /\ NoTime <= now /\ 1 <= now
  BY DEF TimesInv, Shapes, Writes, Bounded, NoTime
<1>12. r.queued <= now /\ r.dispatched <= now /\ r.computed <= now /\ r.finished <= now
  BY <1>8, <1>11
<1>13. r.started <= now
  BY <1>5, <1>9, <1>10, <1>11
<1>14. Sound(r, now)
  <2>1. Len(r.mails) <= HistoryLimit
    BY <1>7 DEF TimesInv, Shapes, Writes, Bounded
  <2>2. 1 <= 1
    OBVIOUS
  <2>3. r.finished # NoTime <=> r.status \in Terminal
    BY <1>0, <1>7, <1>8
  <2>4. r.status \in Terminal => r.finished = now
    BY <1>7, <1>8
  <2> QED
    BY <1>5, <1>7, <1>12, <1>13, <2>1, <2>2, <2>3, <2>4 DEF Sound, Bounded
<1>15. ASSUME s = RUNNING, m.dispatched # NoTime, ~StaleStart(m),
              m.status = RUNNING => m.started # NoTime
       PROVE  /\ r.started # NoTime
              /\ r.started <= IF m.started # NoTime THEN m.started ELSE now
  <2>1. l.started = IF m.started # NoTime THEN m.started ELSE now
    BY <1>2, <1>15 DEF Started
  <2>2. l.started # NoTime /\ l.dispatched = m.dispatched
    BY <1>0, <1>2, <1>15, <2>1
  <2>3. ~(now < m.dispatched)
    <3>1. now \in Nat /\ m.dispatched \in Nat
      BY <1>0, TimeSet DEF Record
    <3> QED
      BY <1>11, <3>1
  <2>4. ~StaleStart(l)
    BY <1>15, <2>1, <2>2, <2>3 DEF StaleStart
  <2>5. h.started = l.started /\ h.dispatched = l.dispatched
    BY <1>3, <1>6
  <2>6. h.started # NoTime /\ ~StaleStart(h)
    BY <2>2, <2>4, <2>5 DEF StaleStart
  <2>7. /\ e.started # NoTime /\ e.started <= l.started
        /\ e.dispatched = l.dispatched
    BY <1>3, <1>4, <1>6, <2>5, <2>6
  <2>8. r.started = e.started
    BY <1>4, <1>5, <2>6, <2>7
  <2> QED
    BY <2>1, <2>7, <2>8
<1> QED
  BY <1>1, <1>2, <1>5, <1>7, <1>14, <1>15, <1>4, <1>3, <1>6 DEF Early

\* What every operation has to see to: the attempt is dated, and the first running
\* report is when the job first runs.
Attends(s) ==
    /\ attempt' \in AttemptRecord
    /\ attempt'.dispatched <= now /\ attempt'.began <= now /\ attempt'.ended <= now
    /\ attempt'.ran <= now
    /\ s = RUNNING => attempt'.ran = IF file.status = RUNNING THEN attempt.ran ELSE now
    /\ returns' \in 0 .. MaxReturns
    /\ UNCHANGED <<now, listing, displaced>>

LEMMA WriteFile ==
    ASSUME TimesInv, NEW m, NEW s, NEW d, Writes(m, s, d)
    PROVE  /\ file' \in [status : Status \ {LAUNCHING}, mails : Seq(Mail)]
           /\ file'.status = s /\ file'.mails = file.mails
           /\ sending = NoMail
           /\ Notified(file.status, s) => /\ sending' = [status |-> s, at |-> now]
                                          /\ mails' = Append(mails, sending')
           /\ ~Notified(file.status, s) => sending' = NoMail /\ mails' = mails
BY DEF TimesInv, Shapes, Writes, Write

LEMMA WriteShapes ==
    ASSUME TimesInv, NEW m, NEW s, NEW d, Writes(m, s, d), Attends(s)
    PROVE  Shapes'
<1>1. [status |-> s, at |-> now] \in Mail
  BY DEF TimesInv, Shapes, Writes, Mail, Times, NoTime
<1>2. sending' \in Mail \cup {NoMail}
  BY <1>1, WriteFile
<1>3. mails' \in Seq(Mail)
  <2>1. mails \in Seq(Mail)
    BY DEF TimesInv, Shapes
  <2>2. Notified(file.status, s) => mails' = Append(mails, [status |-> s, at |-> now])
    BY WriteFile
  <2>3. Append(mails, [status |-> s, at |-> now]) \in Seq(Mail)
    BY <1>1, <2>1, AppendProperties
  <2>4. ~Notified(file.status, s) => mails' = mails
    BY WriteFile
  <2> QED
    BY <2>1, <2>2, <2>3, <2>4
<1> QED
  BY <1>2, <1>3, WriteFile, WriteRecord DEF TimesInv, Shapes, Attends

LEMMA WriteClocks ==
    ASSUME TimesInv, NEW m, NEW s, NEW d, Writes(m, s, d), Attends(s)
    PROVE  Clocks'
<1>1. /\ Sound(rec', now) /\ file'.status = s /\ file'.mails = file.mails
      /\ rec'.mails = IF file.mails = <<>> THEN m.mails ELSE file.mails
  BY WriteFile, WriteRecord
<1>2. now' = now /\ listing' = listing /\ now <= now
  BY DEF TimesInv, Shapes, Attends
<1>3. RanBy' = now \/ (RanBy' = RanBy /\ file.status = s)
  BY <1>1, <1>2 DEF RanBy, Attends
<1>4. ASSUME NEW ms, Dated(ms, now, RanBy) PROVE Dated(ms, now, RanBy')
  BY <1>3, <1>4 DEF Dated
<1>5. Dated(file.mails, now, RanBy) /\ Dated(m.mails, now, RanBy) /\ Dated(listing.mails, now, RanBy)
  BY DEF TimesInv, Clocks, Writes
<1>6. Dated(rec'.mails, now', RanBy') /\ Dated(file'.mails, now', RanBy')
      /\ Dated(listing'.mails, now', RanBy')
  BY <1>1, <1>2, <1>4, <1>5
<1>7. sending' # NoMail => sending'.at <= now /\ sending'.at <= RanBy'
  <2> SUFFICES ASSUME sending' # NoMail PROVE sending'.at = now /\ RanBy' = now
    BY <1>2
  <2>1. Notified(file.status, s) /\ sending' = [status |-> s, at |-> now]
    BY WriteFile
  <2>2. file.status # s
    BY <2>1 DEF Notified
  <2> QED
    BY <1>3, <2>1, <2>2
<1> QED
  BY <1>1, <1>2, <1>6, <1>7 DEF TimesInv, Clocks, Attends

\* A write of a status that no running attempt has needs nothing more.
LEMMA OtherWrites ==
    ASSUME TimesInv, NEW m, NEW s, NEW d, Writes(m, s, d), Attends(s),
           s \notin Early, m.number = rec.number,
           attempt'.number = 0 => attempt' = NoAttempt,
           s = QUEUED => attempt' = NoAttempt
    PROVE  TimesInv'
<1>1. file'.status = s /\ listing' = listing
  BY WriteFile DEF Attends
<1>2. rec'.number = rec.number
  BY WriteRecord DEF Early
<1>3. Attempts'
  BY <1>1, <1>2 DEF TimesInv, Attempts, Fits, Early
<1> QED
  BY <1>3, WriteShapes, WriteClocks DEF TimesInv

\* The record itself may be written over.
LEMMA RecWrites ==
    ASSUME TimesInv, NEW s \in Status \ {LAUNCHING}, NEW d \in Details,
           d.started <= now, d.computed <= now, Write(rec, s, d)
    PROVE  Writes(rec, s, d)
BY DEF TimesInv, Shapes, Clocks, Sound, Writes

LEMMA NothingKnown ==
    ASSUME TimesInv
    PROVE  /\ NoDetails \in Details
           /\ NoDetails.started <= now /\ NoDetails.computed <= now
           /\ NoAttempt \in AttemptRecord
BY TimeSet DEF TimesInv, Shapes, NoDetails, Details, NoTime, NoAttempt, AttemptRecord

\* The statuses of a running attempt follow each other.
LEMMA EarlySteps ==
    ASSUME NEW prev \in Status \ {LAUNCHING}, NEW new \in Status, Writable(prev, new)
    PROVE  /\ new # LAUNCHING
           /\ new = DISPATCHED => prev \in {QUEUED, DISPATCHED}
           /\ new = SETUP => prev \in {DISPATCHED, SETUP}
           /\ new = RUNNING => prev \in {DISPATCHED, SETUP, RUNNING}
BY DEF Writable, can_transition, AllowedFrom, Status, LAUNCHING, QUEUED, DISPATCHED, SETUP,
       RUNNING, RECOVERING, FINISHED, FAILED, STOP_REQUESTED, STOPPED, NOT_FOUND, UNKNOWN,
       CANCELED, Absent

LEMMA DispatchKeeps ==
    ASSUME TimesInv, Dispatch
    PROVE  TimesInv' /\ Writes(rec, DISPATCHED, NoDetails)
<1>1. Writes(rec, DISPATCHED, NoDetails)
  BY NothingKnown, RecWrites DEF Dispatch, Status, DISPATCHED, LAUNCHING
<1>2. file.status = QUEUED /\ rec.status = QUEUED
  BY DEF Dispatch, TimesInv, Shapes
<1>3. /\ rec'.number = rec.number + 1 /\ rec'.dispatched = now /\ ~StaleStart(rec')
      /\ rec'.status = DISPATCHED /\ file'.status = DISPATCHED
  BY <1>1, <1>2, WriteFile, WriteRecord DEF Early, QUEUED, DISPATCHED
<1>4. rec.number \in Nat /\ now \in Times /\ now # NoTime /\ listing.number \in Nat
  BY Limits DEF TimesInv, Shapes, Clocks, Sound, Bounded, Record, Times, NoTime
<1>5. /\ attempt'.number = rec.number + 1 /\ attempt'.dispatched = now
      /\ attempt'.ran = NoTime /\ attempt'.began = NoTime /\ attempt'.ended = NoTime
      /\ attempt' \in AttemptRecord
  <2>1. attempt' = [NoAttempt EXCEPT !.number = rec.number + 1, !.dispatched = now]
    BY DEF Dispatch
  <2>2. rec.number + 1 \in Nat
    BY <1>4
  <2> QED
    BY <1>4, <2>1, <2>2, TimeSet DEF NoAttempt, AttemptRecord
<1>6. Attends(DISPATCHED)
  BY <1>4, <1>5 DEF Attends, Dispatch, DISPATCHED, RUNNING, NoTime, TimesInv, Shapes
<1>7. Attempts'
  <2>1. now <= now /\ rec.number + 1 # 0 /\ listing.number <= rec.number
        /\ listing.number # rec.number + 1 /\ listing.number <= rec.number + 1
    BY <1>4 DEF TimesInv, Shapes, Attempts
  <2>2. listing' = listing
    BY DEF Dispatch
  <2>3. DISPATCHED # RUNNING /\ DISPATCHED # QUEUED
    BY DEF DISPATCHED, RUNNING, QUEUED
  <2>4. Fits(rec)'
    BY <1>3, <1>4, <1>5, <2>1, <2>3 DEF Fits, StaleStart, Early
  <2>5. Fits(listing)'
    BY <1>5, <2>1, <2>2 DEF Fits
  <2> QED
    BY <1>3, <1>5, <2>1, <2>2, <2>3, <2>4, <2>5 DEF Attempts, Early
<1> QED
  BY <1>1, <1>6, <1>7, WriteShapes, WriteClocks DEF TimesInv

LEMMA EffectiveStatus ==
    ASSUME TimesInv, NEW s \in AgentStatuses, Report(s)
    PROVE  /\ Effective(s) \in Status \ {LAUNCHING}
           /\ file.status \in Status \ {LAUNCHING}
           /\ Writable(file.status, Effective(s))
<1>1. Effective(s) \in Status /\ file.status \in Status \ {LAUNCHING}
  BY StatusSets DEF Effective, Status, TimesInv, Shapes
<1> QED
  BY <1>1, EarlySteps DEF Report

\* The details a worker sends are of its attempt.
LEMMA ReportWrites ==
    ASSUME TimesInv, NEW s \in AgentStatuses, Report(s)
    PROVE  \E d : Writes(rec, Effective(s), d)
<1>1. PICK started \in Known(attempt.began), computed \in Known(attempt.ended) :
        Write(rec, Effective(s), [started |-> started, computed |-> computed])
  BY DEF Report
<1> DEFINE d == [started |-> started, computed |-> computed]
<1>2. /\ attempt.began \in Times /\ attempt.ended \in Times /\ NoTime <= now
      /\ attempt.began <= now /\ attempt.ended <= now
  BY DEF TimesInv, Shapes, Clocks, AttemptRecord, NoTime
<1>3. d \in Details /\ d.started <= now /\ d.computed <= now
  BY <1>2, TimeSet DEF Known, Details
<1> QED
  BY <1>1, <1>3, EffectiveStatus, RecWrites

LEMMA ReportKeeps ==
    ASSUME TimesInv, NEW s \in AgentStatuses, Report(s)
    PROVE  TimesInv'
<1> DEFINE e == Effective(s)
<1> HIDE DEF e
<1>1. PICK d : Writes(rec, e, d)
  BY ReportWrites DEF e
<1>2. /\ attempt # NoAttempt /\ rec.number = attempt.number
      /\ e = QUEUED /\ file.status # QUEUED => returns < MaxReturns
      /\ \/ e = QUEUED /\ attempt' = NoAttempt /\ returns' = returns + 1
         \/ /\ e # QUEUED /\ returns' = returns
            /\ attempt' = [attempt EXCEPT !.ran = IF e = RUNNING THEN Default(@, now) ELSE @]
      /\ UNCHANGED <<now, listing, displaced>>
  BY DEF Report, e
<1>3. /\ file.status # QUEUED /\ attempt.number # 0
      /\ returns \in 0 .. MaxReturns /\ MaxReturns \in Nat
  BY <1>2, Limits DEF TimesInv, Attempts, Shapes
<1>4. CASE e = QUEUED
  <2>1. attempt' = NoAttempt /\ returns' \in 0 .. MaxReturns
    BY <1>2, <1>3, <1>4
  <2>2. e # RUNNING /\ e \notin Early
    BY <1>4 DEF Early, QUEUED, RUNNING, DISPATCHED, SETUP
  <2>3. NoTime <= now
    BY DEF TimesInv, Shapes, NoTime
  <2>4. Attends(e)
    BY <1>2, <2>1, <2>2, <2>3, NothingKnown DEF Attends, NoAttempt
  <2> QED
    BY <1>1, <2>1, <2>2, <2>4, OtherWrites
<1>5. CASE e # QUEUED
  <2>0. attempt \in AttemptRecord /\ now \in Times /\ now # NoTime /\ now <= now
    BY DEF TimesInv, Shapes, Times, NoTime
  <2>1. /\ attempt' \in AttemptRecord /\ attempt'.number = attempt.number
        /\ attempt'.dispatched = attempt.dispatched /\ attempt'.began = attempt.began
        /\ attempt'.ended = attempt.ended
        /\ attempt'.ran = IF e = RUNNING THEN Default(attempt.ran, now) ELSE attempt.ran
    <3>1. Default(attempt.ran, now) \in Times
      BY <2>0, DefaultTime DEF AttemptRecord
    <3> QED
      BY <1>2, <1>5, <2>0, <3>1 DEF AttemptRecord
  <2>2. /\ e \in Status \ {LAUNCHING} /\ file.status \in Status \ {LAUNCHING}
        /\ Writable(file.status, e)
    BY EffectiveStatus DEF e
  <2>3. /\ e = DISPATCHED => file.status = DISPATCHED
        /\ e = SETUP => file.status \in {DISPATCHED, SETUP}
        /\ e = RUNNING => file.status \in {DISPATCHED, SETUP, RUNNING}
    BY <1>3, <2>2, EarlySteps
  <2>4. rec.status = file.status /\ Fits(rec) /\ Fits(listing)
    BY DEF TimesInv, Shapes, Attempts
  <2>5. attempt.dispatched \in Nat /\ attempt.ran \in Nat /\ now \in Nat /\ rec \in Record
        /\ rec.dispatched \in Nat /\ rec.started \in Nat /\ rec.started <= now
        /\ attempt.dispatched <= now
    BY <2>0, TimeSet DEF TimesInv, Clocks, Sound, Bounded, Record, AttemptRecord
  <2>6. e \in Early =>
          /\ file.status \in Early /\ attempt.dispatched <= rec.dispatched
          /\ ~StaleStart(rec) /\ rec.dispatched # NoTime
          /\ rec.status = RUNNING => rec.started # NoTime
          /\ file.status = RUNNING => rec.started <= attempt.ran
    BY <1>2, <2>3, <2>4 DEF Early, Fits
  <2>7. file.status \in {DISPATCHED, SETUP} => attempt.ran = NoTime
    BY DEF TimesInv, Attempts
  <2>8. e = RUNNING => attempt'.ran = IF file.status = RUNNING THEN attempt.ran ELSE now
    <3>1. e = RUNNING /\ file.status = RUNNING => attempt.ran # NoTime
      BY <2>4, <2>5, <2>6 DEF NoTime, Early
    <3> QED
      BY <2>1, <2>3, <2>7, <3>1 DEF Default
  <2>9. Attends(e)
    <3>1. attempt.ran <= now /\ attempt.began <= now /\ attempt.ended <= now
      BY DEF TimesInv, Clocks
    <3>2. attempt'.ran <= now
      BY <2>0, <2>1, <3>1 DEF Default
    <3> QED
      BY <1>2, <1>3, <1>5, <2>1, <2>5, <2>8, <3>1, <3>2 DEF Attends
  <2>10. CASE e \notin Early
    BY <1>1, <1>3, <1>5, <2>1, <2>9, <2>10, OtherWrites
  <2>11. CASE e \in Early
    <3>1. /\ file'.status = e /\ listing' = listing /\ rec'.status = e
          /\ rec'.number = rec.number /\ ~StaleStart(rec')
          /\ e = DISPATCHED => rec'.dispatched = now
          /\ e = SETUP => rec'.dispatched = rec.dispatched
          /\ e = RUNNING => /\ rec'.dispatched = rec.dispatched
                            /\ rec'.started # NoTime
                            /\ rec'.started <= IF rec.started # NoTime THEN rec.started ELSE now
      <4>1. rec'.number = rec.number
        BY <1>1, <2>3, <2>4, WriteRecord
      <4>2. Default(rec.dispatched, now) = rec.dispatched
        BY <2>6, <2>11 DEF Default
      <4> QED
        BY <1>1, <1>2, <2>6, <2>11, <4>1, <4>2, WriteFile, WriteRecord
    <3>2. attempt.dispatched <= rec'.dispatched /\ rec'.dispatched # NoTime
      BY <2>0, <2>5, <2>6, <2>11, <3>1 DEF Early
    <3>3. e = RUNNING => rec'.started <= attempt'.ran
      <4>1. rec' \in Record
        BY <1>1, WriteRecord DEF Sound, Bounded
      <4>2. rec'.started \in Nat
        BY <4>1, TimeSet DEF Record
      <4>3. CASE file.status = RUNNING
        BY <2>4, <2>5, <2>6, <2>8, <2>11, <3>1, <4>2, <4>3
      <4>4. CASE file.status # RUNNING
        BY <2>5, <2>8, <3>1, <4>2, <4>4
      <4> QED
        BY <4>3, <4>4
    <3>4. Fits(rec)'
      BY <1>2, <2>1, <2>11, <3>1, <3>2, <3>3 DEF Fits
    <3>5. Fits(listing)'
      <4>1. listing.started <= now /\ listing.started \in Nat
        BY TimeSet DEF TimesInv, Clocks, Sound, Bounded, Record
      <4> QED
        BY <2>1, <2>4, <2>6, <2>8, <2>11, <3>1, <4>1 DEF Fits
    <3>6. file'.status \in {DISPATCHED, SETUP} => attempt'.ran = NoTime
      BY <2>1, <2>3, <2>7, <3>1 DEF DISPATCHED, SETUP, RUNNING
    <3>7. file'.status # QUEUED /\ attempt'.number # 0
          /\ listing'.number <= rec'.number
      BY <1>3, <1>5, <2>1, <3>1 DEF TimesInv, Attempts
    <3>8. Attempts'
      BY <3>4, <3>5, <3>6, <3>7 DEF Attempts
    <3> QED
      BY <1>1, <2>9, <3>8, WriteShapes, WriteClocks DEF TimesInv
  <2> QED
    BY <2>10, <2>11
<1> QED
  BY <1>4, <1>5

-----------------------------------------------------------------------------
(* The other operations. *)

\* What an operation is to see to if it leaves the attempt alone or ends it.
LEMMA PlainAttends ==
    ASSUME TimesInv, NEW s, s # RUNNING, attempt' \in {attempt, NoAttempt},
           returns' \in 0 .. MaxReturns, UNCHANGED <<now, listing, displaced>>
    PROVE  Attends(s) /\ (attempt'.number = 0 => attempt' = NoAttempt)
<1>1. NoTime <= now
  BY DEF TimesInv, Shapes, NoTime
<1>2. /\ attempt.dispatched <= now /\ attempt.began <= now /\ attempt.ended <= now
      /\ attempt.ran <= now /\ attempt \in AttemptRecord
      /\ attempt.number = 0 => attempt = NoAttempt
  BY DEF TimesInv, Shapes, Clocks, Attempts
<1> QED
  BY <1>1, <1>2, NothingKnown DEF Attends, NoAttempt

LEMMA ReturnsBound == TimesInv => returns \in 0 .. MaxReturns
BY DEF TimesInv, Shapes

LEMMA StopKeeps ==
    ASSUME TimesInv, Stop
    PROVE  TimesInv' /\ \E s, d : Writes(rec, s, d)
<1>1. PICK s \in {CANCELED, STOP_REQUESTED} : Write(rec, s, NoDetails)
  BY DEF Stop
<1>2. /\ s \in Status \ {LAUNCHING} /\ s \notin Early /\ s # QUEUED /\ s # RUNNING
  BY DEF Status, LAUNCHING, CANCELED, STOP_REQUESTED, Early, DISPATCHED, SETUP, RUNNING, QUEUED
<1>3. Writes(rec, s, NoDetails)
  BY <1>1, <1>2, NothingKnown, RecWrites
<1>4. /\ attempt' = attempt /\ returns' = returns
      /\ UNCHANGED <<now, listing, displaced>>
  BY DEF Stop
<1>5. Attends(s) /\ (attempt'.number = 0 => attempt' = NoAttempt)
  BY <1>2, <1>4, ReturnsBound, PlainAttends
<1> QED
  BY <1>2, <1>3, <1>5, OtherWrites

LEMMA RequeueKeeps ==
    ASSUME TimesInv, Requeue
    PROVE  TimesInv' /\ Writes(Reset(rec), QUEUED, NoDetails)
<1>1. /\ rec \in Record /\ NoTime <= now /\ Len(rec.mails) <= HistoryLimit
      /\ rec.submitted = 1 /\ Dated(rec.mails, now, RanBy) /\ 1 <= 1
  BY DEF TimesInv, Shapes, Clocks, Sound, Bounded, NoTime
<1>2. /\ Reset(rec) \in Record
      /\ Reset(rec).queued = NoTime /\ Reset(rec).dispatched = NoTime
      /\ Reset(rec).started = NoTime /\ Reset(rec).computed = NoTime
      /\ Reset(rec).finished = NoTime /\ Reset(rec).submitted = rec.submitted
      /\ Reset(rec).mails = rec.mails /\ Reset(rec).number = rec.number
  BY <1>1, TimeSet DEF Reset, Record
<1>3. QUEUED \in Status \ {LAUNCHING} /\ QUEUED \notin Early /\ QUEUED # RUNNING
  BY DEF Status, LAUNCHING, QUEUED, Early, DISPATCHED, SETUP, RUNNING
<1>4. Writes(Reset(rec), QUEUED, NoDetails)
  BY <1>1, <1>2, <1>3, NothingKnown DEF Requeue, Writes, Bounded
<1>5. /\ attempt' = NoAttempt /\ returns' \in 0 .. MaxReturns
      /\ UNCHANGED <<now, listing, displaced>>
  BY Limits, ReturnsBound DEF Requeue
<1>6. Attends(QUEUED) /\ (attempt'.number = 0 => attempt' = NoAttempt)
  BY <1>3, <1>5, PlainAttends
<1> QED
  BY <1>2, <1>3, <1>4, <1>5, <1>6, OtherWrites

LEMMA EndKeeps ==
    ASSUME TimesInv, End
    PROVE  TimesInv' /\ \E s, d : Writes([rec EXCEPT !.status = s], s, d)
<1>1. PICK s \in {FAILED, CANCELED} : Write([rec EXCEPT !.status = s], s, NoDetails)
  BY DEF End
<1> DEFINE m == [rec EXCEPT !.status = s]
<1>2. /\ s \in Status \ {LAUNCHING} /\ s \notin Early /\ s # QUEUED /\ s # RUNNING
  BY DEF Status, LAUNCHING, CANCELED, FAILED, Early, DISPATCHED, SETUP, RUNNING, QUEUED
<1>3. rec \in Record
  BY DEF TimesInv, Clocks, Sound, Bounded
<1>4. /\ m \in Record
      /\ \A f \in {"submitted", "queued", "dispatched", "started", "computed", "finished",
                   "number", "mails"} : m[f] = rec[f]
  BY <1>2, <1>3 DEF Record
<1>5. Writes(m, s, NoDetails)
  <2> HIDE DEF m
  <2>1. Write(m, s, NoDetails)
    BY <1>1 DEF m
  <2> QED
    BY <1>2, <1>4, <2>1, NothingKnown DEF TimesInv, Shapes, Clocks, Sound, Bounded, Writes
<1>6. /\ attempt' = attempt /\ returns' = returns
      /\ UNCHANGED <<now, listing, displaced>>
  BY DEF End
<1>7. Attends(s) /\ (attempt'.number = 0 => attempt' = NoAttempt)
  BY <1>2, <1>6, ReturnsBound, PlainAttends
<1>8. m.number = rec.number
  BY <1>4
<1> HIDE DEF m
<1>9. TimesInv'
  BY <1>2, <1>5, <1>7, <1>8, OtherWrites
<1> QED
  BY <1>5, <1>9 DEF m

LEMMA RecoverKeeps ==
    ASSUME TimesInv, Recover
    PROVE  TimesInv' /\ \E s, d : Writes(rec, s, d)
<1>1. PICK computed \in Known(attempt.ended) :
        Write(rec, RECOVERING, [NoDetails EXCEPT !.computed = computed])
  BY DEF Recover
<1> DEFINE d == [NoDetails EXCEPT !.computed = computed]
<1>2. /\ RECOVERING \in Status \ {LAUNCHING} /\ RECOVERING \notin Early
      /\ RECOVERING # QUEUED /\ RECOVERING # RUNNING
  BY DEF Status, LAUNCHING, RECOVERING, Early, DISPATCHED, SETUP, RUNNING, QUEUED
<1>3. /\ attempt.ended \in Times /\ NoTime <= now /\ attempt.ended <= now
  BY DEF TimesInv, Shapes, Clocks, AttemptRecord, NoTime
<1>4. d \in Details /\ d.started <= now /\ d.computed <= now
  BY <1>3, TimeSet DEF Known, Details, NoDetails
<1>5. Writes(rec, RECOVERING, d)
  BY <1>1, <1>2, <1>4, RecWrites
<1>6. /\ attempt' = attempt /\ returns' = returns
      /\ UNCHANGED <<now, listing, displaced>>
  BY DEF Recover
<1>7. Attends(RECOVERING) /\ (attempt'.number = 0 => attempt' = NoAttempt)
  BY <1>2, <1>6, ReturnsBound, PlainAttends
<1> HIDE DEF d
<1> QED
  BY <1>2, <1>5, <1>7, OtherWrites

\* Time passes.
LEMMA TickKeeps ==
    ASSUME TimesInv, Tick
    PROVE  TimesInv'
<1>1. /\ now' = now + 1 /\ now < MaxTime /\ now \in 1 .. MaxTime /\ MaxTime \in Nat
      /\ UNCHANGED <<file, rec, listing, attempt, sending, returns, mails, displaced>>
  BY Limits DEF Tick, TimesInv, Shapes
<1>2. \A x \in Times : x <= now => x <= now'
  BY <1>1, TimeSet
<1>3. \A ms \in Seq(Mail) : Dated(ms, now, RanBy) => Dated(ms, now', RanBy')
  <2> SUFFICES ASSUME NEW ms \in Seq(Mail), Dated(ms, now, RanBy), NEW i \in DOMAIN ms
               PROVE  /\ ms[i].at <= now'
                      /\ ms[i].status = RUNNING => ms[i].at <= RanBy'
    BY DEF Dated
  <2>1. ms[i] \in Mail
    BY LenProperties, ElementOfSeq
  <2>2. ms[i].at \in Times
    BY <2>1 DEF Mail
  <2> QED
    BY <1>1, <1>2, <2>2 DEF Dated, RanBy
<1>4. rec \in Record /\ listing \in Record /\ file.mails \in Seq(Mail)
  BY DEF TimesInv, Shapes, Clocks, Sound, Bounded
<1>5. Sound(rec, now') /\ Sound(listing, now')
  <2> SUFFICES ASSUME NEW m \in Record, Sound(m, now) PROVE Sound(m, now')
    BY <1>4 DEF TimesInv, Clocks
  <2>1. /\ m.queued \in Times /\ m.dispatched \in Times /\ m.started \in Times
        /\ m.computed \in Times /\ m.finished \in Times
    BY DEF Record
  <2> QED
    BY <1>2, <2>1 DEF Sound, Bounded
<1>6. sending # NoMail => sending.at <= now' /\ (sending.status = RUNNING => sending.at <= RanBy')
  <2> SUFFICES ASSUME sending # NoMail
               PROVE  sending.at <= now' /\ (sending.status = RUNNING => sending.at <= RanBy')
    OBVIOUS
  <2>1. sending.at \in Times
    BY DEF TimesInv, Shapes, Mail
  <2> QED
    BY <1>1, <1>2, <2>1 DEF TimesInv, Clocks, RanBy
<1>7. /\ attempt.dispatched <= now' /\ attempt.began <= now' /\ attempt.ended <= now'
      /\ attempt.ran <= now'
  BY <1>2 DEF TimesInv, Shapes, Clocks, AttemptRecord
<1>8. Dated(rec.mails, now', RanBy') /\ Dated(listing.mails, now', RanBy')
      /\ Dated(file.mails, now', RanBy')
  <2>1. rec.mails \in Seq(Mail) /\ listing.mails \in Seq(Mail)
    BY <1>4 DEF Record
  <2> QED
    BY <1>3, <1>4, <2>1 DEF TimesInv, Clocks
<1>9. Clocks'
  BY <1>1, <1>5, <1>6, <1>7, <1>8 DEF Clocks
<1>10. Shapes'
  BY <1>1 DEF TimesInv, Shapes
<1>11. Attempts'
  BY <1>1 DEF TimesInv, Attempts, Fits
<1> QED
  BY <1>9, <1>10, <1>11 DEF TimesInv

LEMMA ComputeKeeps ==
    ASSUME TimesInv, Compute
    PROVE  TimesInv'
<1>1. /\ attempt # NoAttempt /\ attempt \in AttemptRecord /\ now \in Times /\ now <= now
      /\ \/ attempt' = [attempt EXCEPT !.began = now]
         \/ attempt' = [attempt EXCEPT !.ended = now]
      /\ UNCHANGED <<now, file, rec, listing, sending, returns, mails, displaced>>
  BY DEF Compute, TimesInv, Shapes, Times, NoTime
<1>2. /\ attempt' \in AttemptRecord
      /\ attempt'.number = attempt.number /\ attempt'.dispatched = attempt.dispatched
      /\ attempt'.ran = attempt.ran
      /\ attempt'.began \in {attempt.began, now} /\ attempt'.ended \in {attempt.ended, now}
  BY <1>1 DEF AttemptRecord
<1>3. attempt.number # 0 /\ file.status # QUEUED
  BY <1>1 DEF TimesInv, Attempts
<1>4. RanBy' = RanBy
  BY <1>1, <1>2 DEF RanBy
<1>5. Clocks'
  BY <1>1, <1>2, <1>4 DEF TimesInv, Clocks
<1>6. Attempts'
  BY <1>1, <1>2, <1>3 DEF TimesInv, Attempts, Fits
<1>7. Shapes'
  BY <1>1, <1>2 DEF TimesInv, Shapes
<1> QED
  BY <1>5, <1>6, <1>7 DEF TimesInv

-----------------------------------------------------------------------------
(* The views. *)

LEMMA SameRecord ==
    ASSUME NEW a \in Record, NEW b \in Record, \A f \in DOMAIN a : a[f] = b[f]
    PROVE  a = b
BY DEF Record

LEMMA RepairSound ==
    ASSUME TimesInv, NEW m, Bounded(m, now), m.submitted = 1, Dated(m.mails, now, RanBy),
           m.status \in Terminal => Sound(m, now)
    PROVE  /\ Sound(Repaired(m), now)
           /\ \A f \in DOMAIN m \ {"started", "finished"} : Repaired(m)[f] = m[f]
           /\ DOMAIN m = {"status", "submitted", "queued", "dispatched", "started",
                          "computed", "finished", "number", "requeues", "mails"}
<1> DEFINE r == Repaired(m)
<1>1. m \in Record
  BY DEF Bounded
<1>2. /\ r \in Record
      /\ \A f \in DOMAIN m \ {"started", "finished"} : r[f] = m[f]
      /\ r.finished = IF m.status \in Terminal THEN m.finished ELSE NoTime
      /\ m.status \in Terminal => r.started = m.started
      /\ r.started \in {m.started, NoTime} \cup RunningMails(m)
  BY <1>1, RepairedOf
<1> HIDE DEF r
<1>3. DOMAIN m = {"status", "submitted", "queued", "dispatched", "started", "computed",
                  "finished", "number", "requeues", "mails"}
  BY <1>1 DEF Record
<1>4. \A u \in RunningMails(m) : u <= now
  BY MailsBound
<1>5. NoTime <= now
  BY DEF TimesInv, Shapes, NoTime
<1>6. r.started <= now /\ r.finished <= now
  BY <1>2, <1>4, <1>5 DEF Bounded
<1>7. Bounded(r, now)
  BY <1>2, <1>3, <1>6 DEF Bounded
<1>8. Sound(r, now)
  BY <1>2, <1>3, <1>7 DEF Sound
<1> QED
  BY <1>2, <1>3, <1>8 DEF r

LEMMA ListReadKeeps ==
    ASSUME TimesInv, ListRead
    PROVE  TimesInv'
<1>1. /\ listing' = rec
      /\ UNCHANGED <<now, file, rec, attempt, sending, returns, mails, displaced>>
  BY DEF ListRead
<1>2. rec.number <= rec.number
  BY DEF TimesInv, Clocks, Sound, Bounded, Record
<1> QED
  BY <1>1, <1>2 DEF TimesInv, Shapes, Clocks, RanBy, Attempts, Fits

LEMMA ViewKeeps ==
    ASSUME TimesInv, View
    PROVE  TimesInv'
<1>1. /\ rec' = Repaired(rec)
      /\ UNCHANGED <<now, file, listing, attempt, sending, returns, mails, displaced>>
  BY DEF View
<1>2. /\ Sound(rec', now)
      /\ \A f \in DOMAIN rec \ {"started", "finished"} : rec'[f] = rec[f]
      /\ DOMAIN rec = {"status", "submitted", "queued", "dispatched", "started",
                       "computed", "finished", "number", "requeues", "mails"}
  BY <1>1, RepairSound DEF TimesInv, Shapes, Clocks, Sound
<1>3. rec \in Record
  BY DEF TimesInv, Clocks, Sound, Bounded
<1>4. Shapes'
  BY <1>1, <1>2 DEF TimesInv, Shapes
<1>5. Clocks'
  BY <1>1, <1>2 DEF TimesInv, Clocks, RanBy
<1>6. Fits(rec)'
  <2> SUFFICES ASSUME file.status \in Early, rec.number = attempt.number
               PROVE  rec'.started = rec.started /\ ~StaleStart(rec')
    BY <1>1, <1>2 DEF TimesInv, Attempts, Fits
  <2>1. rec.status = file.status /\ ~StaleStart(rec)
        /\ (rec.status = RUNNING => rec.started # NoTime)
    BY DEF TimesInv, Shapes, Attempts, Fits
  <2>2. /\ rec'.started # rec.started => StaleStart(rec) \/ rec.started = NoTime
        /\ rec'.started # rec.started => rec'.started = NoTime \/ rec.status = RUNNING
    BY <1>1, <1>3, RepairedOf
  <2>3. rec'.started = rec.started
    BY <2>1, <2>2
  <2> QED
    BY <1>2, <2>1, <2>3 DEF StaleStart
<1>7. Attempts'
  BY <1>1, <1>2, <1>6 DEF TimesInv, Attempts, Fits
<1> QED
  BY <1>4, <1>5, <1>7 DEF TimesInv

\* A listing repairs a record with the status of now: what it saves is sound, and if it
\* is of the attempt at work and that runs, then with a start that a mail has shown.
LEMMA ListRepairKeeps ==
    ASSUME TimesInv, ListRepair
    PROVE  TimesInv'
<1> DEFINE m == [listing EXCEPT !.status = file.status]
           r == Repaired(m)
<1>1. /\ listing # NoRecord /\ listing' = NoRecord
      /\ rec' = IF r # m THEN r ELSE rec
      /\ displaced' \in BOOLEAN
      /\ UNCHANGED <<now, file, attempt, sending, returns, mails>>
  BY DEF ListRepair
<1>2. /\ listing \in Record /\ file.status \in Status /\ file.status # LAUNCHING
      /\ Sound(listing, now) /\ listing.submitted = 1
  BY <1>1 DEF TimesInv, Shapes, Clocks, Sound, Bounded
<1>3. /\ m \in Record /\ m.status = file.status
      /\ \A f \in DOMAIN listing \ {"status"} : m[f] = listing[f]
      /\ DOMAIN listing = {"status", "submitted", "queued", "dispatched", "started",
                           "computed", "finished", "number", "requeues", "mails"}
  BY <1>2 DEF Record
<1> HIDE DEF m
<1>4. Bounded(m, now) /\ Dated(m.mails, now, RanBy) /\ m.submitted = 1
  BY <1>2, <1>3 DEF TimesInv, Clocks, Sound, Bounded
<1>5. /\ r \in Record
      /\ \A f \in DOMAIN m \ {"started", "finished"} : r[f] = m[f]
      /\ r.finished = IF m.status \in Terminal THEN m.finished ELSE NoTime
      /\ m.status \in Terminal => r.started = m.started
      /\ m.status \in {QUEUED} \cup Early => ~StaleStart(r)
      /\ r.started \in {m.started, NoTime} \cup RunningMails(m)
      /\ r.started # m.started => StaleStart(m) \/ m.started = NoTime
  BY <1>3, RepairedOf
<1>6. DOMAIN r = DOMAIN m /\ DOMAIN m = DOMAIN listing
  BY <1>3, <1>5 DEF Record
<1>7. m.status \in Terminal => r = m
  <2> HIDE DEF r
  <2> QED
    BY <1>3, <1>5, <1>6, SameRecord
<1>8. m.status \notin Terminal => Sound(r, now)
  BY <1>4, RepairSound
<1> HIDE DEF r
<1>9. /\ Sound(rec', now) /\ rec'.status = file.status /\ rec'.submitted = 1
      /\ rec'.number \in {rec.number, listing.number}
      /\ rec'.mails \in {rec.mails, listing.mails}
  BY <1>1, <1>3, <1>4, <1>5, <1>6, <1>7, <1>8 DEF TimesInv, Shapes, Clocks
<1>10. /\ NoRecord \in Record /\ NoRecord.mails = <<>> /\ NoRecord.number = 0
       /\ Sound(NoRecord, now)
  <2>1. NoRecord \in Record
    BY TimeSet DEF NoRecord, Record, NoTime
  <2>2. Len(NoRecord.mails) <= HistoryLimit
    BY Limits DEF NoRecord
  <2>3. NoRecord.status \notin Terminal
    BY DEF NoRecord, Absent, Terminal, FINISHED, FAILED, STOPPED, CANCELED
  <2> QED
    BY <2>1, <2>2, <2>3 DEF Sound, Bounded, NoRecord, NoTime, TimesInv, Shapes
<1>11. Dated(<<>>, now, RanBy)
  BY DEF Dated
<1>12. Shapes'
  BY <1>1, <1>9 DEF TimesInv, Shapes
<1>13. Clocks'
  BY <1>1, <1>9, <1>10, <1>11 DEF TimesInv, Clocks, RanBy
<1>14. Fits(rec)'
  <2> SUFFICES ASSUME file.status \in Early, rec'.number = attempt.number, r # m
               PROVE  Fits(rec)'
    BY <1>1 DEF TimesInv, Attempts, Fits
  <2>1. rec' = r /\ listing.number = attempt.number
    BY <1>1, <1>3, <1>5, <1>6
  <2>2. /\ attempt.dispatched <= listing.dispatched /\ ~StaleStart(listing)
        /\ listing.dispatched # NoTime /\ listing.status \in Early
        /\ file.status = RUNNING => listing.started <= attempt.ran
    BY <2>1 DEF TimesInv, Attempts, Fits
  <2>3. ~StaleStart(m) /\ ~StaleStart(r) /\ r.dispatched = listing.dispatched
    BY <1>3, <1>5, <1>6, <2>2 DEF StaleStart
  <2>4. m.finished = NoTime /\ r.finished = NoTime
    <3>1. listing.status \notin Terminal /\ file.status \notin Terminal
      BY <2>2 DEF Early, DISPATCHED, SETUP, RUNNING, Terminal, FINISHED, FAILED, STOPPED,
                  CANCELED
    <3> QED
      BY <1>2, <1>3, <1>5, <3>1 DEF Sound
  <2>5. r.started # NoTime
    <3> SUFFICES ASSUME r.started = NoTime PROVE FALSE
      OBVIOUS
    <3>1. r.started = m.started
      BY <1>5, <2>3
    <3> QED
      BY <1>3, <1>5, <1>6, <2>4, <3>1, SameRecord
  <2>6. file.status = RUNNING => r.started <= attempt.ran
    <3>1. \A u \in RunningMails(m) : u <= RanBy
      BY <1>4, MailsBound
    <3>2. m.started = listing.started
      BY <1>3
    <3> QED
      BY <1>5, <2>2, <2>5, <3>1, <3>2 DEF RanBy
  <2> QED
    BY <1>1, <1>9, <2>1, <2>2, <2>3, <2>5, <2>6 DEF Fits
<1>15. Attempts'
  <2>1. rec.number \in Nat /\ listing.number \in Nat /\ 0 <= rec'.number
    BY <1>9 DEF TimesInv, Clocks, Sound, Bounded, Record
  <2>2. Fits(listing)'
    BY <1>1, <1>10 DEF Fits, TimesInv, Attempts
  <2> QED
    BY <1>1, <1>10, <1>14, <2>1, <2>2 DEF TimesInv, Attempts
<1> QED
  BY <1>12, <1>13, <1>15 DEF TimesInv

-----------------------------------------------------------------------------
(* Mails. *)

\* Of a history the last mails are kept, all of them if they are no more than that.
LEMMA LastOfSeq ==
    ASSUME NEW s \in Seq(Mail)
    PROVE  /\ LastOf(s) \in Seq(Mail)
           /\ Len(LastOf(s)) = IF Len(s) <= HistoryLimit THEN Len(s) ELSE HistoryLimit
           /\ \A i \in 1 .. Len(LastOf(s)) :
                 LastOf(s)[i] = s[i + Len(s) - Len(LastOf(s))]
           /\ \A i \in 1 .. Len(LastOf(s)) : i + Len(s) - Len(LastOf(s)) \in DOMAIN s
<1> DEFINE k == Later(1, Len(s) - HistoryLimit + 1)
<1>1. /\ Len(s) \in Nat /\ HistoryLimit \in Nat /\ HistoryLimit > 0
      /\ DOMAIN s = 1 .. Len(s) /\ \A i \in 1 .. Len(s) : s[i] \in Mail
  BY Limits, LenProperties, ElementOfSeq
<1>2. /\ k \in Nat /\ k >= 1 /\ k = IF Len(s) <= HistoryLimit THEN 1 ELSE Len(s) - HistoryLimit + 1
  BY <1>1 DEF Later
<1>3. LastOf(s) = SubSeq(s, k, Len(s))
  BY DEF LastOf
<1> HIDE DEF k
<1>4. /\ LastOf(s) \in Seq(Mail)
      /\ Len(LastOf(s)) = IF k <= Len(s) THEN Len(s) - k + 1 ELSE 0
  BY <1>1, <1>2, <1>3, SubSeqProperties
<1>5. \A i \in 1 .. Len(s) - k + 1 : LastOf(s)[i] = s[k + i - 1]
  BY <1>1, <1>2, <1>3
<1>6. Len(LastOf(s)) = IF Len(s) <= HistoryLimit THEN Len(s) ELSE HistoryLimit
  <2>1. CASE Len(s) <= HistoryLimit
    <3>1. k = 1 /\ (k <= Len(s) \/ Len(s) = 0)
      BY <1>1, <1>2, <2>1
    <3> QED
      BY <1>1, <1>4, <2>1, <3>1
  <2>2. CASE ~(Len(s) <= HistoryLimit)
    <3>1. k = Len(s) - HistoryLimit + 1 /\ k <= Len(s)
      BY <1>1, <1>2, <2>2
    <3> QED
      BY <1>1, <1>4, <2>2, <3>1
  <2> QED
    BY <2>1, <2>2
<1>7. \A i \in 1 .. Len(LastOf(s)) :
         /\ LastOf(s)[i] = s[i + Len(s) - Len(LastOf(s))]
         /\ i + Len(s) - Len(LastOf(s)) \in DOMAIN s
  <2> SUFFICES ASSUME NEW i \in 1 .. Len(LastOf(s))
               PROVE  /\ LastOf(s)[i] = s[i + Len(s) - Len(LastOf(s))]
                      /\ i + Len(s) - Len(LastOf(s)) \in DOMAIN s
    OBVIOUS
  <2>1. k <= Len(s)
    BY <1>1, <1>2, <1>4
  <2>2. Len(LastOf(s)) = Len(s) - k + 1
    BY <1>4, <2>1
  <2>3. /\ i + Len(s) - Len(LastOf(s)) = k + i - 1
        /\ k + i - 1 \in 1 .. Len(s) /\ i \in 1 .. Len(s) - k + 1
    BY <1>1, <1>2, <2>1, <2>2
  <2> QED
    BY <1>1, <1>5, <2>3
<1> QED
  BY <1>4, <1>6, <1>7

\* One mail more for the history that is kept is one mail more for all of them.
LEMMA LastOfAppend ==
    ASSUME NEW s \in Seq(Mail), NEW x \in Mail
    PROVE  LastOf(Append(LastOf(s), x)) = LastOf(Append(s, x))
<1> DEFINE h == LastOf(s)
           a == Append(h, x)
           b == Append(s, x)
<1>1. /\ h \in Seq(Mail)
      /\ Len(h) = IF Len(s) <= HistoryLimit THEN Len(s) ELSE HistoryLimit
      /\ \A i \in 1 .. Len(h) : h[i] = s[i + Len(s) - Len(h)]
  BY LastOfSeq
<1> HIDE DEF h
<1>2. /\ a \in Seq(Mail) /\ Len(a) = Len(h) + 1 /\ a[Len(h) + 1] = x
      /\ \A i \in 1 .. Len(h) : a[i] = h[i]
  BY <1>1, AppendProperties
<1>3. /\ b \in Seq(Mail) /\ Len(b) = Len(s) + 1 /\ b[Len(s) + 1] = x
      /\ \A i \in 1 .. Len(s) : b[i] = s[i]
  BY AppendProperties
<1> HIDE DEF a, b
<1> DEFINE la == LastOf(a)
           lb == LastOf(b)
<1>4. /\ la \in Seq(Mail)
      /\ Len(la) = IF Len(a) <= HistoryLimit THEN Len(a) ELSE HistoryLimit
      /\ \A i \in 1 .. Len(la) : la[i] = a[i + Len(a) - Len(la)]
  BY <1>2, LastOfSeq
<1>5. /\ lb \in Seq(Mail)
      /\ Len(lb) = IF Len(b) <= HistoryLimit THEN Len(b) ELSE HistoryLimit
      /\ \A i \in 1 .. Len(lb) : lb[i] = b[i + Len(b) - Len(lb)]
  BY <1>3, LastOfSeq
<1> HIDE DEF la, lb
<1>6. /\ Len(s) \in Nat /\ HistoryLimit \in Nat /\ HistoryLimit > 0 /\ Len(h) \in Nat
      /\ Len(la) \in Nat /\ Len(lb) \in Nat
  BY <1>1, <1>4, <1>5, Limits, LenProperties
<1>7. Len(la) = Len(lb) /\ Len(la) <= Len(h) + 1 /\ Len(h) <= Len(s)
  BY <1>1, <1>2, <1>3, <1>4, <1>5, <1>6
<1>8. \A i \in 1 .. Len(la) : la[i] = lb[i]
  <2> SUFFICES ASSUME NEW i \in 1 .. Len(la) PROVE la[i] = lb[i]
    OBVIOUS
  <2> DEFINE j == i + Len(a) - Len(la)
             k == i + Len(b) - Len(lb)
  <2>1. la[i] = a[j] /\ lb[i] = b[k]
    BY <1>4, <1>5, <1>7
  <2>2. /\ j \in 1 .. Len(h) + 1 /\ k = j + Len(s) - Len(h)
    BY <1>2, <1>3, <1>6, <1>7
  <2> HIDE DEF j, k
  <2>3. CASE j = Len(h) + 1
    BY <1>2, <1>3, <1>6, <2>1, <2>2, <2>3
  <2>4. CASE j \in 1 .. Len(h)
    <3>1. k \in 1 .. Len(s)
      BY <1>6, <1>7, <2>2, <2>4
    <3>2. a[j] = s[k]
      BY <1>1, <1>2, <2>2, <2>4
    <3> QED
      BY <1>3, <2>1, <3>1, <3>2
  <2> QED
    BY <1>6, <2>2, <2>3, <2>4
<1>9. la = lb
  BY <1>4, <1>5, <1>7, <1>8, SeqEqual
<1> QED
  BY <1>9 DEF la, lb, a, b, h

\* What goes to the stores when a mail is out.
LEMMA Remembered ==
    ASSUME TimesInv, Remember
    PROVE  LET log == LastOf(Append(rec.mails, sending)) IN
           /\ sending \in Mail
           /\ rec' = [rec EXCEPT !.mails = log] /\ file' = [file EXCEPT !.mails = log]
           /\ log \in Seq(Mail) /\ Len(log) <= HistoryLimit /\ log # <<>>
           /\ Dated(log, now, RanBy)
<1> DEFINE all == Append(rec.mails, sending)
           log == LastOf(all)
<1>1. /\ sending \in Mail /\ rec.mails \in Seq(Mail)
      /\ sending # NoMail
      /\ rec' = [rec EXCEPT !.mails = log] /\ file' = [file EXCEPT !.mails = log]
  BY DEF Remember, TimesInv, Shapes, Clocks, Sound, Bounded, Record
<1>2. /\ all \in Seq(Mail) /\ Len(all) = Len(rec.mails) + 1
      /\ all[Len(rec.mails) + 1] = sending
      /\ \A i \in 1 .. Len(rec.mails) : all[i] = rec.mails[i]
      /\ Len(rec.mails) \in Nat
  BY <1>1, AppendProperties, LenProperties
<1>3. DOMAIN rec.mails = 1 .. Len(rec.mails) /\ DOMAIN all = 1 .. Len(all)
  BY <1>1, <1>2, LenProperties
<1> HIDE DEF all
<1>4. /\ log \in Seq(Mail)
      /\ Len(log) = IF Len(all) <= HistoryLimit THEN Len(all) ELSE HistoryLimit
      /\ \A i \in 1 .. Len(log) : log[i] = all[i + Len(all) - Len(log)]
      /\ \A i \in 1 .. Len(log) : i + Len(all) - Len(log) \in DOMAIN all
  BY <1>2, LastOfSeq
<1> HIDE DEF log
<1>5. Dated(all, now, RanBy)
  <2>1. Dated(rec.mails, now, RanBy) /\ sending.at <= now
        /\ (sending.status = RUNNING => sending.at <= RanBy)
    BY <1>1 DEF TimesInv, Clocks
  <2>2. \A i \in DOMAIN all : i = Len(rec.mails) + 1 \/ i \in 1 .. Len(rec.mails)
    BY <1>2, <1>3
  <2> QED
    BY <1>2, <1>3, <2>1, <2>2 DEF Dated
<1>6. Dated(log, now, RanBy)
  <2>1. DOMAIN log = 1 .. Len(log)
    BY <1>4, LenProperties
  <2> QED
    BY <1>4, <1>5, <2>1 DEF Dated
<1>7. Len(log) <= HistoryLimit /\ Len(log) # 0
  BY <1>2, <1>4, Limits
<1>8. log # <<>>
  BY <1>7
<1> QED
  BY <1>1, <1>4, <1>6, <1>7, <1>8 DEF log, all

LEMMA RememberKeeps ==
    ASSUME TimesInv, Remember
    PROVE  TimesInv'
<1> DEFINE log == LastOf(Append(rec.mails, sending))
<1>1. /\ rec' = [rec EXCEPT !.mails = log] /\ file' = [file EXCEPT !.mails = log]
      /\ log \in Seq(Mail) /\ Len(log) <= HistoryLimit /\ Dated(log, now, RanBy)
  BY Remembered
<1> HIDE DEF log
<1>2. /\ sending' = NoMail
      /\ UNCHANGED <<now, listing, attempt, returns, mails, displaced>>
      /\ rec \in Record /\ file \in [status : Status \ {LAUNCHING}, mails : Seq(Mail)]
  BY DEF Remember, TimesInv, Shapes, Clocks, Sound, Bounded
<1>3. /\ rec' \in Record /\ rec'.mails = log
      /\ \A f \in {"status", "submitted", "queued", "dispatched", "started", "computed",
                   "finished", "number"} : rec'[f] = rec[f]
  BY <1>1, <1>2 DEF Record
<1>4. /\ file' \in [status : Status \ {LAUNCHING}, mails : Seq(Mail)]
      /\ file'.status = file.status /\ file'.mails = log
  BY <1>1, <1>2
<1>5. Shapes'
  BY <1>1, <1>2, <1>3, <1>4 DEF TimesInv, Shapes
<1>6. Clocks'
  BY <1>1, <1>2, <1>3, <1>4 DEF TimesInv, Clocks, Sound, Bounded, RanBy
<1>7. Attempts'
  BY <1>2, <1>3, <1>4 DEF TimesInv, Attempts, Fits, StaleStart
<1> QED
  BY <1>5, <1>6, <1>7 DEF TimesInv

-----------------------------------------------------------------------------
(* Every behaviour. *)

LEMMA TimesStart == Init => TimesInv /\ Mailed
<1> SUFFICES ASSUME Init PROVE TimesInv /\ Mailed
  OBVIOUS
<1>0. 1 \in Times /\ NoTime \in Times /\ NoTime = 0 /\ 1 \in 1 .. MaxTime
      /\ 0 \in 0 .. MaxReturns /\ 0 <= HistoryLimit
  BY Limits DEF Times, NoTime
<1>1. /\ NoRecord \in Record /\ NoAttempt \in AttemptRecord
      /\ NoRecord.mails = <<>> /\ NoRecord.number = 0 /\ NoRecord.status = Absent
      /\ NoAttempt.number = 0
  BY <1>0 DEF NoRecord, Record, NoAttempt, AttemptRecord
<1>2. /\ QUEUED \in Status \ {LAUNCHING} /\ QUEUED \notin Early /\ QUEUED \notin Terminal
      /\ QUEUED \notin {DISPATCHED, SETUP, RUNNING} /\ Absent \notin Terminal
  BY DEF Status, QUEUED, LAUNCHING, Early, DISPATCHED, SETUP, RUNNING, Terminal, FINISHED,
         FAILED, STOPPED, CANCELED, Absent
<1>3. /\ rec \in Record /\ rec.status = QUEUED /\ rec.submitted = 1 /\ rec.queued = 1
      /\ rec.dispatched = NoTime /\ rec.started = NoTime /\ rec.computed = NoTime
      /\ rec.finished = NoTime /\ rec.number = 0 /\ rec.mails = <<>>
  <2>1. rec = [NoRecord EXCEPT !.status = QUEUED, !.submitted = 1, !.queued = 1]
    BY DEF Init
  <2>2. rec \in Record
    BY <1>0, <1>1, <1>2, <2>1 DEF Record
  <2>3. /\ rec.status = QUEUED /\ rec.submitted = 1 /\ rec.queued = 1
        /\ rec.dispatched = NoRecord.dispatched /\ rec.started = NoRecord.started
        /\ rec.computed = NoRecord.computed /\ rec.finished = NoRecord.finished
        /\ rec.number = NoRecord.number /\ rec.mails = NoRecord.mails
    BY <1>1, <2>1 DEF Record
  <2> QED
    BY <1>1, <2>2, <2>3 DEF NoRecord
<1>4. Shapes
  <2>1. file \in [status : Status \ {LAUNCHING}, mails : Seq(Mail)]
        /\ file.mails = <<>> /\ file.status = QUEUED
    BY <1>2, EmptySeq DEF Init
  <2>2. mails \in Seq(Mail) /\ displaced \in BOOLEAN
    BY EmptySeq DEF Init
  <2> QED
    BY <1>0, <1>1, <1>3, <2>1, <2>2 DEF Init, Shapes
<1>5. Sound(rec, now) /\ Sound(listing, now)
  BY <1>0, <1>1, <1>2, <1>3 DEF Init, Sound, Bounded, NoRecord
<1>6. Clocks
  BY <1>0, <1>3, <1>5 DEF Init, Clocks, Dated, NoAttempt, NoRecord
<1>7. Attempts
  BY <1>1, <1>2, <1>3 DEF Init, Attempts, Fits
<1>8. LastOf(<<>>) = <<>>
  <2>1. LastOf(<<>>) \in Seq(Mail) /\ Len(LastOf(<<>>)) = 0
    <3>1. <<>> \in Seq(Mail) /\ Len(<<>>) = 0
      BY EmptySeq
    <3> QED
      BY <1>0, <3>1, LastOfSeq
  <2> QED
    BY <2>1, EmptySeq
<1>9. Mailed
  BY <1>1, <1>3, <1>8 DEF Init, Mailed
<1> QED
  BY <1>4, <1>6, <1>7, <1>9 DEF TimesInv

\* The operations write over a record with the number and the mails of the one there is.
Operates == Dispatch \/ Stop \/ Requeue \/ End \/ Recover \/ \E s \in AgentStatuses : Report(s)

LEMMA OperationsWrite ==
    ASSUME TimesInv, Operates
    PROVE  /\ \E m, s, d : Writes(m, s, d) /\ m.mails = rec.mails
           /\ UNCHANGED <<listing, displaced>>
<1>1. UNCHANGED <<listing, displaced>>
  BY DEF Operates, Dispatch, Stop, Requeue, End, Recover, Report
<1>2. rec \in Record
  BY DEF TimesInv, Clocks, Sound, Bounded
<1>3. CASE Dispatch
  BY <1>1, <1>3, DispatchKeeps
<1>4. CASE Stop
  BY <1>1, <1>4, StopKeeps
<1>5. CASE Requeue
  <2>1. Reset(rec).mails = rec.mails
    BY <1>2 DEF Reset, Record
  <2> QED
    BY <1>1, <1>5, <2>1, RequeueKeeps
<1>6. CASE End
  <2>1. \A s : [rec EXCEPT !.status = s].mails = rec.mails
    BY <1>2 DEF Record
  <2> QED
    <3>1. PICK s, d : Writes([rec EXCEPT !.status = s], s, d)
      BY <1>6, EndKeeps
    <3>2. [rec EXCEPT !.status = s].mails = rec.mails
      BY <2>1
    <3> QED
      BY <1>1, <3>1, <3>2
<1>7. CASE Recover
  BY <1>1, <1>7, RecoverKeeps
<1>8. ASSUME NEW s \in AgentStatuses, Report(s)
      PROVE  \E m, s_1, d : Writes(m, s_1, d) /\ m.mails = rec.mails
  BY <1>8, ReportWrites
<1> QED
  BY <1>1, <1>3, <1>4, <1>5, <1>6, <1>7, <1>8 DEF Operates

LEMMA TimesKept ==
    ASSUME TimesInv, [Next]_vars
    PROVE  TimesInv'
<1>1. CASE UNCHANGED vars
  BY <1>1 DEF vars, TimesInv, Shapes, Clocks, Attempts, RanBy, Fits
<1>2. CASE Next
  BY <1>2, DispatchKeeps, StopKeeps, RequeueKeeps, EndKeeps, RecoverKeeps, ReportKeeps,
     RememberKeeps, ListReadKeeps, ListRepairKeeps, ViewKeeps, TickKeeps, ComputeKeeps
     DEF Next
<1> QED
  BY <1>1, <1>2

LEMMA MailedKept ==
    ASSUME TimesInv, Mailed, [Next]_vars
    PROVE  Mailed'
<1>1. mails \in Seq(Mail) /\ file.mails \in Seq(Mail) /\ rec \in Record
  BY DEF TimesInv, Shapes, Clocks, Sound, Bounded
<1>2. CASE Operates
  <2>1. PICK m, s, d : Writes(m, s, d) /\ m.mails = rec.mails
    BY <1>2, OperationsWrite
  <2>2. /\ listing' = listing /\ displaced' = displaced
        /\ file'.mails = file.mails /\ sending = NoMail
        /\ rec'.mails = IF file.mails = <<>> THEN rec.mails ELSE file.mails
        /\ \/ sending' # NoMail /\ mails' = Append(mails, sending')
           \/ sending' = NoMail /\ mails' = mails
    <3>1. Notified(file.status, s) => sending' # NoMail
      <4>1. [status |-> s, at |-> now] # NoMail
        BY <2>1 DEF Writes, NoMail, Status, Absent, LAUNCHING, QUEUED, DISPATCHED, SETUP,
                    RUNNING, RECOVERING, FINISHED, FAILED, STOP_REQUESTED, STOPPED,
                    NOT_FOUND, UNKNOWN, CANCELED
      <4> QED
        BY <2>1, <4>1, WriteFile
    <3>2. UNCHANGED <<listing, displaced>>
      BY <1>2, OperationsWrite
    <3> QED
      BY <2>1, <3>1, <3>2, WriteFile, WriteRecord
  <2>3. ~displaced => rec'.mails = file.mails /\ file.mails = LastOf(mails)
                      /\ (file.mails = <<>> => listing.mails = <<>>)
    BY <2>2 DEF Mailed
  <2> QED
    BY <1>1, <2>2, <2>3 DEF Mailed
<1>3. CASE Remember
  <2> DEFINE log == LastOf(Append(rec.mails, sending))
  <2>1. /\ sending \in Mail /\ file' = [file EXCEPT !.mails = log] /\ log # <<>>
        /\ sending # NoMail /\ sending' = NoMail /\ mails' = mails /\ displaced' = displaced
        /\ file \in [status : Status \ {LAUNCHING}, mails : Seq(Mail)]
    BY <1>3, Remembered DEF Remember, TimesInv, Shapes
  <2>2. file'.mails = log
    BY <2>1
  <2>3. ASSUME ~displaced PROVE log = LastOf(mails)
    <3>1. PICK before \in Seq(Mail) : mails = Append(before, sending) /\ rec.mails = LastOf(before)
      BY <2>1, <2>3 DEF Mailed
    <3> QED
      BY <2>1, <3>1, LastOfAppend
  <2> HIDE DEF log
  <2> QED
    BY <2>1, <2>2, <2>3 DEF Mailed
<1>4. CASE ListRead
  BY <1>4 DEF ListRead, Mailed
<1>5. CASE ListRepair
  <2> DEFINE m == [listing EXCEPT !.status = file.status]
             r == Repaired(m)
  <2>1. /\ rec' = IF r # m THEN r ELSE rec
        /\ displaced' = (displaced \/ (r # m /\ sending # NoMail))
        /\ listing' = NoRecord
        /\ UNCHANGED <<now, file, attempt, sending, returns, mails>>
    BY <1>5 DEF ListRepair
  <2>2. r.mails = listing.mails
    <3>1. listing \in Record /\ file.status \in Status
      BY DEF TimesInv, Shapes, Clocks, Sound, Bounded
    <3>2. m \in Record /\ m.mails = listing.mails
      BY <3>1 DEF Record
    <3> HIDE DEF m
    <3>3. "mails" \in DOMAIN m \ {"started", "finished"}
      BY <3>2 DEF Record
    <3>4. r["mails"] = m["mails"]
      BY <3>2, <3>3, RepairedOf
    <3> QED
      BY <3>2, <3>4
  <2>3. NoRecord.mails = <<>>
    BY DEF NoRecord
  <2> HIDE DEF r, m
  <2> QED
    BY <2>1, <2>2, <2>3 DEF Mailed
<1>6. CASE View
  <2>1. /\ rec' = Repaired(rec)
        /\ UNCHANGED <<now, file, listing, attempt, sending, returns, mails, displaced>>
    BY <1>6 DEF View
  <2>2. "mails" \in DOMAIN rec \ {"started", "finished"}
    BY <1>1 DEF Record
  <2>3. Repaired(rec)["mails"] = rec["mails"]
    BY <1>1, <2>2, RepairedOf
  <2> QED
    BY <2>1, <2>3 DEF Mailed
<1>7. CASE Tick \/ Compute \/ UNCHANGED vars
  <2>1. UNCHANGED <<file, rec, listing, sending, mails, displaced>>
    BY <1>7 DEF Tick, Compute, vars
  <2> QED
    BY <2>1 DEF Mailed
<1> QED
  BY <1>2, <1>3, <1>4, <1>5, <1>6, <1>7 DEF Next, Operates

LEMMA TimesAlways == Spec => []TimesInv /\ []Mailed
<1>1. TimesInv /\ Mailed /\ [Next]_vars => TimesInv' /\ Mailed'
  BY TimesKept, MailedKept
<1> QED
  BY TimesStart, <1>1, PTL DEF Spec

\* The record, status.json and the copy a listing has are always of the shapes described,
\* the record has an end exactly if the job has ended, and no more mails than may be kept
\* (_apply_lifecycle_metadata, _append_email_notification_record).
THEOREM TimesTypes == Spec => []TimesTypeOK
<1>1. TimesInv => TimesTypeOK
  BY DEF TimesInv, Shapes, Clocks, Sound, Bounded, TimesTypeOK
<1> QED
  BY <1>1, TimesAlways, PTL

\* The start shown for a running job is no start of an attempt before and none after the
\* first report that it runs, whatever starts requeues, hand-backs, mails and listings
\* have left behind (_apply_lifecycle_metadata, _repair_active_lifecycle_metadata).
THEOREM StartsInAttempt == Spec => []StartInAttempt
<1>1. TimesInv => StartInAttempt
  <2> SUFFICES ASSUME TimesInv, file.status = RUNNING, rec.number = attempt.number,
                      StartShown(rec, now) # NoTime
               PROVE  attempt.dispatched <= rec.started /\ rec.started <= attempt.ran
    BY DEF StartInAttempt
  <2>1. /\ attempt.dispatched <= rec.dispatched /\ ~StaleStart(rec) /\ rec.dispatched # NoTime
        /\ rec.started <= attempt.ran
        /\ rec.status = RUNNING => rec.started # NoTime
    BY DEF TimesInv, Attempts, Fits, Early
  <2>2. rec.status = file.status /\ rec.started # NoTime
    BY <2>1 DEF TimesInv, Shapes
  <2>3. rec.started \in Nat /\ rec.dispatched \in Nat /\ attempt.dispatched \in Nat
    BY TimeSet DEF TimesInv, Shapes, Clocks, Sound, Bounded, Record, AttemptRecord
  <2> QED
    BY <2>1, <2>2, <2>3 DEF StaleStart
<1> QED
  BY <1>1, TimesAlways, PTL

\* What a client is shown of a job's wait and of its run never adds up to more than the
\* time since its submission (_compute_job_durations).
THEOREM DurationsAdd == Spec => []DurationsAddUp
<1>1. TimesInv => DurationsAddUp
  <2> SUFFICES ASSUME TimesInv PROVE DurationsAddUp
    OBVIOUS
  <2> DEFINE begin == StartShown(rec, now)
             end == EndShown(rec, now)
             last == Default(rec.computed, end)
  <2>1. /\ rec.submitted = 1 /\ rec.queued \in Nat /\ rec.started \in Nat
        /\ rec.computed \in Nat /\ rec.finished \in Nat /\ now \in Nat /\ now >= 1
        /\ rec.started <= now /\ rec.computed <= now /\ rec.finished <= now
        /\ NoTime = 0
        /\ rec.status \in Terminal =>
              rec.finished # 0 /\ rec.started <= rec.finished /\ rec.computed <= rec.finished
    <3>1. rec \in Record /\ now \in Nat /\ now >= 1 /\ NoTime = 0
      BY DEF TimesInv, Shapes, Clocks, Sound, Bounded, NoTime
    <3>2. /\ rec.queued \in Nat /\ rec.started \in Nat /\ rec.computed \in Nat
          /\ rec.finished \in Nat
      BY <3>1, TimeSet DEF Record
    <3>3. Sound(rec, now) /\ rec.submitted = 1
      BY DEF TimesInv, Shapes, Clocks
    <3> QED
      BY <3>1, <3>2, <3>3 DEF Sound, Bounded
  <2>2. /\ end \in Nat /\ end >= 1 /\ rec.started <= end /\ rec.computed <= end
    BY <2>1 DEF EndShown, Default
  <2>3. begin \in {0, rec.started}
    BY <2>1 DEF StartShown
  <2> HIDE DEF end
  <2>4. last \in Nat /\ last <= end
    BY <2>1, <2>2 DEF Default
  <2> HIDE DEF begin, last
  <2>5. /\ QueueWait(rec, now) = IF rec.queued = 0 \/ begin = 0 THEN 0
                                 ELSE Later(0, rec.started - rec.queued)
        /\ RunDuration(rec, now) = IF begin = 0 THEN 0 ELSE Later(0, last - rec.started)
        /\ TotalDuration(rec, now) = Later(0, end - 1)
    BY <2>1 DEF QueueWait, RunDuration, TotalDuration, begin, last, end
  <2>6. CASE begin = 0
    BY <2>2, <2>5, <2>6 DEF Later, DurationsAddUp
  <2>7. CASE begin # 0
    <3>1. rec.started >= 1
      BY <2>1, <2>3, <2>7
    <3>2. RunDuration(rec, now) = Later(0, last - rec.started)
      BY <2>5, <2>7
    <3>3. CASE rec.queued = 0
      BY <2>1, <2>2, <2>4, <2>5, <3>1, <3>2, <3>3 DEF Later, DurationsAddUp
    <3>4. CASE rec.queued # 0
      BY <2>1, <2>2, <2>4, <2>5, <2>7, <3>1, <3>2, <3>4 DEF Later, DurationsAddUp
    <3> QED
      BY <3>3, <3>4
  <2> QED
    BY <2>6, <2>7
<1> QED
  BY <1>1, TimesAlways, PTL

\* Between operations status.json holds the last mails that were sent, in their order,
\* for every limit of the history and any listings, as long as none of them saved its
\* copy while a mail was sent (_write_status, _append_email_notification_record,
\* list_jobs).
THEOREM HistoryStands == Spec => []HistoryKept
<1>1. Mailed => HistoryKept
  BY DEF Mailed, HistoryKept
<1> QED
  BY <1>1, TimesAlways, PTL
=============================================================================
