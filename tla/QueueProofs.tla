----------------------------- MODULE QueueProofs -----------------------------
(***************************************************************************)
(* The analysis queue and its workers, for any number of attempts, modes,  *)
(* workers and concurrent drains.                                          *)
(***************************************************************************)
EXTENDS AnalysisQueue, FunctionTheorems, SequenceTheorems, FiniteSetTheorems, TLAPS

-----------------------------------------------------------------------------
(* Sequences.                                                              *)

(* A set of positions has a first one.                                     *)
LEMMA LeastMember ==
  ASSUME NEW S \in SUBSET Nat, S # {}
  PROVE  /\ Smallest(S) \in S
         /\ \A j \in S : Smallest(S) <= j
<1> DEFINE upTo == {1..n : n \in S}
<1>1. upTo \subseteq FiniteSubsetsOf(Nat)
  BY FS_Interval DEF FiniteSubsetsOf
<1>2. upTo # {}
  OBVIOUS
<1>3. PICK U \in upTo : \A V \in upTo : <<V, U>> \notin StrictSubsetOrdering(Nat)
  BY <1>1, <1>2, FS_StrictSubsetOrderingWellFounded, WFMin
<1>4. PICK i \in S : U = 1..i
  OBVIOUS
<1>5. \A j \in S : i <= j
  <2> SUFFICES ASSUME NEW j \in S, j < i
               PROVE  FALSE
    OBVIOUS
  <2>1. (1..j) \subseteq 1..i /\ i \in 1..i /\ i \notin 1..j
    OBVIOUS
  <2>2. <<1..j, 1..i>> \in StrictSubsetOrdering(Nat)
    BY <2>1 DEF StrictSubsetOrdering
  <2> QED BY <2>2, <1>3, <1>4
<1> QED BY <1>4, <1>5 DEF Smallest

(* Removing a position shifts the later ones by one.                       *)
LEMMA RemovalShifts ==
  ASSUME NEW S, NEW s \in Seq(S), NEW i \in 1..Len(s)
  PROVE  /\ RemoveAt(s, i) \in Seq(S)
         /\ Len(RemoveAt(s, i)) = Len(s) - 1
         /\ \A k \in 1..(Len(s) - 1) :
              RemoveAt(s, i)[k] = IF k < i THEN s[k] ELSE s[k + 1]
<1> DEFINE l == SubSeq(s, 1, i - 1)
           r == SubSeq(s, i + 1, Len(s))
<1>1. /\ l \in Seq(S) /\ Len(l) = i - 1
      /\ \A k \in 1..(i - 1) : l[k] = s[k]
  <2>1. \A k \in 1..(i - 1) : s[k] \in S
    BY ElementOfSeq, LenProperties
  <2> QED BY <2>1, LenProperties, SubSeqProperties
<1>2. /\ r \in Seq(S) /\ Len(r) = Len(s) - i
      /\ \A k \in 1..(Len(s) - i) : r[k] = s[i + k]
  <2>1. \A k \in (i + 1)..Len(s) : s[k] \in S
    BY ElementOfSeq, LenProperties
  <2> QED BY <2>1, LenProperties, SubSeqProperties
<1> HIDE DEF l, r
<1>3. /\ l \o r \in Seq(S) /\ Len(l \o r) = Len(s) - 1
      /\ \A k \in 1..(Len(s) - 1) :
           (l \o r)[k] = IF k <= i - 1 THEN l[k] ELSE r[k - (i - 1)]
  <2>1. /\ l \o r \in Seq(S) /\ Len(l \o r) = Len(l) + Len(r)
        /\ \A k \in 1..(Len(l) + Len(r)) :
             (l \o r)[k] = IF k <= Len(l) THEN l[k] ELSE r[k - Len(l)]
    BY <1>1, <1>2, ConcatProperties
  <2>2. Len(s) \in Nat /\ Len(l) + Len(r) = Len(s) - 1
    BY <1>1, <1>2, LenProperties
  <2> QED BY <1>1, <2>1, <2>2
<1>4. RemoveAt(s, i) = l \o r
  BY DEF RemoveAt, l, r
<1>5. ASSUME NEW k \in 1..(Len(s) - 1)
      PROVE  (l \o r)[k] = IF k < i THEN s[k] ELSE s[k + 1]
  <2>1. CASE k < i
    BY <2>1, <1>1, <1>3, LenProperties
  <2>2. CASE ~(k < i)
    <3>1. k - (i - 1) \in 1..(Len(s) - i) /\ i + (k - (i - 1)) = k + 1
      BY <2>2, LenProperties
    <3> QED BY <2>2, <3>1, <1>2, <1>3, LenProperties
  <2> QED BY <2>1, <2>2
<1> QED BY <1>3, <1>4, <1>5

(* What is left after a removal was there before it.                       *)
LEMMA RemovalLoses ==
  ASSUME NEW S, NEW s \in Seq(S), NEW i \in 1..Len(s)
  PROVE  ToSet(RemoveAt(s, i)) \subseteq ToSet(s)
<1>1. /\ DOMAIN RemoveAt(s, i) = 1..(Len(s) - 1)
      /\ DOMAIN s = 1..Len(s) /\ Len(s) \in Nat
  BY RemovalShifts, LenProperties
<1> SUFFICES ASSUME NEW k \in 1..(Len(s) - 1)
             PROVE  \E m \in 1..Len(s) : RemoveAt(s, i)[k] = s[m]
  BY <1>1 DEF ToSet
<1>2. RemoveAt(s, i)[k] = IF k < i THEN s[k] ELSE s[k + 1]
  BY RemovalShifts
<1> QED BY <1>1, <1>2

(* Counting the jobs of an attempt: the positions are finitely many, ...   *)
LEMMA FiniteJobs ==
  ASSUME NEW s \in Seq(Job), NEW a
  PROVE  /\ IsFiniteSet(JobsOf(s, a))
         /\ Cardinality(JobsOf(s, a)) \in Nat
<1>1. JobsOf(s, a) \in SUBSET (1..Len(s)) /\ Len(s) \in Nat
  BY LenProperties DEF JobsOf
<1>2. IsFiniteSet(1..Len(s))
  BY <1>1, FS_Interval
<1>3. IsFiniteSet(JobsOf(s, a))
  BY <1>1, <1>2, FS_Subset
<1> QED BY <1>3, FS_CardinalityType

(* ... one more of them after an append, ...                               *)
LEMMA CountAppend ==
  ASSUME NEW s \in Seq(Job), NEW job \in Job, NEW a
  PROVE  Cardinality(JobsOf(Append(s, job), a)) =
           Cardinality(JobsOf(s, a)) + (IF job.attempt = a THEN 1 ELSE 0)
<1> DEFINE n == Len(s) + 1
<1>1. /\ DOMAIN s = 1..Len(s) /\ Len(s) \in Nat
      /\ DOMAIN Append(s, job) = 1..n
      /\ \A k \in 1..Len(s) : Append(s, job)[k] = s[k]
      /\ Append(s, job)[n] = job
  BY AppendProperties, LenProperties
<1>2. JobsOf(Append(s, job), a) = JobsOf(s, a) \cup (IF job.attempt = a THEN {n} ELSE {})
  BY <1>1 DEF JobsOf
<1>3. n \notin JobsOf(s, a)
  BY <1>1 DEF JobsOf
<1>4. CASE job.attempt = a
  BY <1>2, <1>3, <1>4, FiniteJobs, FS_AddElement, ZenonT(60)
<1>5. CASE job.attempt # a
  BY <1>2, <1>5, FiniteJobs
<1> QED BY <1>4, <1>5

(* ... one fewer after a removal, ...                                      *)
LEMMA CountRemove ==
  ASSUME NEW s \in Seq(Job), NEW i \in 1..Len(s), NEW a
  PROVE  Cardinality(JobsOf(RemoveAt(s, i), a)) =
           Cardinality(JobsOf(s, a)) - (IF s[i].attempt = a THEN 1 ELSE 0)
<1> DEFINE left == JobsOf(s, a) \ {i}
           f == [k \in left |-> IF k < i THEN k ELSE k - 1]
<1>1. /\ DOMAIN s = 1..Len(s) /\ Len(s) \in Nat
      /\ DOMAIN RemoveAt(s, i) = 1..(Len(s) - 1)
      /\ \A k \in 1..(Len(s) - 1) :
           RemoveAt(s, i)[k] = IF k < i THEN s[k] ELSE s[k + 1]
  BY RemovalShifts, LenProperties
<1>2. f \in [left -> JobsOf(RemoveAt(s, i), a)]
  <2> SUFFICES ASSUME NEW k \in left
               PROVE  f[k] \in JobsOf(RemoveAt(s, i), a)
    OBVIOUS
  <2>1. k \in 1..Len(s) /\ k # i /\ s[k].attempt = a
    BY <1>1 DEF JobsOf
  <2>2. f[k] \in 1..(Len(s) - 1) /\ RemoveAt(s, i)[f[k]] = s[k]
    BY <1>1, <2>1
  <2> QED BY <1>1, <2>1, <2>2 DEF JobsOf
<1>3. \A k, m \in left : f[k] = f[m] => k = m
  BY <1>1 DEF JobsOf
<1>4. \A m \in JobsOf(RemoveAt(s, i), a) : \E k \in left : f[k] = m
  <2> SUFFICES ASSUME NEW m \in JobsOf(RemoveAt(s, i), a)
               PROVE  \E k \in left : f[k] = m
    OBVIOUS
  <2>1. m \in 1..(Len(s) - 1) /\ RemoveAt(s, i)[m].attempt = a
    BY <1>1 DEF JobsOf
  <2>2. CASE m < i
    <3>1. m \in left /\ f[m] = m
      BY <1>1, <2>1, <2>2 DEF JobsOf
    <3> QED BY <3>1
  <2>3. CASE ~(m < i)
    <3>1. m + 1 \in left /\ f[m + 1] = m
      BY <1>1, <2>1, <2>3 DEF JobsOf
    <3> QED BY <3>1
  <2> QED BY <2>2, <2>3
<1> HIDE DEF f
<1>5. IsFiniteSet(left) /\ Cardinality(JobsOf(RemoveAt(s, i), a)) = Cardinality(left)
  <2>1. IsFiniteSet(left)
    BY FiniteJobs, FS_RemoveElement
  <2>2. f \in Bijection(left, JobsOf(RemoveAt(s, i), a))
    BY <1>2, <1>3, <1>4, Fun_IsBij
  <2>3. ExistsBijection(left, JobsOf(RemoveAt(s, i), a))
    BY <2>2 DEF ExistsBijection
  <2> QED BY <2>1, <2>3, FS_Bijection
<1>6. Cardinality(left) =
        IF i \in JobsOf(s, a) THEN Cardinality(JobsOf(s, a)) - 1
        ELSE Cardinality(JobsOf(s, a))
  BY FiniteJobs, FS_RemoveElement
<1>7. i \in JobsOf(s, a) <=> s[i].attempt = a
  BY <1>1 DEF JobsOf
<1> QED BY <1>5, <1>6, <1>7, FiniteJobs

(* ... and one more again after it was put back at the head.               *)
LEMMA CountPutBack ==
  ASSUME NEW s \in Seq(Job), NEW job \in Job, NEW a
  PROVE  /\ <<job>> \o s \in Seq(Job)
         /\ Cardinality(JobsOf(<<job>> \o s, a)) =
              Cardinality(JobsOf(s, a)) + (IF job.attempt = a THEN 1 ELSE 0)
<1> DEFINE t == <<job>> \o s
           later == JobsOf(t, a) \ {1}
           f == [k \in JobsOf(s, a) |-> k + 1]
<1>1. /\ DOMAIN s = 1..Len(s) /\ Len(s) \in Nat
      /\ t \in Seq(Job) /\ DOMAIN t = 1..(Len(s) + 1)
      /\ t[1] = job /\ \A k \in 1..Len(s) : t[k + 1] = s[k]
  <2>1. <<job>> \in Seq(Job) /\ Len(<<job>>) = 1 /\ <<job>>[1] = job
    OBVIOUS
  <2>2. /\ t \in Seq(Job) /\ Len(t) = 1 + Len(s)
        /\ \A k \in 1..(1 + Len(s)) : t[k] = IF k <= 1 THEN <<job>>[k] ELSE s[k - 1]
    BY <2>1, ConcatProperties
  <2>3. Len(s) \in Nat /\ DOMAIN s = 1..Len(s) /\ DOMAIN t = 1..Len(t)
    BY <2>2, LenProperties
  <2> HIDE DEF t
  <2>4. \A k \in 1..Len(s) : k + 1 \in 1..(1 + Len(s)) /\ ~(k + 1 <= 1) /\ k + 1 - 1 = k
    BY <2>3
  <2>5. t[1] = job
    BY <2>1, <2>2, <2>3
  <2>6. \A k \in 1..Len(s) : t[k + 1] = s[k]
    BY <2>2, <2>3, <2>4
  <2> QED BY <2>2, <2>3, <2>5, <2>6
<1> HIDE DEF t
<1>2. f \in [JobsOf(s, a) -> later]
  BY <1>1 DEF JobsOf
<1>3. \A k, m \in JobsOf(s, a) : f[k] = f[m] => k = m
  BY <1>1 DEF JobsOf
<1>4. \A m \in later : \E k \in JobsOf(s, a) : f[k] = m
  <2> SUFFICES ASSUME NEW m \in later
               PROVE  \E k \in JobsOf(s, a) : f[k] = m
    OBVIOUS
  <2>1. m \in 2..(Len(s) + 1) /\ t[m].attempt = a
    BY <1>1 DEF JobsOf
  <2>2. m - 1 \in 1..Len(s) /\ t[(m - 1) + 1] = s[m - 1] /\ (m - 1) + 1 = m
    BY <1>1, <2>1
  <2>3. m - 1 \in JobsOf(s, a) /\ f[m - 1] = m
    BY <1>1, <2>1, <2>2 DEF JobsOf
  <2> QED BY <2>3
<1> HIDE DEF f
<1>5. Cardinality(later) = Cardinality(JobsOf(s, a))
  <2>1. f \in Bijection(JobsOf(s, a), later)
    BY <1>2, <1>3, <1>4, Fun_IsBij
  <2>2. ExistsBijection(JobsOf(s, a), later)
    BY <2>1 DEF ExistsBijection
  <2> QED BY <2>2, FiniteJobs, FS_Bijection
<1>6. Cardinality(later) =
        IF 1 \in JobsOf(t, a) THEN Cardinality(JobsOf(t, a)) - 1
        ELSE Cardinality(JobsOf(t, a))
  BY <1>1, FiniteJobs, FS_RemoveElement
<1>7. 1 \in JobsOf(t, a) <=> job.attempt = a
  BY <1>1 DEF JobsOf
<1>8. Cardinality(JobsOf(t, a)) \in Nat /\ Cardinality(JobsOf(s, a)) \in Nat
  BY <1>1, FiniteJobs
<1> QED BY <1>1, <1>5, <1>6, <1>7, <1>8 DEF t
-----------------------------------------------------------------------------
(* The inductive invariant.                                                *)

(* The subscribers are the running workers, and a closed queue has none.   *)
SubscribersRun ==
  /\ ToSet(subs) = {w \in Workers : worker[w] = "running"}
  /\ closed => \A w \in Workers : worker[w] \in {"new", "stopped"}

(* Whoever is in a callback has not been reported stopped.                 *)
CallbacksHaveWorkers ==
  \A d \in Drains : drain[d].pc \in InCallback =>
    /\ drain[d].job \in Job /\ drain[d].worker \in Workers
    /\ worker[drain[d].worker] \in {"running", "stopping"}

(* A claim, even one whose lease ran out, is held by a callback that is    *)
(* yet to finalize or to release it.                                       *)
ClaimsAreWorkedOn ==
  \A a \in Attempts :
    /\ claim[a].live => claim[a].status = "processing"
    /\ claim[a].status = "processing" =>
         /\ claim[a].holder \in Drains
         /\ drain[claim[a].holder].pc \in {"processing", "misrouted"}
         /\ drain[claim[a].holder].job.attempt = a
         /\ drain[claim[a].holder].pc = "processing" =>
              WorkerMode[drain[claim[a].holder].worker] = AttemptMode[a]

QueueInv ==
  TypeOK /\ SubscribersRun /\ CallbacksHaveWorkers /\ ClaimsAreWorkedOn /\ NoLostWakeUp

-----------------------------------------------------------------------------
(* Types.                                                                  *)

PcNames == {"idle", "checking"} \cup InCallback
DrainRow == [pc : PcNames, job : Job \cup {NoJob}, worker : Workers \cup {NoWorker}]
ClaimRow == [status : {"uploaded", "processing", "done"},
             holder : Drains \cup {NoDrain}, live : BOOLEAN]

(* A drain that awaits something else keeps its job and its worker.        *)
LEMMA GotoType ==
  ASSUME TypeOK, NEW d \in Drains, NEW pc \in PcNames, Goto(d, pc)
  PROVE  /\ drain' \in [Drains -> DrainRow]
         /\ drain'[d].pc = pc
         /\ \A e \in Drains : /\ drain'[e].job = drain[e].job
                              /\ drain'[e].worker = drain[e].worker
                              /\ e # d => drain'[e] = drain[e]
<1> DEFINE row == [drain[d] EXCEPT !.pc = pc]
<1>1. drain \in [Drains -> DrainRow]
  BY DEF TypeOK, DrainRow, PcNames
<1>2. row \in DrainRow /\ row.pc = pc /\ row.job = drain[d].job
      /\ row.worker = drain[d].worker
  BY <1>1 DEF DrainRow
<1>3. drain' = [drain EXCEPT ![d] = row]
  BY DEF Goto
<1> HIDE DEF row
<1> QED BY <1>1, <1>2, <1>3

(* Setting a drain to a row of its own.                                    *)
LEMMA DrainType ==
  ASSUME TypeOK, NEW d \in Drains, NEW row \in DrainRow,
         drain' = [drain EXCEPT ![d] = row]
  PROVE  /\ drain' \in [Drains -> DrainRow]
         /\ drain'[d] = row
         /\ \A e \in Drains \ {d} : drain'[e] = drain[e]
<1>1. drain \in [Drains -> DrainRow]
  BY DEF TypeOK, DrainRow, PcNames
<1> QED BY <1>1

(* The rows a drain is set to: at rest, and looking for a job.             *)
LEMMA RestingRows == /\ Idle \in DrainRow /\ Idle.pc = "idle"
                     /\ Checking \in DrainRow /\ Checking.pc = "checking"
<1>1. Idle \in DrainRow /\ Idle.pc = "idle"
  BY DEF Idle, DrainRow, PcNames
<1>2. [Idle EXCEPT !.pc = "checking"] \in DrainRow
      /\ [Idle EXCEPT !.pc = "checking"].pc = "checking"
  BY <1>1 DEF DrainRow, PcNames
<1> QED BY <1>1, <1>2 DEF Checking

(* The rows a claim is set to.                                             *)
LEMMA ClaimRows ==
  /\ Unclaimed \in ClaimRow
  /\ [Unclaimed EXCEPT !.status = "done"] \in ClaimRow
  /\ \A d \in Drains : [status |-> "processing", holder |-> d, live |-> TRUE] \in ClaimRow
BY DEF Unclaimed, ClaimRow

(* Releasing a claim leaves claims.                                        *)
LEMMA ReleasedType ==
  ASSUME TypeOK, NEW d \in Drains, NEW a \in Attempts
  PROVE  Released(d, a) \in [Attempts -> ClaimRow]
<1>1. claim \in [Attempts -> ClaimRow]
  BY DEF TypeOK, ClaimRow
<1> QED BY <1>1, ClaimRows DEF Released

(* Whatever Finalize answers, the claim is not processing for this drain.  *)
LEMMA FinalizeType ==
  ASSUME TypeOK, NEW d \in Drains, drain[d].job.attempt \in Attempts, Finalize(d)
  PROVE  /\ claim' \in [Attempts -> ClaimRow]
         /\ \E pc \in {"returning", "rejecting"} : Goto(d, pc)
<1>1. claim \in [Attempts -> ClaimRow]
  BY DEF TypeOK, ClaimRow
<1> QED BY <1>1, ClaimRows, ReleasedType DEF Finalize

(* A callback's job names an attempt.                                      *)
LEMMA CallbackJob ==
  ASSUME CallbacksHaveWorkers, NEW d \in Drains, drain[d].pc \in InCallback
  PROVE  drain[d].job \in Job /\ drain[d].job.attempt \in Attempts
BY DEF CallbacksHaveWorkers, Job

(* The job a drain delivers, and whom to.                                  *)
LEMMA Delivered ==
  ASSUME TypeOK, Deliverable # {}
  PROVE  LET i == Smallest(Deliverable)
             takers == {k \in DOMAIN subs : Accepts(subs[k], pending[i])}
         IN  /\ i \in 1..Len(pending) /\ pending[i] \in Job
             /\ pending[i].attempt \in Attempts
             /\ Smallest(takers) \in DOMAIN subs
             /\ subs[Smallest(takers)] \in Workers
<1> DEFINE i == Smallest(Deliverable)
           takers == {k \in DOMAIN subs : Accepts(subs[k], pending[i])}
<1>1. /\ DOMAIN pending = 1..Len(pending) /\ Len(pending) \in Nat
      /\ DOMAIN subs = 1..Len(subs) /\ Len(subs) \in Nat
  BY LenProperties DEF TypeOK
<1>2. i \in Deliverable
  <2>1. Deliverable \in SUBSET Nat
    BY <1>1 DEF Deliverable
  <2> QED BY <2>1, LeastMember
<1>3. i \in 1..Len(pending) /\ pending[i] \in Job
  BY <1>1, <1>2, ElementOfSeq DEF Deliverable, TypeOK
<1> HIDE DEF i
<1>4. takers \in SUBSET Nat /\ takers # {}
  <2>1. PICK w \in ToSet(subs) : Accepts(w, pending[i])
    BY <1>2 DEF Deliverable
  <2>2. PICK k \in DOMAIN subs : subs[k] = w
    BY <2>1 DEF ToSet
  <2>3. k \in takers
    BY <2>1, <2>2
  <2> QED BY <1>1, <2>3
<1>5. Smallest(takers) \in takers
  BY <1>4, LeastMember
<1>6. Smallest(takers) \in DOMAIN subs
  BY <1>5
<1>7. subs[Smallest(takers)] \in Workers
  <2>1. subs \in Seq(Workers) /\ Smallest(takers) \in 1..Len(subs)
    BY <1>1, <1>6 DEF TypeOK
  <2> QED BY <2>1, ElementOfSeq
<1>8. pending[i].attempt \in Attempts
  BY <1>3 DEF Job
<1> QED BY <1>3, <1>6, <1>7, <1>8 DEF i

-----------------------------------------------------------------------------
(* Stop takes the worker out of the subscribers, and nobody else.          *)
LEMMA Unsubscribed ==
  ASSUME TypeOK, SubscribersRun, NEW w \in Workers, Stop(w)
  PROVE  /\ subs' \in Seq(Workers) /\ IsInjective(subs')
         /\ ToSet(subs') = ToSet(subs) \ {w}
<1> DEFINE at == CHOOSE k \in DOMAIN subs : subs[k] = w
<1>1. /\ subs \in Seq(Workers) /\ DOMAIN subs = 1..Len(subs) /\ Len(subs) \in Nat
      /\ \A k, m \in 1..Len(subs) : subs[k] = subs[m] => k = m
  BY LenProperties DEF TypeOK, IsInjective
<1>2. at \in 1..Len(subs) /\ subs[at] = w
  BY <1>1 DEF SubscribersRun, Stop, ToSet
<1>3. subs' = RemoveAt(subs, at)
  BY DEF Stop
<1> HIDE DEF at
<1>4. /\ subs' \in Seq(Workers) /\ DOMAIN subs' = 1..(Len(subs) - 1)
      /\ \A k \in 1..(Len(subs) - 1) :
           subs'[k] = IF k < at THEN subs[k] ELSE subs[k + 1]
  <2>1. /\ subs' \in Seq(Workers) /\ Len(subs') = Len(subs) - 1
        /\ \A k \in 1..(Len(subs) - 1) :
             subs'[k] = IF k < at THEN subs[k] ELSE subs[k + 1]
    BY <1>1, <1>2, <1>3, RemovalShifts
  <2> QED BY <2>1, LenProperties
<1>5. \A k, m \in 1..(Len(subs) - 1) : subs'[k] = subs'[m] => k = m
  BY <1>1, <1>2, <1>4
<1>6. \A k \in 1..(Len(subs) - 1) : subs'[k] # w /\ \E m \in 1..Len(subs) : subs'[k] = subs[m]
  <2> SUFFICES ASSUME NEW k \in 1..(Len(subs) - 1)
               PROVE  subs'[k] # w /\ \E m \in 1..Len(subs) : subs'[k] = subs[m]
    OBVIOUS
  <2>1. CASE k < at
    BY <1>1, <1>2, <1>4, <2>1
  <2>2. CASE ~(k < at)
    <3>1. k + 1 \in 1..Len(subs) /\ k + 1 # at /\ subs'[k] = subs[k + 1]
      BY <1>1, <1>2, <1>4, <2>2
    <3> QED BY <1>1, <1>2, <3>1
  <2> QED BY <2>1, <2>2
<1>7. \A m \in 1..Len(subs) : subs[m] # w => \E k \in 1..(Len(subs) - 1) : subs'[k] = subs[m]
  <2> SUFFICES ASSUME NEW m \in 1..Len(subs), subs[m] # w
               PROVE  \E k \in 1..(Len(subs) - 1) : subs'[k] = subs[m]
    OBVIOUS
  <2>1. m # at
    BY <1>2
  <2>2. CASE m < at
    BY <1>1, <1>2, <1>4, <2>2
  <2>3. CASE at < m
    <3>1. m - 1 \in 1..(Len(subs) - 1) /\ ~(m - 1 < at) /\ (m - 1) + 1 = m
      BY <1>1, <1>2, <2>3
    <3> QED BY <1>4, <3>1
  <2> QED BY <1>1, <1>2, <2>1, <2>2, <2>3
<1>8. ToSet(subs') = ToSet(subs) \ {w}
  <2>1. /\ ToSet(subs) = {subs[m] : m \in 1..Len(subs)}
        /\ ToSet(subs') = {subs'[k] : k \in 1..(Len(subs) - 1)}
    BY <1>1, <1>4 DEF ToSet
  <2>2. ToSet(subs') \subseteq ToSet(subs) \ {w}
    BY <2>1, <1>6
  <2>3. ToSet(subs) \ {w} \subseteq ToSet(subs')
    BY <2>1, <1>7
  <2> QED BY <2>2, <2>3
<1>9. IsInjective(subs')
  BY <1>4, <1>5 DEF IsInjective
<1> QED BY <1>4, <1>8, <1>9

(* Start adds the worker to the subscribers.                               *)
LEMMA Subscribed ==
  ASSUME TypeOK, SubscribersRun, NEW w \in Workers, Start(w)
  PROVE  /\ subs' \in Seq(Workers) /\ IsInjective(subs')
         /\ ToSet(subs') = ToSet(subs) \cup {w}
<1> DEFINE n == Len(subs) + 1
<1>1. /\ subs \in Seq(Workers) /\ DOMAIN subs = 1..Len(subs) /\ Len(subs) \in Nat
      /\ \A k, m \in 1..Len(subs) : subs[k] = subs[m] => k = m
  BY LenProperties DEF TypeOK, IsInjective
<1>2. /\ subs' \in Seq(Workers) /\ DOMAIN subs' = 1..n
      /\ \A k \in 1..Len(subs) : subs'[k] = subs[k]
      /\ subs'[n] = w
  BY <1>1, AppendProperties, LenProperties DEF Start
<1>3. \A k \in 1..Len(subs) : subs[k] # w
  BY <1>1 DEF SubscribersRun, Start, StartAllowed, ToSet
<1>4. IsInjective(subs')
  BY <1>1, <1>2, <1>3 DEF IsInjective
<1>5. ToSet(subs') = ToSet(subs) \cup {w}
  BY <1>1, <1>2 DEF ToSet
<1> QED BY <1>2, <1>4, <1>5

(* The queue, its drains and the store keep their types in every step.     *)
LEMMA QueueTypeStep ==
  TypeOK /\ SubscribersRun /\ CallbacksHaveWorkers /\ [Next]_vars => TypeOK'
<1> SUFFICES ASSUME TypeOK, SubscribersRun, CallbacksHaveWorkers, [Next]_vars
             PROVE  TypeOK'
  OBVIOUS
<1> USE QueueAssumption
<1>a. TypeOK <=> /\ pending \in Seq(Job)
                 /\ subs \in Seq(Workers) /\ IsInjective(subs)
                 /\ scheduled \in BOOLEAN /\ closed \in BOOLEAN
                 /\ drain \in [Drains -> DrainRow]
                 /\ worker \in [Workers -> {"new", "running", "stopping", "stopped"}]
                 /\ claim \in [Attempts -> ClaimRow]
                 /\ retries \in [Attempts -> 0..MaxAttempts]
                 /\ enqueued \subseteq Attempts /\ enqueues \in 0..MaxEnqueues
                 /\ expiries \in 0..MaxExpiries
  BY DEF TypeOK, DrainRow, ClaimRow, PcNames
<1>b. TypeOK' <=> /\ pending' \in Seq(Job)
                  /\ subs' \in Seq(Workers) /\ IsInjective(subs')
                  /\ scheduled' \in BOOLEAN /\ closed' \in BOOLEAN
                  /\ drain' \in [Drains -> DrainRow]
                  /\ worker' \in [Workers -> {"new", "running", "stopping", "stopped"}]
                  /\ claim' \in [Attempts -> ClaimRow]
                  /\ retries' \in [Attempts -> 0..MaxAttempts]
                  /\ enqueued' \subseteq Attempts /\ enqueues' \in 0..MaxEnqueues
                  /\ expiries' \in 0..MaxExpiries
  BY DEF TypeOK, DrainRow, ClaimRow, PcNames
<1>1. ASSUME NEW a \in Attempts, NEW tag \in Modes \cup {NoMode}, Enqueue(a, tag)
      PROVE  TypeOK'
  <2>1. [attempt |-> a, tag |-> tag] \in Job
    BY DEF Job
  <2>2. pending' \in Seq(Job) /\ scheduled' \in BOOLEAN
    BY <1>1, <1>a, <2>1, AppendProperties DEF Enqueue, Pushed, Scheduled
  <2>3. enqueues' \in 0..MaxEnqueues /\ enqueued' \subseteq Attempts
    BY <1>1, <1>a DEF Enqueue
  <2> QED BY <1>1, <1>a, <1>b, <2>2, <2>3 DEF Enqueue, Pushed, storeState
<1>2. ASSUME StartDrain
      PROVE  TypeOK'
  <2>1. drain' \in [Drains -> DrainRow]
    BY <1>2, <1>a, RestingRows DEF StartDrain
  <2> QED BY <1>2, <1>a, <1>b, <2>1 DEF StartDrain, storeState, bounds
<1>3. ASSUME NEW d \in Drains, EndDrain(d)
      PROVE  TypeOK'
  <2>1. drain' \in [Drains -> DrainRow]
    BY <1>3, DrainType, RestingRows DEF EndDrain
  <2> QED BY <1>3, <1>a, <1>b, <2>1 DEF EndDrain, queueState, storeState, bounds
<1>4. ASSUME NEW d \in Drains, Deliver(d)
      PROVE  TypeOK'
  <2> DEFINE i == Smallest(Deliverable)
             w == subs[Smallest({k \in DOMAIN subs : Accepts(subs[k], pending[i])})]
             a == pending[i].attempt
             row == [pc |-> AfterClaim(a, w), job |-> pending[i], worker |-> w]
  <2>1. i \in 1..Len(pending) /\ pending[i] \in Job /\ a \in Attempts /\ w \in Workers
    BY <1>4, Delivered DEF Deliver
  <2>2. /\ pending' = RemoveAt(pending, i)
        /\ drain' = [drain EXCEPT ![d] = row]
        /\ claim' = IF Claimable(a)
                    THEN [claim EXCEPT ![a] =
                            [status |-> "processing", holder |-> d, live |-> TRUE]]
                    ELSE claim
        /\ UNCHANGED <<subs, scheduled, closed, worker, retries, bounds>>
    BY <1>4 DEF Deliver
  <2> HIDE DEF i, w
  <2>3. row \in DrainRow
    BY <2>1 DEF AfterClaim, DrainRow, PcNames, InCallback
  <2>4. drain' \in [Drains -> DrainRow]
    BY <2>2, <2>3, DrainType
  <2>5. pending' \in Seq(Job)
    BY <1>a, <2>1, <2>2, RemovalShifts
  <2>6. claim' \in [Attempts -> ClaimRow]
    BY <1>a, <2>1, <2>2, ClaimRows
  <2> QED BY <1>a, <1>b, <2>2, <2>4, <2>5, <2>6 DEF bounds
<1>5. ASSUME NEW d \in Drains, Return(d)
      PROVE  TypeOK'
  <2>1. drain' \in [Drains -> DrainRow]
    BY <1>5, DrainType, RestingRows DEF Return
  <2> QED BY <1>5, <1>a, <1>b, <2>1 DEF Return, queueState, storeState, bounds
<1>6. ASSUME NEW d \in Drains, Reject(d)
      PROVE  TypeOK'
  <2>1. drain' \in [Drains -> DrainRow]
    BY <1>6, DrainType, RestingRows DEF Reject
  <2>2. drain[d].job \in Job
    BY <1>6, CallbackJob DEF Reject, InCallback
  <2>3. pending' \in Seq(Job) /\ scheduled' \in BOOLEAN
    BY <1>6, <1>a, <2>2, CountPutBack DEF Reject, PutBack, Scheduled
  <2> QED BY <1>6, <1>a, <1>b, <2>1, <2>3 DEF Reject, storeState, bounds
<1>7. ASSUME NEW d \in Drains, ReleaseMisrouted(d)
      PROVE  TypeOK'
  <2>1. drain[d].job.attempt \in Attempts
    BY <1>7, CallbackJob DEF ReleaseMisrouted, InCallback
  <2>2. claim' \in [Attempts -> ClaimRow]
    BY <1>7, <2>1, ReleasedType DEF ReleaseMisrouted
  <2>3. drain' \in [Drains -> DrainRow]
    BY <1>7, GotoType DEF ReleaseMisrouted, PcNames, InCallback
  <2> QED BY <1>7, <1>a, <1>b, <2>2, <2>3 DEF ReleaseMisrouted, queueState, bounds
<1>8. ASSUME NEW d \in Drains, Reroute(d)
      PROVE  TypeOK'
  <2> DEFINE job == [drain[d].job EXCEPT !.tag = RouteTag(drain[d].job)]
  <2>1. drain' \in [Drains -> DrainRow]
    BY <1>8, GotoType DEF Reroute, PcNames, InCallback
  <2>2. drain[d].job \in Job /\ drain[d].job.attempt \in Attempts
    BY <1>8, CallbackJob DEF Reroute, InCallback
  <2>3. job \in Job
    BY <2>2 DEF RouteTag, Job
  <2>4. pending' \in Seq(Job) /\ scheduled' \in BOOLEAN /\ subs' = subs /\ closed' = closed
    <3>1. CASE Pushed(job)
      BY <3>1, <1>a, <2>3, AppendProperties DEF Pushed, Scheduled
    <3>2. CASE UNCHANGED queueState
      BY <3>2, <1>a DEF queueState
    <3> QED BY <1>8, <3>1, <3>2 DEF Reroute
  <2> QED BY <1>8, <1>a, <1>b, <2>1, <2>4 DEF Reroute, storeState, bounds
<1>9. ASSUME NEW d \in Drains, Process(d)
      PROVE  TypeOK'
  <2>1. drain[d].job.attempt \in Attempts
    BY <1>9, CallbackJob DEF Process, InCallback
  <2>2. claim' \in [Attempts -> ClaimRow] /\ \E pc \in {"returning", "rejecting"} : Goto(d, pc)
    BY <1>9, <2>1, FinalizeType DEF Process
  <2>3. drain' \in [Drains -> DrainRow]
    BY <2>2, GotoType DEF PcNames, InCallback
  <2> QED BY <1>9, <1>a, <1>b, <2>2, <2>3 DEF Process, queueState, bounds
<1>10. ASSUME NEW d \in Drains, RetryableFailure(d)
       PROVE  TypeOK'
  <2>1. drain[d].job.attempt \in Attempts
    BY <1>10, CallbackJob DEF RetryableFailure, InCallback
  <2>2. claim' \in [Attempts -> ClaimRow] /\ \E pc \in {"returning", "rejecting"} : Goto(d, pc)
    BY <1>10, <1>a, <2>1, FinalizeType, ReleasedType DEF RetryableFailure, storeState
  <2>3. drain' \in [Drains -> DrainRow]
    BY <2>2, GotoType DEF PcNames, InCallback
  <2>4. retries' \in [Attempts -> 0..MaxAttempts]
    <3> DEFINE n == IF retries[drain[d].job.attempt] < MaxAttempts
                    THEN retries[drain[d].job.attempt] + 1 ELSE retries[drain[d].job.attempt]
    <3>1. n \in 0..MaxAttempts
      BY <1>a, <2>1
    <3>2. retries' = retries \/ retries' = [retries EXCEPT ![drain[d].job.attempt] = n]
      BY <1>10 DEF RetryableFailure, storeState
    <3> HIDE DEF n
    <3> QED BY <1>a, <3>1, <3>2
  <2> QED BY <1>10, <1>a, <1>b, <2>2, <2>3, <2>4 DEF RetryableFailure, queueState, bounds
<1>11. ASSUME NEW a \in Attempts, LeaseExpires(a)
       PROVE  TypeOK'
  <2> DEFINE row == [claim[a] EXCEPT !.live = FALSE]
  <2>1. row \in ClaimRow
    BY <1>a DEF ClaimRow
  <2>2. claim' = [claim EXCEPT ![a] = row] /\ expiries' \in 0..MaxExpiries
    BY <1>11, <1>a DEF LeaseExpires
  <2> HIDE DEF row
  <2> QED BY <1>11, <1>a, <1>b, <2>1, <2>2, ZenonT(60) DEF LeaseExpires, queueState
<1>12. ASSUME NEW w \in Workers, Start(w)
       PROVE  TypeOK'
  BY <1>12, <1>a, <1>b, Subscribed DEF Start, Scheduled, storeState, bounds
<1>13. ASSUME NEW w \in Workers, Stop(w)
       PROVE  TypeOK'
  BY <1>13, <1>a, <1>b, Unsubscribed DEF Stop, storeState, bounds
<1>14. ASSUME NEW w \in Workers, Stopped(w)
       PROVE  TypeOK'
  BY <1>14, <1>a, <1>b DEF Stopped, queueState, storeState, bounds
<1>15. ASSUME Close
       PROVE  TypeOK'
  <2>1. subs' \in Seq(Workers) /\ IsInjective(subs')
    BY <1>15, EmptySeq DEF Close, IsInjective
  <2> QED BY <1>15, <1>a, <1>b, <2>1 DEF Close, storeState, bounds
<1>16. ASSUME UNCHANGED vars
       PROVE  TypeOK'
  BY <1>16, <1>a, <1>b DEF vars, queueState, storeState, bounds
<1> QED
  BY <1>1, <1>2, <1>3, <1>4, <1>5, <1>6, <1>7, <1>8, <1>9, <1>10, <1>11, <1>12, <1>13,
     <1>14, <1>15, <1>16
  DEF Next, DrainStep, CallbackStep

-----------------------------------------------------------------------------
(* What the steps have in common.                                          *)

(* A step of a callback leaves it in a callback, of the same worker and    *)
(* for the same job, and does not touch the subscribers.                   *)
LEMMA CallbackMoves ==
  ASSUME TypeOK, CallbacksHaveWorkers, NEW d \in Drains, CallbackStep(d)
  PROVE  /\ drain[d].pc \in InCallback
         /\ \E pc \in InCallback : Goto(d, pc)
         /\ UNCHANGED <<subs, closed, worker>>
<1>1. CASE ReleaseMisrouted(d)
  BY <1>1 DEF ReleaseMisrouted, InCallback, queueState
<1>2. CASE Reroute(d)
  BY <1>2 DEF Reroute, InCallback, Pushed, queueState
<1>3. CASE Process(d)
  BY <1>3, CallbackJob, FinalizeType DEF Process, InCallback, queueState
<1>4. CASE RetryableFailure(d)
  BY <1>4, CallbackJob, FinalizeType DEF RetryableFailure, InCallback, queueState
<1> QED BY <1>1, <1>2, <1>3, <1>4 DEF CallbackStep

(* A drain that is not in a callback, or leaves one.                       *)
LEMMA DrainMoves ==
  ASSUME TypeOK, NEW d \in Drains, EndDrain(d) \/ Return(d) \/ Reject(d)
  PROVE  /\ drain'[d].pc \in {"idle", "checking"}
         /\ \A e \in Drains \ {d} : drain'[e] = drain[e]
         /\ drain[d].pc \notin {"processing", "misrouted"}
         /\ UNCHANGED <<subs, closed, worker, claim>>
<1>1. \E row \in {Idle, Checking} : drain' = [drain EXCEPT ![d] = row]
  BY DEF EndDrain, Return, Reject
<1>2. /\ drain'[d].pc \in {"idle", "checking"}
      /\ \A e \in Drains \ {d} : drain'[e] = drain[e]
  BY <1>1, DrainType, RestingRows
<1> QED BY <1>2 DEF EndDrain, Return, Reject, queueState, storeState

(* The microtask makes an idle drain look for a job.                       *)
LEMMA StartMoves ==
  ASSUME TypeOK, StartDrain
  PROVE  /\ UNCHANGED <<pending, subs, closed, worker, claim>>
         /\ \E d \in Drains : /\ drain[d].pc = "idle" /\ drain'[d].pc = "checking"
                              /\ \A e \in Drains \ {d} : drain'[e] = drain[e]
<1> DEFINE d == CHOOSE d \in IdleDrains : TRUE
<1>1. d \in Drains /\ drain[d].pc = "idle"
  BY DEF StartDrain, IdleDrains
<1>2. drain' = [drain EXCEPT ![d] = Checking]
  BY DEF StartDrain
<1> HIDE DEF d
<1>3. drain'[d].pc = "checking" /\ \A e \in Drains \ {d} : drain'[e] = drain[e]
  BY <1>1, <1>2, DrainType, RestingRows
<1> QED BY <1>1, <1>3 DEF StartDrain, storeState

(* What a delivery does with the job at position i and the worker w.       *)
DeliversTo(d, i, w) ==
  LET a == pending[i].attempt IN
  /\ pending[i] \in Job /\ a \in Attempts /\ worker[w] = "running"
  /\ pending' = RemoveAt(pending, i)
  /\ drain'[d] = [pc |-> AfterClaim(a, w), job |-> pending[i], worker |-> w]
  /\ claim' = IF Claimable(a)
              THEN [claim EXCEPT ![a] =
                      [status |-> "processing", holder |-> d, live |-> TRUE]]
              ELSE claim

(* A delivery: the first job a subscriber accepts, and its claim.          *)
LEMMA DeliverMoves ==
  ASSUME TypeOK, SubscribersRun, NEW d \in Drains, Deliver(d)
  PROVE  /\ drain[d].pc = "checking"
         /\ \A e \in Drains \ {d} : drain'[e] = drain[e]
         /\ UNCHANGED <<subs, closed, worker>>
         /\ \E i \in 1..Len(pending), w \in Workers : DeliversTo(d, i, w)
<1> DEFINE i == Smallest(Deliverable)
           k == Smallest({m \in DOMAIN subs : Accepts(subs[m], pending[i])})
           w == subs[k]
           a == pending[i].attempt
           row == [pc |-> AfterClaim(a, w), job |-> pending[i], worker |-> w]
<1>1. /\ i \in 1..Len(pending) /\ pending[i] \in Job /\ a \in Attempts
      /\ k \in DOMAIN subs /\ w \in Workers
  BY Delivered DEF Deliver
<1>2. /\ pending' = RemoveAt(pending, i)
      /\ drain' = [drain EXCEPT ![d] = row]
      /\ claim' = IF Claimable(a)
                  THEN [claim EXCEPT ![a] =
                          [status |-> "processing", holder |-> d, live |-> TRUE]]
                  ELSE claim
      /\ drain[d].pc = "checking"
      /\ UNCHANGED <<subs, closed, worker>>
  BY DEF Deliver
<1> HIDE DEF i, k
<1>3. worker[w] = "running"
  BY <1>1 DEF SubscribersRun, ToSet
<1>4. row \in DrainRow
  BY <1>1 DEF AfterClaim, DrainRow, PcNames, InCallback
<1>5. drain'[d] = row /\ \A e \in Drains \ {d} : drain'[e] = drain[e]
  BY <1>2, <1>4, DrainType
<1>6. DeliversTo(d, i, w)
  BY <1>1, <1>2, <1>3, <1>5 DEF DeliversTo
<1> QED BY <1>1, <1>2, <1>5, <1>6

-----------------------------------------------------------------------------
(* Subscribers are running workers.                                        *)
LEMMA SubscribersStep ==
  TypeOK /\ SubscribersRun /\ CallbacksHaveWorkers /\ [Next]_vars => SubscribersRun'
<1> SUFFICES ASSUME TypeOK, SubscribersRun, CallbacksHaveWorkers, [Next]_vars
             PROVE  SubscribersRun'
  OBVIOUS
<1>1. CASE UNCHANGED <<subs, worker, closed>>
  BY <1>1 DEF SubscribersRun, ToSet
<1>2. ASSUME NEW w \in Workers, Start(w)
      PROVE  SubscribersRun'
  <2>1. /\ worker'[w] = "running" /\ \A x \in Workers \ {w} : worker'[x] = worker[x]
        /\ closed' = closed /\ ~closed
    BY <1>2 DEF Start, TypeOK
  <2> QED BY <1>2, <2>1, Subscribed DEF SubscribersRun
<1>3. ASSUME NEW w \in Workers, Stop(w)
      PROVE  SubscribersRun'
  <2>1. /\ worker'[w] = "stopping" /\ worker[w] = "running"
        /\ \A x \in Workers \ {w} : worker'[x] = worker[x]
        /\ closed' = closed
    BY <1>3 DEF Stop, TypeOK
  <2> QED BY <1>3, <2>1, Unsubscribed DEF SubscribersRun
<1>4. ASSUME NEW w \in Workers, Stopped(w)
      PROVE  SubscribersRun'
  <2>1. /\ worker'[w] = "stopped" /\ worker[w] = "stopping"
        /\ \A x \in Workers \ {w} : worker'[x] = worker[x]
        /\ closed' = closed /\ subs' = subs
    BY <1>4 DEF Stopped, TypeOK, queueState
  <2> QED BY <1>4, <2>1 DEF SubscribersRun, ToSet
<1>5. CASE Close
  BY <1>5 DEF Close, SubscribersRun, ToSet
<1> QED
  BY <1>1, <1>2, <1>3, <1>4, <1>5, CallbackMoves, DrainMoves, StartMoves, DeliverMoves
  DEF Next, DrainStep, Enqueue, Pushed, LeaseExpires, vars, queueState

(* Stopping waits for the callbacks: none is left of a stopped worker.     *)
LEMMA CallbacksStep ==
  TypeOK /\ SubscribersRun /\ CallbacksHaveWorkers /\ [Next]_vars => CallbacksHaveWorkers'
<1> SUFFICES ASSUME TypeOK, SubscribersRun, CallbacksHaveWorkers, [Next]_vars
             PROVE  CallbacksHaveWorkers'
  OBVIOUS
<1>1. CASE UNCHANGED <<drain, worker>>
  BY <1>1 DEF CallbacksHaveWorkers
<1>2. CASE StartDrain
  BY <1>2, StartMoves DEF CallbacksHaveWorkers, InCallback
<1>3. ASSUME NEW d \in Drains, EndDrain(d) \/ Return(d) \/ Reject(d)
      PROVE  CallbacksHaveWorkers'
  BY <1>3, DrainMoves DEF CallbacksHaveWorkers, InCallback
<1>4. ASSUME NEW d \in Drains, Deliver(d)
      PROVE  CallbacksHaveWorkers'
  <2>1. PICK i \in 1..Len(pending), w \in Workers : DeliversTo(d, i, w)
    BY <1>4, DeliverMoves
  <2>2. drain'[d].job \in Job /\ drain'[d].worker = w /\ worker[w] = "running"
    BY <2>1 DEF DeliversTo
  <2> QED BY <1>4, <2>2, DeliverMoves DEF CallbacksHaveWorkers
<1>5. ASSUME NEW d \in Drains, CallbackStep(d)
      PROVE  CallbacksHaveWorkers'
  <2>1. PICK pc \in InCallback : Goto(d, pc)
    BY <1>5, CallbackMoves
  <2>2. \A e \in Drains : /\ drain'[e].job = drain[e].job
                          /\ drain'[e].worker = drain[e].worker
                          /\ e # d => drain'[e] = drain[e]
    BY <2>1, GotoType DEF PcNames
  <2> QED BY <1>5, <2>2, CallbackMoves DEF CallbacksHaveWorkers
<1>6. ASSUME NEW w \in Workers, Start(w) \/ Stop(w) \/ Stopped(w)
      PROVE  CallbacksHaveWorkers'
  <2>1. /\ drain' = drain
        /\ \A x \in Workers \ {w} : worker'[x] = worker[x]
        /\ worker'[w] \in {"running", "stopping"} \/ NothingInFlight(w)
    BY <1>6 DEF Start, Stop, Stopped, TypeOK
  <2> QED BY <2>1 DEF CallbacksHaveWorkers, NothingInFlight
<1> QED
  BY <1>1, <1>2, <1>3, <1>4, <1>5, <1>6
  DEF Next, DrainStep, Enqueue, LeaseExpires, Close, vars

-----------------------------------------------------------------------------
(* A drain that holds no claim may move on.                                *)
LEMMA ClaimsKept ==
  ASSUME ClaimsAreWorkedOn, claim' = claim, NEW d \in Drains,
         drain[d].pc \notin {"processing", "misrouted"},
         \A e \in Drains \ {d} : drain'[e] = drain[e]
  PROVE  ClaimsAreWorkedOn'
<1>1. \A a \in Attempts : claim[a].status = "processing" => claim[a].holder # d
  BY DEF ClaimsAreWorkedOn
<1> QED BY <1>1 DEF ClaimsAreWorkedOn

(* A drain that finalized or released its claim, or never held it, too.    *)
LEMMA ClaimsReleased ==
  ASSUME ClaimsAreWorkedOn, NEW d \in Drains, NEW a \in Attempts,
         drain[d].job.attempt = a,
         \A e \in Drains \ {d} : drain'[e] = drain[e],
         \A b \in Attempts \ {a} : claim'[b] = claim[b],
         \/ claim'[a].status # "processing" /\ ~claim'[a].live
         \/ claim'[a] = claim[a] /\ ~Holds(d, a)
  PROVE  ClaimsAreWorkedOn'
<1>1. \A b \in Attempts : claim'[b].status = "processing" =>
        claim'[b] = claim[b] /\ claim[b].holder # d
  BY DEF ClaimsAreWorkedOn, Holds
<1>2. \A b \in Attempts : claim'[b].live => claim'[b].status = "processing"
  BY DEF ClaimsAreWorkedOn
<1> QED BY <1>1, <1>2 DEF ClaimsAreWorkedOn

(* Finalizing and releasing leave no claim of this drain's attempt to it.  *)
LEMMA LetGo ==
  ASSUME TypeOK, NEW d \in Drains, NEW a \in Attempts, drain[d].job.attempt = a,
         claim' = Released(d, a) \/ Finalize(d)
  PROVE  /\ \A b \in Attempts \ {a} : claim'[b] = claim[b]
         /\ \/ claim'[a].status # "processing" /\ ~claim'[a].live
            \/ claim'[a] = claim[a] /\ ~Holds(d, a)
<1> DEFINE row == [Unclaimed EXCEPT !.status = "done"]
<1>1. /\ Unclaimed.status = "uploaded" /\ Unclaimed.live = FALSE
      /\ row.status = "done" /\ row.live = FALSE
  BY DEF Unclaimed
<1>2. DOMAIN claim = Attempts
  BY DEF TypeOK
<1>3. \/ claim' = claim /\ ~Holds(d, a)
      \/ claim' = [claim EXCEPT ![a] = Unclaimed]
      \/ claim' = [claim EXCEPT ![a] = row]
  BY DEF Released, Finalize
<1> HIDE DEF row
<1> QED BY <1>1, <1>2, <1>3

(* No claim is without its callback, under whatever interleaving of the    *)
(* drains and with leases that run out under them.                         *)
LEMMA ClaimsStep ==
  /\ TypeOK /\ SubscribersRun /\ CallbacksHaveWorkers /\ ClaimsAreWorkedOn
  /\ [Next]_vars
  => ClaimsAreWorkedOn'
<1> SUFFICES ASSUME TypeOK, SubscribersRun, CallbacksHaveWorkers, ClaimsAreWorkedOn,
                    [Next]_vars
             PROVE  ClaimsAreWorkedOn'
  OBVIOUS
<1>1. CASE UNCHANGED <<drain, claim>>
  BY <1>1 DEF ClaimsAreWorkedOn
<1>2. CASE StartDrain
  BY <1>2, StartMoves, ClaimsKept
<1>3. ASSUME NEW d \in Drains, EndDrain(d) \/ Return(d) \/ Reject(d)
      PROVE  ClaimsAreWorkedOn'
  BY <1>3, DrainMoves, ClaimsKept
<1>4. ASSUME NEW d \in Drains, Deliver(d)
      PROVE  ClaimsAreWorkedOn'
  <2>1. /\ drain[d].pc = "checking"
        /\ \A e \in Drains \ {d} : drain'[e] = drain[e]
    BY <1>4, DeliverMoves
  <2>2. PICK i \in 1..Len(pending), w \in Workers : DeliversTo(d, i, w)
    BY <1>4, DeliverMoves
  <2> DEFINE a == pending[i].attempt
  <2>3. CASE ~Claimable(a)
    BY <2>1, <2>2, <2>3, ClaimsKept DEF DeliversTo
  <2>4. CASE Claimable(a)
    <3>1. /\ claim'[a] = [status |-> "processing", holder |-> d, live |-> TRUE]
          /\ \A b \in Attempts \ {a} : claim'[b] = claim[b]
      BY <2>2, <2>4 DEF DeliversTo, TypeOK
    <3>2. /\ drain'[d].pc \in {"processing", "misrouted"} /\ drain'[d].job.attempt = a
          /\ drain'[d].pc = "processing" => WorkerMode[drain'[d].worker] = AttemptMode[a]
      BY <2>2, <2>4 DEF DeliversTo, AfterClaim
    <3>3. \A b \in Attempts : claim[b].status = "processing" => claim[b].holder # d
      BY <2>1 DEF ClaimsAreWorkedOn
    <3>4. a \in Attempts
      BY <2>2 DEF DeliversTo
    <3> QED BY <2>1, <3>1, <3>2, <3>3, <3>4 DEF ClaimsAreWorkedOn
  <2> QED BY <2>3, <2>4
<1>5. ASSUME NEW d \in Drains, CallbackStep(d)
      PROVE  ClaimsAreWorkedOn'
  <2> DEFINE a == drain[d].job.attempt
  <2>1. \A e \in Drains \ {d} : drain'[e] = drain[e]
    BY <1>5, CallbackMoves, GotoType DEF PcNames
  <2>2. a \in Attempts
    BY <1>5, CallbackMoves, CallbackJob
  <2>3. CASE Reroute(d)
    BY <2>1, <2>3, ClaimsKept DEF Reroute, storeState
  <2>4. CASE ReleaseMisrouted(d)
    <3>1. claim' = Released(d, a)
      BY <2>4 DEF ReleaseMisrouted
    <3> QED BY <2>1, <2>2, <3>1, LetGo, ClaimsReleased
  <2>5. CASE Process(d)
    <3>1. Finalize(d)
      BY <2>5 DEF Process
    <3> QED BY <2>1, <2>2, <3>1, LetGo, ClaimsReleased
  <2>6. CASE RetryableFailure(d)
    <3>1. Finalize(d) \/ claim' = Released(d, a) \/ (~Holds(d, a) /\ claim' = claim)
      BY <2>6 DEF RetryableFailure, storeState
    <3> QED BY <2>1, <2>2, <3>1, LetGo, ClaimsReleased
  <2> QED BY <1>5, <2>3, <2>4, <2>5, <2>6 DEF CallbackStep
<1>6. ASSUME NEW a \in Attempts, LeaseExpires(a)
      PROVE  ClaimsAreWorkedOn'
  <2>1. /\ drain' = drain
        /\ \A b \in Attempts : /\ claim'[b].status = claim[b].status
                               /\ claim'[b].holder = claim[b].holder
                               /\ claim'[b].live => claim[b].live
    BY <1>6 DEF LeaseExpires, TypeOK
  <2> QED BY <2>1 DEF ClaimsAreWorkedOn
<1> QED
  BY <1>1, <1>2, <1>3, <1>4, <1>5, <1>6
  DEF Next, DrainStep, Enqueue, Start, Stop, Stopped, Close, vars, storeState

-----------------------------------------------------------------------------
(* Whoever makes a job deliverable schedules a drain, and a drain only     *)
(* ends when nothing is deliverable.                                       *)
LEMMA WakeUpStep ==
  /\ TypeOK /\ SubscribersRun /\ CallbacksHaveWorkers /\ NoLostWakeUp
  /\ [Next]_vars
  => NoLostWakeUp'
<1> SUFFICES ASSUME TypeOK, SubscribersRun, CallbacksHaveWorkers, NoLostWakeUp,
                    [Next]_vars
             PROVE  NoLostWakeUp'
  OBVIOUS
<1>1. CASE \E d \in Drains : drain'[d].pc # "idle"
  BY <1>1 DEF NoLostWakeUp
<1>2. CASE scheduled' = TRUE
  BY <1>2 DEF NoLostWakeUp
<1>3. CASE UNCHANGED <<queueState, drain>>
  BY <1>3 DEF NoLostWakeUp, Deliverable, queueState, ToSet, Accepts
<1>4. ASSUME NEW a \in Attempts, NEW tag \in Modes \cup {NoMode}, Enqueue(a, tag)
      PROVE  NoLostWakeUp'
  <2>1. pending' # <<>>
    <3>1. pending' = Append(pending, [attempt |-> a, tag |-> tag])
      BY <1>4 DEF Enqueue, Pushed
    <3>2. pending \in Seq(Job)
      BY DEF TypeOK
    <3>3. [attempt |-> a, tag |-> tag] \in Job
      BY DEF Job
    <3> QED BY <3>1, <3>2, <3>3, AppendProperties
  <2> QED BY <1>2, <1>4, <2>1 DEF Enqueue, Pushed, Scheduled, TypeOK
<1>5. ASSUME NEW d \in Drains, EndDrain(d)
      PROVE  NoLostWakeUp'
  BY <1>5 DEF EndDrain, NoLostWakeUp, Deliverable, queueState, ToSet, Accepts
<1>6. ASSUME NEW d \in Drains, Deliver(d)
      PROVE  NoLostWakeUp'
  <2>1. PICK i \in 1..Len(pending), w \in Workers : DeliversTo(d, i, w)
    BY <1>6, DeliverMoves
  <2>2. drain'[d].pc # "idle"
    BY <2>1 DEF DeliversTo, AfterClaim
  <2> QED BY <1>1, <2>2
<1>7. ASSUME NEW d \in Drains, Return(d)
      PROVE  NoLostWakeUp'
  <2>1. drain'[d].pc = "checking"
    BY <1>7, DrainType, RestingRows DEF Return
  <2> QED BY <1>1, <2>1
<1>8. ASSUME NEW d \in Drains, Reject(d)
      PROVE  NoLostWakeUp'
  <2>1. drain[d].job \in Job
    BY <1>8, CallbackJob DEF Reject, InCallback
  <2>2. pending' # <<>>
    BY <1>8, <2>1, ConcatEqualIffEmpty DEF Reject, PutBack, TypeOK
  <2> QED BY <1>2, <1>8, <2>2 DEF Reject, Scheduled, TypeOK
<1>9. ASSUME NEW d \in Drains, CallbackStep(d)
      PROVE  NoLostWakeUp'
  BY <1>1, <1>9, CallbackMoves, GotoType DEF PcNames, InCallback
<1>10. ASSUME NEW w \in Workers, Start(w)
       PROVE  NoLostWakeUp'
  <2>1. CASE pending = <<>>
    <3>1. Deliverable' = {}
      BY <1>10, <2>1, EmptySeq, LenProperties DEF Start, Deliverable
    <3> QED BY <3>1 DEF NoLostWakeUp
  <2>2. CASE pending # <<>>
    BY <1>2, <1>10, <2>2 DEF Start, Scheduled, TypeOK
  <2> QED BY <2>1, <2>2
<1>11. ASSUME NEW w \in Workers, Stop(w)
       PROVE  NoLostWakeUp'
  <2>1. ToSet(subs') \subseteq ToSet(subs)
    BY <1>11, Unsubscribed
  <2>2. Deliverable' \subseteq Deliverable
    BY <1>11, <2>1 DEF Stop, Deliverable, Accepts
  <2> QED BY <1>11, <2>2 DEF Stop, NoLostWakeUp
<1>12. CASE Close
  BY <1>12 DEF Close, NoLostWakeUp
<1>13. CASE StartDrain
  BY <1>1, <1>13, StartMoves
<1> QED
  BY <1>1, <1>2, <1>3, <1>4, <1>5, <1>6, <1>7, <1>8, <1>9, <1>10, <1>11, <1>12, <1>13
  DEF Next, DrainStep, LeaseExpires, Stopped, vars

-----------------------------------------------------------------------------
(* The invariant of the queue and its workers: typing, who is subscribed,  *)
(* who is in a callback, who holds a claim, and that no wake-up is lost.   *)
THEOREM QueueInvariant == Spec => []QueueInv
<1>1. Init => QueueInv
  <2> SUFFICES ASSUME Init PROVE QueueInv
    OBVIOUS
  <2>1. TypeOK
    <3>1. drain \in [Drains -> DrainRow] /\ claim \in [Attempts -> ClaimRow]
      BY RestingRows, ClaimRows DEF Init
    <3>2. pending \in Seq(Job) /\ subs \in Seq(Workers) /\ IsInjective(subs)
      BY EmptySeq DEF Init, IsInjective
    <3>3. /\ retries \in [Attempts -> 0..MaxAttempts] /\ enqueues \in 0..MaxEnqueues
          /\ expiries \in 0..MaxExpiries
      BY QueueAssumption DEF Init
    <3>4. /\ scheduled \in BOOLEAN /\ closed \in BOOLEAN /\ enqueued \subseteq Attempts
          /\ worker \in [Workers -> {"new", "running", "stopping", "stopped"}]
      BY DEF Init
    <3> QED BY <3>1, <3>2, <3>3, <3>4 DEF TypeOK, DrainRow, ClaimRow, PcNames
  <2>2. SubscribersRun
    BY DEF Init, SubscribersRun, ToSet
  <2>3. CallbacksHaveWorkers
    BY DEF Init, CallbacksHaveWorkers, Idle, InCallback
  <2>4. ClaimsAreWorkedOn
    BY DEF Init, ClaimsAreWorkedOn, Unclaimed
  <2>5. NoLostWakeUp
    BY DEF Init, NoLostWakeUp, Deliverable
  <2> QED BY <2>1, <2>2, <2>3, <2>4, <2>5 DEF QueueInv
<1>2. QueueInv /\ [Next]_vars => QueueInv'
  BY QueueTypeStep, SubscribersStep, CallbacksStep, ClaimsStep, WakeUpStep DEF QueueInv
<1> QED BY <1>1, <1>2, PTL DEF Spec

(* Whenever the queue holds a job that a subscriber accepts, a drain is    *)
(* scheduled or running.                                                   *)
THEOREM WakeUpsAreKept == Spec => []NoLostWakeUp
<1>1. QueueInv => NoLostWakeUp
  BY DEF QueueInv
<1> QED BY <1>1, QueueInvariant, PTL

(* A live lease has its callback, and a processor only claims of its mode. *)
THEOREM LeasesAreWorkedOn == Spec => []LiveLeaseIsWorkedOn
<1>1. QueueInv => LiveLeaseIsWorkedOn
  BY DEF QueueInv, ClaimsAreWorkedOn, LiveLeaseIsWorkedOn
<1> QED BY <1>1, QueueInvariant, PTL

(* AnalysisWorker.stop and the queue's close leave nobody at work.         *)
THEOREM StopIsComplete == Spec => []StopDrainsEverything
<1>1. QueueInv => StopDrainsEverything
  <2> SUFFICES ASSUME QueueInv PROVE StopDrainsEverything
    OBVIOUS
  <2>1. ASSUME NEW w \in Workers, worker[w] = "stopped", NEW d \in Drains,
               drain[d].worker = w
        PROVE  drain[d].pc \notin InCallback
    BY <2>1 DEF QueueInv, CallbacksHaveWorkers
  <2>2. ASSUME closed, NEW a \in Attempts, claim[a].status = "processing"
        PROVE  FALSE
    <3> DEFINE d == claim[a].holder
    <3>1. d \in Drains /\ drain[d].pc \in InCallback
      BY <2>2 DEF QueueInv, ClaimsAreWorkedOn, InCallback
    <3>2. drain[d].worker \in Workers /\ worker[drain[d].worker] \in {"running", "stopping"}
      BY <3>1 DEF QueueInv, CallbacksHaveWorkers
    <3> QED BY <2>2, <3>2 DEF QueueInv, SubscribersRun
  <2> QED BY <2>1, <2>2 DEF StopDrainsEverything
<1> QED BY <1>1, QueueInvariant, PTL

-----------------------------------------------------------------------------
(* The refinement of the at-least-once queue: counts of jobs.              *)

(* Drains are finitely many, so those at work for an attempt are.          *)
LEMMA FiniteDrains ==
  ASSUME NEW S \in SUBSET Drains
  PROVE  IsFiniteSet(S) /\ Cardinality(S) \in Nat
<1>1. IsFiniteSet(S)
  BY QueueAssumption, FS_Subset
<1> QED BY <1>1, FS_CardinalityType

(* Counts are functions of the attempts.                                   *)
LEMMA CountTypes ==
  ASSUME TypeOK
  PROVE  Waiting \in [Attempts -> Nat] /\ Held \in [Attempts -> Nat]
         /\ Refused \in [Attempts -> Nat]
<1>1. \A a \in Attempts : Cardinality(JobsOf(pending, a)) \in Nat
  BY FiniteJobs DEF TypeOK
<1>2. \A a : Cardinality(DrainsAt(InCallback \ {"rejecting"}, a)) \in Nat
             /\ Cardinality(DrainsAt({"rejecting"}, a)) \in Nat
  BY FiniteDrains DEF DrainsAt
<1> QED BY <1>1, <1>2 DEF Waiting, Held, Refused

(* How many drains are in the given states, for each attempt.              *)
Counts(pcs) == [b \in Attempts |-> Cardinality(DrainsAt(pcs, b))]

(* A drain that enters the given states with a job adds one to the count   *)
(* of its attempt, ...                                                     *)
LEMMA DrainEnters ==
  ASSUME NEW pcs, NEW d \in Drains, NEW a \in Attempts,
         ~(drain[d].pc \in pcs), drain'[d].pc \in pcs, drain'[d].job.attempt = a,
         \A e \in Drains \ {d} : drain'[e] = drain[e]
  PROVE  Counts(pcs)' = Promised!More(Counts(pcs), a)
<1>1. /\ DrainsAt(pcs, a)' = DrainsAt(pcs, a) \cup {d} /\ d \notin DrainsAt(pcs, a)
      /\ \A b \in Attempts \ {a} : DrainsAt(pcs, b)' = DrainsAt(pcs, b)
  BY DEF DrainsAt
<1>2. IsFiniteSet(DrainsAt(pcs, a))
  BY FiniteDrains DEF DrainsAt
<1>3. Cardinality(DrainsAt(pcs, a)') = Cardinality(DrainsAt(pcs, a)) + 1
  BY <1>1, <1>2, FS_AddElement
<1> QED BY <1>1, <1>3 DEF Counts, Promised!More

(* ... one that leaves them takes one away, ...                            *)
LEMMA DrainLeaves ==
  ASSUME NEW pcs, NEW d \in Drains, NEW a \in Attempts,
         drain[d].pc \in pcs, drain[d].job.attempt = a, ~(drain'[d].pc \in pcs),
         \A e \in Drains \ {d} : drain'[e] = drain[e]
  PROVE  /\ Counts(pcs)[a] > 0
         /\ Counts(pcs)' = Promised!Fewer(Counts(pcs), a)
<1>1. /\ DrainsAt(pcs, a)' = DrainsAt(pcs, a) \ {d} /\ d \in DrainsAt(pcs, a)
      /\ \A b \in Attempts \ {a} : DrainsAt(pcs, b)' = DrainsAt(pcs, b)
  BY DEF DrainsAt
<1>2. IsFiniteSet(DrainsAt(pcs, a)) /\ Cardinality(DrainsAt(pcs, a)) \in Nat
  BY FiniteDrains DEF DrainsAt
<1>3. Cardinality(DrainsAt(pcs, a)') = Cardinality(DrainsAt(pcs, a)) - 1
  BY <1>1, <1>2, FS_RemoveElement, ZenonT(60)
<1>4. Cardinality(DrainsAt(pcs, a)) # 0
  BY <1>1, <1>2, FS_EmptySet
<1>5. Counts(pcs)[a] > 0
  BY <1>2, <1>4 DEF Counts
<1>6. Counts(pcs)' = Promised!Fewer(Counts(pcs), a)
  BY <1>1, <1>3 DEF Counts, Promised!Fewer
<1> QED BY <1>5, <1>6

(* ... and one that stays inside or outside leaves the counts alone.       *)
LEMMA DrainStays ==
  ASSUME NEW pcs, NEW d \in Drains,
         drain[d].pc \in pcs <=> drain'[d].pc \in pcs,
         drain'[d].pc \in pcs => drain'[d].job = drain[d].job,
         \A e \in Drains \ {d} : drain'[e] = drain[e]
  PROVE  Counts(pcs)' = Counts(pcs)
<1>1. \A b \in Attempts : DrainsAt(pcs, b)' = DrainsAt(pcs, b)
  BY DEF DrainsAt
<1> QED BY <1>1 DEF Counts

Working == InCallback \ {"rejecting"}
Rejecting == {"rejecting"}

(* The abstract counts are counts of drains in two sets of states, and     *)
(* they depend on the jobs and the drains only.                            *)
LEMMA TwoCounts ==
  /\ Held = Counts(Working) /\ Refused = Counts(Rejecting)
  /\ Held' = Counts(Working)' /\ Refused' = Counts(Rejecting)'
BY DEF Held, Refused, Counts, Working, Rejecting

LEMMA QueueStutters ==
  UNCHANGED <<pending, drain>> => UNCHANGED <<Waiting, Held, Refused>>
BY DEF Waiting, Held, Refused, JobsOf, DrainsAt

(* A job more, for its attempt.                                            *)
LEMMA WaitingMore ==
  ASSUME TypeOK, NEW job \in Job,
         pending' = Append(pending, job) \/ pending' = <<job>> \o pending
  PROVE  Waiting' = Promised!More(Waiting, job.attempt)
<1>1. \A b \in Attempts :
        Cardinality(JobsOf(pending', b)) =
          Cardinality(JobsOf(pending, b)) + (IF job.attempt = b THEN 1 ELSE 0)
  <2>1. pending \in Seq(Job)
    BY DEF TypeOK
  <2>2. CASE pending' = Append(pending, job)
    BY <2>1, <2>2, CountAppend
  <2>3. CASE pending' = <<job>> \o pending
    BY <2>1, <2>3, CountPutBack
  <2> QED BY <2>2, <2>3
<1>2. \A b \in Attempts : Cardinality(JobsOf(pending, b)) \in Nat
  BY FiniteJobs DEF TypeOK
<1>3. job.attempt \in Attempts
  BY DEF Job
<1> QED BY <1>1, <1>2, <1>3 DEF Waiting, Promised!More

(* A job fewer.                                                            *)
LEMMA WaitingFewer ==
  ASSUME TypeOK, NEW i \in 1..Len(pending), pending' = RemoveAt(pending, i),
         pending[i].attempt \in Attempts
  PROVE  /\ Waiting[pending[i].attempt] > 0
         /\ Waiting' = Promised!Fewer(Waiting, pending[i].attempt)
<1> DEFINE a == pending[i].attempt
<1>1. \A b \in Attempts :
        Cardinality(JobsOf(pending', b)) =
          Cardinality(JobsOf(pending, b)) - (IF a = b THEN 1 ELSE 0)
  BY CountRemove DEF TypeOK
<1>2. \A b \in Attempts : Cardinality(JobsOf(pending, b)) \in Nat
                          /\ IsFiniteSet(JobsOf(pending, b))
  BY FiniteJobs DEF TypeOK
<1>3. i \in JobsOf(pending, a)
  BY LenProperties DEF JobsOf, TypeOK
<1>4. Cardinality(JobsOf(pending, a)) # 0
  BY <1>2, <1>3, FS_EmptySet
<1> QED BY <1>1, <1>2, <1>4 DEF Waiting, Promised!Fewer

(* A drain between two states of a callback, or outside.                   *)
LEMMA HeldStutters ==
  ASSUME TypeOK, NEW d \in Drains,
         drain[d].pc \in Working <=> drain'[d].pc \in Working,
         drain[d].pc # "rejecting", drain'[d].pc # "rejecting",
         drain'[d].pc \in Working => drain'[d].job = drain[d].job,
         \A e \in Drains \ {d} : drain'[e] = drain[e]
  PROVE  UNCHANGED <<Held, Refused>>
<1>1. Counts(Working)' = Counts(Working)
  BY DrainStays
<1>2. Counts(Rejecting)' = Counts(Rejecting)
  BY DrainStays DEF Rejecting
<1> QED BY <1>1, <1>2, TwoCounts

(* A step of a callback keeps its job held, or refuses it.                 *)
LEMMA CallbackRefines ==
  ASSUME TypeOK, CallbacksHaveWorkers, NEW d \in Drains, drain[d].pc \in Working,
         NEW pc \in InCallback, Goto(d, pc)
  PROVE  /\ pc # "rejecting" => UNCHANGED <<Held, Refused>>
         /\ pc = "rejecting" /\ UNCHANGED pending => Promised!Refuse(drain[d].job.attempt)
<1> DEFINE a == drain[d].job.attempt
<1>1. /\ drain'[d].pc = pc /\ drain'[d].job = drain[d].job
      /\ \A e \in Drains \ {d} : drain'[e] = drain[e]
  BY GotoType DEF PcNames
<1>2. a \in Attempts
  BY CallbackJob DEF Working
<1>3. ASSUME pc # "rejecting"
      PROVE  UNCHANGED <<Held, Refused>>
  BY <1>1, <1>3, HeldStutters DEF Working
<1>4. ASSUME pc = "rejecting", UNCHANGED pending
      PROVE  Promised!Refuse(a)
  <2>1. Held[a] > 0 /\ Held' = Promised!Fewer(Held, a)
    BY <1>1, <1>2, <1>4, DrainLeaves, TwoCounts DEF Working
  <2>2. Refused' = Promised!More(Refused, a)
    BY <1>1, <1>2, <1>4, DrainEnters, TwoCounts DEF Working, Rejecting
  <2>3. Waiting' = Waiting
    BY <1>4 DEF Waiting, JobsOf
  <2> QED BY <2>1, <2>2, <2>3 DEF Promised!Refuse
<1> QED BY <1>3, <1>4

(* Every step of the queue, its drains and its workers is a step of the    *)
(* at-least-once queue, or none.                                           *)
LEMMA QueueRefines ==
  QueueInv /\ [Next]_vars => [Promised!Next]_(Promised!queueVars)
<1> SUFFICES ASSUME QueueInv, [Next]_vars
             PROVE  Promised!Next \/ UNCHANGED <<Waiting, Held, Refused>>
  BY DEF Promised!queueVars
<1> USE DEF QueueInv
<1>1. CASE UNCHANGED <<pending, drain>>
  BY <1>1, QueueStutters
<1>2. ASSUME NEW a \in Attempts, NEW tag \in Modes \cup {NoMode}, Enqueue(a, tag)
      PROVE  Promised!Enqueue(a)
  <2> DEFINE job == [attempt |-> a, tag |-> tag]
  <2>1. job \in Job /\ job.attempt = a
    BY DEF Job
  <2>2. Waiting' = Promised!More(Waiting, a)
    BY <1>2, <2>1, WaitingMore DEF Enqueue, Pushed
  <2>3. UNCHANGED <<Held, Refused>>
    BY <1>2 DEF Enqueue, Held, Refused, DrainsAt
  <2> QED BY <2>2, <2>3 DEF Promised!Enqueue
<1>3. CASE StartDrain
  <2>1. UNCHANGED <<Held, Refused>>
    BY <1>3, StartMoves, HeldStutters DEF Working, InCallback
  <2> QED BY <1>3, <2>1 DEF StartDrain, Waiting, JobsOf
<1>4. ASSUME NEW d \in Drains, EndDrain(d)
      PROVE  UNCHANGED <<Waiting, Held, Refused>>
  <2>1. drain[d].pc = "checking" /\ pending' = pending
    BY <1>4 DEF EndDrain, queueState
  <2>2. UNCHANGED <<Held, Refused>>
    BY <1>4, <2>1, DrainMoves, HeldStutters DEF Working, InCallback
  <2> QED BY <2>1, <2>2 DEF Waiting, JobsOf
<1>5. ASSUME NEW d \in Drains, Deliver(d)
      PROVE  \E a \in Attempts : Promised!Deliver(a)
  <2>1. PICK i \in 1..Len(pending), w \in Workers : DeliversTo(d, i, w)
    BY <1>5, DeliverMoves
  <2> DEFINE a == pending[i].attempt
  <2>2. /\ a \in Attempts /\ pending' = RemoveAt(pending, i)
        /\ drain'[d].job.attempt = a /\ drain'[d].pc \in {"returning", "processing", "misrouted"}
        /\ drain[d].pc = "checking"
        /\ \A e \in Drains \ {d} : drain'[e] = drain[e]
    BY <1>5, <2>1, DeliverMoves DEF DeliversTo, AfterClaim
  <2>3. Waiting[a] > 0 /\ Waiting' = Promised!Fewer(Waiting, a)
    BY <2>2, WaitingFewer
  <2>4. Held' = Promised!More(Held, a)
    BY <2>2, DrainEnters, TwoCounts DEF Working, InCallback
  <2>5. Refused' = Refused
    BY <2>2, DrainStays, TwoCounts DEF Rejecting
  <2> QED BY <2>2, <2>3, <2>4, <2>5 DEF Promised!Deliver
<1>6. ASSUME NEW d \in Drains, Return(d)
      PROVE  \E a \in Attempts : Promised!Acknowledge(a)
  <2> DEFINE a == drain[d].job.attempt
  <2>1. /\ drain[d].pc = "returning" /\ drain'[d].pc \in {"idle", "checking"}
        /\ pending' = pending /\ \A e \in Drains \ {d} : drain'[e] = drain[e]
    BY <1>6, DrainMoves DEF Return, queueState
  <2>2. a \in Attempts
    BY <2>1, CallbackJob DEF InCallback
  <2>3. Held[a] > 0 /\ Held' = Promised!Fewer(Held, a)
    BY <2>1, <2>2, DrainLeaves, TwoCounts DEF Working, InCallback
  <2>4. Refused' = Refused /\ Waiting' = Waiting
    BY <2>1, DrainStays, TwoCounts DEF Rejecting, Waiting, JobsOf
  <2> QED BY <2>2, <2>3, <2>4 DEF Promised!Acknowledge
<1>7. ASSUME NEW d \in Drains, Reject(d)
      PROVE  \E a \in Attempts : Promised!PutBack(a)
  <2> DEFINE a == drain[d].job.attempt
  <2>1. /\ drain[d].pc = "rejecting" /\ drain'[d].pc \in {"idle", "checking"}
        /\ pending' = <<drain[d].job>> \o pending
        /\ \A e \in Drains \ {d} : drain'[e] = drain[e]
    BY <1>7, DrainMoves DEF Reject, PutBack
  <2>2. a \in Attempts /\ drain[d].job \in Job
    BY <2>1, CallbackJob DEF InCallback
  <2>3. Refused[a] > 0 /\ Refused' = Promised!Fewer(Refused, a)
    BY <2>1, <2>2, DrainLeaves, TwoCounts DEF Rejecting
  <2>4. Waiting' = Promised!More(Waiting, a)
    BY <2>1, <2>2, WaitingMore
  <2>5. Held' = Held
    BY <2>1, DrainStays, TwoCounts DEF Working, InCallback
  <2> QED BY <2>2, <2>3, <2>4, <2>5 DEF Promised!PutBack
<1>8. ASSUME NEW d \in Drains,
             ReleaseMisrouted(d) \/ Process(d) \/ RetryableFailure(d)
                \/ (Reroute(d) /\ UNCHANGED pending)
      PROVE  \/ UNCHANGED <<Waiting, Held, Refused>>
             \/ \E a \in Attempts : Promised!Refuse(a)
  <2>1. PICK pc \in InCallback : Goto(d, pc)
    BY <1>8, CallbackMoves DEF CallbackStep
  <2>2. drain[d].pc \in Working /\ pending' = pending
    BY <1>8 DEF ReleaseMisrouted, Process, RetryableFailure, Reroute, Working, InCallback,
       queueState
  <2>3. drain[d].job.attempt \in Attempts
    BY <2>2, CallbackJob DEF Working
  <2>4. CASE pc = "rejecting"
    BY <2>1, <2>2, <2>3, <2>4, CallbackRefines
  <2>5. CASE pc # "rejecting"
    BY <2>1, <2>2, <2>5, CallbackRefines DEF Waiting, JobsOf
  <2> QED BY <2>4, <2>5
<1>9. ASSUME NEW d \in Drains, Reroute(d)
      PROVE  \/ UNCHANGED <<Waiting, Held, Refused>>
             \/ \E a \in Attempts : Promised!Refuse(a) \/ Promised!Enqueue(a)
  <2> DEFINE job == [drain[d].job EXCEPT !.tag = RouteTag(drain[d].job)]
  <2>1. CASE UNCHANGED pending
    BY <1>8, <1>9, <2>1
  <2>2. CASE Pushed(job) /\ Goto(d, "returning")
    <3>1. drain[d].pc \in Working /\ drain[d].job \in Job
      BY <1>9, CallbackJob DEF Reroute, Working, InCallback
    <3>2. job \in Job /\ job.attempt \in Attempts
      BY <3>1, QueueAssumption DEF RouteTag, Job
    <3>3. Waiting' = Promised!More(Waiting, job.attempt)
      BY <2>2, <3>2, WaitingMore DEF Pushed
    <3>4. UNCHANGED <<Held, Refused>>
      BY <2>2, <3>1, CallbackRefines DEF InCallback
    <3> QED BY <3>2, <3>3, <3>4 DEF Promised!Enqueue
  <2> QED BY <1>9, <2>1, <2>2 DEF Reroute, queueState
<1> QED
  BY <1>1, <1>2, <1>3, <1>4, <1>5, <1>6, <1>7, <1>8, <1>9
  DEF Next, DrainStep, CallbackStep, LeaseExpires, Start, Stop, Stopped, Close, vars,
      queueState, Promised!Next

(* InMemoryAnalysisQueue with its workers is the at-least-once queue the   *)
(* delivery of media relies on: no job is lost or made up, whatever the    *)
(* interleaving of drains, rejections, reroutes and stops.                 *)
THEOREM QueueIsAtLeastOnce == Spec => ImplementsAtLeastOnce
<1>1. Init => Promised!Init
  <2> SUFFICES ASSUME Init PROVE Promised!Init
    OBVIOUS
  <2>1. \A a \in Attempts : JobsOf(pending, a) = {}
    BY DEF Init, JobsOf
  <2>2. \A a \in Attempts : /\ DrainsAt(InCallback \ {"rejecting"}, a) = {}
                            /\ DrainsAt({"rejecting"}, a) = {}
    BY DEF Init, DrainsAt, Idle, InCallback
  <2> QED BY <2>1, <2>2, FS_EmptySet DEF Promised!Init, Waiting, Held, Refused
<1> QED BY <1>1, QueueRefines, QueueInvariant, PTL DEF Spec, ImplementsAtLeastOnce, Promised!Spec
=============================================================================
