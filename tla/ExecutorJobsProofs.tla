------------------------- MODULE ExecutorJobsProofs -------------------------
(***************************************************************************)
(* The deque rotation of _pop_next_runnable_job neither loses nor          *)
(* duplicates a job (JobsConserved), for all values of the constants.      *)
(*                                                                         *)
(* JobsConserved counts the positions of j in the deque.  Two lemmas on    *)
(* sequences carry the proof: appending x adds one position of x and none  *)
(* of any other job (AppendCount), and the rotation that pops q[k] has, for *)
(* every j, exactly the positions of j in q other than k (RotationCount).  *)
(* The second is shown by a bijection from the positions in the rotated    *)
(* deque back to those in q: the tail q[k+1..] moves to the front, the     *)
(* head q[..k-1] to the back.  With ExecInv for the types, JobsConserved is *)
(* then inductive as it stands.                                            *)
(***************************************************************************)
EXTENDS ExecutorProofs, FiniteSetTheorems

(* The positions of j in the sequence q. *)
Idx(q, j) == {i \in 1..Len(q) : q[i] = j}

(* The rotation _pop_next_runnable_job leaves when it takes q[k]. *)
Rotate(q, k) == SubSeq(q, k + 1, Len(q)) \o SubSeq(q, 1, k - 1)

LEMMA IdxFinite ==
    ASSUME NEW S, NEW q \in Seq(S), NEW j
    PROVE  IsFiniteSet(Idx(q, j)) /\ Idx(q, j) \subseteq 1..Len(q)
<1>1. IsFiniteSet(1..Len(q))
  BY FS_Interval
<1> QED
  BY <1>1, FS_Subset DEF Idx

(* Appending x adds one position of x and none of any other value. *)
LEMMA AppendCount ==
    ASSUME NEW S, NEW q \in Seq(S), NEW x \in S, NEW j
    PROVE  Cardinality(Idx(Append(q, x), j))
             = Cardinality(Idx(q, j)) + (IF x = j THEN 1 ELSE 0)
<1>1. /\ Len(Append(q, x)) = Len(q) + 1
      /\ \A i \in 1..Len(q) : Append(q, x)[i] = q[i]
      /\ Append(q, x)[Len(q) + 1] = x
  BY AppendProperties
<1>2. IsFiniteSet(Idx(q, j)) /\ Len(q) + 1 \notin Idx(q, j)
  <2>1. IsFiniteSet(Idx(q, j))
    BY IdxFinite
  <2>2. Len(q) + 1 \notin Idx(q, j)
    BY DEF Idx
  <2> QED
    BY <2>1, <2>2
<1>3. CASE x = j
  <2>1. Idx(Append(q, x), j) = Idx(q, j) \cup {Len(q) + 1}
    BY <1>1, <1>3 DEF Idx
  <2>2. Cardinality(Idx(q, j) \cup {Len(q) + 1}) = Cardinality(Idx(q, j)) + 1
    BY <1>2, FS_AddElement
  <2> QED
    BY <1>3, <2>1, <2>2
<1>4. CASE x # j
  <2>1. Idx(Append(q, x), j) = Idx(q, j)
    BY <1>1, <1>4 DEF Idx
  <2>2. Cardinality(Idx(q, j)) \in Nat
    BY <1>2, FS_CardinalityType
  <2> QED
    BY <1>4, <2>1, <2>2
<1> QED
  BY <1>3, <1>4

(***************************************************************************)
(* The rotation that takes q[k] keeps every other position: it has as many *)
(* positions of j as q has, less one when q[k] = j.                        *)
(***************************************************************************)
LEMMA RotationCount ==
    ASSUME NEW S, NEW q \in Seq(S), NEW k \in 1..Len(q), NEW j
    PROVE  Cardinality(Idx(Rotate(q, k), j))
             = Cardinality(Idx(q, j)) - (IF q[k] = j THEN 1 ELSE 0)
<1> DEFINE n == Len(q)
           t == n - k
           r == Rotate(q, k)
<1>0. n \in Nat /\ k \in 1..n /\ t \in Nat
  OBVIOUS
<1>1. /\ r \in Seq(S)
      /\ Len(r) = n - 1
      /\ \A i \in 1..(n - 1) : r[i] = IF i <= t THEN q[k + i] ELSE q[i - t]
  <2> DEFINE tl == SubSeq(q, k + 1, n)
             hd == SubSeq(q, 1, k - 1)
  <2>1. /\ tl \in Seq(S) /\ Len(tl) = t
        /\ \A i \in 1..t : tl[i] = q[k + i]
    BY SubSeqProperties
  <2>2. /\ hd \in Seq(S) /\ Len(hd) = k - 1
        /\ \A i \in 1..(k - 1) : hd[i] = q[i]
    BY SubSeqProperties
  <2>3. r = tl \o hd
    BY DEF Rotate
  <2> HIDE DEF tl, hd
  <2>4. /\ tl \o hd \in Seq(S)
        /\ Len(tl \o hd) = Len(tl) + Len(hd)
        /\ \A i \in 1..(Len(tl) + Len(hd)) :
              (tl \o hd)[i] = IF i <= Len(tl) THEN tl[i] ELSE hd[i - Len(tl)]
    BY <2>1, <2>2, ConcatProperties
  <2>5. Len(tl) + Len(hd) = n - 1
    BY <1>0, <2>1, <2>2
  <2>6. ASSUME NEW i \in 1..(n - 1)
        PROVE  r[i] = IF i <= t THEN q[k + i] ELSE q[i - t]
    <3>1. CASE i <= t
      BY <1>0, <2>1, <2>3, <2>4, <2>5, <3>1
    <3>2. CASE ~(i <= t)
      <4>1. i - t \in 1..(k - 1)
        BY <1>0, <3>2
      <4> QED
        BY <1>0, <2>1, <2>2, <2>3, <2>4, <2>5, <3>2, <4>1
    <3> QED
      BY <3>1, <3>2
  <2> QED
    BY <2>3, <2>4, <2>5, <2>6
<1> HIDE DEF n, t, r
<1> DEFINE A == Idx(r, j)
           B == Idx(q, j) \ {k}
           g == [i \in A |-> IF i <= t THEN k + i ELSE i - t]
<1>2. A \subseteq 1..(n - 1) /\ \A i \in A : r[i] = j
  BY <1>1 DEF Idx
<1>3. g \in [A -> B]
  <2>1. ASSUME NEW i \in A PROVE g[i] \in B
    <3>1. CASE i <= t
      <4>1. g[i] = k + i /\ k + i \in 1..n /\ k + i # k
        BY <1>0, <1>2, <3>1 DEF t
      <4>2. q[k + i] = j
        BY <1>1, <1>2, <3>1
      <4> QED
        BY <4>1, <4>2 DEF Idx, n
    <3>2. CASE ~(i <= t)
      <4>1. g[i] = i - t /\ i - t \in 1..(k - 1)
        BY <1>0, <1>2, <3>2 DEF t, n
      <4>2. q[i - t] = j
        BY <1>1, <1>2, <3>2
      <4> QED
        BY <4>1, <4>2 DEF Idx, n
    <3> QED
      BY <3>1, <3>2
  <2> QED
    BY <2>1
<1>4. \A a, b \in A : g[a] = g[b] => a = b
  BY <1>0, <1>2 DEF t
<1>5. \A m \in B : \E i \in A : g[i] = m
  <2> SUFFICES ASSUME NEW m \in B PROVE \E i \in A : g[i] = m
    OBVIOUS
  <2>1. m \in 1..n /\ m # k /\ q[m] = j
    BY DEF Idx, n
  <2>2. CASE m > k
    <3>1. m - k \in 1..(n - 1) /\ m - k <= t /\ k + (m - k) = m
      BY <1>0, <2>1, <2>2 DEF t
    <3>2. r[m - k] = j
      BY <1>1, <2>1, <3>1
    <3>3. m - k \in A
      BY <1>1, <3>1, <3>2 DEF Idx
    <3> QED
      BY <3>1, <3>3
  <2>3. CASE m < k
    <3>1. m + t \in 1..(n - 1) /\ ~(m + t <= t) /\ (m + t) - t = m
      BY <1>0, <2>1, <2>3 DEF t
    <3>2. r[m + t] = j
      BY <1>1, <2>1, <3>1
    <3>3. m + t \in A
      BY <1>1, <3>1, <3>2 DEF Idx
    <3> QED
      BY <3>1, <3>3
  <2> QED
    BY <1>0, <2>1, <2>2, <2>3
<1>6. ExistsBijection(A, B)
  BY <1>3, <1>4, <1>5 DEF ExistsBijection, Bijection, Injection, Surjection,
                          IsInjective
<1>7. IsFiniteSet(A) /\ IsFiniteSet(Idx(q, j))
  BY <1>1, IdxFinite
<1>8. Cardinality(B) = Cardinality(A)
  BY <1>6, <1>7, FS_Bijection
<1>9. Cardinality(B) = Cardinality(Idx(q, j)) - (IF q[k] = j THEN 1 ELSE 0)
  <2>1. k \in Idx(q, j) <=> q[k] = j
    BY <1>0 DEF Idx, n
  <2>2. Cardinality(Idx(q, j) \ {k})
          = IF k \in Idx(q, j) THEN Cardinality(Idx(q, j)) - 1
            ELSE Cardinality(Idx(q, j))
    BY <1>7, FS_RemoveElement
  <2>3. Cardinality(Idx(q, j)) \in Nat
    BY <1>7, FS_CardinalityType
  <2> QED
    BY <2>1, <2>2, <2>3
<1> QED
  BY <1>8, <1>9 DEF r
-----------------------------------------------------------------------------
JobsInv == ExecInv /\ JobsConserved

LEMMA CountIsIdx ==
    ASSUME NEW j
    PROVE  /\ CountPending(j) = Cardinality(Idx(pending, j))
           /\ CountPending(j)' = Cardinality(Idx(pending', j))
BY DEF CountPending, Idx

LEMMA InitJobsInv == Init => JobsInv
<1> SUFFICES ASSUME Init PROVE JobsInv
  OBVIOUS
<1>1. \A j \in Jobs : Idx(pending, j) = {}
  BY DEF Init, Idx
<1>2. \A j \in Jobs : CountPending(j) = 0
  BY <1>1, CountIsIdx, FS_EmptySet
<1> QED
  BY <1>2, InitExecInv DEF JobsInv, JobsConserved, Init

(* _pending_jobs.append counts one more admission and one more position  *)
(* of the admitted job.                                                  *)
LEMMA AppendJobs ==
    ASSUME JobsInv, AdmitAppend
    PROVE  JobsConserved'
<1> SUFFICES ASSUME NEW j \in Jobs
             PROVE  admitted'[j] = CountPending(j)' + started'[j]
  BY DEF JobsConserved
<1>1. icur \in Jobs /\ pending \in Seq(Jobs) /\ admitted \in [Jobs -> Nat]
  BY DEF AdmitAppend, JobsInv, ExecInv, TypeOK
<1>2. Cardinality(Idx(pending', j))
        = Cardinality(Idx(pending, j)) + (IF icur = j THEN 1 ELSE 0)
  BY <1>1, AppendCount DEF AdmitAppend
<1>3. admitted'[j] = admitted[j] + (IF icur = j THEN 1 ELSE 0)
      /\ started' = started
  BY <1>1 DEF AdmitAppend
<1>4. admitted[j] = CountPending(j) + started[j]
  BY DEF JobsInv, JobsConserved
<1>5. /\ CountPending(j) = Cardinality(Idx(pending, j))
      /\ CountPending(j)' = Cardinality(Idx(pending', j))
  BY CountIsIdx
<1>6. Cardinality(Idx(pending, j)) \in Nat /\ admitted[j] \in Nat
      /\ started[j] \in Nat
  BY <1>1, IdxFinite, FS_CardinalityType DEF JobsInv, ExecInv, TypeOK
<1> QED
  BY <1>2, <1>3, <1>4, <1>5, <1>6

(* _pop_next_runnable_job counts one more start and one position less of *)
(* the popped job; every other job keeps its positions.                  *)
LEMMA PopJobs ==
    ASSUME JobsInv, NEW k \in 1..Len(pending), PopJob(k)
    PROVE  JobsConserved'
<1> SUFFICES ASSUME NEW j \in Jobs
             PROVE  admitted'[j] = CountPending(j)' + started'[j]
  BY DEF JobsConserved
<1>1. pending \in Seq(Jobs) /\ started \in [Jobs -> Nat]
  BY DEF JobsInv, ExecInv, TypeOK
<1>2. pending[k] \in Jobs
  BY <1>1, ElementOfSeq
<1>3. Cardinality(Idx(pending', j))
        = Cardinality(Idx(pending, j)) - (IF pending[k] = j THEN 1 ELSE 0)
  <2>1. pending' = Rotate(pending, k)
    BY DEF PopJob, Rotate
  <2> QED
    BY <1>1, <2>1, RotationCount
<1>4. started'[j] = started[j] + (IF pending[k] = j THEN 1 ELSE 0)
      /\ admitted' = admitted
  BY <1>1, <1>2 DEF PopJob
<1>5. admitted[j] = CountPending(j) + started[j]
  BY DEF JobsInv, JobsConserved
<1>6. /\ CountPending(j) = Cardinality(Idx(pending, j))
      /\ CountPending(j)' = Cardinality(Idx(pending', j))
  BY CountIsIdx
<1>7. Cardinality(Idx(pending, j)) \in Nat /\ admitted[j] \in Nat
      /\ started[j] \in Nat
  BY <1>1, IdxFinite, FS_CardinalityType DEF JobsInv, ExecInv, TypeOK
<1> QED
  BY <1>3, <1>4, <1>5, <1>6, <1>7

(* Every other step leaves the deque and both counters alone. *)
LEMMA OtherJobs ==
    ASSUME JobsInv, [Next]_vars, ~AdmitAppend,
           ~\E k \in 1..Len(pending) : PopJob(k)
    PROVE  UNCHANGED <<pending, admitted, started>>
<1>1. CASE IntakeNext
  BY <1>1 DEF IntakeNext, Fetch, ReceiveUndecodable, ReceiveJob,
              ReceiveJobNameTaken, AdmitNotify, ReceiveData,
              ReceiveDataNameTaken, DataNotify, historyVars
<1>2. CASE SchedulerNext
  BY <1>2 DEF SchedulerNext, Acquire, CheckFound, CheckNext, Sleep, PopNone,
              PrepareCopyFails, PrepareEscapes, PrepareFailed, PrepareOk,
              Execute, StoreNamedOk, StoreNamedTaken, SendNamed, historyVars
<1>3. CASE EnvNext
  BY <1>3 DEF EnvNext, Submit, DatastoreReply, LoseBlob, DropReply,
              historyVars
<1>4. CASE UNCHANGED vars
  BY <1>4 DEF vars, historyVars
<1> QED
  BY <1>1, <1>2, <1>3, <1>4 DEF Next

LEMMA NextJobsInv == JobsInv /\ [Next]_vars => JobsInv'
<1> SUFFICES ASSUME JobsInv, [Next]_vars PROVE JobsInv'
  OBVIOUS
<1>1. ExecInv'
  BY NextExecInv DEF JobsInv
<1>2. CASE AdmitAppend
  BY <1>1, <1>2, AppendJobs DEF JobsInv
<1>3. ASSUME NEW k \in 1..Len(pending), PopJob(k) PROVE JobsInv'
  BY <1>1, <1>3, PopJobs DEF JobsInv
<1>4. CASE ~AdmitAppend /\ ~\E k \in 1..Len(pending) : PopJob(k)
  <2>1. UNCHANGED <<pending, admitted, started>>
    BY <1>4, OtherJobs
  <2> QED
    BY <1>1, <2>1 DEF JobsInv, JobsConserved, CountPending
<1> QED
  BY <1>2, <1>3, <1>4

(***************************************************************************)
(* Under every interleaving of the intake, the scheduler and the           *)
(* environment, each admission of a job (_handle_job's append) is either   *)
(* still in the deque or was popped exactly once by _pop_next_runnable_job:*)
(* the rotation neither loses nor duplicates a job.                        *)
(***************************************************************************)
THEOREM JobsConservedHolds == Spec => []JobsConserved
<1>1. JobsInv => JobsConserved
  BY DEF JobsInv
<1> QED
  BY InitJobsInv, NextJobsInv, <1>1, PTL DEF Spec
=============================================================================
