--------------------------- MODULE ExecutorProofs ---------------------------
(***************************************************************************)
(* Type correctness of the Executor model, for all values of the          *)
(* constants.                                                              *)
(*                                                                         *)
(* TypeOK alone is not inductive.  Three facts about the control points    *)
(* make it so:                                                             *)
(*   - while the scheduler is about to pop, the position its runnability   *)
(*     check stopped at is inside the deque (the intake only appends in    *)
(*     the meantime), so the deque losing a job keeps sidx in range;       *)
(*   - while the intake is admitting a job, icur is a job (it is appended  *)
(*     to the deque of jobs);                                              *)
(*   - from the pop to the end of a job, scur is a job (its JobInfo is     *)
(*     read).                                                              *)
(***************************************************************************)
EXTENDS Executor, SequenceTheorems, TLAPS

RunningPC == {"prepare", "execute", "store_named", "send_named"}

ExecInv ==
    /\ TypeOK
    /\ spc = "pop" => sidx <= Len(pending)
    /\ ipc \in {"admit_append", "admit_notify"} => icur \in Jobs
    /\ spc \in RunningPC => scur \in Jobs

-----------------------------------------------------------------------------
(***************************************************************************)
(* Lemmas on the storage operators: storing names of Names and failing a   *)
(* copy keep the index and the blob directory well typed.                  *)
(***************************************************************************)
LEMMA StoreNamesType ==
    ASSUME StorageTypeOK, NEW S \in SUBSET Names, StoreNames(S)
    PROVE  StorageTypeOK'
BY StorageAssumption DEF StorageTypeOK, StoreNames

LEMMA StoreAllOkType ==
    ASSUME StorageTypeOK, NEW S \in SUBSET Names, StoreAllOk(S)
    PROVE  StorageTypeOK'
BY StoreNamesType DEF StoreAllOk

LEMMA StoreUntilTakenType ==
    ASSUME StorageTypeOK, NEW S \in SUBSET Names, StoreUntilTaken(S)
    PROVE  StorageTypeOK'
BY StoreNamesType DEF StoreUntilTaken

LEMMA CopyFailsType ==
    ASSUME StorageTypeOK, NEW n, CopyFails(n)
    PROVE  StorageTypeOK'
BY DEF StorageTypeOK, CopyFails, Cleanup, storageVars

(* What a fetched bundle carries: a job for JOB_SUBMIT, a name for NDATA_GET. *)
LEMMA BundleFields ==
    ASSUME NEW b \in Bundle
    PROVE  /\ b.type \in {"JOB_SUBMIT", "NDATA_GET"}
           /\ b.type = "JOB_SUBMIT" => b.what \in Jobs
           /\ b.type = "NDATA_GET" => b.what \in Names
BY DEF Bundle

(* The fields of a job's JobInfo used by the scheduler. *)
LEMMA InfoFields ==
    ASSUME NEW j \in Jobs
    PROVE  /\ Info[j].wasm_module \in Names
           /\ Info[j].stdin_file \in Names \cup {NoName}
           /\ Info[j].data \subseteq Names
           /\ Info[j].named_results \subseteq Names
           /\ Carried[j] \subseteq Names
           /\ RequiredNamedData(j) \subseteq Names
BY JobInfoAssumption DEF JobInfoType, RequiredNamedData

-----------------------------------------------------------------------------
LEMMA InitExecInv == Init => ExecInv
BY ExecutorAssumption DEF Init, ExecInv, TypeOK, StorageInit, StorageTypeOK,
                          IntakePC, SchedPC, RunningPC

(* The steps of the intake task preserve the invariant. *)
LEMMA IntakeInv ==
    ASSUME ExecInv, IntakeNext
    PROVE  ExecInv'
<1> USE ExecutorAssumption DEF ExecInv, TypeOK, StorageTypeOK, IntakePC, SchedPC,
                               RunningPC
<1>1. CASE Fetch
  BY <1>1 DEF Fetch, storageVars, intakeVars, schedVars, envVars, historyVars
<1>2. ASSUME NEW b \in batch, ReceiveUndecodable(b) PROVE ExecInv'
  BY <1>2 DEF ReceiveUndecodable, AbortBatch, storageVars, schedVars,
              envVars, historyVars
<1>3. ASSUME NEW b \in batch, ReceiveJob(b) PROVE ExecInv'
  <2>1. b.what \in Jobs /\ Carried[b.what] \subseteq Names
        /\ RequiredNamedData(b.what) \subseteq Names
    BY <1>3, BundleFields, InfoFields DEF ReceiveJob
  <2>2. StorageTypeOK'
    BY <1>3, <2>1, StoreAllOkType DEF ReceiveJob
  <2>3. QED
    BY <1>3, <2>1, <2>2 DEF ReceiveJob, schedVars, envVars, historyVars
<1>4. ASSUME NEW b \in batch, ReceiveJobNameTaken(b) PROVE ExecInv'
  <2>1. Carried[b.what] \subseteq Names
    BY <1>4, BundleFields, InfoFields DEF ReceiveJobNameTaken
  <2>2. StorageTypeOK'
    BY <1>4, <2>1, StoreUntilTakenType DEF ReceiveJobNameTaken
  <2>3. QED
    BY <1>4, <2>2 DEF ReceiveJobNameTaken, AbortBatch, schedVars, envVars,
                      historyVars
<1>5. CASE AdmitAppend
  <2>1. icur \in Jobs
    BY <1>5 DEF AdmitAppend
  <2>2. pending' \in Seq(Jobs) /\ Len(pending') = Len(pending) + 1
    BY <1>5, <2>1, AppendProperties DEF AdmitAppend
  <2>3. QED
    BY <1>5, <2>1, <2>2 DEF AdmitAppend, storageVars, schedVars, envVars
<1>6. CASE AdmitNotify
  BY <1>6 DEF AdmitNotify, Wake, storageVars, envVars, historyVars, SchedPC
<1>7. ASSUME NEW b \in batch, ReceiveData(b) PROVE ExecInv'
  <2>1. {b.what} \subseteq Names
    BY <1>7, BundleFields DEF ReceiveData
  <2>2. StorageTypeOK'
    BY <1>7, <2>1, StoreAllOkType DEF ReceiveData
  <2>3. QED
    BY <1>7, <2>2 DEF ReceiveData, schedVars, envVars, historyVars
<1>8. ASSUME NEW b \in batch, ReceiveDataNameTaken(b) PROVE ExecInv'
  BY <1>8 DEF ReceiveDataNameTaken, AbortBatch, storageVars, schedVars,
              envVars, historyVars
<1>9. CASE DataNotify
  BY <1>9 DEF DataNotify, Wake, storageVars, envVars, historyVars, SchedPC
<1>10. QED
  BY <1>1, <1>2, <1>3, <1>4, <1>5, <1>6, <1>7, <1>8, <1>9 DEF IntakeNext

(***************************************************************************)
(* The rotation of _pop_next_runnable_job: the deque without its k-th job, *)
(* rotated, is a deque of jobs one shorter.                                *)
(***************************************************************************)
LEMMA RotationType ==
    ASSUME NEW S, NEW q \in Seq(S), NEW k \in 1..Len(q)
    PROVE  /\ SubSeq(q, k + 1, Len(q)) \o SubSeq(q, 1, k - 1) \in Seq(S)
           /\ Len(SubSeq(q, k + 1, Len(q)) \o SubSeq(q, 1, k - 1)) = Len(q) - 1
<1> DEFINE tail == SubSeq(q, k + 1, Len(q))
           head == SubSeq(q, 1, k - 1)
<1>1. tail \in Seq(S) /\ Len(tail) = Len(q) - k
  BY SubSeqProperties
<1>2. head \in Seq(S) /\ Len(head) = k - 1
  BY SubSeqProperties
<1>3. tail \o head \in Seq(S) /\ Len(tail \o head) = Len(tail) + Len(head)
  BY <1>1, <1>2, ConcatProperties
<1>4. Len(q) \in Nat
  BY LenProperties
<1>5. tail \o head \in Seq(S)
  BY <1>3
<1>6. Len(tail \o head) = Len(q) - 1
  <2> HIDE DEF tail, head
  <2>1. QED
    BY <1>1, <1>2, <1>3, <1>4
<1>7. QED
  BY <1>5, <1>6

(* Counting one more occurrence keeps a counter function well typed. *)
LEMMA IncrementType ==
    ASSUME NEW J, NEW f \in [J -> Nat], NEW x \in J
    PROVE  [f EXCEPT ![x] = @ + 1] \in [J -> Nat]
OBVIOUS

(* The steps of the scheduler task preserve the invariant. *)
LEMMA SchedulerInv ==
    ASSUME ExecInv, SchedulerNext
    PROVE  ExecInv'
<1> USE ExecutorAssumption DEF ExecInv, TypeOK, StorageTypeOK, IntakePC, SchedPC,
                               RunningPC
<1>1. CASE Acquire
  BY <1>1 DEF Acquire, storageVars, intakeVars, envVars, historyVars
<1>2. CASE CheckFound
  BY <1>2 DEF CheckFound, storageVars, intakeVars, envVars, historyVars
<1>3. CASE CheckNext
  <2>1. sidx' \in 1..(Len(pending') + 1)
    BY <1>3 DEF CheckNext
  <2>2. QED
    BY <1>3, <2>1 DEF CheckNext, storageVars, intakeVars, envVars,
                      historyVars
<1>4. CASE Sleep
  BY <1>4 DEF Sleep, storageVars, intakeVars, envVars, historyVars
<1>5. ASSUME NEW k \in 1..Len(pending), PopJob(k) PROVE ExecInv'
  <2>1. pending' \in Seq(Jobs) /\ Len(pending') = Len(pending) - 1
    BY <1>5, RotationType DEF PopJob
  <2>2. pending[k] \in Jobs
    BY ElementOfSeq
  <2>7. sidx' = sidx /\ sidx <= Len(pending)
    BY <1>5 DEF PopJob
  <2>3. sidx' \in 1..(Len(pending') + 1)
    BY <2>1, <2>7
  <2>4. started' = [started EXCEPT ![pending[k]] = @ + 1]
        /\ scur' = pending[k]
    BY <1>5 DEF PopJob
  <2>6. started' \in [Jobs -> Nat] /\ scur' \in Jobs
    BY <2>2, <2>4, IncrementType
  <2>5. QED
    BY <1>5, <2>1, <2>3, <2>6 DEF PopJob, storageVars, intakeVars, envVars
<1>6. CASE PopNone
  BY <1>6 DEF PopNone, storageVars, intakeVars, envVars, historyVars
<1>7. CASE PrepareCopyFails
  <2>1. StorageTypeOK'
    BY <1>7, CopyFailsType DEF PrepareCopyFails
  <2>2. QED
    BY <1>7, <2>1 DEF PrepareCopyFails, PrepareFailed, intakeVars, envVars,
                      historyVars
<1>8. CASE PrepareEscapes
  BY <1>8 DEF PrepareEscapes, PrepareFailed, storageVars, intakeVars,
              envVars, historyVars
<1>9. CASE PrepareOk
  BY <1>9 DEF PrepareOk, storageVars, intakeVars, envVars, historyVars
<1>10. CASE Execute
  <2>1. Info[scur].named_results \subseteq Names
    BY <1>10, InfoFields DEF Execute
  <2>2. QED
    BY <1>10, <2>1 DEF Execute, storageVars, intakeVars, envVars, historyVars
<1>11. CASE StoreNamedOk
  <2>1. StorageTypeOK'
    BY <1>11, StoreAllOkType DEF StoreNamedOk
  <2>2. QED
    BY <1>11, <2>1 DEF StoreNamedOk, intakeVars, envVars
<1>12. CASE StoreNamedTaken
  <2>1. StorageTypeOK'
    BY <1>12, StoreUntilTakenType DEF StoreNamedTaken
  <2>2. QED
    BY <1>12, <2>1 DEF StoreNamedTaken, intakeVars, envVars
<1>13. CASE SendNamed
  BY <1>13 DEF SendNamed, storageVars, intakeVars, envVars
<1>14. QED
  BY <1>1, <1>2, <1>3, <1>4, <1>5, <1>6, <1>7, <1>8, <1>9, <1>10, <1>11,
     <1>12, <1>13 DEF SchedulerNext

(* The client, the datastores and the file system keep the invariant. *)
LEMMA EnvInv ==
    ASSUME ExecInv, EnvNext
    PROVE  ExecInv'
<1> USE ExecutorAssumption DEF ExecInv, TypeOK, StorageTypeOK
<1>1. ASSUME NEW j \in Jobs, Submit(j) PROVE ExecInv'
  <2>1. mailbox' \subseteq Bundle
    BY <1>1 DEF Submit, Bundle
  <2>2. submits' \in [Jobs -> Nat]
    BY <1>1, IncrementType DEF Submit
  <2>3. QED
    BY <1>1, <2>1, <2>2 DEF Submit, storageVars, schedVars, historyVars
<1>2. ASSUME NEW ds \in Datastores, DatastoreReply(ds) PROVE ExecInv'
  <2> DEFINE i == served[ds] + 1
  <2>1. i \in 1..Len(requests)
    <3>1. served[ds] < Len(requests)
      BY <1>2, Zenon DEF DatastoreReply
    <3>2. QED
      BY <3>1
  <2>2. Held[ds] \subseteq Names
    OBVIOUS
  <2>3. mailbox' \subseteq Bundle
    BY <1>2, <2>1, <2>2 DEF DatastoreReply, Bundle
  <2>4. served' \in [Datastores -> Nat]
    BY <1>2, IncrementType DEF DatastoreReply
  <2>5. QED
    BY <1>2, <2>3, <2>4 DEF DatastoreReply, storageVars, schedVars,
                            historyVars
<1>3. ASSUME NEW d \in Data, LoseBlob(d) PROVE ExecInv'
  BY <1>3 DEF LoseBlob, BlobVanishes, intakeVars, schedVars, historyVars
<1>4. ASSUME NEW b \in mailbox, DropReply(b) PROVE ExecInv'
  <2>1. dropped' \in Nat
    BY <1>4 DEF DropReply
  <2>2. QED
    BY <1>4, <2>1 DEF DropReply, storageVars, schedVars, historyVars
<1>5. QED
  BY <1>1, <1>2, <1>3, <1>4 DEF EnvNext

(* Every step of the executor, or a stutter, preserves the invariant. *)
LEMMA NextExecInv == ExecInv /\ [Next]_vars => ExecInv'
<1> SUFFICES ASSUME ExecInv, [Next]_vars PROVE ExecInv'
  OBVIOUS
<1>1. CASE IntakeNext
  BY <1>1, IntakeInv
<1>2. CASE SchedulerNext
  BY <1>2, SchedulerInv
<1>3. CASE EnvNext
  BY <1>3, EnvInv
<1>4. CASE UNCHANGED vars
  BY <1>4 DEF vars, storageVars, intakeVars, schedVars, envVars, historyVars,
              ExecInv, TypeOK, StorageTypeOK
<1>5. QED
  BY <1>1, <1>2, <1>3, <1>4 DEF Next

-----------------------------------------------------------------------------
(***************************************************************************)
(* Type correctness of the executor: whatever bundles arrive and however   *)
(* the intake task, the scheduler task and the environment interleave, the *)
(* deque holds jobs, the scheduler's loop index stays within the deque     *)
(* (_has_runnable_job's iteration and _pop_next_runnable_job's rotation),  *)
(* and every bundle, request and counter keeps its type.                   *)
(***************************************************************************)
THEOREM TypeCorrect == Spec => []TypeOK
<1>1. ExecInv => TypeOK
  BY DEF ExecInv
<1>2. QED
  BY <1>1, InitExecInv, NextExecInv, PTL DEF Spec
=============================================================================
