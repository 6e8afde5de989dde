------------------------ MODULE ExecutorRequestProofs ------------------------
(***************************************************************************)
(* Every input a queued job lacks has been, or is about to be, requested   *)
(* from the datastores (PendingInputsRequested), for all values of the     *)
(* constants.                                                              *)
(*                                                                         *)
(* The property is not inductive: when AdmitAppend queues the job the      *)
(* intake is admitting, the names it lacks must be those _handle_job put   *)
(* in `missing` (or requested before).  IcurMissingCovered says so from    *)
(* ReceiveJob, where `missing` is computed, to AdmitNotify, where it is    *)
(* sent.  Apart from that, the proof rests on three monotonicity facts:    *)
(* the index only grows, the requests only grow, and the rotation of the   *)
(* deque only reorders jobs.                                               *)
(*                                                                         *)
(* The index only grows if no data name is the hex digest of a blob:       *)
(* _cleanup removes the rows whose *name* is a digest (storage.py:204), so *)
(* a name that is a digest may be removed by a failed copy and become      *)
(* missing again, unrequested.  The theorem assumes so (DigestsAreNotNames)*)
(* and the instances of the runs satisfy it.                               *)
(***************************************************************************)
EXTENDS ExecutorProofs

(* No data name is the file name of a blob (a 40-digit hex string). *)
DigestsAreNotNames == \A d \in Data : HexDigest[d] \notin Names

AdmitPC == {"admit_append", "admit_notify"}

(* From find_missing to the NDATA_GET, the names the admitted job lacks   *)
(* are in `missing` or were requested already.                            *)
IcurMissingCovered ==
    ipc \in AdmitPC =>
        FindMissing(RequiredNamedData(icur)) \subseteq imissing \cup RequestedNames

ReqInv == ExecInv /\ PendingInputsRequested /\ IcurMissingCovered

-----------------------------------------------------------------------------
(* A failed copy_to_file calls _cleanup with a digest, which removes no    *)
(* row of a data name.                                                     *)
LEMMA CopyFailsKeepsIndex ==
    ASSUME StorageTypeOK, DigestsAreNotNames, NEW n \in Names, CopyFails(n)
    PROVE  stored' = stored
<1>1. DataOf[n] \in Data
  BY StorageAssumption
<1>2. HexDigest[DataOf[n]] \notin stored
  BY <1>1 DEF DigestsAreNotNames, StorageTypeOK
<1> QED
  BY <1>2 DEF CopyFails, Cleanup, storageVars

(* The rotated deque holds only jobs of the deque it was made from. *)
LEMMA RotationElements ==
    ASSUME NEW S, NEW q \in Seq(S), NEW k \in 1..Len(q)
    PROVE  \A i \in 1..Len(SubSeq(q, k + 1, Len(q)) \o SubSeq(q, 1, k - 1)) :
             \E j \in 1..Len(q) :
               (SubSeq(q, k + 1, Len(q)) \o SubSeq(q, 1, k - 1))[i] = q[j]
<1> DEFINE tail == SubSeq(q, k + 1, Len(q))
           head == SubSeq(q, 1, k - 1)
<1>1. /\ tail \in Seq(S) /\ Len(tail) = Len(q) - k
      /\ \A i \in 1..Len(tail) : tail[i] = q[k + i]
  BY SubSeqProperties
<1>2. /\ head \in Seq(S) /\ Len(head) = k - 1
      /\ \A i \in 1..Len(head) : head[i] = q[i]
  BY SubSeqProperties
<1>3. /\ Len(tail \o head) = Len(tail) + Len(head)
      /\ \A i \in 1..Len(tail) + Len(head) :
            (tail \o head)[i] = IF i <= Len(tail) THEN tail[i]
                                ELSE head[i - Len(tail)]
  BY <1>1, <1>2, ConcatProperties
<1> HIDE DEF tail, head
<1>4. SUFFICES ASSUME NEW i \in 1..Len(tail \o head)
               PROVE  \E j \in 1..Len(q) : (tail \o head)[i] = q[j]
  BY DEF tail, head
<1>5. CASE i <= Len(tail)
  <2>1. (tail \o head)[i] = q[k + i] /\ k + i \in 1..Len(q)
    BY <1>1, <1>3, <1>5
  <2> QED
    BY <2>1
<1>6. CASE ~(i <= Len(tail))
  <2>1. (tail \o head)[i] = q[i - Len(tail)] /\ i - Len(tail) \in 1..Len(q)
    BY <1>1, <1>2, <1>3, <1>6
  <2> QED
    BY <2>1
<1> QED
  BY <1>5, <1>6

(* Sending an NDATA_GET adds its names to those requested so far. *)
LEMMA AppendRequested ==
    ASSUME NEW q \in Seq(SUBSET Names), NEW ns \in SUBSET Names
    PROVE  UNION {Append(q, ns)[i] : i \in 1..Len(Append(q, ns))}
             = (UNION {q[i] : i \in 1..Len(q)}) \cup ns
<1> DEFINE a == Append(q, ns)
<1>1. /\ Len(a) = Len(q) + 1
      /\ \A i \in 1..Len(q) : a[i] = q[i]
      /\ a[Len(q) + 1] = ns
  BY AppendProperties
<1> HIDE DEF a
<1>0. Len(q) \in Nat
  OBVIOUS
<1>2. ASSUME NEW i \in 1..Len(a)
      PROVE  a[i] \subseteq (UNION {q[k] : k \in 1..Len(q)}) \cup ns
  <2>1. CASE i \in 1..Len(q)
    BY <1>1, <2>1
  <2>2. CASE i = Len(q) + 1
    BY <1>1, <2>2
  <2> QED
    BY <1>0, <1>1, <2>1, <2>2
<1>3. \A k \in 1..Len(q) : q[k] \subseteq UNION {a[i] : i \in 1..Len(a)}
  BY <1>0, <1>1
<1>4. ns \subseteq UNION {a[i] : i \in 1..Len(a)}
  BY <1>0, <1>1
<1>5. UNION {a[i] : i \in 1..Len(a)} = (UNION {q[k] : k \in 1..Len(q)}) \cup ns
  BY <1>2, <1>3, <1>4, Zenon
<1> QED
  BY <1>5 DEF a

(***************************************************************************)
(* A step that only stores names, keeps or grows the requests, leaves the  *)
(* deque alone and does not start or change an admission keeps the         *)
(* invariant's two new conjuncts.                                          *)
(***************************************************************************)
LEMMA FrameReq ==
    ASSUME PendingInputsRequested, IcurMissingCovered,
           stored \subseteq stored',
           RequestedNames \subseteq RequestedNames',
           pending' = pending,
           ToRequest \subseteq ToRequest',
           ipc' \in AdmitPC => ipc' = ipc /\ icur' = icur /\ imissing' = imissing
    PROVE  PendingInputsRequested' /\ IcurMissingCovered'
BY DEF PendingInputsRequested, IcurMissingCovered, FindMissing

-----------------------------------------------------------------------------
LEMMA InitReqInv == Init => ReqInv
BY InitExecInv
DEF Init, ReqInv, PendingInputsRequested, IcurMissingCovered, AdmitPC

(* The steps of the intake task keep the two new conjuncts. *)
LEMMA IntakeReq ==
    ASSUME ReqInv, IntakeNext
    PROVE  PendingInputsRequested' /\ IcurMissingCovered'
<1> USE DEF ReqInv, ExecInv, TypeOK, StorageTypeOK
<1>0. requests' = requests => RequestedNames' = RequestedNames
  BY DEF RequestedNames
<1>1. CASE Fetch
  BY <1>0, <1>1, FrameReq DEF Fetch, ToRequest, AdmitPC, storageVars
<1>2. ASSUME NEW b \in batch, ReceiveUndecodable(b)
      PROVE  PendingInputsRequested' /\ IcurMissingCovered'
  BY <1>0, <1>2, FrameReq DEF ReceiveUndecodable, AbortBatch, ToRequest,
                              AdmitPC, storageVars
<1>3. ASSUME NEW b \in batch, ReceiveJob(b)
      PROVE  PendingInputsRequested' /\ IcurMissingCovered'
  <2>1. stored' = stored \cup Carried[b.what]
    BY <1>3 DEF ReceiveJob, StoreAllOk, StoreNames
  <2>2. ipc = "idle" /\ ipc' = "admit_append" /\ pending' = pending
        /\ requests' = requests
    BY <1>3 DEF ReceiveJob
  <2>3. PendingInputsRequested'
    BY <1>0, <2>1, <2>2 DEF PendingInputsRequested, FindMissing, ToRequest
  <2>4. IcurMissingCovered'
    BY <1>3, <2>1 DEF ReceiveJob, IcurMissingCovered, FindMissing
  <2> QED
    BY <2>3, <2>4
<1>4. ASSUME NEW b \in batch, ReceiveJobNameTaken(b)
      PROVE  PendingInputsRequested' /\ IcurMissingCovered'
  <2>1. stored \subseteq stored'
    BY <1>4 DEF ReceiveJobNameTaken, StoreUntilTaken, StoreNames
  <2> QED
    BY <1>0, <1>4, <2>1, FrameReq DEF ReceiveJobNameTaken, AbortBatch,
                                      ToRequest, AdmitPC
<1>5. CASE AdmitAppend
  <2>1. icur \in Jobs /\ pending \in Seq(Jobs)
    BY <1>5 DEF AdmitAppend, AdmitPC
  <2>2. /\ Len(pending') = Len(pending) + 1
        /\ \A k \in 1..Len(pending) : pending'[k] = pending[k]
        /\ pending'[Len(pending) + 1] = icur
    BY <1>5, <2>1, AppendProperties DEF AdmitAppend
  <2>3. ToRequest' = imissing /\ ToRequest = {}
    BY <1>5 DEF AdmitAppend, ToRequest
  <2>4. FindMissing(RequiredNamedData(icur)) \subseteq imissing \cup RequestedNames
    BY <1>5 DEF AdmitAppend, IcurMissingCovered, AdmitPC
  <2>5. UNCHANGED <<stored, requests, icur, imissing>>
    BY <1>5 DEF AdmitAppend, storageVars
  <2>6. PendingInputsRequested'
    <3> SUFFICES ASSUME NEW k \in 1..Len(pending')
                 PROVE  RequiredNamedData(pending'[k]) \ stored'
                          \subseteq RequestedNames' \cup ToRequest'
      BY DEF PendingInputsRequested, FindMissing
    <3>1. RequestedNames' = RequestedNames
      BY <1>0, <2>5
    <3>2. CASE k \in 1..Len(pending)
      BY <2>2, <2>3, <2>5, <3>1, <3>2 DEF PendingInputsRequested, FindMissing
    <3>3. CASE k = Len(pending) + 1
      BY <2>2, <2>3, <2>4, <2>5, <3>1, <3>3 DEF FindMissing
    <3>4. k \in 1..Len(pending) \/ k = Len(pending) + 1
      <4>1. Len(pending) \in Nat /\ k \in 1..(Len(pending) + 1)
        BY <2>1, <2>2
      <4> QED
        BY <4>1
    <3> QED
      BY <3>2, <3>3, <3>4
  <2>7. IcurMissingCovered'
    <3>1. RequestedNames' = RequestedNames
      BY <1>0, <2>5
    <3> QED
      BY <2>4, <2>5, <3>1 DEF IcurMissingCovered, FindMissing
  <2> QED
    BY <2>6, <2>7
<1>6. CASE AdmitNotify
  <2>1. RequestedNames' = RequestedNames \cup imissing
    <3>1. CASE imissing = {}
      BY <1>0, <1>6, <3>1 DEF AdmitNotify
    <3>2. CASE imissing # {}
      <4>1. requests' = Append(requests, imissing)
        BY <1>6, <3>2 DEF AdmitNotify
      <4>2. UNION {Append(requests, imissing)[i] :
                     i \in 1..Len(Append(requests, imissing))}
              = RequestedNames \cup imissing
        BY AppendRequested DEF RequestedNames
      <4> QED
        BY <4>1, <4>2 DEF RequestedNames
    <3> QED
      BY <3>1, <3>2
  <2>2. ToRequest = imissing /\ ToRequest' = {} /\ ipc' = "idle"
    BY <1>6 DEF AdmitNotify, ToRequest
  <2>3. UNCHANGED <<stored, pending>>
    BY <1>6 DEF AdmitNotify, storageVars
  <2>4. PendingInputsRequested'
    BY <2>1, <2>2, <2>3 DEF PendingInputsRequested, FindMissing
  <2> QED
    BY <2>2, <2>4 DEF IcurMissingCovered, AdmitPC
<1>7. ASSUME NEW b \in batch, ReceiveData(b)
      PROVE  PendingInputsRequested' /\ IcurMissingCovered'
  <2>1. stored \subseteq stored'
    BY <1>7 DEF ReceiveData, StoreAllOk, StoreNames
  <2> QED
    BY <1>0, <1>7, <2>1, FrameReq DEF ReceiveData, ToRequest, AdmitPC
<1>8. ASSUME NEW b \in batch, ReceiveDataNameTaken(b)
      PROVE  PendingInputsRequested' /\ IcurMissingCovered'
  BY <1>0, <1>8, FrameReq DEF ReceiveDataNameTaken, AbortBatch, ToRequest,
                              AdmitPC, storageVars
<1>9. CASE DataNotify
  BY <1>0, <1>9, FrameReq DEF DataNotify, ToRequest, AdmitPC, storageVars
<1> QED
  BY <1>1, <1>2, <1>3, <1>4, <1>5, <1>6, <1>7, <1>8, <1>9 DEF IntakeNext

(* A step that leaves the intake, the deque and the requests alone and    *)
(* does not shrink the index keeps the two new conjuncts.                 *)
LEMMA KeepReq ==
    ASSUME ReqInv, stored \subseteq stored',
           UNCHANGED <<ipc, icur, imissing, pending, requests>>
    PROVE  PendingInputsRequested' /\ IcurMissingCovered'
<1>1. RequestedNames' = RequestedNames /\ ToRequest' = ToRequest
  BY DEF RequestedNames, ToRequest
<1> QED
  BY <1>1, FrameReq DEF ReqInv

(* The steps of the scheduler task keep the two new conjuncts: the deque *)
(* is only rotated or left alone, a failed copy removes no data name.    *)
LEMMA SchedulerReq ==
    ASSUME ReqInv, DigestsAreNotNames, SchedulerNext
    PROVE  PendingInputsRequested' /\ IcurMissingCovered'
<1> USE DEF ReqInv
<1>1. ASSUME NEW k \in 1..Len(pending), PopJob(k)
      PROVE  PendingInputsRequested' /\ IcurMissingCovered'
  <2>1. pending \in Seq(Jobs)
    BY DEF ExecInv, TypeOK
  <2>2. pending' = SubSeq(pending, k + 1, Len(pending)) \o SubSeq(pending, 1, k - 1)
        /\ UNCHANGED <<stored, requests, intakeVars>>
    BY <1>1 DEF PopJob, storageVars
  <2>3. \A i \in 1..Len(pending') : \E j \in 1..Len(pending) : pending'[i] = pending[j]
    <3>1. \A i \in 1..Len(SubSeq(pending, k + 1, Len(pending))
                            \o SubSeq(pending, 1, k - 1)) :
            \E j \in 1..Len(pending) :
              (SubSeq(pending, k + 1, Len(pending))
                 \o SubSeq(pending, 1, k - 1))[i] = pending[j]
      BY <2>1, RotationElements
    <3> QED
      BY <2>2, <3>1
  <2>4. RequestedNames' = RequestedNames /\ ToRequest' = ToRequest
    BY <2>2 DEF RequestedNames, ToRequest, intakeVars
  <2>5. PendingInputsRequested'
    BY <2>2, <2>3, <2>4 DEF PendingInputsRequested, FindMissing
  <2> QED
    BY <2>2, <2>4, <2>5 DEF IcurMissingCovered, intakeVars, FindMissing
<1>2. CASE PrepareCopyFails
  <2>1. scur \in Jobs /\ StorageTypeOK
    BY <1>2 DEF PrepareCopyFails, ExecInv, RunningPC, TypeOK
  <2>2. /\ Info[scur].wasm_module \in Names
        /\ Info[scur].stdin_file # NoName => Info[scur].stdin_file \in Names
        /\ Info[scur].data \subseteq Names
    BY <2>1, InfoFields
  <2>3. stored' = stored
    BY <1>2, <2>1, <2>2, CopyFailsKeepsIndex DEF PrepareCopyFails
  <2> QED
    BY <1>2, <2>3, KeepReq DEF PrepareCopyFails, PrepareFailed, intakeVars
<1>3. CASE StoreNamedOk
  BY <1>3, KeepReq DEF StoreNamedOk, StoreAllOk, StoreNames, intakeVars
<1>4. CASE StoreNamedTaken
  <2>1. stored \subseteq stored'
    BY <1>4 DEF StoreNamedTaken, StoreUntilTaken, StoreNames
  <2> QED
    BY <1>4, <2>1, KeepReq DEF StoreNamedTaken, intakeVars
<1>5. CASE \/ Acquire \/ CheckFound \/ CheckNext \/ Sleep \/ PopNone
           \/ PrepareEscapes \/ PrepareOk \/ Execute \/ SendNamed
  <2>1. UNCHANGED <<stored, intakeVars, pending, requests>>
    BY <1>5 DEF Acquire, CheckFound, CheckNext, Sleep, PopNone,
                PrepareEscapes, PrepareFailed, PrepareOk, Execute, SendNamed,
                storageVars
  <2> QED
    BY <2>1, KeepReq DEF intakeVars
<1> QED
  BY <1>1, <1>2, <1>3, <1>4, <1>5 DEF SchedulerNext

(* The client, the datastores, the file system and the network keep the  *)
(* two new conjuncts: none of them touches the index rows, the deque or  *)
(* the requests.                                                         *)
LEMMA EnvReq ==
    ASSUME ReqInv, EnvNext
    PROVE  PendingInputsRequested' /\ IcurMissingCovered'
<1>1. UNCHANGED <<stored, ipc, icur, imissing, pending, requests>>
  BY DEF EnvNext, Submit, DatastoreReply, LoseBlob, BlobVanishes, DropReply,
         storageVars, intakeVars
<1> QED
  BY <1>1, KeepReq

LEMMA NextReq ==
    ASSUME ReqInv, DigestsAreNotNames, [Next]_vars
    PROVE  ReqInv'
<1>1. ExecInv'
  BY NextExecInv DEF ReqInv
<1>2. ASSUME UNCHANGED vars
      PROVE  PendingInputsRequested' /\ IcurMissingCovered'
  <2>1. UNCHANGED <<stored, ipc, icur, imissing, pending, requests>>
    BY <1>2 DEF vars, storageVars, intakeVars
  <2> QED
    BY <2>1, KeepReq
<1>3. ASSUME Next
      PROVE  PendingInputsRequested' /\ IcurMissingCovered'
  BY <1>3, IntakeReq, SchedulerReq, EnvReq DEF Next
<1>4. PendingInputsRequested' /\ IcurMissingCovered'
  BY <1>2, <1>3
<1> QED
  BY <1>1, <1>4 DEF ReqInv

(***************************************************************************)
(* Every input that a job in the executor's deque lacks has been sent in  *)
(* an NDATA_GET by _handle_job, or is in the `missing` set that the       *)
(* intake is about to send: _pop_next_runnable_job's rotation and a failed *)
(* copy_to_file never make a queued job's input missing unrequested, as   *)
(* long as no data name is a blob digest.                                 *)
(***************************************************************************)
THEOREM PendingRequested ==
    ASSUME DigestsAreNotNames
    PROVE  Spec => []PendingInputsRequested
<1>1. Init => ReqInv
  BY InitReqInv
<1>2. ReqInv /\ [Next]_vars => ReqInv'
  BY NextReq
<1>3. ReqInv => PendingInputsRequested
  BY DEF ReqInv
<1> QED
  BY <1>1, <1>2, <1>3, PTL DEF Spec
=============================================================================
