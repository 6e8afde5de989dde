-------------------------- MODULE ExecutorWakeProofs --------------------------
(***************************************************************************)
(* No lost wake-up (NoLostWakeup), under the condition that every name has *)
(* a single source.                                                        *)
(***************************************************************************)
EXTENDS ExecutorProofs

(* A JOB_SUBMIT bundle for j is at the agent or in the fetched batch. *)
InFlight(j) == \E b \in mailbox \cup batch : b.type = "JOB_SUBMIT" /\ b.what = j

(***************************************************************************)
(* Every name has one source: each job is submitted at most once, and the  *)
(* names a job carries are carried by no other job, held by no datastore   *)
(* and produced as a result by no job.                                     *)
(***************************************************************************)
SingleSources ==
    /\ MaxSubmit <= 1
    /\ \A j, k \in Jobs : j # k => Carried[j] \cap Carried[k] = {}
    /\ \A j \in Jobs, ds \in Datastores : Carried[j] \cap Held[ds] = {}
    /\ \A j, k \in Jobs : Carried[j] \cap Info[k].named_results = {}

(* The jobs the check loop has passed over are not surely runnable. *)
CheckedNotRunnable ==
    spc = "check" /\ ipc = "idle" =>
        \A k \in 1..(sidx - 1) : ~SurelyRunnable(pending[k])

(* A job's carried names are not stored before its bundle is handled. *)
CarriedFresh ==
    \A j \in Jobs : submits[j] = 0 \/ InFlight(j) => Carried[j] \cap stored = {}

BundlesSound ==
    /\ \A j \in Jobs : submits[j] <= MaxSubmit
    /\ \A b \in mailbox \cup batch :
          /\ b.type = "JOB_SUBMIT" => b.seq \in 1..submits[b.what]
          /\ b.type = "NDATA_GET" => b.what \in Held[b.from]
    /\ \A b \in mailbox \cap batch : b.type # "JOB_SUBMIT"
    /\ produced \subseteq UNION {Info[k].named_results : k \in Jobs}

WakeInv ==
    /\ ExecInv
    /\ BundlesSound
    /\ CarriedFresh
    /\ CheckedNotRunnable
    /\ NoLostWakeup

-----------------------------------------------------------------------------
(***************************************************************************)
(* With each job submitted once, a job's JOB_SUBMIT bundle is the only one *)
(* for it at the agent or in the batch.                                    *)
(***************************************************************************)
LEMMA SubmitBundleUnique ==
    ASSUME SingleSources, ExecInv, BundlesSound,
           NEW b1 \in mailbox \cup batch, NEW b2 \in mailbox \cup batch,
           b1.type = "JOB_SUBMIT", b2.type = "JOB_SUBMIT", b1.what = b2.what
    PROVE  b1 = b2
<1>1. b1 \in Bundle /\ b2 \in Bundle
  BY DEF ExecInv, TypeOK
<1>2. b1.what \in Jobs /\ submits[b1.what] \in Nat /\ MaxSubmit \in Nat
  BY <1>1, BundleFields, ExecutorAssumption DEF ExecInv, TypeOK
<1>3. b1.seq = 1 /\ b2.seq = 1
  BY <1>2, ExecutorAssumption DEF SingleSources, BundlesSound
<1>4. QED
  BY <1>1, <1>3 DEF Bundle

(* Once a job's bundle is handled, no bundle for it is in flight. *)
LEMMA HandledNotInFlight ==
    ASSUME SingleSources, ExecInv, BundlesSound,
           NEW b \in batch, b.type = "JOB_SUBMIT",
           mailbox' = mailbox, batch' = batch \ {b}
    PROVE  ~InFlight(b.what)'
<1> SUFFICES ASSUME NEW b2 \in mailbox' \cup batch', b2.type = "JOB_SUBMIT",
                    b2.what = b.what
             PROVE  FALSE
  BY DEF InFlight
<1>1. b2 = b
  BY SubmitBundleUnique
<1>2. b \notin mailbox
  BY DEF BundlesSound
<1>3. QED
  BY <1>1, <1>2

(* Names a datastore holds or a job produces are carried by no job. *)
LEMMA OtherSourcesFresh ==
    ASSUME SingleSources, NEW j \in Jobs,
           NEW S, S \subseteq (UNION {Info[k].named_results : k \in Jobs})
                           \cup UNION {Held[ds] : ds \in Datastores}
    PROVE  Carried[j] \cap S = {}
<1> SUFFICES ASSUME NEW n \in S, n \in Carried[j] PROVE FALSE
  OBVIOUS
<1>1. CASE \E k \in Jobs : n \in Info[k].named_results
  BY <1>1 DEF SingleSources
<1>2. CASE \E ds \in Datastores : n \in Held[ds]
  BY <1>2 DEF SingleSources
<1>3. \/ \E k \in Jobs : n \in Info[k].named_results
      \/ \E ds \in Datastores : n \in Held[ds]
  OBVIOUS
<1>4. QED
  BY <1>1, <1>2, <1>3

(***************************************************************************)
(* Frame lemmas.  A step that leaves the index, the deque, the loop index  *)
(* and both control points alone keeps the two wake-up facts; a step that  *)
(* takes the scheduler away from its condition variable, or leaves the     *)
(* intake with a notify_all still to do, makes them hold trivially.        *)
(***************************************************************************)
LEMMA WaitFactsFrame ==
    ASSUME CheckedNotRunnable, NoLostWakeup,
           UNCHANGED <<stored, pending, spc, sidx, ipc>>
    PROVE  CheckedNotRunnable' /\ NoLostWakeup'
BY DEF CheckedNotRunnable, NoLostWakeup, SurelyRunnable, HasAllInputs,
       FindMissing

LEMMA WaitFactsVacuous ==
    ASSUME spc' \notin {"check", "waiting"} \/ ipc' # "idle"
    PROVE  CheckedNotRunnable' /\ NoLostWakeup'
BY DEF CheckedNotRunnable, NoLostWakeup

(* Bundles leaving the agent or the batch keep them sound. *)
LEMMA BundlesShrink ==
    ASSUME BundlesSound, mailbox' \subseteq mailbox, batch' \subseteq batch,
           UNCHANGED <<submits, produced>>
    PROVE  BundlesSound'
BY DEF BundlesSound

(* Bundles leaving, with the index not growing, keep carried names fresh. *)
LEMMA CarriedFreshShrink ==
    ASSUME CarriedFresh, mailbox' \cup batch' \subseteq mailbox \cup batch,
           stored' \subseteq stored, UNCHANGED submits
    PROVE  CarriedFresh'
BY DEF CarriedFresh, InFlight

-----------------------------------------------------------------------------
LEMMA InitWake == Init => WakeInv
BY InitExecInv, ExecutorAssumption
   DEF Init, WakeInv, BundlesSound, CarriedFresh, InFlight, CheckedNotRunnable,
       NoLostWakeup, StorageInit

(***************************************************************************)
(* The intake task keeps the invariant.  A job's bundle is handled once,   *)
(* so _handle_job never finds its carried names taken; the other handlers  *)
(* store only names no job carries, and every step that stores leaves the  *)
(* intake with a notify_all to do.                                         *)
(***************************************************************************)
LEMMA IntakeWake ==
    ASSUME SingleSources, WakeInv, IntakeNext
    PROVE  WakeInv'
<1> USE DEF WakeInv
<1>0. ExecInv'
  BY IntakeInv
<1>1. CASE Fetch
  <2>1. BundlesSound'
    BY <1>1 DEF Fetch, BundlesSound, schedVars, envVars
  <2>2. CarriedFresh'
    BY <1>1, CarriedFreshShrink DEF Fetch, storageVars, envVars
  <2>3. QED
    BY <1>0, <1>1, <2>1, <2>2, WaitFactsFrame DEF Fetch, storageVars, schedVars
<1>2. ASSUME NEW b \in batch, ReceiveUndecodable(b) PROVE WakeInv'
  BY <1>0, <1>2, BundlesShrink, CarriedFreshShrink, WaitFactsFrame
     DEF ReceiveUndecodable, AbortBatch, storageVars, schedVars, envVars
<1>3. ASSUME NEW b \in batch, ReceiveJob(b) PROVE WakeInv'
  <2>1. b \in Bundle /\ b.what \in Jobs
    BY <1>3, BundleFields DEF ReceiveJob, ExecInv, TypeOK
  <2>2. BundlesSound'
    BY <1>3, BundlesShrink DEF ReceiveJob, schedVars, envVars
  <2>3. ~InFlight(b.what)'
    BY <1>3, HandledNotInFlight DEF ReceiveJob
  <2>4. submits[b.what] # 0
    BY <1>3, <2>1 DEF ReceiveJob, BundlesSound
  <2>5. stored' = stored \cup Carried[b.what]
    BY <1>3 DEF ReceiveJob, StoreAllOk, StoreNames
  <2>6. CarriedFresh'
    <3> SUFFICES ASSUME NEW j \in Jobs, submits'[j] = 0 \/ InFlight(j)'
                 PROVE  Carried[j] \cap stored' = {}
      BY DEF CarriedFresh
    <3>1. UNCHANGED <<submits, mailbox>> /\ batch' \subseteq batch
      BY <1>3 DEF ReceiveJob, envVars
    <3>2. j # b.what
      BY <2>3, <2>4, <3>1
    <3>3. Carried[j] \cap stored = {}
      BY <3>1 DEF CarriedFresh, InFlight
    <3>4. Carried[j] \cap Carried[b.what] = {}
      BY <2>1, <3>2 DEF SingleSources
    <3>5. QED
      BY <2>5, <3>3, <3>4
  <2>7. QED
    BY <1>0, <1>3, <2>2, <2>6, WaitFactsVacuous DEF ReceiveJob
<1>4. ASSUME NEW b \in batch, ReceiveJobNameTaken(b) PROVE WakeInv'
  <2>1. b.what \in Jobs /\ InFlight(b.what)
    BY <1>4, BundleFields DEF ReceiveJobNameTaken, ExecInv, TypeOK, InFlight
  <2>2. Carried[b.what] \cap stored = {}
    BY <2>1 DEF CarriedFresh
  <2>3. QED
    BY <1>4, <2>2 DEF ReceiveJobNameTaken, StoreUntilTaken
<1>5. CASE AdmitAppend
  BY <1>0, <1>5, BundlesShrink, CarriedFreshShrink, WaitFactsVacuous
     DEF AdmitAppend, storageVars, schedVars, envVars
<1>6. CASE AdmitNotify
  <2>1. spc' \notin {"check", "waiting"}
    BY <1>6 DEF AdmitNotify, Wake
  <2>2. QED
    BY <1>0, <1>6, <2>1, BundlesShrink, CarriedFreshShrink, WaitFactsVacuous
       DEF AdmitNotify, storageVars, schedVars, envVars
<1>7. ASSUME NEW b \in batch, ReceiveData(b) PROVE WakeInv'
  <2>1. b \in Bundle /\ b.type = "NDATA_GET"
    BY <1>7 DEF ReceiveData, ExecInv, TypeOK
  <2>2. b.what \in Held[b.from] /\ b.from \in Datastores
    BY <2>1 DEF BundlesSound, Bundle
  <2>3. stored' = stored \cup {b.what}
    BY <1>7 DEF ReceiveData, StoreAllOk, StoreNames
  <2>4. BundlesSound'
    BY <1>7, BundlesShrink DEF ReceiveData, schedVars, envVars
  <2>5. CarriedFresh'
    <3> SUFFICES ASSUME NEW j \in Jobs, submits'[j] = 0 \/ InFlight(j)'
                 PROVE  Carried[j] \cap stored' = {}
      BY DEF CarriedFresh
    <3>1. UNCHANGED <<submits, mailbox>> /\ batch' \subseteq batch
      BY <1>7 DEF ReceiveData, envVars
    <3>2. Carried[j] \cap stored = {}
      BY <3>1 DEF CarriedFresh, InFlight
    <3>3. Carried[j] \cap {b.what} = {}
      BY <2>2, OtherSourcesFresh
    <3>4. QED
      BY <2>3, <3>2, <3>3
  <2>6. QED
    BY <1>0, <1>7, <2>4, <2>5, WaitFactsVacuous DEF ReceiveData
<1>8. ASSUME NEW b \in batch, ReceiveDataNameTaken(b) PROVE WakeInv'
  BY <1>0, <1>8, BundlesShrink, CarriedFreshShrink, WaitFactsFrame
     DEF ReceiveDataNameTaken, AbortBatch, storageVars, schedVars, envVars
<1>9. CASE DataNotify
  <2>1. spc' \notin {"check", "waiting"}
    BY <1>9 DEF DataNotify, Wake
  <2>2. QED
    BY <1>0, <1>9, <2>1, BundlesShrink, CarriedFreshShrink, WaitFactsVacuous
       DEF DataNotify, storageVars, schedVars, envVars
<1>10. QED
  BY <1>1, <1>2, <1>3, <1>4, <1>5, <1>6, <1>7, <1>8, <1>9 DEF IntakeNext

(* Storing names no job carries keeps carried names fresh. *)
LEMMA CarriedFreshGrow ==
    ASSUME SingleSources, CarriedFresh, UNCHANGED <<mailbox, batch, submits>>,
           NEW X, X \subseteq (UNION {Info[k].named_results : k \in Jobs})
                              \cup UNION {Held[ds] : ds \in Datastores},
           stored' \subseteq stored \cup X
    PROVE  CarriedFresh'
<1> SUFFICES ASSUME NEW j \in Jobs, submits'[j] = 0 \/ InFlight(j)'
             PROVE  Carried[j] \cap stored' = {}
  BY DEF CarriedFresh
<1>1. Carried[j] \cap stored = {}
  BY DEF CarriedFresh, InFlight
<1>2. Carried[j] \cap X = {}
  BY OtherSourcesFresh
<1>3. QED
  BY <1>1, <1>2

(***************************************************************************)
(* The scheduler task keeps the invariant.  Its runnability check records  *)
(* only jobs the sample judged not runnable, and it sleeps only when it    *)
(* has passed over the whole deque; the results it stores are names no    *)
(* job carries.                                                            *)
(***************************************************************************)
LEMMA SchedulerWake ==
    ASSUME SingleSources, WakeInv, SchedulerNext
    PROVE  WakeInv'
<1> USE DEF WakeInv
<1>0. ExecInv'
  BY SchedulerInv
<1>1. CASE Acquire
  BY <1>0, <1>1, BundlesShrink, CarriedFreshShrink
     DEF Acquire, CheckedNotRunnable, NoLostWakeup, storageVars, intakeVars,
         envVars
<1>2. CASE CheckFound
  BY <1>0, <1>2, BundlesShrink, CarriedFreshShrink, WaitFactsVacuous
     DEF CheckFound, storageVars, intakeVars, envVars
<1>3. CASE CheckNext
  <2>0. sidx \in Nat
    BY DEF ExecInv, TypeOK
  <2>1. UNCHANGED <<stored, pending, ipc, spc>> /\ sidx' = sidx + 1
    BY <1>3 DEF CheckNext, storageVars, intakeVars
  <2>2. CheckedNotRunnable'
    <3> SUFFICES ASSUME spc' = "check", ipc' = "idle",
                        NEW k \in 1..(sidx' - 1)
                 PROVE  ~SurelyRunnable(pending[k])'
      BY DEF CheckedNotRunnable
    <3>1. CASE k < sidx
      BY <2>0, <2>1, <3>1 DEF CheckedNotRunnable, SurelyRunnable, HasAllInputs,
                        FindMissing
    <3>2. CASE k = sidx
      BY <1>3, <2>0, <2>1, <3>2 DEF CheckNext, SampledNotRunnable, SurelyRunnable,
                              HasAllInputs, FindMissing
    <3>3. QED
      BY <2>0, <2>1, <3>1, <3>2
  <2>3. QED
    BY <1>0, <1>3, <2>1, <2>2, BundlesShrink, CarriedFreshShrink
       DEF CheckNext, NoLostWakeup, storageVars, intakeVars, envVars
<1>4. CASE Sleep
  <2>1. UNCHANGED <<stored, pending, ipc, sidx>> /\ spc = "check"
        /\ spc' = "waiting" /\ sidx = Len(pending) + 1
    BY <1>4 DEF Sleep, storageVars, intakeVars
  <2>2. NoLostWakeup'
    BY <2>1 DEF CheckedNotRunnable, NoLostWakeup, SurelyRunnable,
                HasAllInputs, FindMissing
  <2>3. QED
    BY <1>0, <1>4, <2>1, <2>2, BundlesShrink, CarriedFreshShrink
       DEF Sleep, CheckedNotRunnable, storageVars, intakeVars, envVars
<1>5. ASSUME NEW k \in 1..Len(pending), PopJob(k) PROVE WakeInv'
  BY <1>0, <1>5, BundlesShrink, CarriedFreshShrink, WaitFactsVacuous
     DEF PopJob, storageVars, intakeVars, envVars
<1>6. CASE PopNone
  BY <1>0, <1>6, BundlesShrink, CarriedFreshShrink, WaitFactsVacuous
     DEF PopNone, storageVars, intakeVars, envVars
<1>7. CASE PrepareCopyFails
  <2>1. stored' \subseteq stored
    BY <1>7 DEF PrepareCopyFails, CopyFails, Cleanup, storageVars
  <2>2. QED
    BY <1>0, <1>7, <2>1, BundlesShrink, CarriedFreshShrink, WaitFactsVacuous
       DEF PrepareCopyFails, PrepareFailed, intakeVars, envVars
<1>8. CASE PrepareEscapes
  BY <1>0, <1>8, BundlesShrink, CarriedFreshShrink, WaitFactsVacuous
     DEF PrepareEscapes, PrepareFailed, storageVars, intakeVars, envVars
<1>9. CASE PrepareOk
  BY <1>0, <1>9, BundlesShrink, CarriedFreshShrink, WaitFactsVacuous
     DEF PrepareOk, storageVars, intakeVars, envVars
<1>10. CASE Execute
  <2>1. scur \in Jobs /\ produced' \subseteq Info[scur].named_results
    BY <1>10 DEF Execute, ExecInv, RunningPC
  <2>2. BundlesSound'
    BY <1>10, <2>1 DEF Execute, BundlesSound, intakeVars, envVars
  <2>3. QED
    BY <1>0, <1>10, <2>2, CarriedFreshShrink, WaitFactsVacuous
       DEF Execute, storageVars, intakeVars, envVars
<1>11. CASE StoreNamedOk
  <2>1. stored' \subseteq stored \cup produced
    BY <1>11 DEF StoreNamedOk, StoreAllOk, StoreNames
  <2>2. CarriedFresh'
    BY <1>11, <2>1, CarriedFreshGrow DEF StoreNamedOk, BundlesSound,
                                        intakeVars, envVars
  <2>3. QED
    BY <1>0, <1>11, <2>2, BundlesShrink, WaitFactsVacuous
       DEF StoreNamedOk, intakeVars, envVars
<1>12. CASE StoreNamedTaken
  <2>1. stored' \subseteq stored \cup produced
    BY <1>12 DEF StoreNamedTaken, StoreUntilTaken, StoreNames
  <2>2. CarriedFresh'
    BY <1>12, <2>1, CarriedFreshGrow DEF StoreNamedTaken, BundlesSound,
                                        intakeVars, envVars
  <2>3. BundlesSound'
    BY <1>12 DEF StoreNamedTaken, BundlesSound, intakeVars, envVars
  <2>4. QED
    BY <1>0, <1>12, <2>2, <2>3, WaitFactsVacuous DEF StoreNamedTaken
<1>13. CASE SendNamed
  <2>1. BundlesSound'
    BY <1>13 DEF SendNamed, BundlesSound, intakeVars, envVars
  <2>2. QED
    BY <1>0, <1>13, <2>1, CarriedFreshShrink, WaitFactsVacuous
       DEF SendNamed, storageVars, intakeVars, envVars
<1>14. QED
  BY <1>1, <1>2, <1>3, <1>4, <1>5, <1>6, <1>7, <1>8, <1>9, <1>10, <1>11,
     <1>12, <1>13 DEF SchedulerNext

(***************************************************************************)
(* The environment keeps the invariant: the client's one JOB_SUBMIT for a  *)
(* job comes while none of its names is stored, and a datastore answers   *)
(* only with names it holds.                                               *)
(***************************************************************************)
LEMMA EnvWake ==
    ASSUME SingleSources, WakeInv, EnvNext
    PROVE  WakeInv'
<1> USE DEF WakeInv
<1>0. ExecInv'
  BY EnvInv
<1>1. ASSUME NEW j \in Jobs, Submit(j) PROVE WakeInv'
  <2> DEFINE nb == [type |-> "JOB_SUBMIT", what |-> j, from |-> Client, seq |-> 1]
  <2>0. submits \in [Jobs -> Nat] /\ MaxSubmit \in Nat /\ MaxSubmit <= 1
    BY ExecutorAssumption DEF SingleSources, ExecInv, TypeOK
  <2>6. submits[j] < MaxSubmit
           /\ submits' = [submits EXCEPT ![j] = @ + 1]
           /\ mailbox' = mailbox \cup
                {[type |-> "JOB_SUBMIT", what |-> j, from |-> Client,
                  seq |-> submits[j] + 1]}
    BY <1>1 DEF Submit
  <2>7. submits[j] = 0
    BY <2>0, <2>6
  <2>1. submits[j] = 0 /\ submits' = [submits EXCEPT ![j] = 1]
    BY <2>6, <2>7
  <2>2. mailbox' = mailbox \cup {nb} /\ UNCHANGED <<batch, produced, stored>>
    BY <1>1, <2>1 DEF Submit, storageVars, schedVars
  <2>3. nb \notin batch
    BY <2>1 DEF BundlesSound
  <2>4. BundlesSound'
    <3>1. \A i \in Jobs : submits'[i] <= MaxSubmit
      BY <2>0, <2>1, <2>6 DEF BundlesSound
    <3>2. \A i \in Jobs : submits[i] <= submits'[i]
      BY <2>0, <2>1
    <3>3. ASSUME NEW b \in mailbox' \cup batch'
          PROVE  /\ b.type = "JOB_SUBMIT" => b.seq \in 1..submits'[b.what]
                 /\ b.type = "NDATA_GET" => b.what \in Held[b.from]
      <4>1. CASE b = nb
        BY <2>0, <2>1, <4>1
      <4>2. CASE b \in mailbox \cup batch
        <5>1. b \in Bundle
          BY <4>2 DEF ExecInv, TypeOK
        <5>2. b.type = "JOB_SUBMIT" => b.what \in Jobs
          BY <5>1, BundleFields
        <5>3. QED
          BY <2>0, <3>2, <4>2, <5>2 DEF BundlesSound
      <4>3. QED
        BY <2>2, <4>1, <4>2
    <3>4. \A b \in mailbox' \cap batch' : b.type # "JOB_SUBMIT"
      BY <2>2, <2>3 DEF BundlesSound
    <3>5. produced' \subseteq UNION {Info[k].named_results : k \in Jobs}
      BY <2>2 DEF BundlesSound
    <3>6. QED
      BY <3>1, <3>3, <3>4, <3>5 DEF BundlesSound
  <2>5. CarriedFresh'
    <3> SUFFICES ASSUME NEW i \in Jobs, submits'[i] = 0 \/ InFlight(i)'
                 PROVE  Carried[i] \cap stored' = {}
      BY DEF CarriedFresh
    <3>1. CASE i = j
      BY <2>1, <2>2, <3>1 DEF CarriedFresh
    <3>2. CASE i # j
      BY <2>1, <2>2, <3>2 DEF CarriedFresh, InFlight
    <3>3. QED
      BY <3>1, <3>2
  <2>8. QED
    BY <1>0, <1>1, <2>4, <2>5, WaitFactsFrame
       DEF Submit, storageVars, schedVars
<1>2. ASSUME NEW ds \in Datastores, DatastoreReply(ds) PROVE WakeInv'
  <2> DEFINE i == served[ds] + 1
             New == {[type |-> "NDATA_GET", what |-> n, from |-> ds, seq |-> i] :
                       n \in Held[ds] \cap UNION {StartsWith[q] : q \in requests[i]}}
  <2>1. mailbox' = mailbox \cup New
        /\ UNCHANGED <<batch, produced, stored, submits>>
    BY <1>2 DEF DatastoreReply, storageVars, schedVars
  <2>2. BundlesSound'
    BY <2>1 DEF BundlesSound
  <2>3. CarriedFresh'
    BY <2>1 DEF CarriedFresh, InFlight
  <2>4. QED
    BY <1>0, <1>2, <2>2, <2>3, WaitFactsFrame
       DEF DatastoreReply, storageVars, schedVars
<1>3. ASSUME NEW d \in Data, LoseBlob(d) PROVE WakeInv'
  BY <1>0, <1>3, BundlesShrink, CarriedFreshShrink, WaitFactsFrame
     DEF LoseBlob, BlobVanishes, intakeVars, schedVars
<1>4. ASSUME NEW b \in mailbox, DropReply(b) PROVE WakeInv'
  BY <1>0, <1>4, BundlesShrink, CarriedFreshShrink, WaitFactsFrame
     DEF DropReply, storageVars, schedVars
<1>5. QED
  BY <1>1, <1>2, <1>3, <1>4 DEF EnvNext

(* Every step of the executor, or a stutter, preserves the invariant. *)
LEMMA NextWake == SingleSources /\ WakeInv /\ [Next]_vars => WakeInv'
<1> SUFFICES ASSUME SingleSources, WakeInv, [Next]_vars PROVE WakeInv'
  OBVIOUS
<1>1. CASE IntakeNext
  BY <1>1, IntakeWake
<1>2. CASE SchedulerNext
  BY <1>2, SchedulerWake
<1>3. CASE EnvNext
  BY <1>3, EnvWake
<1>4. CASE UNCHANGED vars
  <2>1. ExecInv'
    BY <1>4, NextExecInv DEF WakeInv
  <2>2. QED
    BY <1>4, <2>1, WaitFactsFrame
       DEF vars, storageVars, intakeVars, schedVars, envVars, historyVars,
           WakeInv, BundlesSound, CarriedFresh, InFlight
<1>5. QED
  BY <1>1, <1>2, <1>3, <1>4 DEF Next

-----------------------------------------------------------------------------
(***************************************************************************)
(* No lost wake-up, for every value of the constants in which each name    *)
(* has a single source: while the scheduler is blocked in wait() on        *)
(* _job_ready_cv and the intake has no notify_all left to do, no pending   *)
(* job is runnable under every sampled load.  The intake appends before it *)
(* notifies, the scheduler evaluates its predicate under the condition's   *)
(* lock, and under SingleSources _handle_job never stores names and then   *)
(* fails with NameTakenError, the one store that notifies nobody.          *)
(***************************************************************************)
THEOREM NoLostWakeupHolds == SingleSources => (Spec => []NoLostWakeup)
<1> SUFFICES ASSUME SingleSources PROVE Spec => []NoLostWakeup
  OBVIOUS
<1>1. WakeInv /\ [Next]_vars => WakeInv'
  BY NextWake
<1>2. WakeInv => NoLostWakeup
  BY DEF WakeInv
<1>3. QED
  BY <1>1, <1>2, InitWake, PTL DEF Spec
=============================================================================
