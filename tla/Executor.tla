------------------------------ MODULE Executor ------------------------------
(***************************************************************************)
(* The Executor node of src/rec/dtn/executor.py: two asyncio tasks of one  *)
(* event loop sharing the node's pending deque, its Storage and the        *)
(* condition variable _job_ready_cv.                                       *)
(*   - the intake task (_handle_bundles) fetches the bundles queued at the *)
(*     DTN agent and handles them one after the other (JOB_SUBMIT and      *)
(*     NDATA_GET); an exception in a handler ends the whole batch;         *)
(*   - the scheduler task (_scheduler) waits on the condition variable     *)
(*     until a pending job is runnable, pops one with the rotation rule,   *)
(*     prepares its sandbox, runs it and stores and publishes its named    *)
(*     results.                                                            *)
(* The datastores answering the executor's NDATA_GET requests, the client  *)
(* submitting jobs, blob files vanishing and the system load sampled by    *)
(* Capabilities.from_system() are the environment.                         *)
(*                                                                         *)
(* A step of the model is the code between two suspension points that     *)
(* matter.  The node's _state_mutex is never held across two steps except  *)
(* by the scheduler's runnability check, so it appears only as the guard   *)
(* spc # "check" of the intake's append; the scheduler holds the           *)
(* condition's lock exactly in state "check", which is the guard of the    *)
(* intake's notify_all.                                                    *)
(***************************************************************************)
EXTENDS JobInfo, Sequences

CONSTANTS
    Datastores,   \* the datastores of the multicast group dtn://rec.store/~
    Held,         \* Held[ds]: the names datastore ds holds
    StartsWith,   \* StartsWith[q]: the names that start with the string q
    Client,       \* the endpoint that submits jobs
    Decodable,    \* the jobs whose JOB_SUBMIT payload msgpack.unpackb turns
                  \* into an object with .data and .metadata (see README)
    CapRange,     \* the values Capabilities.from_system() may return
    MaxSubmit,    \* how often the client submits each job
    MaxBlobLoss,  \* how many blob files may vanish
    MaxDrop,      \* how many NDATA_GET replies the network may lose
    NoJob

ASSUME ExecutorAssumption ==
    /\ Held \in [Datastores -> SUBSET Names]
    /\ StartsWith \in [Names -> SUBSET Names]
    /\ \A n \in Names : n \in StartsWith[n]
    /\ Client \notin Datastores
    /\ Decodable \subseteq Jobs
    /\ CapRange \subseteq [CapFields -> Nat]
    /\ CapRange # {}
    /\ MaxSubmit \in Nat
    /\ MaxBlobLoss \in Nat
    /\ MaxDrop \in Nat
    /\ NoJob \notin Jobs

VARIABLES
    mailbox,      \* bundles queued for the executor at the DTN agent
    batch,        \* the bundles of the last fetch not handled yet
    ipc,          \* intake control point
    icur,         \* the job being admitted
    imissing,     \* its missing names (_handle_job's `missing`)
    pending,      \* _pending_jobs
    spc,          \* scheduler control point
    sidx,         \* position reached by _has_runnable_job's loop
    scur,         \* the job the scheduler popped
    produced,     \* its named results (_collect_named_results)
    jobDirs,      \* jobs whose job-<id> directory exists
    requests,     \* names of the NDATA_GET bundles sent to the datastores
    served,       \* served[ds]: how many of them datastore ds answered
    submits,      \* submits[j]: JOB_SUBMIT bundles sent for j
    admitted,     \* admitted[j]: times j was appended to pending
    started,      \* started[j]: times j was popped to be run
    lost,         \* blob files vanished so far
    dropped,      \* NDATA_GET replies lost so far
    localResults, \* named results stored locally by the scheduler
    published     \* named results sent to the datastores (NDATA_PUT)

intakeVars == <<mailbox, batch, ipc, icur, imissing>>
schedVars == <<spc, sidx, scur, produced, jobDirs>>
envVars == <<served, submits, lost, dropped>>
historyVars == <<admitted, started, localResults, published>>
vars == <<storageVars, intakeVars, pending, schedVars, requests, envVars,
          historyVars>>

Bundle ==
    [type: {"JOB_SUBMIT"}, what: Jobs, from: {Client}, seq: Nat]
      \cup [type: {"NDATA_GET"}, what: Names, from: Datastores, seq: Nat]

IntakePC == {"idle", "admit_append", "admit_notify", "data_notify"}
SchedPC == {"acquire", "check", "waiting", "pop", "prepare", "execute",
            "store_named", "send_named"}

TypeOK ==
    /\ StorageTypeOK
    /\ mailbox \subseteq Bundle /\ batch \subseteq Bundle
    /\ ipc \in IntakePC
    /\ icur \in Jobs \cup {NoJob}
    /\ imissing \subseteq Names
    /\ pending \in Seq(Jobs)
    /\ spc \in SchedPC
    /\ sidx \in 1..(Len(pending) + 1)
    /\ scur \in Jobs \cup {NoJob}
    /\ produced \subseteq Names
    /\ jobDirs \subseteq Jobs
    /\ requests \in Seq(SUBSET Names)
    /\ served \in [Datastores -> Nat]
    /\ submits \in [Jobs -> Nat] /\ admitted \in [Jobs -> Nat]
    /\ started \in [Jobs -> Nat]
    /\ lost \in Nat /\ dropped \in Nat
    /\ localResults \subseteq Names /\ published \subseteq Names

Init ==
    /\ StorageInit
    /\ mailbox = {} /\ batch = {}
    /\ ipc = "idle" /\ icur = NoJob /\ imissing = {}
    /\ pending = <<>>
    /\ spc = "acquire" /\ sidx = 1 /\ scur = NoJob /\ produced = {}
    /\ jobDirs = {}
    /\ requests = <<>>
    /\ served = [ds \in Datastores |-> 0]
    /\ submits = [j \in Jobs |-> 0]
    /\ admitted = [j \in Jobs |-> 0]
    /\ started = [j \in Jobs |-> 0]
    /\ lost = 0 /\ dropped = 0
    /\ localResults = {} /\ published = {}

-----------------------------------------------------------------------------
(* _job_has_all_inputs: find_missing of the required names is empty. *)
HasAllInputs(j) == FindMissing(RequiredNamedData(j)) = {}

(***************************************************************************)
(* One evaluation of `_job_has_all_inputs(j) and _system_can_run(j)`:      *)
(* from_system() samples the load anew at every call, so a job with all    *)
(* its inputs may be judged runnable or not depending on the sample.       *)
(***************************************************************************)
SampledRunnable(j) ==
    HasAllInputs(j) /\ \E c \in CapRange : IsCapableOf(c, Info[j].capabilities)
SampledNotRunnable(j) ==
    ~HasAllInputs(j) \/ \E c \in CapRange : ~IsCapableOf(c, Info[j].capabilities)

(* A job every sample of the load admits once its inputs are stored. *)
SurelyRunnable(j) ==
    HasAllInputs(j) /\ \A c \in CapRange : IsCapableOf(c, Info[j].capabilities)

(***************************************************************************)
(* notify_all() on _job_ready_cv: a scheduler blocked in wait() is woken   *)
(* and goes back to re-acquire the lock and re-evaluate its predicate.     *)
(***************************************************************************)
Wake == spc' = IF spc = "waiting" THEN "acquire" ELSE spc

(* An exception escaping _handle_bundle ends the for loop of             *)
(* _handle_bundles: the rest of the fetched batch is never handled.      *)
AbortBatch ==
    /\ batch' = {}
    /\ UNCHANGED <<ipc, icur, imissing>>

-----------------------------------------------------------------------------
(*************************** the intake task ******************************)

(* _handle_bundles: sleep, then _get_new_bundles() takes every bundle the *)
(* agent holds for this node.                                             *)
Fetch ==
    /\ ipc = "idle" /\ batch = {} /\ mailbox # {}
    /\ batch' = mailbox
    /\ mailbox' = {}
    /\ UNCHANGED <<storageVars, ipc, icur, imissing, pending, schedVars,
                   requests, envVars, historyVars>>

(* JOB_SUBMIT whose payload unpacks to a plain dict: `job.data` raises     *)
(* AttributeError before anything is stored.                               *)
ReceiveUndecodable(b) ==
    /\ ipc = "idle" /\ b \in batch
    /\ b.type = "JOB_SUBMIT" /\ b.what \notin Decodable
    /\ AbortBatch
    /\ UNCHANGED <<storageVars, mailbox, pending, schedVars, requests,
                   envVars, historyVars>>

(* _handle_job: store every datum the bundle carries, then find_missing   *)
(* of the job's required names.                                           *)
ReceiveJob(b) ==
    /\ ipc = "idle" /\ b \in batch
    /\ b.type = "JOB_SUBMIT" /\ b.what \in Decodable
    /\ StoreAllOk(Carried[b.what])
    /\ icur' = b.what
    /\ imissing' = RequiredNamedData(b.what) \ (stored \cup Carried[b.what])
    /\ ipc' = "admit_append"
    /\ batch' = batch \ {b}
    /\ UNCHANGED <<mailbox, pending, schedVars, requests, envVars,
                   historyVars>>

(* _handle_job when a carried name is already stored: NameTakenError      *)
(* escapes after the names before it were stored; the job is not queued.  *)
ReceiveJobNameTaken(b) ==
    /\ ipc = "idle" /\ b \in batch
    /\ b.type = "JOB_SUBMIT" /\ b.what \in Decodable
    /\ StoreUntilTaken(Carried[b.what])
    /\ AbortBatch
    /\ UNCHANGED <<mailbox, pending, schedVars, requests, envVars,
                   historyVars>>

(* _pending_jobs.append under the node's writer lock, which waits while   *)
(* the scheduler's runnability check holds the reader lock.               *)
AdmitAppend ==
    /\ ipc = "admit_append" /\ spc # "check"
    /\ pending' = Append(pending, icur)
    /\ admitted' = [admitted EXCEPT ![icur] = @ + 1]
    /\ ipc' = "admit_notify"
    /\ UNCHANGED <<storageVars, mailbox, batch, icur, imissing, schedVars,
                   requests, envVars, started, localResults, published>>

(* Mutants of AdmitNotify (for the mutation runs): the request is sent  *)
(* only when two names or more are missing; notify_all is left out.      *)
AdmitNotifyNeedsTwo ==
    /\ ipc = "admit_notify" /\ spc # "check"
    /\ Wake
    /\ requests' = IF Cardinality(imissing) <= 1 THEN requests
                   ELSE Append(requests, imissing)
    /\ ipc' = "idle" /\ icur' = NoJob /\ imissing' = {}
    /\ UNCHANGED <<storageVars, mailbox, batch, pending, sidx, scur,
                   produced, jobDirs, envVars, historyVars>>

AdmitNotifyNoWake ==
    /\ ipc = "admit_notify" /\ spc # "check"
    /\ requests' = IF imissing = {} THEN requests
                   ELSE Append(requests, imissing)
    /\ ipc' = "idle" /\ icur' = NoJob /\ imissing' = {}
    /\ UNCHANGED <<storageVars, mailbox, batch, pending, schedVars,
                   envVars, historyVars>>

(* notify_all under the condition's lock, then the NDATA_GET request for  *)
(* the missing names to the datastore group, sent by _handle_bundle.      *)
AdmitNotify ==
    /\ ipc = "admit_notify" /\ spc # "check"
    /\ Wake
    /\ requests' = IF imissing = {} THEN requests
                   ELSE Append(requests, imissing)
    /\ ipc' = "idle" /\ icur' = NoJob /\ imissing' = {}
    /\ UNCHANGED <<storageVars, mailbox, batch, pending, sidx, scur,
                   produced, jobDirs, envVars, historyVars>>

(* Mutant of ReceiveData: _handle_data returns without notify_all. *)
ReceiveDataNoNotify(b) ==
    /\ ipc = "idle" /\ b \in batch
    /\ b.type = "NDATA_GET"
    /\ StoreAllOk({b.what})
    /\ batch' = batch \ {b}
    /\ UNCHANGED <<mailbox, ipc, icur, imissing, pending, schedVars,
                   requests, envVars, historyVars>>

(* _handle_data for an NDATA_GET reply: store_data(name, payload). *)
ReceiveData(b) ==
    /\ ipc = "idle" /\ b \in batch
    /\ b.type = "NDATA_GET"
    /\ StoreAllOk({b.what})
    /\ ipc' = "data_notify"
    /\ batch' = batch \ {b}
    /\ UNCHANGED <<mailbox, icur, imissing, pending, schedVars, requests,
                   envVars, historyVars>>

(* _handle_data for a name already stored (a second datastore answering, *)
(* or a second request): NameTakenError ends the batch.                   *)
ReceiveDataNameTaken(b) ==
    /\ ipc = "idle" /\ b \in batch
    /\ b.type = "NDATA_GET"
    /\ b.what \in stored
    /\ AbortBatch
    /\ UNCHANGED <<storageVars, mailbox, pending, schedVars, requests,
                   envVars, historyVars>>

(* _handle_data: notify_all once the data are stored. *)
DataNotify ==
    /\ ipc = "data_notify" /\ spc # "check"
    /\ Wake
    /\ ipc' = "idle"
    /\ UNCHANGED <<storageVars, mailbox, batch, icur, imissing, pending,
                   sidx, scur, produced, jobDirs, requests, envVars,
                   historyVars>>

-----------------------------------------------------------------------------
(************************** the scheduler task *****************************)

(* `async with self._job_ready_cv`: take the condition's lock. *)
Acquire ==
    /\ spc = "acquire"
    /\ spc' = "check" /\ sidx' = 1
    /\ UNCHANGED <<storageVars, intakeVars, pending, scur, produced, jobDirs,
                   requests, envVars, historyVars>>

(* _has_runnable_job finds pending[sidx] runnable and returns True: the   *)
(* lock is released and the scheduler goes on to pop.                     *)
CheckFound ==
    /\ spc = "check" /\ sidx <= Len(pending)
    /\ SampledRunnable(pending[sidx])
    /\ spc' = "pop"
    /\ UNCHANGED <<storageVars, intakeVars, pending, sidx, scur, produced,
                   jobDirs, requests, envVars, historyVars>>

(* Mutant of CheckNext: the loop index moves two places. *)
CheckNextSkipsOne ==
    /\ spc = "check" /\ sidx <= Len(pending)
    /\ SampledNotRunnable(pending[sidx])
    /\ sidx' = sidx + 2
    /\ UNCHANGED <<storageVars, intakeVars, pending, spc, scur, produced,
                   jobDirs, requests, envVars, historyVars>>

(* ... or judges pending[sidx] not runnable and looks at the next one. *)
CheckNext ==
    /\ spc = "check" /\ sidx <= Len(pending)
    /\ SampledNotRunnable(pending[sidx])
    /\ sidx' = sidx + 1
    /\ UNCHANGED <<storageVars, intakeVars, pending, spc, scur, produced,
                   jobDirs, requests, envVars, historyVars>>

(* No pending job is runnable: wait() releases the lock and blocks. *)
Sleep ==
    /\ spc = "check" /\ sidx = Len(pending) + 1
    /\ spc' = "waiting"
    /\ UNCHANGED <<storageVars, intakeVars, pending, sidx, scur, produced,
                   jobDirs, requests, envVars, historyVars>>

(* Mutant of PopJob: the popped job is put back with the rotated ones. *)
PopJobKeepsIt(k) ==
    /\ spc = "pop"
    /\ k \in 1..Len(pending)
    /\ \A i \in 1..(k - 1) : SampledNotRunnable(pending[i])
    /\ SampledRunnable(pending[k])
    /\ pending' = SubSeq(pending, k, Len(pending)) \o SubSeq(pending, 1, k - 1)
    /\ scur' = pending[k]
    /\ started' = [started EXCEPT ![pending[k]] = @ + 1]
    /\ spc' = "prepare"
    /\ UNCHANGED <<storageVars, intakeVars, sidx, produced, jobDirs,
                   requests, envVars, admitted, localResults, published>>

(***************************************************************************)
(* _pop_next_runnable_job, under the node's writer lock: jobs are taken    *)
(* from the head and put back at the tail until a runnable one is found.   *)
(* When pending[k] is the first runnable one, jobs k+1.. are followed by   *)
(* jobs 1..k-1.                                                            *)
(***************************************************************************)
PopJob(k) ==
    /\ spc = "pop"
    /\ k \in 1..Len(pending)
    /\ \A i \in 1..(k - 1) : SampledNotRunnable(pending[i])
    /\ SampledRunnable(pending[k])
    /\ pending' = SubSeq(pending, k + 1, Len(pending)) \o SubSeq(pending, 1, k - 1)
    /\ scur' = pending[k]
    /\ started' = [started EXCEPT ![pending[k]] = @ + 1]
    /\ spc' = "prepare"
    /\ UNCHANGED <<storageVars, intakeVars, sidx, produced, jobDirs,
                   requests, envVars, admitted, localResults, published>>

(* The whole deque was cycled without finding a runnable job: it returns *)
(* None and the scheduler goes back to the condition variable.            *)
PopNone ==
    /\ spc = "pop"
    /\ \A i \in 1..Len(pending) : SampledNotRunnable(pending[i])
    /\ spc' = "acquire"
    /\ UNCHANGED <<storageVars, intakeVars, pending, sidx, scur, produced,
                   jobDirs, requests, envVars, historyVars>>

(***************************************************************************)
(* _run_job up to its `try`: under the writer lock, mkdir job-<id>, then   *)
(* _prepare_wasi_environment: copy the module, then stdin, check the dirs, *)
(* copy the data files, check stdout/stderr.  Any failure (NoSuchNameError *)
(* from copy_to_file, ValueError for an escaping path) is raised before    *)
(* the try/finally that removes the job directory, so the directory stays; *)
(* the scheduler's `except` logs it and its `finally` notifies.            *)
(***************************************************************************)
PrepareFailed ==
    /\ spc' = "acquire" /\ scur' = NoJob
    /\ jobDirs' = jobDirs \cup {scur}
    /\ UNCHANGED <<intakeVars, pending, sidx, produced, requests, envVars,
                   historyVars>>

EarlyNames(j) ==
    {Info[j].wasm_module}
      \cup (IF Info[j].stdin_file # NoName THEN {Info[j].stdin_file} ELSE {})

PrepareCopyFails ==
    /\ spc = "prepare"
    /\ \/ CopyFails(Info[scur].wasm_module)
       \/ /\ CopyOk(Info[scur].wasm_module)
          /\ Info[scur].stdin_file # NoName
          /\ CopyFails(Info[scur].stdin_file)
       \/ /\ \A n \in EarlyNames(scur) : CopyOk(n)
          /\ Info[scur].escape # "dirs"
          /\ \E n \in Info[scur].data : CopyFails(n)
    /\ PrepareFailed

PrepareEscapes ==
    /\ spc = "prepare"
    /\ \A n \in EarlyNames(scur) : CopyOk(n)
    /\ \/ Info[scur].escape = "dirs"
       \/ /\ Info[scur].escape = "stdout"
          /\ \A n \in Info[scur].data : CopyOk(n)
    /\ UNCHANGED storageVars
    /\ PrepareFailed

PrepareOk ==
    /\ spc = "prepare"
    /\ \A n \in RequiredNamedData(scur) : CopyOk(n)
    /\ Info[scur].escape = "none"
    /\ jobDirs' = jobDirs \cup {scur}
    /\ spc' = "execute"
    /\ UNCHANGED <<storageVars, intakeVars, pending, sidx, scur, produced,
                   requests, envVars, historyVars>>

(***************************************************************************)
(* The rest of _run_job and _send_results: the module runs on a worker     *)
(* thread (exit code or trap), the results zip goes to results_receiver,   *)
(* and the named results that exist as files or directories are collected *)
(* (any subset of named_results; none after a trap).  The finally removes  *)
(* the job directory.                                                      *)
(***************************************************************************)
Execute ==
    /\ spc = "execute"
    /\ \E out \in SUBSET Info[scur].named_results : produced' = out
    /\ jobDirs' = jobDirs \ {scur}
    /\ spc' = "store_named"
    /\ UNCHANGED <<storageVars, intakeVars, pending, sidx, scur, requests,
                   envVars, historyVars>>

(* _store_named_results: store_data for each result. *)
StoreNamedOk ==
    /\ spc = "store_named"
    /\ StoreAllOk(produced)
    /\ localResults' = localResults \cup produced
    /\ spc' = "send_named"
    /\ UNCHANGED <<intakeVars, pending, sidx, scur, produced, jobDirs,
                   requests, envVars, admitted, started, published>>

(* A result name is taken: NameTakenError escapes to the scheduler's     *)
(* `except`, _send_named_results is skipped.                              *)
StoreNamedTaken ==
    /\ spc = "store_named"
    /\ StoreUntilTaken(produced)
    /\ localResults' = localResults \cup (stored' \ stored)
    /\ spc' = "acquire" /\ scur' = NoJob /\ produced' = {}
    /\ UNCHANGED <<intakeVars, pending, sidx, jobDirs, requests, envVars,
                   admitted, started, published>>

(* _send_named_results: one NDATA_PUT per result to the datastore group;  *)
(* then the finally's notify_all (the scheduler is the only waiter).      *)
SendNamed ==
    /\ spc = "send_named"
    /\ published' = published \cup produced
    /\ spc' = "acquire" /\ scur' = NoJob /\ produced' = {}
    /\ UNCHANGED <<storageVars, intakeVars, pending, sidx, jobDirs, requests,
                   envVars, admitted, started, localResults>>

-----------------------------------------------------------------------------
(**************************** the environment *****************************)

(* The client submits job j (a JOB_SUBMIT bundle to this executor). *)
Submit(j) ==
    /\ submits[j] < MaxSubmit
    /\ submits' = [submits EXCEPT ![j] = @ + 1]
    /\ mailbox' = mailbox \cup
         {[type |-> "JOB_SUBMIT", what |-> j, from |-> Client, seq |-> submits[j] + 1]}
    /\ UNCHANGED <<storageVars, batch, ipc, icur, imissing, pending, schedVars,
                   requests, served, lost, dropped, historyVars>>

(***************************************************************************)
(* Datastore ds handles the next NDATA_GET request (Datastore._handle_data *)
(* GET): for each requested name q, load_data(q) returns every held name   *)
(* that starts with q, and each comes back as one NDATA_GET bundle.        *)
(***************************************************************************)
DatastoreReply(ds) ==
    /\ served[ds] < Len(requests)
    /\ LET i == served[ds] + 1
       IN  mailbox' = mailbox \cup
             {[type |-> "NDATA_GET", what |-> n, from |-> ds, seq |-> i] :
                n \in Held[ds] \cap UNION {StartsWith[q] : q \in requests[i]}}
    /\ served' = [served EXCEPT ![ds] = @ + 1]
    /\ UNCHANGED <<storageVars, batch, ipc, icur, imissing, pending, schedVars,
                   requests, submits, lost, dropped, historyVars>>

LoseBlob(d) ==
    /\ lost < MaxBlobLoss
    /\ BlobVanishes(d)
    /\ lost' = lost + 1
    /\ UNCHANGED <<intakeVars, pending, schedVars, requests, served, submits,
                   dropped, historyVars>>

(***************************************************************************)
(* The DTN network loses a datastore's NDATA_GET reply (nothing in the     *)
(* executor acknowledges or re-requests it).                              *)
(***************************************************************************)
DropReply(b) ==
    /\ dropped < MaxDrop
    /\ b \in mailbox /\ b.type = "NDATA_GET"
    /\ mailbox' = mailbox \ {b}
    /\ dropped' = dropped + 1
    /\ UNCHANGED <<storageVars, batch, ipc, icur, imissing, pending, schedVars,
                   requests, served, submits, lost, historyVars>>

-----------------------------------------------------------------------------
IntakeNext ==
    \/ Fetch
    \/ \E b \in batch : \/ ReceiveUndecodable(b)
                        \/ ReceiveJob(b) \/ ReceiveJobNameTaken(b)
                        \/ ReceiveData(b) \/ ReceiveDataNameTaken(b)
    \/ AdmitAppend \/ AdmitNotify \/ DataNotify

SchedulerNext ==
    \/ Acquire \/ CheckFound \/ CheckNext \/ Sleep
    \/ \E k \in 1..Len(pending) : PopJob(k)
    \/ PopNone
    \/ PrepareCopyFails \/ PrepareEscapes \/ PrepareOk
    \/ Execute \/ StoreNamedOk \/ StoreNamedTaken \/ SendNamed

EnvNext ==
    \/ \E j \in Jobs : Submit(j)
    \/ \E ds \in Datastores : DatastoreReply(ds)
    \/ \E d \in Data : LoseBlob(d)
    \/ \E b \in mailbox : DropReply(b)

Next == IntakeNext \/ SchedulerNext \/ EnvNext

(***************************************************************************)
(* Both tasks run on one asyncio event loop, which resumes every task      *)
(* whose await has completed: each task that can step eventually does.     *)
(* A datastore's intake loop fetches and answers its bundles every ten     *)
(* seconds, so a request it has not answered is eventually answered.  The  *)
(* client, the network's losses and the file system promise nothing.      *)
(***************************************************************************)
Spec == Init /\ [][Next]_vars
FairSpec ==
    /\ Spec /\ WF_vars(IntakeNext) /\ WF_vars(SchedulerNext)
    /\ \A ds \in Datastores : WF_vars(DatastoreReply(ds))
-----------------------------------------------------------------------------
(********************************* properties *****************************)

InPending(j) == \E k \in 1..Len(pending) : pending[k] = j
CountPending(j) == Cardinality({k \in 1..Len(pending) : pending[k] = j})
RequestedNames == UNION {requests[i] : i \in 1..Len(requests)}
(* JOB_SUBMIT bundles for j still queued at the agent or in the batch. *)
SubmitsInFlight(j) ==
    Cardinality({b \in mailbox \cup batch : b.type = "JOB_SUBMIT" /\ b.what = j})
(* The scheduler is between jobs: back at the condition variable. *)
BetweenJobs == spc \in {"acquire", "check", "waiting", "pop"}

(***************************************************************************)
(* No lost wake-up (_handle_job, _handle_data and _scheduler): while the   *)
(* scheduler is blocked in wait() and the intake has no notify_all still   *)
(* to do, no pending job is runnable whatever the sampled load.  It rests  *)
(* on appending before notifying and on the predicate being evaluated     *)
(* under the condition's lock.                                             *)
(***************************************************************************)
NoLostWakeup ==
    spc = "waiting" /\ ipc = "idle" =>
        \A k \in 1..Len(pending) : ~SurelyRunnable(pending[k])

(***************************************************************************)
(* Every input a queued job still lacks was asked of the datastores        *)
(* (_handle_job's NDATA_GET for `missing`): no job waits for data nobody   *)
(* requested.  The names of the job just appended, whose request is yet to *)
(* be sent, are excepted; the scheduler may have rotated the deque since,  *)
(* so that job is not necessarily the last one.                            *)
(***************************************************************************)
ToRequest == IF ipc = "admit_notify" THEN imissing ELSE {}
PendingInputsRequested ==
    \A k \in 1..Len(pending) :
        FindMissing(RequiredNamedData(pending[k])) \subseteq RequestedNames \cup ToRequest

(***************************************************************************)
(* The deque rotation of _pop_next_runnable_job neither loses nor          *)
(* duplicates a job: each admission of j is either still in the deque or   *)
(* was popped exactly once.                                                *)
(***************************************************************************)
JobsConserved ==
    \A j \in Jobs : admitted[j] = CountPending(j) + started[j]

(***************************************************************************)
(* Every job the client submits is queued (_handle_job): a JOB_SUBMIT      *)
(* bundle is at the agent, in the batch, being admitted, or was appended.  *)
(***************************************************************************)
SubmissionsConserved ==
    \A j \in Jobs :
        submits[j] = SubmitsInFlight(j) + admitted[j]
                       + (IF ipc = "admit_append" /\ icur = j THEN 1 ELSE 0)

(***************************************************************************)
(* The job directory is removed unconditionally when a job terminates      *)
(* (spec 4.6, Cleanup): between two jobs no job-<id> directory is left.    *)
(***************************************************************************)
JobDirRemoved == BetweenJobs => jobDirs = {}

(***************************************************************************)
(* Each named result is both stored locally and sent to the datastore      *)
(* group (spec 4.6, named_results): between two jobs every result stored   *)
(* by the scheduler was published.                                         *)
(***************************************************************************)
NamedResultsPublished == BetweenJobs => localResults \subseteq published

(* Every input of j is stored here or held by some datastore, and some     *)
(* load of the machine admits j.                                          *)
Obtainable(j) ==
    /\ \A n \in RequiredNamedData(j) : n \in stored \/ \E ds \in Datastores : n \in Held[ds]
    /\ \E c \in CapRange : IsCapableOf(c, Info[j].capabilities)

(***************************************************************************)
(* A queued job that can be run is eventually popped (spec 4.6): its       *)
(* missing inputs are requested once at admission (_handle_job), the       *)
(* replies are stored and notified (_handle_data), and the scheduler       *)
(* re-evaluates runnability on every notify_all.  Nothing re-requests a    *)
(* lost reply and nothing notifies when the load changes.                  *)
(***************************************************************************)
ObtainableJobsRun ==
    \A j \in Jobs : InPending(j) /\ Obtainable(j) ~> ~InPending(j)
=============================================================================
