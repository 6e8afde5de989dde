# TLA+ models of the DTN compute fabric (`src/rec`)

This directory holds TLA+ models of the DTN compute fabric in `src/rec/dtn`. It has three kinds of file:

- modules that model each part of the system;
- TLC configurations that model-check small instances;
- TLAPS proofs of the main safety properties for every instance.

`PROJECT.json` lists the components, the runs, the mutants, the code lines each definition models, the findings and the hazards.

## 1. The system

The fabric is built from nodes. Each node is an asyncio program that talks to a local DTN agent over a Unix socket.

**Node** (`node.py`) is the base of every node. It has three parts:

- `_get_new_bundles` fetches, in one call, every bundle the agent has queued for the node.
- `_handle_discovery` is the peer half of broker discovery. It keeps two slots, `_broker_pending` and `_broker`.
- `_state_mutex` is an `aiorwlock` RWLock.

**Broker** (`broker.py`) runs three tasks:

- an announcer, which broadcasts a `BROKER_ANNOUNCE` every 10 s;
- a bundle handler, which records each `BROKER_REQUEST` in `discovered_nodes[node_type]` and answers it with a `BROKER_ACK`;
- a job scheduler, which takes the lock and does nothing else.

**Executor** (`executor.py`) runs two tasks that share the deque `_pending_jobs`, the node's Storage and the condition variable `_job_ready_cv`:

- The *intake* task fetches bundles every 10 s and handles them in order. For each `JOB_SUBMIT`, `_handle_job` does the following:
  1. stores the data the job carries;
  2. computes the missing inputs;
  3. appends the job;
  4. calls `notify_all`;
  5. sends an `NDATA_GET` request for the missing names.

  For each `NDATA_GET` reply, `_handle_data` stores the datum and calls `notify_all`. An exception in any handler ends the rest of the batch.
- The *scheduler* task waits on the condition until `_has_runnable_job()` finds a runnable job. A job is runnable when its inputs are stored and `Capabilities.from_system()` admits it. The scheduler then pops a job with `_pop_next_runnable_job`, which rotates the deque. It runs the job in three stages:
  1. it prepares the sandbox (`job-<id>` directory, module, stdin, data files, path checks);
  2. it runs the WASI module and sends the results;
  3. it stores the named results locally and publishes them to the datastores with `NDATA_PUT`.

**Storage** (`storage.py`) is a TinyDB index of name → SHA-1 file name, plus a blob directory with deduplication. It has its own RWLock. `store_data` raises `NameTakenError` for a name that is already stored. `copy_to_file` and `load_data` detect a blob file that has vanished and call `_cleanup` to remove the stale index row.

**Datastore** (`datastore.py`) stores `NDATA_PUT` data and answers `NDATA_GET` with every stored name that starts with the requested name.

**Client** (`client.py`) is a command-line tool. It finds a broker with the peer half of discovery, persists it in a context file, and sends one request at a time.

**Job** (`job.py`) describes a job: `JobInfo` with `required_named_data`, and `Capabilities` with `is_capable_of` and `from_system`.

## 2. Modules

| Module | Models | State ↔ code |
|---|---|---|
| `Storage` | `storage.py` | `stored` is the set of names with an index row. `blobs` is the set of data whose blob file exists. A datum stands for its SHA-1 digest; `HexDigest[d]` is the digest string. `store_data` loops become `StoreAllOk` / `StoreUntilTaken`. `copy_to_file` becomes `CopyOk` / `CopyFails`. `_cleanup` becomes `Cleanup`. |
| `JobInfo` | `job.py` | A job is a model value. `Info[j]` holds the fields that steer control: module, stdin, data names, capabilities, whether a path escapes the sandbox, named results and receiver. `Carried[j]` is the key set of `Job.data`. |
| `Executor` | `executor.py`, with the datastores' `NDATA_GET` answers and the client's submissions as environment | Intake: `mailbox`, `batch`, control point `ipc`, `icur`, `imissing`. Shared: `pending` (`_pending_jobs`), `requests` (NDATA_GET sent). Scheduler: control point `spc`, loop index `sidx`, popped job `scur`, `produced`, `jobDirs`. History counters `submits`, `admitted`, `started`, `localResults`, `published` exist only for the properties. |
| `StorageLocking` | `storage.py` at its await points | `rows` (TinyDB table: doc_id → name, file), `nextId`, `blobs` (files that exist), `full` (files whose write completed), `writer` (holder of the RWLock's writer side), per task `pc`, `call`, `stale` (digests found missing, carried from the read phase to `_cleanup`). Environment: `Start` (a caller's call), `LoseBlob`, `Crash` (process restart: rows and blobs persist, locks and calls vanish). History `gone` (files unlinked by `LoseBlob`). |
| `NamedIndex` | what `Storage` promises | `index` (set of (name, blob) pairs), `files` (blobs whose file exists), `lostFiles` (blobs deleted from outside). `Put` creates an absent file; `Bind` binds an unbound name to a written blob; `Unbind` removes the bindings of a set of names; `Lose` deletes a file from outside. `StorageLocking` implements it under `index <- Index` (the rows' (name, file) pairs), `files <- blobs`, `lostFiles <- gone` (`ImplementsNamedIndex`). |
| `Discovery` | `node.py` `_handle_discovery`; `broker.py` `_announce_yourself`, `_handle_discovery` | `brokerPending`, `broker` (peer slots), `discovered`, `net` (bundles in flight, a set), `announced`, `dropped`. |
| `Association` | what discovery promises | `assoc[p]` (a peer's broker) and `known[b]` (peers a broker recorded). `Register` records an unassociated peer at one broker only; `Bind` associates a peer with a broker that knows it. `Discovery` implements it under `assoc <- broker`, `known <- KnownBy` (`ImplementsAssociation`). |
| `MCExecutor`, `MCDiscovery`, `MCStorageLocking` | instances for TLC | Model values and small definitions of `Info`, `Carried`, `Held`, `StartsWith`, `DataOf`, `TypeOf`, `HexDigest`. |
| `ExecutorProofs`, `ExecutorRequestProofs`, `ExecutorJobsProofs`, `ExecutorWakeProofs`, `StorageLockingProofs`, `DiscoveryProofs` | TLAPS proofs | Inductive invariants, lemmas and theorems (section 5). |

**Atomicity.** A step of the Executor is the code between two suspension points that matter. The node's writer lock is held across only one relevant region: `_has_runnable_job` holds the reader lock, which blocks the intake's append. The model therefore guards `AdmitAppend` with `spc # "check"`. The scheduler holds the condition's lock exactly in state `check`, so the intake's `notify_all` (`AdmitNotify`, `DataNotify`) has the same guard.

`notify_all` on a waiting scheduler is `Wake`: the scheduler goes back to `acquire` and re-evaluates the predicate.

**Load.** `from_system()` samples the system load at every call. The model draws it nondeterministically from `CapRange` at each evaluation. This gives two operators:

- `SampledRunnable` / `SampledNotRunnable` are the outcomes of one evaluation;
- `SurelyRunnable` means every possible sample admits the job.

**Failures.** A failure in any of the following is its own action, with the code's effect:

- the store loop (`ReceiveJobNameTaken`, `ReceiveDataNameTaken`, `StoreNamedTaken`);
- a sandbox copy (`PrepareCopyFails`, in the code's order: module, then stdin, then data files unless the `dirs` check failed first);
- a path check (`PrepareEscapes`).

**Decoding.** `_handle_job` calls `msgpack.unpackb(bundle.payload)`, which returns a plain dict, so `job.data` raises. The constant `Decodable` is the set of jobs whose payload yields an object with `.data` and `.metadata`. With `Decodable = {}` the model is the code as written; the other runs assume a decoder that works, so the rest of the handler can be examined.

**Datastore answers.** `DatastoreReply(ds)` answers the next request in order. Like `load_data`, it returns every held name that starts with a requested name; `StartsWith[q]` gives those names. `DropReply` loses one answer bundle, up to `MaxDrop`.

**Storage locking.** Each storage call is a task with a control point. `store_data` takes the writer lock, searches, opens (creating the file), writes and inserts: four steps, since the file exists from `open` on. `load_data` and `copy_to_file` search under the reader lock; if a file vanished, they remember its digest and run `_cleanup` under the writer lock in a later step, as the code does after releasing the reader lock. `_cleanup` removes the rows whose *name* equals one of the digests, as in the code.

**Discovery.** Each handler runs under the node's writer lock, so receiving one bundle is one step. A broadcast announcement is one bundle per peer. Brokers ignore the announcements of other brokers; those copies are left out of the model.

## 3. Runs

| Run | cfg | Expect | Shows |
|---|---|---|---|
| exec_safety | `MCExecutor_safety.cfg` | pass (3,489,816 states) | The rotation of the deque neither loses nor duplicates a job (`JobsConserved`). Every missing input of a queued job was requested (`PendingInputsRequested`). `TypeOK` holds. |
| exec_progress | `MCExecutor_progress.cfg` | pass (2,018 states) | When every name has one source, the scheduler never sleeps beside a surely runnable job (`NoLostWakeup`). Under fairness of the two tasks and the datastores' replies, a queued job whose inputs are stored or held by a datastore, and which some load admits, is eventually popped (`ObtainableJobsRun`). |
| exec_prefix | `MCExecutor_prefix.cfg` | violation of `ObtainableJobsRun` | A request for `x` is answered with `x` and `w` (a name starting with `x`) that the executor already has; the `NameTakenError` on `w` aborts the batch before `x` is stored. |
| exec_lost_wakeup | `MCExecutor_lost_wakeup.cfg` | violation of `NoLostWakeup` | A bundle stores the missing input of a queued job and then hits `NameTakenError`, so `notify_all` is skipped and the scheduler sleeps. |
| exec_as_written | `MCExecutor_as_written.cfg` | violation of `SubmissionsConserved` | `unpackb` returns a dict: no job is ever queued. |
| exec_jobdir | `MCExecutor_jobdir.cfg` | violation of `JobDirRemoved` | A failed sandbox preparation leaks `job-<id>`. |
| exec_named_publish | `MCExecutor_named_publish.cfg` | violation of `NamedResultsPublished` | A taken result name stops publication of the results already stored. |
| discovery | `MCDiscovery.cfg` | pass (5,588 states) | With two brokers, two peers and one lost bundle, `AssociatedBrokerKnowsPeer`, `SingleBrokerRecord` and `AssociationMonotone` hold, and discovery implements `Association` (`ImplementsAssociation`). |
| discovery_live | `MCDiscovery_live.cfg` | pass | Over a reliable network every peer associates (`EventuallyAssociated`). |
| storage_locking | `MCStorageLocking.cfg` | pass (28,766 states) | Two tasks calling `store_data`, `load_data` and `copy_to_file` on two names and two data, with one blob loss and one crash. Names stay unique (`UniqueNames`); every row's file exists or was unlinked from outside (`IndexBacked`); a blob file is opened only when absent (`BlobWrittenOnce`); every call returns (`CallsReturn`, under fairness of each task); the whole is a behaviour of the atomic `NamedIndex` (`ImplementsNamedIndex`). |
| storage_heal | `MCStorageLocking_heal.cfg` | violation of `CleanupHeals` | `_cleanup` removes nothing: it matches the digest against the `name` field, so the row of a vanished blob stays. |
| storage_torn | `MCStorageLocking_torn.cfg` | violation of `IntactRows` | A crash between `open` and `write` leaves an empty blob file; a later `store_data` of the same data sees it exists, skips the write and indexes the empty file. |

Every property of a passing run has a mutant in `PROJECT.json`. A mutant is a plausible bug in the mapped code, and TLC finds the property violated under it:

- the request is sent only when two or more names are missing;
- the notify is dropped;
- the popped job is kept in the deque;
- the loop index skips one;
- the peer's guard tests only one slot;
- the ACK is compared with the wrong slot;
- the broker answers without recording;
- the storage search ignores the writer lock, drops or inverts the dedup test, or keeps the lock after insert.

The type invariants of `Discovery` and `StorageLocking` are proved (section 5) and not checked by a run: no plausible bug of the mapped code breaks them alone.

**Bounds.**

- *exec_safety:* three jobs and two datastores.
  - j1 needs data, produces two named results and has a receiver.
  - j2 needs a free CPU, takes stdin and has an escaping `dirs` entry.
  - j3 needs nothing.
  - `x` is both an input held by two datastores and a named result, so NameTaken is reachable on every store path.
  - j1 carries `m` and j2 carries `x` (`RotationCarried`), so both are admitted and the deque holds several jobs, possibly in a rotated order, while an admission is still between its append and its `NDATA_GET`. With carried sets that share a name only the first job is ever queued and the rotation never happens.
  - Each job is submitted up to twice. A second submission of j1 or j2 always raises `NameTakenError`, because its carried name is still stored, and j3 is not decodable, so the deque never holds the same job twice here; that case of `JobsConserved` rests on the proof `JobsConservedHolds`.
  - One blob may vanish, so copy failures happen, and one datastore answer may be lost.
  - Together these fire every action and every disjunct.
- *exec_progress:* two jobs, names with a single source, loads 0 and 1, each job submitted once.
  - Sleeping, waking, rotation and fetching of missing data all occur.
  - NameTaken cannot occur. The lost wake-up it causes is the subject of `exec_lost_wakeup`. A second submission of the same job raises `NameTakenError` and aborts the batch holding the reply, which is finding 2, not a liveness question.
- *storage_locking:* two tasks, so every pair of operations interleaves; three calls in total, so a store can race a load or copy on the same datum; one loss and one crash, so cleanup and restart both happen.
- *Discovery:* two brokers each announcing twice, so announcements race and repeat, and two peers of different types.

**Fairness.** Both executor tasks run on one asyncio loop that resumes every task whose await completed, and the intake loop wakes every 10 s. This justifies weak fairness of `IntakeNext` and of `SchedulerNext`. Likewise each node's fetch loop and each announcer tick every 10 s for the life of the process, which justifies weak fairness of each `PeerStep` and `BrokerStep`. A datastore's intake loop also runs every 10 s and answers every request it fetches, which justifies weak fairness of each `DatastoreReply`. In `StorageLocking` every call is an asyncio task that resumes when its lock is free, which justifies weak fairness of each `TaskStep`.

The client, blob loss, reply and bundle loss and crashes get no fairness: nothing in the code makes them happen.

## 4. Findings

The entries in `PROJECT.json` `findings`, each shown by a violation run:

1. `executor.py:111` (exec_as_written) — `unpackb` returns a dict, so job admission always fails.
2. `executor.py:114` (exec_lost_wakeup) — a partial store followed by `NameTakenError` skips `notify_all`, which gives the lost wake-up. The same error drops the job and the rest of its batch.
3. `executor.py:270` (exec_jobdir) — `_prepare_wasi_environment` runs before the `try/finally` that removes the job directory, so the directory leaks.
4. `executor.py:241` (exec_named_publish) — `NameTakenError` in `_store_named_results` skips `_send_named_results`.
5. `storage.py:205` (storage_heal) — `_cleanup` removes rows by name but is given digests, so load and copy never heal the index.
6. `storage.py:90` (storage_torn) — deduplication tests only that the file exists; after a crash between `open` and `write`, the empty file is indexed.
7. `datastore.py:110` (exec_prefix) — prefix answers collide with names the executor already stores and abort its batch.

Further hazards the model reaches are in `PROJECT.json` `hazards`. They are not violation runs of their own because each is the direct consequence of a loss or a sample the code never retries:

- a lost discovery bundle leaves a peer pending for ever (`node.py:128`); `EventuallyAssociated` fails with `MaxLoss = 1`;
- a busy load sample lets the scheduler sleep with nothing to wake it (`executor.py:191`);
- a lost `NDATA_GET` answer is never re-requested (`executor.py:124`).

## 5. Proofs (TLAPS)

**`DiscoveryProofs`** proves four theorems, for every set of brokers and peers and every bound on announcements and losses:

- `TypeCorrect` (`Spec => []TypeOK`);
- `BrokerKnowsPeer` (`[]AssociatedBrokerKnowsPeer`);
- `SingleRecord` (`[]SingleBrokerRecord`);
- `Monotone` (`AssociationMonotone`).

Neither safety property is inductive, because both depend on the bundles in flight. The inductive invariant `DiscoveryInv` adds the following facts:

- A peer never has both slots set (`OneSlot`).
- A REQUEST in flight goes to its sender's pending broker and carries the sender's type (`RequestsToPending`).
- An ACK in flight comes from its receiver's pending broker, which has already recorded the receiver (`AcksFromPending`).
- A peer has at most one bundle of its own in flight (`OneOwnBundle`). This is why the ACK that sets `_broker` cannot be followed by a second one.
- A broker records a peer only under the peer's type, and only while the broker is in one of the peer's slots (`RecordsMatchSlots`).

`Refinement` (`Spec => ImplementsAssociation`) shows that discovery implements `Association`. Initial states map to `AInit`. Under `DiscoveryInv`, each step maps to a stutter or to one abstract step (`StepRefines`): a `BROKER_REQUEST` received while the peer has no broker is `Register`, because `RecordsMatchSlots` and `OneSlot` say no other broker knows the peer; an ACK from the pending broker is `Bind`, because `AcksFromPending` says that broker already recorded the peer; everything else leaves `broker` and `KnownBy` alone. Lemmas `KnownUnchanged` and `KnownAdd` compute `KnownBy'`.

TLC checked `DiscoveryInv` as an invariant with two losses allowed before it was proved. The proof has one lemma per action and one step per conjunct the action can disturb. `SingleBrokerRecord` follows from `RecordsMatchSlots` and `OneSlot` with `FS_Subset` and `FS_Singleton`.

**`ExecutorProofs`** proves `TypeCorrect` (`Spec => []TypeOK`). `TypeOK` bounds the scheduler's loop index by the deque, so it is not inductive. `ExecInv` adds three facts:

- in state `pop`, `sidx <= Len(pending)`, which holds because the intake only appends in between;
- during admission, `icur` is a job;
- from the pop to the end of a job, `scur` is a job.

The lemmas cover the storage operators (`StoreNamesType`, `CopyFailsType`), bundle fields, the rotation (`RotationType`, from `SubSeqProperties` and `ConcatProperties`) and counters (`IncrementType`).

**`StorageLockingProofs`** proves, for any tasks, names, data and bounds on calls, losses and crashes, `TypeCorrect`, `UniqueNamesHold` (`[]UniqueNames`), `IndexBackedHolds` (`[]IndexBacked`) and the action property `BlobOpenedOnce` (`BlobWrittenOnce`). None of them is inductive alone, because they depend on the writer lock held across `store_data`'s four steps. The inductive invariant `StoreInv` adds `LockInv`:

- a task from its search to its insert holds the writer lock, and no row has its name yet;
- before `open`, its blob file does not exist;
- after `open`, the file exists or was unlinked from outside.

The lemma `FirstRow` shows that the `CHOOSE` standing for `search(...)[0]` picks a row of the name, using `UniqueNames`.

`Refinement` (`Spec => ImplementsNamedIndex`) shows that the await-level model implements `NamedIndex`. Initial states map to `IInit`. Under `StoreInv`, each step maps to one abstract step or a stutter (`StepRefines`, one lemma per action):

- `StoreOpen` is `Put` of the call's datum: `LockInv` says its file is absent;
- `StoreInsert` is `Bind` of the call's name to its datum: `LockInv` says the name has no row and the file exists or was lost;
- `_cleanup` (`Cleanup`) is `Unbind` of the names equal to one of its digests (`CleanupRefines`);
- `LoseBlob` is `Lose`;
- every other step leaves the rows' pairs, `blobs` and `gone` alone (`Stutters`).

The dedup skip of `store_data` maps to a stutter, so the refinement does not by itself forbid reopening a file; that is `BlobOpenedOnce`.

**`ExecutorRequestProofs`** proves `PendingRequested`: `Spec => []PendingInputsRequested`, under the hypothesis `DigestsAreNotNames` (no data name is the hex digest of a blob). The hypothesis is needed because `_cleanup` removes rows by *name* with digest arguments (`storage.py:204`, finding 5). If a data name could equal a digest, a failed `copy_to_file` could remove its row, and a queued job's input would become missing without being requested again. All instances satisfy the hypothesis. The invariant is not inductive alone. Between `find_missing` in `_handle_job` and the `NDATA_GET`, the admitted job's missing names are only in `imissing`; `IcurMissingCovered` says so. The proof uses three facts:

- the index never shrinks (`CopyFailsKeepsIndex`);
- the set of requested names grows by exactly what is sent (`AppendRequested`);
- the rotation only reorders jobs (`RotationElements`).

The strengthened invariant `ReqInv` was checked by TLC on the exec_safety instance before it was proved.

**`ExecutorJobsProofs`** proves `JobsConservedHolds` (`Spec => []JobsConserved`). It counts the positions of a job in the deque (`Idx`) and rests on two lemmas on sequences:

- `AppendCount`: appending adds one position of the appended job;
- `RotationCount`: the rotation that pops `q[k]` keeps every other position.

`RotationCount` is shown by an explicit bijection from the positions of the rotated deque to those of `q` other than `k` (`FS_Bijection`, `FS_RemoveElement`). With `ExecInv` for the types, `JobsConserved` is inductive.

**`ExecutorWakeProofs`** proves `NoLostWakeupHolds`: `SingleSources => (Spec => []NoLostWakeup)`. `NoLostWakeup` fails in general (finding 2): when `_handle_job` stores some carried names and then raises `NameTakenError`, nobody notifies. `SingleSources` is a hypothesis on the constants under which that cannot happen: `MaxSubmit <= 1`, and no name a job carries is carried by another job, held by a datastore or among any job's named results. The `exec_progress` instance satisfies it; `exec_lost_wakeup` does not. The strengthening `WakeInv` adds to `ExecInv`:

- `BundlesSound`: at most `MaxSubmit` submissions per job, a JOB_SUBMIT bundle's `seq` is one of its job's submissions, an NDATA_GET answer carries a name its datastore holds, no JOB_SUBMIT bundle is both at the agent and in the batch, and `produced` is among the named results;
- `CarriedFresh`: until a job's bundle is handled, none of its carried names is stored, so `ReceiveJobNameTaken` is never enabled;
- `CheckedNotRunnable`: during the check, with the intake idle, the jobs before `sidx` are not surely runnable. `Sleep` turns it into `NoLostWakeup`.

The index grows only in steps that leave the intake with a `notify_all` to do or take the scheduler away from the condition variable, and `AdmitNotify` and `DataNotify` wake a waiting scheduler. TLC checked `WakeInv` and `SingleSources` on the `exec_progress` instance before the proof.

**Left to TLC.** The following stay with TLC on the instances above:

- liveness (`ObtainableJobsRun`, `EventuallyAssociated`, `CallsReturn`), because TLAPS does not handle fairness or ENABLED;
- `NoLostWakeup` outside `SingleSources`, where TLC shows it fails (finding 2, run `exec_lost_wakeup`).

## 6. Not modelled, and why

- **Excluded parts:**
  - Broker job handling: `_handle_job_query` reads sets nothing fills, and `_schedule_jobs` is empty.
  - The message codec (`messages.py`): a pure conversion.
  - `run_dtn.py`: argument parsing.
  - EID parsing: not in the repository.
  - The WASI run itself: abstracted to which named results it produces.
- **Storage:** `find_missing` (a read) is not a task of `StorageLocking`; it is part of the Executor's atomic store steps.
- **Datastore:** only its `NDATA_GET` answers to the executor are modelled, over a fixed set of held names; its `NDATA_PUT` path changes only its own storage and its reply is ignored by the executor.
- **Client:** only its discovery half, through `Discovery`.
- **Not yet modelled:**
  - capability changes over time;
  - broker restart;
  - loss of the executor's NDATA_GET request itself (its answer's loss is `DropReply`) (`PROJECT.json` hazards, each with a note).
