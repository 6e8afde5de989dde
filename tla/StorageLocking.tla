--------------------------- MODULE StorageLocking ---------------------------
(***************************************************************************)
(* The Storage class of src/rec/dtn/storage.py as it is used by several    *)
(* asyncio tasks at once (the executor's intake and scheduler tasks share  *)
(* one Storage) and across restarts of the process (the TinyDB file and    *)
(* the blob directory live under the node's root directory).               *)
(*                                                                         *)
(* Where Storage.tla gives each call as one atomic step, this module keeps *)
(* the await points of store_data, load_data, copy_to_file and _cleanup   *)
(* and the RWLock that orders them.  The index is the TinyDB table itself: *)
(* a function from doc_id to a row [name, file], doc_ids handed out in     *)
(* increasing order, so that `entries[0]` is the row of least doc_id.  A  *)
(* datum of Data stands for its bytes and its SHA-1 digest at once;        *)
(* HexDigest[d] is the file name string, which _cleanup compares with row  *)
(* names.  A blob file exists (`blobs`) and, separately, holds all its     *)
(* bytes (`full`): open(..., "wb") creates an empty file before the write. *)
(***************************************************************************)
EXTENDS Naturals, FiniteSets

CONSTANTS
    Tasks,      \* asyncio tasks calling into one Storage
    Names,      \* data names
    Data,       \* blob contents, each standing for its digest
    HexDigest,  \* HexDigest[d]: sha1(d).hexdigest(), the blob's file name
    StartsWith, \* StartsWith[p]: the names m with m.startswith(p)
    MaxCalls,   \* bound on the storage calls the tasks make
    MaxLoss,    \* bound on blob files deleted behind the program's back
    MaxCrash,   \* bound on process crashes
    None        \* no task / no datum

ASSUME StorageLockingAssumption ==
    /\ Names # {}
    /\ DOMAIN HexDigest = Data
    /\ StartsWith \in [Names -> SUBSET Names]
    /\ \A p \in Names : p \in StartsWith[p]
    /\ MaxCalls \in Nat /\ MaxLoss \in Nat /\ MaxCrash \in Nat
    /\ None \notin Tasks \cup Data

VARIABLES
    rows,       \* the TinyDB table: doc_id -> [name, file]
    nextId,     \* the doc_id of the next insert
    blobs,      \* data whose blob file exists
    full,       \* data whose blob file holds all its bytes
    writer,     \* the task holding the writer lock, or None
    pc,         \* pc[t]: where task t's current call is suspended
    call,       \* call[t]: [op, name, data] of t's current call
    stale,      \* stale[t]: the `disappeared` / missing_filename list
    calls,      \* calls started so far
    lost,       \* blob files deleted so far
    crashes,    \* crashes so far
    gone        \* history: data whose file was deleted since it was written

vars == <<rows, nextId, blobs, full, writer, pc, call, stale, calls, lost,
          crashes, gone>>

Row == [name : Names, file : Data]
Ops == {"store", "load", "copy"}
PC == {"idle", "store", "store_open", "store_write", "store_insert",
       "load", "copy", "cleanup"}

TypeOK ==
    /\ DOMAIN rows \subseteq 1..(nextId - 1) /\ nextId \in Nat \ {0}
    /\ \A i \in DOMAIN rows : rows[i] \in Row
    /\ full \subseteq blobs /\ blobs \subseteq Data
    /\ writer \in Tasks \cup {None}
    /\ pc \in [Tasks -> PC]
    /\ call \in [Tasks -> [op : Ops, name : Names, data : Data \cup {None}]]
    /\ stale \in [Tasks -> SUBSET Data]
    /\ calls \in 0..MaxCalls /\ lost \in 0..MaxLoss /\ crashes \in 0..MaxCrash
    /\ gone \subseteq Data

(* Storage.__init__ on an empty root directory. *)
Init ==
    /\ rows = << >> /\ nextId = 1
    /\ blobs = {} /\ full = {}
    /\ writer = None
    /\ pc = [t \in Tasks |-> "idle"]
    /\ call = [t \in Tasks |-> [op |-> "load", name |-> CHOOSE n \in Names : TRUE,
                                data |-> None]]
    /\ stale = [t \in Tasks |-> {}]
    /\ calls = 0 /\ lost = 0 /\ crashes = 0
    /\ gone = {}

(* The doc_ids of the rows db.search(Query().name == n) returns. *)
Named(n) == {i \in DOMAIN rows : rows[i].name = n}

(* A caller starts store_data(n, d), load_data(n) or copy_to_file(n, _). *)
Start(t) ==
    /\ pc[t] = "idle" /\ calls < MaxCalls
    /\ \E op \in Ops, n \in Names, d \in Data :
         /\ call' = [call EXCEPT ![t] = [op |-> op, name |-> n,
                                          data |-> IF op = "store" THEN d ELSE None]]
         /\ pc' = [pc EXCEPT ![t] = op]
    /\ calls' = calls + 1
    /\ UNCHANGED <<rows, nextId, blobs, full, writer, stale, lost, crashes, gone>>

(* Mutants of store_data's critical section. *)
StoreSearchUnlocked(t) ==
    /\ pc[t] = "store"
    /\ IF Named(call[t].name) # {}
         THEN pc' = [pc EXCEPT ![t] = "idle"] /\ UNCHANGED writer
         ELSE /\ writer' = t
              /\ pc' = [pc EXCEPT ![t] = IF call[t].data \in blobs
                                           THEN "store_insert" ELSE "store_open"]
    /\ UNCHANGED <<rows, nextId, blobs, full, call, stale, calls, lost, crashes, gone>>

StoreSearchNoDedup(t) ==
    /\ pc[t] = "store" /\ writer = None
    /\ IF Named(call[t].name) # {}
         THEN pc' = [pc EXCEPT ![t] = "idle"] /\ UNCHANGED writer
         ELSE writer' = t /\ pc' = [pc EXCEPT ![t] = "store_open"]
    /\ UNCHANGED <<rows, nextId, blobs, full, call, stale, calls, lost, crashes, gone>>

StoreSearchDedupInverted(t) ==
    /\ pc[t] = "store" /\ writer = None
    /\ IF Named(call[t].name) # {}
         THEN pc' = [pc EXCEPT ![t] = "idle"] /\ UNCHANGED writer
         ELSE /\ writer' = t
              /\ pc' = [pc EXCEPT ![t] = IF call[t].data \notin blobs
                                           THEN "store_insert" ELSE "store_open"]
    /\ UNCHANGED <<rows, nextId, blobs, full, call, stale, calls, lost, crashes, gone>>

(***************************************************************************)
(* store_data: the writer lock is taken, the name searched; a taken name   *)
(* raises NameTakenError (the `async with` releases the lock), otherwise   *)
(* the dedup test filepath.exists() decides between inserting the row at   *)
(* once and writing the blob first.                                        *)
(***************************************************************************)
StoreSearch(t) ==
    /\ pc[t] = "store" /\ writer = None
    /\ IF Named(call[t].name) # {}
         THEN pc' = [pc EXCEPT ![t] = "idle"] /\ UNCHANGED writer
         ELSE /\ writer' = t
              /\ pc' = [pc EXCEPT ![t] = IF call[t].data \in blobs
                                           THEN "store_insert" ELSE "store_open"]
    /\ UNCHANGED <<rows, nextId, blobs, full, call, stale, calls, lost, crashes, gone>>

(* open(blob_directory / filename, "wb") creates the file, still empty. *)
StoreOpen(t) ==
    /\ pc[t] = "store_open"
    /\ blobs' = blobs \cup {call[t].data}
    /\ full' = full \ {call[t].data}
    /\ gone' = gone \ {call[t].data}
    /\ pc' = [pc EXCEPT ![t] = "store_write"]
    /\ UNCHANGED <<rows, nextId, writer, call, stale, calls, lost, crashes>>

(* await f.write(data): the blob holds its bytes (if it was not deleted). *)
StoreWrite(t) ==
    /\ pc[t] = "store_write"
    /\ full' = full \cup ({call[t].data} \cap blobs)
    /\ pc' = [pc EXCEPT ![t] = "store_insert"]
    /\ UNCHANGED <<rows, nextId, blobs, writer, call, stale, calls, lost, crashes, gone>>

(* Mutant: the lock is not released after the insert. *)
StoreInsertKeepsLock(t) ==
    /\ pc[t] = "store_insert"
    /\ rows' = [i \in DOMAIN rows \cup {nextId} |->
                  IF i = nextId THEN [name |-> call[t].name, file |-> call[t].data]
                                ELSE rows[i]]
    /\ nextId' = nextId + 1
    /\ pc' = [pc EXCEPT ![t] = "idle"]
    /\ UNCHANGED <<writer, blobs, full, call, stale, calls, lost, crashes, gone>>

(* await db.insert({name, filename}), then the writer lock is released. *)
StoreInsert(t) ==
    /\ pc[t] = "store_insert"
    /\ rows' = [i \in DOMAIN rows \cup {nextId} |->
                  IF i = nextId THEN [name |-> call[t].name, file |-> call[t].data]
                                ELSE rows[i]]
    /\ nextId' = nextId + 1
    /\ writer' = None
    /\ pc' = [pc EXCEPT ![t] = "idle"]
    /\ UNCHANGED <<blobs, full, call, stale, calls, lost, crashes, gone>>

(***************************************************************************)
(* load_data(prefix) under the reader lock: every row whose name starts    *)
(* with prefix is read; the file names of the rows whose blob is missing   *)
(* are collected in `disappeared`; the reader lock is released and, if     *)
(* the list is not empty, _cleanup(disappeared) follows.                   *)
(***************************************************************************)
LoadRead(t) ==
    /\ pc[t] = "load" /\ writer = None
    /\ LET found == {i \in DOMAIN rows : rows[i].name \in StartsWith[call[t].name]}
           disappeared == {rows[i].file : i \in found} \ blobs
       IN /\ stale' = [stale EXCEPT ![t] = disappeared]
          /\ pc' = [pc EXCEPT ![t] = IF disappeared = {} THEN "idle" ELSE "cleanup"]
    /\ UNCHANGED <<rows, nextId, blobs, full, writer, call, calls, lost, crashes, gone>>

(***************************************************************************)
(* copy_to_file(name, dst) under the reader lock: no row raises            *)
(* NoSuchNameError; otherwise the blob of entries[0] is copied if its file *)
(* exists, else its file name is kept as missing_filename and, after the   *)
(* lock is released, _cleanup([missing_filename]) runs.                    *)
(***************************************************************************)
CopySearch(t) ==
    /\ pc[t] = "copy" /\ writer = None
    /\ IF Named(call[t].name) = {}
         THEN pc' = [pc EXCEPT ![t] = "idle"] /\ UNCHANGED stale
         ELSE LET first == rows[CHOOSE i \in Named(call[t].name) :
                                   \A k \in Named(call[t].name) : i <= k]
              IN IF first.file \in blobs
                   THEN pc' = [pc EXCEPT ![t] = "idle"] /\ UNCHANGED stale
                   ELSE /\ stale' = [stale EXCEPT ![t] = {first.file}]
                        /\ pc' = [pc EXCEPT ![t] = "cleanup"]
    /\ UNCHANGED <<rows, nextId, blobs, full, writer, call, calls, lost, crashes, gone>>

(***************************************************************************)
(* _cleanup(names): under the writer lock, db.remove(Query().name == x)    *)
(* for every x of the list.  The callers pass blob file names, so a row    *)
(* goes only if its *name* equals the hex digest of some missing blob.     *)
(***************************************************************************)
CleanupRemove(t) ==
    /\ pc[t] = "cleanup" /\ writer = None
    /\ LET doomed == {i \in DOMAIN rows : rows[i].name \in {HexDigest[f] : f \in stale[t]}}
       IN rows' = [i \in DOMAIN rows \ doomed |-> rows[i]]
    /\ pc' = [pc EXCEPT ![t] = "idle"]
    /\ UNCHANGED <<nextId, blobs, full, writer, call, stale, calls, lost, crashes, gone>>

(* A blob file is deleted from outside the program. *)
LoseBlob(d) ==
    /\ d \in blobs /\ lost < MaxLoss
    /\ blobs' = blobs \ {d} /\ full' = full \ {d}
    /\ gone' = gone \cup {d}
    /\ lost' = lost + 1
    /\ UNCHANGED <<rows, nextId, writer, pc, call, stale, calls, crashes>>

(***************************************************************************)
(* The process dies and is started again on the same root directory: the  *)
(* table and the blob directory persist, the tasks and the lock do not.    *)
(***************************************************************************)
Crash ==
    /\ crashes < MaxCrash
    /\ writer' = None
    /\ pc' = [t \in Tasks |-> "idle"]
    /\ stale' = [t \in Tasks |-> {}]
    /\ crashes' = crashes + 1
    /\ UNCHANGED <<rows, nextId, blobs, full, call, calls, lost, gone>>

TaskStep(t) ==
    \/ StoreSearch(t) \/ StoreOpen(t) \/ StoreWrite(t) \/ StoreInsert(t)
    \/ LoadRead(t) \/ CopySearch(t) \/ CleanupRemove(t)

Next ==
    \/ \E t \in Tasks : Start(t) \/ TaskStep(t)
    \/ \E d \in Data : LoseBlob(d)
    \/ Crash

Spec == Init /\ [][Next]_vars

(* The asyncio loop runs every task that is ready; callers and faults are *)
(* the environment and get no fairness.                                   *)
FairSpec == Spec /\ \A t \in Tasks : WF_vars(TaskStep(t))

-----------------------------------------------------------------------------
(* Names are unique within a store: the writer lock makes store_data's     *)
(* search and its later insert one critical section, so two tasks storing  *)
(* the same name never both find it free.                                  *)
UniqueNames ==
    \A i, k \in DOMAIN rows : rows[i].name = rows[k].name => i = k

(* The index never points at a blob file that was never created:          *)
(* store_data opens the file before it inserts the row, and only a        *)
(* deletion from outside can leave a row without its file.  Whether the   *)
(* file holds its bytes is IntactRows (a crash can leave it empty).       *)
IndexBacked ==
    \A i \in DOMAIN rows : rows[i].file \in blobs \cup gone

(* A blob file is created at most once: store_data never opens an existing *)
(* blob file for writing (which would truncate it under a concurrent       *)
(* reader), thanks to the dedup test made under the writer lock.           *)
BlobWrittenOnce ==
    [][\A t \in Tasks : StoreOpen(t) => call[t].data \notin blobs]_vars

(* Every storage call returns: the two-phase pattern of load_data and      *)
(* copy_to_file (read lock released before _cleanup takes the write lock) *)
(* and store_data's exits all leave the lock free for the others.          *)
CallsReturn ==
    \A t \in Tasks : pc[t] # "idle" ~> pc[t] = "idle"

(* The (name, file) pairs of the TinyDB table. *)
Index == {<<rows[i].name, rows[i].file>> : i \in DOMAIN rows}

Abstract == INSTANCE NamedIndex WITH index <- Index, files <- blobs, lostFiles <- gone

(***************************************************************************)
(* The await-level Storage implements the atomic index of NamedIndex: every *)
(* step of store_data, load_data, copy_to_file, _cleanup, a crash or a     *)
(* deletion either leaves the pairs and files alone or is one atomic       *)
(* Put, Bind, Unbind or Lose.  In particular store_data's open creates a   *)
(* file only when none exists and its insert binds a name nobody holds, to *)
(* a blob that was written, although other tasks run between its awaits.  *)
(***************************************************************************)
ImplementsNamedIndex == Abstract!ISpec

(* Self-healing (spec 3, Storage invariants): when load_data or            *)
(* copy_to_file met a missing blob, the index rows pointing at it are gone *)
(* by the time the call returns, unless the blob was written again.        *)
CleanupHeals ==
    [][\A t \in Tasks :
         CleanupRemove(t) =>
           \A i \in DOMAIN rows' : rows'[i].file \in stale[t] => rows'[i].file \in blobs]_vars

(* A row whose blob file exists names a blob holding all its bytes: the    *)
(* dedup test of store_data trusts any file of that digest.               *)
IntactRows ==
    \A i \in DOMAIN rows : rows[i].file \in blobs => rows[i].file \in full
=============================================================================
