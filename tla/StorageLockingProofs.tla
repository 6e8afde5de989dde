------------------------- MODULE StorageLockingProofs -------------------------
(***************************************************************************)
(* Proofs about Storage under concurrent tasks, crashes and blob loss      *)
(* (StorageLocking): type correctness, unique names, an index backed by    *)
(* blob files, and no blob opened twice, for any sets of tasks, names and  *)
(* data and any bounds.                                                    *)
(*                                                                         *)
(* None of the three is inductive: each depends on what a task in the      *)
(* middle of store_data has already checked.  LockInv says that a task     *)
(* between its search and its insert holds the writer lock, that the name  *)
(* it stores was free, that the blob it opens was absent, and that the    *)
(* blob it is about to index exists or was deleted from outside.           *)
(***************************************************************************)
EXTENDS StorageLocking, TLAPS

(* The control points of store_data that lie inside the writer lock. *)
Holding == {"store_open", "store_write", "store_insert"}

LockInv ==
    \A t \in Tasks :
        /\ pc[t] \in {"store"} \cup Holding => call[t].data \in Data
        /\ pc[t] \in Holding => writer = t /\ Named(call[t].name) = {}
        /\ pc[t] = "store_open" => call[t].data \notin blobs
        /\ pc[t] \in {"store_write", "store_insert"} =>
              call[t].data \in blobs \cup gone

StoreInv == TypeOK /\ UniqueNames /\ IndexBacked /\ LockInv
-----------------------------------------------------------------------------
(* Under unique names, the row copy_to_file reads as entries[0] exists:    *)
(* a name that has rows has exactly one, and it is the least.             *)
LEMMA FirstRow ==
    ASSUME TypeOK, UniqueNames, NEW n \in Names, Named(n) # {}
    PROVE  LET f == CHOOSE i \in Named(n) : \A k \in Named(n) : i <= k
           IN  f \in DOMAIN rows /\ rows[f].name = n
<1> PICK j \in Named(n) : TRUE
  OBVIOUS
<1>1. \A k \in Named(n) : k = j
  BY DEF Named, UniqueNames
<1>2. j \in Nat
  BY DEF Named, TypeOK
<1>3. \E i \in Named(n) : \A k \in Named(n) : i <= k
  BY <1>1, <1>2
<1> QED
  BY <1>3 DEF Named

(* The initial state satisfies the strengthened invariant. *)
LEMMA InitInv == Init => StoreInv
BY StorageLockingAssumption
DEF Init, StoreInv, TypeOK, UniqueNames, IndexBacked, LockInv, Holding,
    Row, PC, Ops

LEMMA StartInv ==
    ASSUME StoreInv, NEW t \in Tasks, Start(t)
    PROVE  StoreInv'
<1> USE StorageLockingAssumption DEF StoreInv, Row, PC, Ops, Holding
<1>1. TypeOK'
  BY DEF Start, TypeOK
<1>2. UniqueNames'
  BY DEF Start, TypeOK, UniqueNames
<1>3. IndexBacked'
  BY DEF Start, TypeOK, IndexBacked
<1>4. LockInv'
  BY DEF Start, TypeOK, LockInv, Named
<1>5. QED
  BY <1>1, <1>2, <1>3, <1>4

LEMMA StoreSearchInv ==
    ASSUME StoreInv, NEW t \in Tasks, StoreSearch(t)
    PROVE  StoreInv'
<1> USE StorageLockingAssumption DEF StoreInv, Row, PC, Ops, Holding
<1>0. \A u \in Tasks : pc[u] \notin Holding
  BY DEF StoreSearch, LockInv
<1>1. TypeOK'
  BY DEF StoreSearch, TypeOK
<1>2. UniqueNames'
  BY <1>0 DEF StoreSearch, TypeOK, UniqueNames
<1>3. IndexBacked'
  BY <1>0 DEF StoreSearch, TypeOK, IndexBacked
<1>4. LockInv'
  BY <1>0 DEF StoreSearch, TypeOK, LockInv, Named
<1>5. QED
  BY <1>1, <1>2, <1>3, <1>4

LEMMA StoreOpenInv ==
    ASSUME StoreInv, NEW t \in Tasks, StoreOpen(t)
    PROVE  StoreInv'
<1> USE StorageLockingAssumption DEF StoreInv, Row, PC, Ops, Holding
<1>0. \A u \in Tasks \ {t} : pc[u] \notin Holding
  BY DEF StoreOpen, LockInv
<1>1. TypeOK'
  BY DEF StoreOpen, TypeOK, LockInv
<1>2. UniqueNames'
  BY DEF StoreOpen, TypeOK, UniqueNames
<1>3. IndexBacked'
  BY DEF StoreOpen, TypeOK, IndexBacked
<1>4. LockInv'
  BY <1>0 DEF StoreOpen, TypeOK, LockInv, Named
<1>5. QED
  BY <1>1, <1>2, <1>3, <1>4

LEMMA StoreWriteInv ==
    ASSUME StoreInv, NEW t \in Tasks, StoreWrite(t)
    PROVE  StoreInv'
<1> USE StorageLockingAssumption DEF StoreInv, Row, PC, Ops, Holding
<1>0. \A u \in Tasks \ {t} : pc[u] \notin Holding
  BY DEF StoreWrite, LockInv
<1>1. TypeOK'
  BY DEF StoreWrite, TypeOK
<1>2. UniqueNames'
  BY DEF StoreWrite, TypeOK, UniqueNames
<1>3. IndexBacked'
  BY DEF StoreWrite, TypeOK, IndexBacked
<1>4. LockInv'
  BY <1>0 DEF StoreWrite, TypeOK, LockInv, Named
<1>5. QED
  BY <1>1, <1>2, <1>3, <1>4

LEMMA StoreInsertInv ==
    ASSUME StoreInv, NEW t \in Tasks, StoreInsert(t)
    PROVE  StoreInv'
<1> USE StorageLockingAssumption DEF StoreInv, Row, PC, Ops, Holding
<1>0. \A u \in Tasks \ {t} : pc[u] \notin Holding
  BY DEF StoreInsert, LockInv
<1>a. /\ call[t].data \in Data
      /\ Named(call[t].name) = {}
      /\ call[t].data \in blobs \cup gone
  BY DEF StoreInsert, LockInv
<1>b. /\ nextId \notin DOMAIN rows
      /\ DOMAIN rows' = DOMAIN rows \cup {nextId}
      /\ rows'[nextId] = [name |-> call[t].name, file |-> call[t].data]
      /\ \A i \in DOMAIN rows : rows'[i] = rows[i]
  BY DEF StoreInsert, TypeOK
<1>1. TypeOK'
  BY <1>a, <1>b DEF StoreInsert, TypeOK
<1>2. UniqueNames'
  BY <1>a, <1>b DEF TypeOK, UniqueNames, Named
<1>3. IndexBacked'
  BY <1>a, <1>b DEF StoreInsert, IndexBacked
<1>4. LockInv'
  BY <1>0 DEF StoreInsert, TypeOK, LockInv, Named
<1>5. QED
  BY <1>1, <1>2, <1>3, <1>4

LEMMA LoadReadInv ==
    ASSUME StoreInv, NEW t \in Tasks, LoadRead(t)
    PROVE  StoreInv'
<1> USE StorageLockingAssumption DEF StoreInv, Row, PC, Ops, Holding
<1>0. \A u \in Tasks : pc[u] \notin Holding
  BY DEF LoadRead, LockInv
<1>1. TypeOK'
  BY DEF LoadRead, TypeOK
<1>2. UniqueNames'
  BY DEF LoadRead, TypeOK, UniqueNames
<1>3. IndexBacked'
  BY DEF LoadRead, TypeOK, IndexBacked
<1>4. LockInv'
  BY <1>0 DEF LoadRead, TypeOK, LockInv, Named
<1>5. QED
  BY <1>1, <1>2, <1>3, <1>4

LEMMA CopySearchInv ==
    ASSUME StoreInv, NEW t \in Tasks, CopySearch(t)
    PROVE  StoreInv'
<1> USE StorageLockingAssumption DEF StoreInv, Row, PC, Ops, Holding
<1>0. \A u \in Tasks : pc[u] \notin Holding
  BY DEF CopySearch, LockInv
<1>1. TypeOK'
  BY FirstRow DEF CopySearch, TypeOK
<1>2. UniqueNames'
  BY DEF CopySearch, TypeOK, UniqueNames
<1>3. IndexBacked'
  BY DEF CopySearch, TypeOK, IndexBacked
<1>4. LockInv'
  BY <1>0 DEF CopySearch, TypeOK, LockInv, Named
<1>5. QED
  BY <1>1, <1>2, <1>3, <1>4

LEMMA CleanupRemoveInv ==
    ASSUME StoreInv, NEW t \in Tasks, CleanupRemove(t)
    PROVE  StoreInv'
<1> USE StorageLockingAssumption DEF StoreInv, Row, PC, Ops, Holding
<1>0. \A u \in Tasks : pc[u] \notin Holding
  BY DEF CleanupRemove, LockInv
<1>1. TypeOK'
  BY DEF CleanupRemove, TypeOK
<1>2. UniqueNames'
  BY DEF CleanupRemove, TypeOK, UniqueNames
<1>3. IndexBacked'
  BY DEF CleanupRemove, TypeOK, IndexBacked
<1>4. LockInv'
  BY <1>0 DEF CleanupRemove, TypeOK, LockInv, Named
<1>5. QED
  BY <1>1, <1>2, <1>3, <1>4

LEMMA LoseBlobInv ==
    ASSUME StoreInv, NEW d \in Data, LoseBlob(d)
    PROVE  StoreInv'
<1> USE StorageLockingAssumption DEF StoreInv, Row, PC, Ops, Holding
<1>1. TypeOK'
  BY DEF LoseBlob, TypeOK
<1>2. UniqueNames'
  BY DEF LoseBlob, TypeOK, UniqueNames
<1>3. IndexBacked'
  BY DEF LoseBlob, TypeOK, IndexBacked
<1>4. LockInv'
  BY DEF LoseBlob, TypeOK, LockInv, Named
<1>5. QED
  BY <1>1, <1>2, <1>3, <1>4

LEMMA CrashInv ==
    ASSUME StoreInv, Crash
    PROVE  StoreInv'
<1> USE StorageLockingAssumption DEF StoreInv, Row, PC, Ops, Holding
<1>1. TypeOK'
  BY DEF Crash, TypeOK
<1>2. UniqueNames'
  BY DEF Crash, TypeOK, UniqueNames
<1>3. IndexBacked'
  BY DEF Crash, TypeOK, IndexBacked
<1>4. LockInv'
  BY DEF Crash, TypeOK, LockInv, Named
<1>5. QED
  BY <1>1, <1>2, <1>3, <1>4

(* Every step of a task, of a caller, of a blob deletion or of a crash     *)
(* preserves the strengthened invariant.                                   *)
LEMMA NextInv == StoreInv /\ [Next]_vars => StoreInv'
<1> SUFFICES ASSUME StoreInv, [Next]_vars PROVE StoreInv'
  OBVIOUS
<1>1. ASSUME NEW t \in Tasks, Start(t) \/ TaskStep(t) PROVE StoreInv'
  BY <1>1, StartInv, StoreSearchInv, StoreOpenInv, StoreWriteInv,
     StoreInsertInv, LoadReadInv, CopySearchInv, CleanupRemoveInv DEF TaskStep
<1>2. ASSUME NEW d \in Data, LoseBlob(d) PROVE StoreInv'
  BY <1>2, LoseBlobInv
<1>3. CASE Crash
  BY <1>3, CrashInv
<1>4. CASE UNCHANGED vars
  BY <1>4 DEF vars, StoreInv, TypeOK, UniqueNames, IndexBacked, LockInv,
              Named
<1> QED
  BY <1>1, <1>2, <1>3, <1>4 DEF Next

-----------------------------------------------------------------------------
(* The model is well typed under any interleaving of the tasks.           *)
THEOREM TypeCorrect == Spec => []TypeOK
BY InitInv, NextInv, PTL DEF Spec, StoreInv

(* No two index rows share a name (store_data's search and insert form    *)
(* one critical section under the writer lock), whatever the tasks, the  *)
(* blob losses and the crashes.                                           *)
THEOREM UniqueNamesHold == Spec => []UniqueNames
BY InitInv, NextInv, PTL DEF Spec, StoreInv

(* Every index row names a blob file that store_data created and that was *)
(* not deleted from outside since: the blob is opened before the row is   *)
(* inserted, and the dedup path only indexes a file that exists.          *)
THEOREM IndexBackedHolds == Spec => []IndexBacked
BY InitInv, NextInv, PTL DEF Spec, StoreInv

(* store_data never opens an existing blob file for writing: the dedup    *)
(* test and the open happen under one hold of the writer lock.            *)
THEOREM BlobOpenedOnce == Spec => BlobWrittenOnce
<1>1. StoreInv /\ [Next]_vars =>
        [\A t \in Tasks : StoreOpen(t) => call[t].data \notin blobs]_vars
  BY DEF StoreInv, LockInv, StoreOpen
<1> QED
  BY <1>1, InitInv, NextInv, PTL DEF Spec, BlobWrittenOnce

-----------------------------------------------------------------------------
(***************************************************************************)
(* Refinement: StorageLocking implements NamedIndex under the mapping      *)
(* index <- Index, files <- blobs, lostFiles <- gone.  Each step of a task *)
(* is matched with one abstract step or a stutter; LockInv supplies the    *)
(* guards that store_data checked before its awaits and that still hold.   *)
(***************************************************************************)
LEMMA InitRefines == Init => Abstract!IInit
BY DEF Init, Abstract!IInit, Index

(* Steps that leave the rows, the files and the history alone stutter. *)
LEMMA Stutters ==
    ASSUME UNCHANGED <<rows, blobs, gone>>
    PROVE  UNCHANGED <<Index, blobs, gone>>
BY DEF Index

(* store_data's open is a Put: the dedup test made under the lock still   *)
(* holds, the file does not exist.                                        *)
LEMMA StoreOpenRefines ==
    ASSUME StoreInv, NEW t \in Tasks, StoreOpen(t)
    PROVE  Abstract!INext
<1>1. call[t].data \in Data /\ call[t].data \notin blobs
  BY DEF StoreOpen, StoreInv, LockInv, Holding
<1>2. UNCHANGED Index
  BY DEF StoreOpen, Index
<1>3. Abstract!Put(call[t].data)
  BY <1>1, <1>2 DEF StoreOpen, Abstract!Put
<1> QED
  BY <1>1, <1>3 DEF Abstract!INext

(* store_data's insert is a Bind: the name searched under the lock is    *)
(* still free, and the blob was written or deleted from outside since.    *)
LEMMA StoreInsertRefines ==
    ASSUME StoreInv, NEW t \in Tasks, StoreInsert(t)
    PROVE  Abstract!INext
<1> DEFINE n == call[t].name
           d == call[t].data
<1>1. /\ n \in Names /\ d \in Data
      /\ Named(n) = {}
      /\ d \in blobs \cup gone
  BY DEF StoreInsert, StoreInv, LockInv, Holding, TypeOK
<1>2. /\ nextId \notin DOMAIN rows
      /\ DOMAIN rows' = DOMAIN rows \cup {nextId}
      /\ rows'[nextId] = [name |-> n, file |-> d]
      /\ \A i \in DOMAIN rows : rows'[i] = rows[i]
  BY DEF StoreInsert, StoreInv, TypeOK
<1>3. Index' = Index \cup {<<n, d>>}
  BY <1>2 DEF Index
<1>4. n \notin {p[1] : p \in Index}
  BY <1>1 DEF Index, Named
<1>5. Abstract!Bind(n, d)
  BY <1>1, <1>3, <1>4 DEF StoreInsert, Abstract!Bind, Abstract!Bound
<1> QED
  BY <1>1, <1>5 DEF Abstract!INext

(* _cleanup is an Unbind of the names that equal a missing blob's digest. *)
LEMMA CleanupRefines ==
    ASSUME StoreInv, NEW t \in Tasks, CleanupRemove(t)
    PROVE  Abstract!INext
<1> DEFINE digests == {HexDigest[f] : f \in stale[t]}
           doomed == {i \in DOMAIN rows : rows[i].name \in digests}
           ns == digests \cap Names
<1>1. rows' = [i \in DOMAIN rows \ doomed |-> rows[i]]
  BY DEF CleanupRemove
<1>2. \A i \in DOMAIN rows : rows[i].name \in Names
  BY DEF StoreInv, TypeOK, Row
<1>3. Index' = {p \in Index : p[1] \notin ns}
  BY <1>1, <1>2 DEF Index
<1>4. Abstract!Unbind(ns)
  BY <1>3 DEF CleanupRemove, Abstract!Unbind
<1> QED
  BY <1>4 DEF Abstract!INext

(* A blob deleted from outside is a Lose. *)
LEMMA LoseBlobRefines ==
    ASSUME NEW d \in Data, LoseBlob(d)
    PROVE  Abstract!INext
<1>1. Abstract!Lose(d)
  BY DEF LoseBlob, Abstract!Lose, Index
<1> QED
  BY <1>1 DEF Abstract!INext

LEMMA StepRefines ==
    StoreInv /\ [Next]_vars => [Abstract!INext]_<<Index, blobs, gone>>
<1> SUFFICES ASSUME StoreInv, [Next]_vars
             PROVE  [Abstract!INext]_<<Index, blobs, gone>>
  OBVIOUS
<1>1. ASSUME NEW t \in Tasks, Start(t) \/ TaskStep(t)
      PROVE  [Abstract!INext]_<<Index, blobs, gone>>
  <2>1. CASE StoreOpen(t)
    BY <2>1, StoreOpenRefines
  <2>2. CASE StoreInsert(t)
    BY <2>2, StoreInsertRefines
  <2>3. CASE CleanupRemove(t)
    BY <2>3, CleanupRefines
  <2>4. CASE Start(t) \/ StoreSearch(t) \/ StoreWrite(t) \/ LoadRead(t)
             \/ CopySearch(t)
    <3>1. UNCHANGED <<rows, blobs, gone>>
      BY <2>4 DEF Start, StoreSearch, StoreWrite, LoadRead, CopySearch
    <3> QED
      BY <3>1, Stutters
  <2> QED
    BY <1>1, <2>1, <2>2, <2>3, <2>4 DEF TaskStep
<1>2. ASSUME NEW d \in Data, LoseBlob(d)
      PROVE  [Abstract!INext]_<<Index, blobs, gone>>
  BY <1>2, LoseBlobRefines
<1>3. CASE Crash \/ UNCHANGED vars
  <2>1. UNCHANGED <<rows, blobs, gone>>
    BY <1>3 DEF Crash, vars
  <2> QED
    BY <2>1, Stutters
<1> QED
  BY <1>1, <1>2, <1>3 DEF Next

(***************************************************************************)
(* For any tasks, names, data and bounds, the await-level Storage with its *)
(* RWLock, blob losses and crashes implements the atomic index: store_data *)
(* binds a name once, to a blob that was written, and creates a blob file  *)
(* only when it is absent, whatever runs between its awaits.               *)
(***************************************************************************)
THEOREM Refinement == Spec => ImplementsNamedIndex
<1>1. Spec => []StoreInv
  BY InitInv, NextInv, PTL DEF Spec
<1> QED
  BY <1>1, InitRefines, StepRefines, PTL
  DEF Spec, ImplementsNamedIndex, Abstract!ISpec, Abstract!ivars
=============================================================================
