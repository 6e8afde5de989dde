------------------------------- MODULE Storage -------------------------------
(***************************************************************************)
(* The named-data store of src/rec/dtn/storage.py.                         *)
(*                                                                         *)
(* The TinyDB index holds one row {name, filename} per stored name, the    *)
(* file name being the SHA-1 hex digest of the bytes; the blob directory   *)
(* holds one file per digest.  A datum of Data stands for its bytes and    *)
(* its digest at once (SHA-1 is taken to be injective on the data of a     *)
(* model), so the index is the set `stored` of names, name n pointing at   *)
(* the blob DataOf[n], and the blob directory is the set `blobs` of data   *)
(* whose file exists.  HexDigest[d] is the hex string that names d's file. *)
(***************************************************************************)
EXTENDS FiniteSets

CONSTANTS
    Names,      \* names of named data
    Data,       \* blob contents (each one standing for its SHA-1 digest)
    DataOf,     \* DataOf[n]: the bytes published under name n
    HexDigest   \* HexDigest[d]: the file name sha1(d).hexdigest()

ASSUME StorageAssumption ==
    /\ DataOf \in [Names -> Data]
    /\ DOMAIN HexDigest = Data

VARIABLES
    stored,     \* names that have a row in the index (database.db)
    blobs       \* data whose blob file exists in the blob directory

storageVars == <<stored, blobs>>

StorageTypeOK ==
    /\ stored \subseteq Names
    /\ blobs \subseteq Data

StorageInit ==
    /\ stored = {}
    /\ blobs = {}

(* find_missing(names): the names without an index row. *)
FindMissing(ns) == ns \ stored

(* copy_to_file(name, dst) succeeds: the row exists and its blob file too. *)
CopyOk(n) == n \in stored /\ DataOf[n] \in blobs

(***************************************************************************)
(* store_data for every name of S, none of them taken: each call adds the  *)
(* index row and writes the blob file unless a file of that digest exists  *)
(* already (dedup).                                                        *)
(***************************************************************************)
StoreNames(S) ==
    /\ stored' = stored \cup S
    /\ blobs' = blobs \cup {DataOf[n] : n \in S}

(***************************************************************************)
(* A loop `for name in ns: store_data(name, ...)` that runs to the end:    *)
(* no name of ns is taken.                                                 *)
(***************************************************************************)
StoreAllOk(ns) ==
    /\ ns \cap stored = {}
    /\ StoreNames(ns)

(***************************************************************************)
(* The same loop when some name of ns is taken: the names before the first *)
(* taken one (in the caller's iteration order, any subset of the untaken   *)
(* names) are stored, then store_data raises NameTakenError.               *)
(***************************************************************************)
StoreUntilTaken(ns) ==
    /\ ns \cap stored # {}
    /\ \E S \in SUBSET (ns \ stored) : StoreNames(S)

(***************************************************************************)
(* _cleanup(names): removes the rows whose *name* is in fs.  Its callers   *)
(* pass blob file names (digests), not data names.                         *)
(***************************************************************************)
Cleanup(fs) ==
    /\ stored' = stored \ fs
    /\ UNCHANGED blobs

(***************************************************************************)
(* copy_to_file(n, dst) failing with NoSuchNameError: either n has no row, *)
(* or its blob file is gone, in which case _cleanup([filename]) runs       *)
(* first.                                                                  *)
(***************************************************************************)
CopyFails(n) ==
    /\ ~CopyOk(n)
    /\ IF n \in stored
         THEN Cleanup({HexDigest[DataOf[n]]})
         ELSE UNCHANGED storageVars

(* A blob file disappears from the blob directory (deleted outside the   *)
(* program); the self-healing of load_data and copy_to_file exists for it. *)
BlobVanishes(d) ==
    /\ d \in blobs
    /\ blobs' = blobs \ {d}
    /\ UNCHANGED stored
=============================================================================
