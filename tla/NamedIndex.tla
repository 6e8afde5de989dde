----------------------------- MODULE NamedIndex -----------------------------
(***************************************************************************)
(* What the Storage class (spec section 3) promises its callers, with every *)
(* call atomic and no locks: an index binding names to blobs, each name at  *)
(* most once and only to a blob whose file was written, and a blob         *)
(* directory in which a file is created only when it is absent and may be  *)
(* deleted from outside the program.  StorageLocking.tla, which keeps the  *)
(* await points of store_data, load_data, copy_to_file and _cleanup,       *)
(* implements this specification: the index is the set of (name, file)    *)
(* pairs of the TinyDB rows.                                               *)
(***************************************************************************)
CONSTANTS Names, Data

VARIABLES
    index,      \* the (name, blob) pairs of the index
    files,      \* the blobs whose file exists
    lostFiles   \* the blobs whose file was deleted from outside since written

ivars == <<index, files, lostFiles>>

(* The names the index binds. *)
Bound == {p[1] : p \in index}

IInit ==
    /\ index = {}
    /\ files = {}
    /\ lostFiles = {}

(* The file of blob d is created; an existing file is never re-created. *)
Put(d) ==
    /\ d \notin files
    /\ files' = files \cup {d}
    /\ lostFiles' = lostFiles \ {d}
    /\ UNCHANGED index

(* Name n is bound to blob d: n is not bound yet and d was written. *)
Bind(n, d) ==
    /\ n \notin Bound
    /\ d \in files \cup lostFiles
    /\ index' = index \cup {<<n, d>>}
    /\ UNCHANGED <<files, lostFiles>>

(* The bindings of the names in ns are removed. *)
Unbind(ns) ==
    /\ index' = {p \in index : p[1] \notin ns}
    /\ UNCHANGED <<files, lostFiles>>

(* The file of blob d is deleted from outside the program. *)
Lose(d) ==
    /\ d \in files
    /\ files' = files \ {d}
    /\ lostFiles' = lostFiles \cup {d}
    /\ UNCHANGED index

INext ==
    \/ \E d \in Data : Put(d) \/ Lose(d)
    \/ \E n \in Names, d \in Data : Bind(n, d)
    \/ \E ns \in SUBSET Names : Unbind(ns)

ISpec == IInit /\ [][INext]_ivars
=============================================================================
