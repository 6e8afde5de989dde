----------------------------- MODULE MCExecutor -----------------------------
(***************************************************************************)
(* Small instances of Executor for TLC.  Names, data, jobs and datastores  *)
(* are model values of the .cfg files.  CapFields holds the one field the  *)
(* jobs below constrain; from_system() may report it free (1) or busy (0). *)
(***************************************************************************)
EXTENDS Executor, TLC

CONSTANTS m, w, x, r, d1, d2, h1, h2, j1, j2, j3, ds1, ds2

MCCapFields == {"free_cpu_capacity"}
MCCapRange == {[f \in MCCapFields |-> 0], [f \in MCCapFields |-> 1]}
Needs(c) == [f \in MCCapFields |-> c]
MCHexDigest == [d \in {d1, d2} |-> IF d = d1 THEN h1 ELSE h2]

(***************************************************************************)
(* Shared names: the module m travels with j1 and with j2, x is both an    *)
(* input held by two datastores and a named result; j2 needs a free CPU    *)
(* and has a `dirs` entry escaping the sandbox; j3's payload does not      *)
(* decode.                                                                 *)
(***************************************************************************)
SharedNames == {m, x, r}
SharedDataOf == [n \in SharedNames |-> IF n = x THEN d2 ELSE d1]
SharedInfo ==
    j1 :> [wasm_module |-> m, stdin_file |-> NoName, data |-> {x},
           capabilities |-> Needs(0), escape |-> "none",
           named_results |-> {r, x}, results_receiver |-> TRUE]
    @@ j2 :> [wasm_module |-> m, stdin_file |-> x, data |-> {},
              capabilities |-> Needs(1), escape |-> "dirs",
              named_results |-> {}, results_receiver |-> FALSE]
    @@ j3 :> [wasm_module |-> m, stdin_file |-> NoName, data |-> {},
              capabilities |-> Needs(0), escape |-> "none",
              named_results |-> {}, results_receiver |-> FALSE]
SharedCarried == j1 :> {m} @@ j2 :> {m, x} @@ j3 :> {}
SharedHeld == ds1 :> {m, x} @@ ds2 :> {x}
(* The same jobs when j2 carries x only and fetches m: j1 and j2 can both *)
(* be queued, so the deque is rotated past a job the load rules out.      *)
RotationCarried == j1 :> {m} @@ j2 :> {x} @@ j3 :> {}

(***************************************************************************)
(* Unique names: every name has one source (w and m travel with their job, *)
(* x is held by one datastore, r is only a result), w and m share their    *)
(* bytes.  Both jobs run on any load.                                      *)
(***************************************************************************)
UniqueNames == {m, w, x, r}
UniqueDataOf == [n \in UniqueNames |-> IF n \in {m, w} THEN d1 ELSE d2]
UniqueInfo ==
    j1 :> [wasm_module |-> m, stdin_file |-> NoName, data |-> {x},
           capabilities |-> Needs(0), escape |-> "none",
           named_results |-> {r}, results_receiver |-> TRUE]
    @@ j2 :> [wasm_module |-> w, stdin_file |-> NoName, data |-> {},
              capabilities |-> Needs(0), escape |-> "none",
              named_results |-> {}, results_receiver |-> FALSE]
UniqueCarried == j1 :> {m} @@ j2 :> {w}
UniqueHeld == ds1 :> {x}

(* No name is a proper prefix of another. *)
ExactNames == [n \in Names |-> {n}]

(* x is a prefix of w ("data" and "data.bin"): a datastore asked for x     *)
(* also returns w, which job j2 carries.                                   *)
PrefixHeld == ds1 :> {x, w}
PrefixStartsWith == [n \in Names |-> IF n = x THEN {x, w} ELSE {n}]

(* The same jobs when j2 needs a free CPU, which from_system() may or may *)
(* not report.                                                            *)
=============================================================================
