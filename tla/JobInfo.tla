------------------------------- MODULE JobInfo -------------------------------
(***************************************************************************)
(* Jobs and capabilities of src/rec/dtn/job.py.  A job is a model value of *)
(* Jobs; Info[j] is its JobInfo, reduced to the fields that steer control: *)
(*   wasm_module, stdin_file (NoName when unset), data (the named data of  *)
(*   the data map's values), capabilities (a function of CapFields),       *)
(*   escape (which user path, if any, escapes the sandbox root: one of     *)
(*   "dirs" (checked before the data files are copied) or "stdout"         *)
(*   (checked after them), "none" otherwise), named_results (the output    *)
(*   names) and results_receiver (TRUE when set).                          *)
(* Carried[j] is the key set of Job.data: the names whose bytes travel in  *)
(* the JOB_SUBMIT bundle.                                                  *)
(***************************************************************************)
EXTENDS Storage, Naturals

CONSTANTS Jobs, CapFields, Info, Carried, NoName

JobInfoType ==
    [wasm_module: Names, stdin_file: Names \cup {NoName}, data: SUBSET Names,
     capabilities: [CapFields -> Nat], escape: {"none", "dirs", "stdout"},
     named_results: SUBSET Names, results_receiver: BOOLEAN]

ASSUME JobInfoAssumption ==
    /\ NoName \notin Names
    /\ Info \in [Jobs -> JobInfoType]
    /\ Carried \in [Jobs -> SUBSET Names]

(* JobInfo.required_named_data(): module, stdin if set, and the data map's *)
(* values, as a set.                                                       *)
RequiredNamedData(j) ==
    {Info[j].wasm_module}
      \cup (IF Info[j].stdin_file # NoName THEN {Info[j].stdin_file} ELSE {})
      \cup Info[j].data

(* Capabilities.is_capable_of(caps): every field at least the requirement. *)
IsCapableOf(system, caps) == \A f \in CapFields : system[f] >= caps[f]
=============================================================================
