-------------------------- MODULE MCStorageLocking --------------------------
(* Two tasks sharing one Storage (the executor's intake and scheduler), two *)
(* names of which one is a prefix of the other, two blobs.                  *)
EXTENDS StorageLockingProofs, TLC

CONSTANTS t1, t2, n1, n2, d1, d2, h1, h2

MCHexDigest == d1 :> h1 @@ d2 :> h2

(* n1 is a prefix of n2, as "data" is of "data/in". *)
MCStartsWith == n1 :> {n1, n2} @@ n2 :> {n2}
=============================================================================
