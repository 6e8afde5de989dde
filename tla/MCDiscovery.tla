----------------------------- MODULE MCDiscovery -----------------------------
(* Two brokers announcing twice each to an executor and a client. *)
EXTENDS Discovery, TLC

CONSTANTS b1, b2, e1, c1

MCTypeOf == e1 :> "EXECUTOR" @@ c1 :> "CLIENT"
=============================================================================
