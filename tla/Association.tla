----------------------------- MODULE Association -----------------------------
(***************************************************************************)
(* What broker discovery (spec 4.3) promises, without bundles: a broker    *)
(* registers a peer that no other broker has registered and that has no    *)
(* broker yet, and a peer binds, once, to a broker that has registered it. *)
(* Discovery.tla implements this specification under the mapping that     *)
(* takes a peer's _broker slot for `assoc` and the union of a broker's     *)
(* discovered_nodes sets for `known`.                                      *)
(***************************************************************************)
CONSTANTS Brokers, Peers, None

VARIABLES
    assoc,  \* assoc[p]: the broker peer p is bound to, or None
    known   \* known[b]: the peers broker b has registered

avars == <<assoc, known>>

AInit ==
    /\ assoc = [p \in Peers |-> None]
    /\ known = [b \in Brokers |-> {}]

(* Broker b registers peer p: first writer wins. *)
Register(b, p) ==
    /\ assoc[p] = None
    /\ \A c \in Brokers \ {b} : p \notin known[c]
    /\ known' = [known EXCEPT ![b] = @ \cup {p}]
    /\ UNCHANGED assoc

(* Peer p binds to broker b, which knows it; a binding is never changed. *)
Bind(b, p) ==
    /\ assoc[p] = None
    /\ p \in known[b]
    /\ assoc' = [assoc EXCEPT ![p] = b]
    /\ UNCHANGED known

ANext == \E b \in Brokers, p \in Peers : Register(b, p) \/ Bind(b, p)

ASpec == AInit /\ [][ANext]_avars
=============================================================================
