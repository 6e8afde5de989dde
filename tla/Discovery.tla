------------------------------ MODULE Discovery ------------------------------
(***************************************************************************)
(* Broker discovery of src/rec/dtn/node.py (the non-broker half, shared by *)
(* executors, datastores and clients) and src/rec/dtn/broker.py (the       *)
(* broker half and its announcer).                                         *)
(*                                                                         *)
(* Each peer keeps the two slots _broker_pending and _broker; each broker  *)
(* its discovered_nodes, a set of peers per node type.  Bundles travel     *)
(* through the DTN agents as a set of records in flight; a broadcast       *)
(* BROKER_ANNOUNCE is one bundle per peer (the agent delivers a copy to    *)
(* every member of dtn://rec.all/~; the brokers' own copies are ignored by *)
(* Broker._handle_discovery and left out).  Each handler runs under the    *)
(* node's writer lock, so the receipt of one bundle is one step.           *)
(***************************************************************************)
EXTENDS Naturals, FiniteSets

CONSTANTS
    Brokers,      \* broker endpoints
    Peers,        \* executors, datastores and clients
    TypeOf,       \* TypeOf[p]: the node_type peer p sends in BROKER_REQUEST
    MaxAnnounce,  \* announcements each broker's announcer sends
    MaxLoss,      \* bundles the network may lose
    None

NodeTypes == {"EXECUTOR", "DATASTORE", "CLIENT"}

ASSUME DiscoveryAssumption ==
    /\ Brokers \cap Peers = {}
    /\ TypeOf \in [Peers -> NodeTypes]
    /\ MaxAnnounce \in Nat
    /\ MaxLoss \in Nat
    /\ None \notin Brokers \cup Peers

VARIABLES
    brokerPending,  \* brokerPending[p]: _broker_pending of peer p
    broker,         \* broker[p]: _broker of peer p
    discovered,     \* discovered[b][t]: discovered_nodes[t] of broker b
    net,            \* discovery bundles in flight
    announced,      \* announced[b]: announcements broker b has sent
    dropped         \* bundles lost so far

vars == <<brokerPending, broker, discovered, net, announced, dropped>>

Msg ==
    [type: {"BROKER_ANNOUNCE"}, src: Brokers, dst: Peers]
      \cup [type: {"BROKER_REQUEST"}, src: Peers, dst: Brokers, node_type: NodeTypes]
      \cup [type: {"BROKER_ACK"}, src: Brokers, dst: Peers]

TypeOK ==
    /\ brokerPending \in [Peers -> Brokers \cup {None}]
    /\ broker \in [Peers -> Brokers \cup {None}]
    /\ discovered \in [Brokers -> [NodeTypes -> SUBSET Peers]]
    /\ net \subseteq Msg
    /\ announced \in [Brokers -> 0..MaxAnnounce]
    /\ dropped \in 0..MaxLoss

Init ==
    /\ brokerPending = [p \in Peers |-> None]
    /\ broker = [p \in Peers |-> None]
    /\ discovered = [b \in Brokers |-> [t \in NodeTypes |-> {}]]
    /\ net = {}
    /\ announced = [b \in Brokers |-> 0]
    /\ dropped = 0

-----------------------------------------------------------------------------
(* Broker._announce_yourself: one BROKER_ANNOUNCE to the broadcast group. *)
Announce(b) ==
    /\ announced[b] < MaxAnnounce
    /\ announced' = [announced EXCEPT ![b] = @ + 1]
    /\ net' = net \cup {[type |-> "BROKER_ANNOUNCE", src |-> b, dst |-> p] : p \in Peers}
    /\ UNCHANGED <<brokerPending, broker, discovered, dropped>>

(* Mutants of ReceiveAnnounce: the guard tests only one of the slots. *)
ReceiveAnnounceIgnoringPending(p, m) ==
    /\ m \in net /\ m.dst = p /\ m.type = "BROKER_ANNOUNCE"
    /\ IF broker[p] = None
         THEN /\ brokerPending' = [brokerPending EXCEPT ![p] = m.src]
              /\ net' = (net \ {m}) \cup
                   {[type |-> "BROKER_REQUEST", src |-> p, dst |-> m.src,
                     node_type |-> TypeOf[p]]}
         ELSE /\ net' = net \ {m}
              /\ UNCHANGED brokerPending
    /\ UNCHANGED <<broker, discovered, announced, dropped>>

ReceiveAnnounceIgnoringBroker(p, m) ==
    /\ m \in net /\ m.dst = p /\ m.type = "BROKER_ANNOUNCE"
    /\ IF brokerPending[p] = None
         THEN /\ brokerPending' = [brokerPending EXCEPT ![p] = m.src]
              /\ net' = (net \ {m}) \cup
                   {[type |-> "BROKER_REQUEST", src |-> p, dst |-> m.src,
                     node_type |-> TypeOf[p]]}
         ELSE /\ net' = net \ {m}
              /\ UNCHANGED brokerPending
    /\ UNCHANGED <<broker, discovered, announced, dropped>>

(***************************************************************************)
(* Node._handle_discovery, BROKER_ANNOUNCE: a peer with neither a pending  *)
(* nor an associated broker takes the announcer as pending broker and      *)
(* answers with a BROKER_REQUEST carrying its node type; any other peer    *)
(* ignores the announcement.                                               *)
(***************************************************************************)
ReceiveAnnounce(p, m) ==
    /\ m \in net /\ m.dst = p /\ m.type = "BROKER_ANNOUNCE"
    /\ IF brokerPending[p] = None /\ broker[p] = None
         THEN /\ brokerPending' = [brokerPending EXCEPT ![p] = m.src]
              /\ net' = (net \ {m}) \cup
                   {[type |-> "BROKER_REQUEST", src |-> p, dst |-> m.src,
                     node_type |-> TypeOf[p]]}
         ELSE /\ net' = net \ {m}
              /\ UNCHANGED brokerPending
    /\ UNCHANGED <<broker, discovered, announced, dropped>>

(* Mutant of ReceiveAck: the source compared with _broker, not pending. *)
ReceiveAckWrongSlot(p, m) ==
    /\ m \in net /\ m.dst = p /\ m.type = "BROKER_ACK"
    /\ IF broker[p] = m.src
         THEN /\ broker' = [broker EXCEPT ![p] = m.src]
              /\ brokerPending' = [brokerPending EXCEPT ![p] = None]
         ELSE UNCHANGED <<broker, brokerPending>>
    /\ net' = net \ {m}
    /\ UNCHANGED <<discovered, announced, dropped>>

(***************************************************************************)
(* Node._handle_discovery, BROKER_ACK: an acknowledgement from the pending *)
(* broker makes it the peer's broker; one from any other source is logged  *)
(* and ignored.                                                            *)
(***************************************************************************)
ReceiveAck(p, m) ==
    /\ m \in net /\ m.dst = p /\ m.type = "BROKER_ACK"
    /\ IF brokerPending[p] = m.src
         THEN /\ broker' = [broker EXCEPT ![p] = m.src]
              /\ brokerPending' = [brokerPending EXCEPT ![p] = None]
         ELSE UNCHANGED <<broker, brokerPending>>
    /\ net' = net \ {m}
    /\ UNCHANGED <<discovered, announced, dropped>>

(* Mutant of ReceiveRequest: the ACK is sent, the peer is not recorded. *)
ReceiveRequestNoRecord(b, m) ==
    /\ m \in net /\ m.dst = b /\ m.type = "BROKER_REQUEST"
    /\ net' = (net \ {m}) \cup {[type |-> "BROKER_ACK", src |-> b, dst |-> m.src]}
    /\ UNCHANGED <<discovered, brokerPending, broker, announced, dropped>>

(***************************************************************************)
(* Broker._handle_discovery, BROKER_REQUEST: record the requester under    *)
(* its node type and answer with a BROKER_ACK.                             *)
(***************************************************************************)
ReceiveRequest(b, m) ==
    /\ m \in net /\ m.dst = b /\ m.type = "BROKER_REQUEST"
    /\ discovered' = [discovered EXCEPT ![b][m.node_type] = @ \cup {m.src}]
    /\ net' = (net \ {m}) \cup {[type |-> "BROKER_ACK", src |-> b, dst |-> m.src]}
    /\ UNCHANGED <<brokerPending, broker, announced, dropped>>

(* The DTN agents lose a bundle (no transport reliability is promised). *)
Lose(m) ==
    /\ dropped < MaxLoss
    /\ m \in net
    /\ net' = net \ {m}
    /\ dropped' = dropped + 1
    /\ UNCHANGED <<brokerPending, broker, discovered, announced>>

-----------------------------------------------------------------------------
(* A peer's fetch loop (_get_new_bundles) delivers one discovery bundle  *)
(* addressed to it, which Node._handle_discovery handles.                *)
PeerStep(p) ==
    \E m \in net : ReceiveAnnounce(p, m) \/ ReceiveAck(p, m)

BrokerStep(b) ==
    Announce(b) \/ \E m \in net : ReceiveRequest(b, m)

Next ==
    \/ \E p \in Peers : PeerStep(p)
    \/ \E b \in Brokers : BrokerStep(b)
    \/ \E m \in net : Lose(m)

(***************************************************************************)
(* Every node's intake loop fetches and handles its bundles every ten      *)
(* seconds and the announcer ticks every ten seconds for the whole life of *)
(* the process: each node that can step eventually does.  Losses are not  *)
(* fair.                                                                   *)
(***************************************************************************)
Spec == Init /\ [][Next]_vars
FairSpec ==
    /\ Spec
    /\ \A p \in Peers : WF_vars(PeerStep(p))
    /\ \A b \in Brokers : WF_vars(BrokerStep(b))

-----------------------------------------------------------------------------
(********************************* properties *****************************)

(* The brokers that have recorded peer p, under any node type. *)
RecordedBy(p) == {b \in Brokers : \E t \in NodeTypes : p \in discovered[b][t]}

(***************************************************************************)
(* A peer associated with broker b is known to b under its own node type   *)
(* (the ACK that set _broker was sent after discovered_nodes was updated). *)
(***************************************************************************)
AssociatedBrokerKnowsPeer ==
    \A p \in Peers : broker[p] # None => p \in discovered[broker[p]][TypeOf[p]]

(***************************************************************************)
(* First writer wins: however many brokers announce, a peer sends one      *)
(* BROKER_REQUEST in its lifetime, so at most one broker ever records it,  *)
(* and it is the one the peer is pending on or associated with.            *)
(***************************************************************************)
SingleBrokerRecord ==
    \A p \in Peers :
        /\ Cardinality(RecordedBy(p)) <= 1
        /\ \A b \in RecordedBy(p) : b \in {brokerPending[p], broker[p]}

(***************************************************************************)
(* Association is monotone (spec 4.3): once a peer's _broker is set, no    *)
(* discovery bundle changes it.                                            *)
(***************************************************************************)
AssociationMonotone ==
    [][\A p \in Peers : broker[p] # None => broker'[p] = broker[p]]_vars

(***************************************************************************)
(* Every peer eventually associates with a broker, as Client._find_broker, *)
(* which loops until _broker is set, expects.                              *)
(***************************************************************************)
EventuallyAssociated == \A p \in Peers : <>(broker[p] # None)

-----------------------------------------------------------------------------
(* The peers broker b has recorded under any node type. *)
KnownBy == [b \in Brokers |-> UNION {discovered[b][t] : t \in NodeTypes}]

Abstract == INSTANCE Association WITH assoc <- broker, known <- KnownBy

(***************************************************************************)
(* The bundle protocol implements Association: every discovery step either *)
(* leaves the peers' _broker slots and the brokers' records as they were,  *)
(* or registers a peer with one broker while no other broker has it, or    *)
(* binds a peer, once, to a broker that has recorded it.                  *)
(***************************************************************************)
ImplementsAssociation == Abstract!ASpec
=============================================================================
