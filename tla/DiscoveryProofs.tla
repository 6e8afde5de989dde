--------------------------- MODULE DiscoveryProofs ---------------------------
(***************************************************************************)
(* Proofs about broker discovery (Discovery): type correctness and the     *)
(* two safety invariants, for any sets of brokers and peers, any number of *)
(* announcements and any number of lost bundles.                           *)
(*                                                                         *)
(* Neither AssociatedBrokerKnowsPeer nor SingleBrokerRecord is inductive:  *)
(* both depend on what the bundles in flight say.  The strengthening       *)
(* DiscoveryInv states that a peer has at most one discovery bundle of its *)
(* own in flight (its BROKER_REQUEST or the ACK answering it), that this   *)
(* bundle concerns the broker the peer is pending on, and that a broker    *)
(* records a peer only under its type and only while the peer is pending   *)
(* on or associated with that broker.                                      *)
(***************************************************************************)
EXTENDS Discovery, FiniteSetTheorems, TLAPS

(* Bundle m is peer p's own: its BROKER_REQUEST or an ACK addressed to it. *)
OwnBundle(m, p) ==
    \/ m.type = "BROKER_REQUEST" /\ m.src = p
    \/ m.type = "BROKER_ACK" /\ m.dst = p

(* A peer that has a broker is no longer pending on one. *)
OneSlot == \A p \in Peers : brokerPending[p] = None \/ broker[p] = None

(* A BROKER_REQUEST in flight goes to the broker its sender is pending on, *)
(* carrying the sender's node type.                                       *)
RequestsToPending ==
    \A m \in net : m.type = "BROKER_REQUEST" =>
        /\ brokerPending[m.src] = m.dst
        /\ m.node_type = TypeOf[m.src]

(* A BROKER_ACK in flight comes from the broker its receiver is pending on *)
(* and that broker has recorded the receiver under its type already.      *)
AcksFromPending ==
    \A m \in net : m.type = "BROKER_ACK" =>
        /\ brokerPending[m.dst] = m.src
        /\ m.dst \in discovered[m.src][TypeOf[m.dst]]

(* Each peer has at most one bundle of its own in flight. *)
OneOwnBundle ==
    \A p \in Peers : \A m1, m2 \in net :
        OwnBundle(m1, p) /\ OwnBundle(m2, p) => m1 = m2

(* A broker records a peer only under its type, and only the broker the  *)
(* peer is pending on or associated with.                                 *)
RecordsMatchSlots ==
    \A b \in Brokers, t \in NodeTypes, p \in Peers :
        p \in discovered[b][t] =>
            /\ t = TypeOf[p]
            /\ b \in {brokerPending[p], broker[p]}

DiscoveryInv ==
    /\ TypeOK
    /\ OneSlot
    /\ RequestsToPending
    /\ AcksFromPending
    /\ OneOwnBundle
    /\ RecordsMatchSlots
    /\ AssociatedBrokerKnowsPeer

-----------------------------------------------------------------------------
(* The peer a discovery bundle concerns is a peer; its broker a broker.  *)
LEMMA MsgFields ==
    ASSUME NEW m \in Msg
    PROVE  /\ m.type \in {"BROKER_ANNOUNCE", "BROKER_REQUEST", "BROKER_ACK"}
           /\ m.type = "BROKER_REQUEST" => m.src \in Peers /\ m.dst \in Brokers
                                            /\ m.node_type \in NodeTypes
           /\ m.type # "BROKER_REQUEST" => m.src \in Brokers /\ m.dst \in Peers
BY DEF Msg

(* The initial state satisfies the strengthened invariant. *)
LEMMA InitInv == Init => DiscoveryInv
BY DiscoveryAssumption
DEF Init, DiscoveryInv, TypeOK, OneSlot, RequestsToPending, AcksFromPending,
    OneOwnBundle, RecordsMatchSlots, AssociatedBrokerKnowsPeer

LEMMA AnnounceInv ==
    ASSUME DiscoveryInv, NEW b \in Brokers, Announce(b)
    PROVE  DiscoveryInv'
<1> USE DiscoveryAssumption
<1>1. TypeOK'
  BY DEF DiscoveryInv, TypeOK, Announce, Msg
<1>2. OneOwnBundle'
  BY DEF DiscoveryInv, OneOwnBundle, OwnBundle, Announce
<1>3. QED
  BY <1>1, <1>2
  DEF DiscoveryInv, Announce, OneSlot, RequestsToPending, AcksFromPending,
      RecordsMatchSlots, AssociatedBrokerKnowsPeer

LEMMA ReceiveAnnounceInv ==
    ASSUME DiscoveryInv, NEW p \in Peers, NEW m \in net, ReceiveAnnounce(p, m)
    PROVE  DiscoveryInv'
<1> USE DiscoveryAssumption
<1>1. m \in Msg /\ m.type = "BROKER_ANNOUNCE" /\ m.dst = p /\ m.src \in Brokers
  BY MsgFields DEF DiscoveryInv, TypeOK, ReceiveAnnounce
<1>2. CASE brokerPending[p] = None /\ broker[p] = None
  <2> DEFINE req == [type |-> "BROKER_REQUEST", src |-> p, dst |-> m.src,
                     node_type |-> TypeOf[p]]
  <2>1. brokerPending' = [brokerPending EXCEPT ![p] = m.src]
        /\ net' = (net \ {m}) \cup {req}
        /\ UNCHANGED <<broker, discovered, announced, dropped>>
    BY <1>2 DEF ReceiveAnnounce
  <2>2. \A q \in net : ~OwnBundle(q, p)
    <3> SUFFICES ASSUME NEW q \in net, OwnBundle(q, p) PROVE FALSE
      OBVIOUS
    <3>1. q \in Msg
      BY DEF DiscoveryInv, TypeOK
    <3>2. CASE q.type = "BROKER_REQUEST"
      BY <1>2, <3>1, <3>2, MsgFields
      DEF DiscoveryInv, RequestsToPending, OwnBundle
    <3>3. CASE q.type = "BROKER_ACK"
      BY <1>2, <3>1, <3>3, MsgFields
      DEF DiscoveryInv, AcksFromPending, OwnBundle
    <3>4. QED
      BY <3>2, <3>3 DEF OwnBundle
  <2>3. \A c \in Brokers, t \in NodeTypes : p \notin discovered[c][t]
    BY <1>2 DEF DiscoveryInv, RecordsMatchSlots
  <2>4. TypeOK'
    BY <1>1, <2>1 DEF DiscoveryInv, TypeOK, Msg
  <2>5. OneSlot'
    BY <1>2, <2>1 DEF DiscoveryInv, TypeOK, OneSlot
  <2>9. RequestsToPending'
    BY <2>1, <2>2 DEF DiscoveryInv, TypeOK, RequestsToPending, OwnBundle
  <2>10. AcksFromPending'
    BY <2>1, <2>2 DEF DiscoveryInv, TypeOK, AcksFromPending, OwnBundle
  <2>6. OneOwnBundle'
    BY <2>1, <2>2 DEF DiscoveryInv, OneOwnBundle, OwnBundle
  <2>7. RecordsMatchSlots' /\ AssociatedBrokerKnowsPeer'
    BY <1>2, <2>1, <2>3 DEF DiscoveryInv, TypeOK, RecordsMatchSlots,
                            AssociatedBrokerKnowsPeer
  <2>8. QED
    BY <2>4, <2>5, <2>6, <2>7, <2>9, <2>10 DEF DiscoveryInv
<1>3. CASE ~(brokerPending[p] = None /\ broker[p] = None)
  <2>1. net' = net \ {m} /\ UNCHANGED <<brokerPending, broker, discovered,
                                        announced, dropped>>
    BY <1>3 DEF ReceiveAnnounce
  <2>2. QED
    BY <2>1 DEF DiscoveryInv, TypeOK, OneSlot, RequestsToPending,
                AcksFromPending, OneOwnBundle, RecordsMatchSlots,
                AssociatedBrokerKnowsPeer
<1>4. QED
  BY <1>2, <1>3

LEMMA ReceiveAckInv ==
    ASSUME DiscoveryInv, NEW p \in Peers, NEW m \in net, ReceiveAck(p, m)
    PROVE  DiscoveryInv'
<1> USE DiscoveryAssumption
<1>1. m.type = "BROKER_ACK" /\ m.dst = p /\ m.src \in Brokers
      /\ brokerPending[p] = m.src /\ p \in discovered[m.src][TypeOf[p]]
  BY MsgFields DEF DiscoveryInv, TypeOK, ReceiveAck, AcksFromPending
<1>2. /\ broker' = [broker EXCEPT ![p] = m.src]
      /\ brokerPending' = [brokerPending EXCEPT ![p] = None]
      /\ net' = net \ {m}
      /\ UNCHANGED <<discovered, announced, dropped>>
  BY <1>1 DEF ReceiveAck
<1>3. \A q \in net' : ~OwnBundle(q, p)
  BY <1>1, <1>2 DEF DiscoveryInv, OneOwnBundle, OwnBundle
<1>4. TypeOK'
  BY <1>1, <1>2 DEF DiscoveryInv, TypeOK
<1>5. OneSlot' /\ OneOwnBundle'
  BY <1>2 DEF DiscoveryInv, TypeOK, OneSlot, OneOwnBundle
<1>6. RequestsToPending' /\ AcksFromPending'
  BY <1>2, <1>3 DEF DiscoveryInv, TypeOK, RequestsToPending, AcksFromPending,
                    OwnBundle
<1>9. broker[p] = None
  BY <1>1 DEF DiscoveryInv, OneSlot, RecordedBy
<1>7. RecordsMatchSlots' /\ AssociatedBrokerKnowsPeer'
  BY <1>1, <1>2, <1>9 DEF DiscoveryInv, TypeOK, RecordsMatchSlots,
                          AssociatedBrokerKnowsPeer
<1>8. QED
  BY <1>4, <1>5, <1>6, <1>7 DEF DiscoveryInv

LEMMA ReceiveRequestInv ==
    ASSUME DiscoveryInv, NEW b \in Brokers, NEW m \in net, ReceiveRequest(b, m)
    PROVE  DiscoveryInv'
<1> USE DiscoveryAssumption
<1> DEFINE p == m.src
           ack == [type |-> "BROKER_ACK", src |-> b, dst |-> p]
<1>1. m.type = "BROKER_REQUEST" /\ m.dst = b /\ p \in Peers
      /\ brokerPending[p] = b /\ m.node_type = TypeOf[p]
  BY MsgFields DEF DiscoveryInv, TypeOK, ReceiveRequest, RequestsToPending
<1>2. /\ discovered' = [discovered EXCEPT ![b][TypeOf[p]] = @ \cup {p}]
      /\ net' = (net \ {m}) \cup {ack}
      /\ UNCHANGED <<brokerPending, broker, announced, dropped>>
  BY <1>1 DEF ReceiveRequest
<1>3. \A q \in net \ {m} : ~OwnBundle(q, p)
  BY <1>1 DEF DiscoveryInv, OneOwnBundle, OwnBundle
<1>4. TypeOK'
  BY <1>1, <1>2 DEF DiscoveryInv, TypeOK, Msg
<1>5. OneSlot' /\ RequestsToPending'
  BY <1>2 DEF DiscoveryInv, OneSlot, RequestsToPending
<1>6. AcksFromPending'
  BY <1>1, <1>2 DEF DiscoveryInv, TypeOK, AcksFromPending
<1>7. OneOwnBundle'
  BY <1>1, <1>2, <1>3 DEF DiscoveryInv, OneOwnBundle, OwnBundle
<1>8. RecordsMatchSlots' /\ AssociatedBrokerKnowsPeer'
  BY <1>1, <1>2 DEF DiscoveryInv, TypeOK, RecordsMatchSlots,
                    AssociatedBrokerKnowsPeer
<1>9. QED
  BY <1>4, <1>5, <1>6, <1>7, <1>8 DEF DiscoveryInv

LEMMA LoseInv ==
    ASSUME DiscoveryInv, NEW m \in net, Lose(m)
    PROVE  DiscoveryInv'
<1> USE DiscoveryAssumption
<1>1. TypeOK'
  BY DEF DiscoveryInv, Lose, TypeOK
<1>2. QED
  BY <1>1 DEF DiscoveryInv, Lose, OneSlot, RequestsToPending,
      AcksFromPending, OneOwnBundle, RecordsMatchSlots,
      AssociatedBrokerKnowsPeer

(* Every step of discovery preserves the strengthened invariant. *)
LEMMA NextInv == DiscoveryInv /\ [Next]_vars => DiscoveryInv'
<1> SUFFICES ASSUME DiscoveryInv, [Next]_vars PROVE DiscoveryInv'
  OBVIOUS
<1>1. CASE \E p \in Peers : PeerStep(p)
  BY <1>1, ReceiveAnnounceInv, ReceiveAckInv DEF PeerStep
<1>2. CASE \E b \in Brokers : BrokerStep(b)
  BY <1>2, AnnounceInv, ReceiveRequestInv DEF BrokerStep
<1>3. CASE \E m \in net : Lose(m)
  BY <1>3, LoseInv
<1>4. CASE UNCHANGED vars
  BY <1>4 DEF vars, DiscoveryInv, TypeOK, OneSlot, RequestsToPending,
              AcksFromPending, OneOwnBundle, RecordsMatchSlots,
              AssociatedBrokerKnowsPeer, OwnBundle
<1>5. QED
  BY <1>1, <1>2, <1>3, <1>4 DEF Next

(* The strengthened invariant gives first-writer-wins: a peer is recorded *)
(* by at most one broker, the one in one of its two slots.               *)
LEMMA InvSingleRecord == DiscoveryInv => SingleBrokerRecord
<1> SUFFICES ASSUME DiscoveryInv, NEW p \in Peers
             PROVE  /\ Cardinality(RecordedBy(p)) <= 1
                    /\ \A b \in RecordedBy(p) : b \in {brokerPending[p], broker[p]}
  BY DEF SingleBrokerRecord
<1> USE DiscoveryAssumption
<1>1. \A b \in RecordedBy(p) : b \in {brokerPending[p], broker[p]}
  BY DEF DiscoveryInv, RecordsMatchSlots, RecordedBy
<1> DEFINE s == IF brokerPending[p] = None THEN broker[p] ELSE brokerPending[p]
<1>2. RecordedBy(p) \subseteq {s}
  BY <1>1 DEF DiscoveryInv, OneSlot, RecordedBy
<1>3. IsFiniteSet({s}) /\ Cardinality({s}) = 1
  BY FS_Singleton
<1>4. Cardinality(RecordedBy(p)) <= 1
  BY <1>2, <1>3, FS_Subset
<1>5. QED
  BY <1>1, <1>4

-----------------------------------------------------------------------------
(* Type correctness of discovery: slots, records and bundles keep their  *)
(* types in every reachable state.                                       *)
THEOREM TypeCorrect == Spec => []TypeOK
<1>1. DiscoveryInv => TypeOK
  BY DEF DiscoveryInv
<1>2. QED
  BY <1>1, InitInv, NextInv, PTL DEF Spec

(* The ACK that associates a peer is sent only after its broker recorded *)
(* it under the peer's node type (Broker._handle_discovery), for any     *)
(* number of brokers, peers, announcements and lost bundles.             *)
THEOREM BrokerKnowsPeer == Spec => []AssociatedBrokerKnowsPeer
<1>1. DiscoveryInv => AssociatedBrokerKnowsPeer
  BY DEF DiscoveryInv
<1>2. QED
  BY <1>1, InitInv, NextInv, PTL DEF Spec

(* First writer wins: Node._handle_discovery answers an announcement     *)
(* only with both slots empty, so at most one broker ever records a peer *)
(* and it is the broker in one of the peer's slots.                      *)
THEOREM SingleRecord == Spec => []SingleBrokerRecord
<1>1. DiscoveryInv => SingleBrokerRecord
  BY InvSingleRecord
<1>2. QED
  BY <1>1, InitInv, NextInv, PTL DEF Spec

(* Node._handle_discovery never replaces a broker once associated: an    *)
(* ACK is acted on only from the pending broker, and a peer with a       *)
(* broker has none pending.                                              *)
THEOREM Monotone == Spec => AssociationMonotone
<1>1. DiscoveryInv /\ [Next]_vars =>
        [\A p \in Peers : broker[p] # None => broker'[p] = broker[p]]_vars
  <2> SUFFICES ASSUME DiscoveryInv, [Next]_vars, NEW p \in Peers,
                      broker[p] # None
               PROVE  broker'[p] = broker[p]
    BY DEF vars
  <2> USE DiscoveryAssumption
  <2>1. brokerPending[p] = None
    BY DEF DiscoveryInv, OneSlot
  <2>2. ASSUME NEW q \in Peers, NEW m \in net, ReceiveAck(q, m)
        PROVE  broker'[p] = broker[p]
    BY <2>1, <2>2, MsgFields DEF DiscoveryInv, TypeOK, ReceiveAck
  <2>3. QED
    BY <2>2 DEF Next, PeerStep, BrokerStep, ReceiveAnnounce, Announce,
                ReceiveRequest, Lose, vars
<1>2. QED
  BY <1>1, InitInv, NextInv, PTL DEF Spec, AssociationMonotone

-----------------------------------------------------------------------------
(* Lemmas for the refinement of Association: the records a step leaves.  *)
LEMMA KnownUnchanged ==
    discovered' = discovered => KnownBy' = KnownBy
BY DEF KnownBy

(* Recording peer p under type t adds p to what broker b knows, and only *)
(* to that.                                                               *)
LEMMA KnownAdd ==
    ASSUME TypeOK, NEW b \in Brokers, NEW t \in NodeTypes, NEW p \in Peers,
           discovered' = [discovered EXCEPT ![b][t] = @ \cup {p}]
    PROVE  KnownBy' = [KnownBy EXCEPT ![b] = @ \cup {p}]
<1>1. \A c \in Brokers : KnownBy'[c] = IF c = b THEN KnownBy[b] \cup {p} ELSE KnownBy[c]
  BY DEF TypeOK, KnownBy
<1>2. QED
  BY <1>1 DEF KnownBy

(* Every discovery step is a step of Association or leaves the peers'    *)
(* brokers and the brokers' records alone.                                *)
LEMMA StepRefines ==
    DiscoveryInv /\ [Next]_vars => [Abstract!ANext]_Abstract!avars
<1> SUFFICES ASSUME DiscoveryInv, [Next]_vars
             PROVE  [Abstract!ANext]_<<broker, KnownBy>>
  BY DEF Abstract!avars
<1> USE DiscoveryAssumption
<1>1. CASE UNCHANGED <<broker, discovered>>
  BY <1>1, KnownUnchanged
<1>2. ASSUME NEW p \in Peers, NEW m \in net, ReceiveAck(p, m),
             brokerPending[p] = m.src
      PROVE  Abstract!Bind(m.src, p)
  <2>1. m.type = "BROKER_ACK" /\ m.dst = p /\ m.src \in Brokers
        /\ p \in discovered[m.src][TypeOf[p]] /\ broker[p] = None
    BY <1>2, MsgFields DEF DiscoveryInv, TypeOK, ReceiveAck, AcksFromPending, OneSlot
  <2>2. p \in KnownBy[m.src]
    BY <2>1 DEF DiscoveryInv, TypeOK, KnownBy
  <2>3. broker' = [broker EXCEPT ![p] = m.src] /\ discovered' = discovered
    BY <1>2 DEF ReceiveAck
  <2>4. QED
    BY <2>1, <2>2, <2>3, KnownUnchanged DEF Abstract!Bind
<1>3. ASSUME NEW b \in Brokers, NEW m \in net, ReceiveRequest(b, m)
      PROVE  Abstract!Register(b, m.src)
  <2> DEFINE p == m.src
  <2>1. m.type = "BROKER_REQUEST" /\ p \in Peers /\ brokerPending[p] = b
        /\ m.node_type = TypeOf[p] /\ TypeOf[p] \in NodeTypes
    BY <1>3, MsgFields DEF DiscoveryInv, TypeOK, ReceiveRequest, RequestsToPending
  <2>2. broker[p] = None
    BY <2>1 DEF DiscoveryInv, OneSlot
  <2>3. \A c \in Brokers \ {b} : p \notin KnownBy[c]
    BY <2>1, <2>2 DEF DiscoveryInv, RecordsMatchSlots, KnownBy
  <2>4. discovered' = [discovered EXCEPT ![b][TypeOf[p]] = @ \cup {p}]
        /\ broker' = broker
    BY <1>3, <2>1 DEF ReceiveRequest
  <2>5. KnownBy' = [KnownBy EXCEPT ![b] = @ \cup {p}]
    BY <2>1, <2>4, KnownAdd DEF DiscoveryInv
  <2>6. QED
    BY <2>2, <2>3, <2>4, <2>5 DEF Abstract!Register
<1>4. QED
  <2>1. CASE \E p \in Peers : PeerStep(p)
    <3> PICK p \in Peers, m \in net : ReceiveAnnounce(p, m) \/ ReceiveAck(p, m)
      BY <2>1 DEF PeerStep
    <3>1. CASE ReceiveAnnounce(p, m)
      BY <3>1, <1>1 DEF ReceiveAnnounce
    <3>2. CASE ReceiveAck(p, m) /\ brokerPending[p] = m.src
      <4>1. m.src \in Brokers
        BY <3>2, MsgFields DEF DiscoveryInv, TypeOK, ReceiveAck
      <4>2. QED
        BY <3>2, <4>1, <1>2 DEF Abstract!ANext
    <3>3. CASE ReceiveAck(p, m) /\ brokerPending[p] # m.src
      BY <3>3, <1>1 DEF ReceiveAck
    <3>4. QED
      BY <3>1, <3>2, <3>3
  <2>2. CASE \E b \in Brokers : BrokerStep(b)
    <3> PICK b \in Brokers : BrokerStep(b)
      BY <2>2
    <3>1. CASE Announce(b)
      BY <3>1, <1>1 DEF Announce
    <3>2. CASE \E m \in net : ReceiveRequest(b, m)
      <4> PICK m \in net : ReceiveRequest(b, m)
        BY <3>2
      <4>1. m.src \in Peers
        BY MsgFields DEF DiscoveryInv, TypeOK, ReceiveRequest
      <4>2. QED
        BY <4>1, <1>3 DEF Abstract!ANext
    <3>3. QED
      BY <3>1, <3>2 DEF BrokerStep
  <2>3. CASE \E m \in net : Lose(m)
    BY <2>3, <1>1 DEF Lose
  <2>4. CASE UNCHANGED vars
    BY <2>4, <1>1 DEF vars
  <2>5. QED
    BY <2>1, <2>2, <2>3, <2>4 DEF Next

(* The bundle protocol of Node._handle_discovery and                     *)
(* Broker._handle_discovery implements Association: registration is     *)
(* first-writer-wins and a binding only follows a registration, for any  *)
(* number of brokers, peers, announcements and lost bundles.             *)
THEOREM Refinement == Spec => ImplementsAssociation
<1>1. Init => Abstract!AInit
  BY DEF Init, Abstract!AInit, KnownBy
<1>2. QED
  BY <1>1, InitInv, NextInv, StepRefines, PTL
  DEF Spec, ImplementsAssociation, Abstract!ASpec
=============================================================================
