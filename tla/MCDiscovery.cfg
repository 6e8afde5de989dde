\* Two brokers, two peers, one bundle lost: the safety of association.
CONSTANTS
    b1 = b1  b2 = b2  e1 = e1  c1 = c1  None = None
    Brokers = {b1, b2}
    Peers = {e1, c1}
    TypeOf <- MCTypeOf
    MaxAnnounce = 2
    MaxLoss = 1
SPECIFICATION Spec
INVARIANT AssociatedBrokerKnowsPeer SingleBrokerRecord
PROPERTY AssociationMonotone ImplementsAssociation
\* Once the announcers have sent their bundles and every bundle is handled,
\* the nodes only sleep between empty fetches.
CHECK_DEADLOCK FALSE
