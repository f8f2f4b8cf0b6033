SPECIFICATION Spec
CONSTANTS
    LeaseReaders = {lease4, lease6}
    PacketReaders = {packet4}
    LeaseMessages <- Leases
    PacketMessages <- Packets
    MaxMessages = 2
    MaxStops = 2
INVARIANTS
    EachMessageOnce
    UndisturbedTopicIsHandled
    NodesKnowRows
    RecordedOnce
PROPERTY
    EveryMessageIsFinished
CHECK_DEADLOCK FALSE
