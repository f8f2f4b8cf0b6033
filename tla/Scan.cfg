SPECIFICATION ScanSpec
CONSTANTS
    own4 = own4
    own6 = own6
    other6 = other6
    Servers = {own4, own6, other6}
    Clients <- Interfaces
    StackOf <- Stacks
    WardenIps = {own4}
    AgentIps = {own6}
    MaxScans = 2
    MaxAnswers = 3
INVARIANTS
    AlarmedServerAnswered
    NodesRaiseNoAlarm
PROPERTIES
    ScansEnd
CHECK_DEADLOCK FALSE
