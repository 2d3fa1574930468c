CONSTANTS
    Streams = {s1}
    Posts = {p1, p2}
    Users = {u1, u2}
    QueueSize = 2
    MaxEvents = 3
    None = None
SPECIFICATION Spec
INVARIANTS TakenUpOnce TokenWorks OutcomeDelivered
PROPERTIES ResponsesEnd RunsEnd
CHECK_DEADLOCK FALSE
