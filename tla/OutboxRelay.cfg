\* One relay, three events, batches of two; an event is given up after two failures.
CONSTANTS
    Events = {1, 2, 3}
    Relays = {relay}
    Take = 2
    MaxRetries = 2
    None = None
SPECIFICATION FairSpec
INVARIANTS
    TypeOK
    ProcessedWasNotified
PROPERTIES
    ImplementsDelivery
    AlwaysDrained
\* Nothing happens once every event is settled.
CHECK_DEADLOCK FALSE
