\* Two calls, of one slot or of two; keys live a tick longer than waits last.
CONSTANTS
    Request = {r1, r2}
    Slot = {s1, s2}
    None = None
    Failed = Failed
    Ttl <- TtlTicks
    Timeout <- TimeoutTicks
SPECIFICATION Spec
INVARIANTS
    TypeOK
    KeyCoversWait
    PublishedMeansDelivered
PROPERTIES
    EveryCallReturns
    NoKeyForever
    ImplementsRequestReply
CHECK_DEADLOCK FALSE
