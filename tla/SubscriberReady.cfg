\* One call whose answer is published between its POST and its Subscribe.
CONSTANTS
    Request = {r1, r2}
    Slot = {s1, s2}
    None = None
    Failed = Failed
    Ttl <- TtlTicks
    Timeout <- TimeoutTicks
SPECIFICATION Spec
INVARIANT
    SubscriberReady
CHECK_DEADLOCK FALSE
