CONSTANTS
    e1 = e1
    e2 = e2
    level = level
    title = title
    promoted = promoted
    left = left
    Entity = {e1, e2}
    Attr = {level, title}
    Payload <- Payloads
    Trigger = {promoted, left}
    Watches <- All
    Predicate <- Rules
    Unrenderable = {left}
    Overlong = {}
    Writer = {w1, w2}
    Dispatcher = {d1, d2}
    MaxChange = 3
    MaxDeath = 1
    None = None
SPECIFICATION FairSpec
INVARIANTS OutboxAgrees FiredOnce FiresOnTransition
PROPERTY Drains
CHECK_DEADLOCK FALSE
