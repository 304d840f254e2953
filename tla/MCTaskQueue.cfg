CONSTANTS
    t1 = t1
    t2 = t2
    t3 = t3
    s1 = s1
    s2 = s2
    Worker = {w1, w2}
    Nobody = Nobody
    MaxTaskAttempts = 2
    Task = {t1, t2, t3}
    Slot = {s1, s2}
    SlotOf <- MCSlotOf
    MaxAttempt = 2
    NoRow = NoRow
    NoTask = NoTask
SPECIFICATION FairSpec
INVARIANTS TypeOK Fencing LostIsSound FreshKeyOnRedelivery
PROPERTIES DoneIsFinal FinishedOrWedged
CHECK_DEADLOCK FALSE
