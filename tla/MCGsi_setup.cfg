SPECIFICATION Spec
CONSTANTS
    MaxSendWr = 2
    W = 4
    NumQps = 1
    QPs = {q1, q2}
    WrIds = {w1}
    Batch = 1
    Budget = 2
    Null = Null
INVARIANT NoQpOverwritten
