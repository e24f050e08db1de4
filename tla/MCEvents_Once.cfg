CONSTANTS
    Subs <- MCSubs
    s1 = s1
    s2 = s2
    Buffered = {s1}
    Once = {s2}
    MaxSignals = 2
    QueueBits = 3
SPECIFICATION Spec
INVARIANT OnceDeliversOnce
