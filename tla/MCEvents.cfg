CONSTANTS
    Subs <- MCSubs
    s1 = s1
    s2 = s2
    Buffered = {s1}
    Once = {s2}
    MaxSignals = 3
    QueueBits = 3
SPECIFICATION Spec
INVARIANT TypeOK
INVARIANT SingleDrainer
PROPERTY SignalsServed
PROPERTY QueueReturnsToZero
