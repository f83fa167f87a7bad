\* zmq_recv may fail three times, messages may be lost, the socket may not be made.
SPECIFICATION Spec
CONSTANTS
    Registers = {r1, r2}
    Words = {w1, w2}
    i1 = i1
    i2 = i2
    i3 = i3
    Ids <- MCIds
    Callbacks = {printer, counter}
    MaxFails = 3
    Nil = Nil
SYMMETRY IdSymmetry
INVARIANTS TypeOK StrayBound LateWriteBound DroppedBound
PROPERTIES UnsetOnlyInPlainReads ImplementsRegisterAccess
\* A lost reply leaves zmq_recv waiting for ever.
CHECK_DEADLOCK FALSE
