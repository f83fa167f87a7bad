\* zmq_recv may fail up to three times, requests and replies may be lost, and
\* the socket may fail to be made or connected.
SPECIFICATION NbSpec
CONSTANTS
    Registers = {1, 2}
    u1 = u1
    u2 = u2
    u3 = u3
    Ids <- MCIds
    Addresses <- MCAddresses
    Kinds = {"value", "unfit", "status", "malformed"}
    Faults = {"lose", "recv", "setup", "connect"}
    MaxVersion = 2
    MaxFails = 3
    Nil = Nil
SYMMETRY IdSymmetry
INVARIANTS NbTypeOK OneOutstanding LockStep Provenance MisdeliveryBound
PROPERTIES MonotonicReads
\* A lost reply leaves zmq_recv waiting for ever.
CHECK_DEADLOCK FALSE
