\* Reads may fail or never return; the library may refuse and give up messages.
SPECIFICATION ProgramFairSpec
CONSTANTS
    Registers = {1, 2, 3}
    u1 = u1
    u2 = u2
    quit = quit
    other = other
    Ids <- MCIds
    Addresses <- MCAddresses
    Commands <- MCQuitOnly
    Quits <- MCQuits
    Kinds = {"value", "status"}
    Faults = {"lose", "setup", "connect"}
    MaxVersion = 2
    MaxFails = 0
    MESSAGE_COUNT = 2
    DOWORK_LOOP_NUM = 3
    Nil = Nil
INVARIANTS TypeOK HandleOwnership FrameOutlivesCallbacks CountersAgree TelemetryMonotone
PROPERTIES QuietAfterQuit QuitEnds ImplementsLedger ImplementsAtomicRead
\* A lost reply leaves zmq_recv waiting for ever.
CHECK_DEADLOCK FALSE
