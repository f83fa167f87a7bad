\* The library may still hold a message when the program has stopped draining.
SPECIFICATION ProgramFairSpec
CONSTANTS
    Registers = {1, 2, 3}
    u1 = u1
    u2 = u2
    quit = quit
    other = other
    Ids <- MCIds
    Addresses <- MCAddresses
    Commands <- MCQuitOnly
    Quits <- MCQuits
    Kinds = {"value"}
    Faults = {}
    MaxVersion = 1
    MaxFails = 0
    MESSAGE_COUNT = 1
    DOWORK_LOOP_NUM = 3
    Nil = Nil
INVARIANTS FinalSendingCompletes
