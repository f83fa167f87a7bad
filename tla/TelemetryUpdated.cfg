\* A reply may be an error.
SPECIFICATION Spec
CONSTANTS
    Registers = {1, 2, 3}
    u1 = u1
    u2 = u2
    quit = quit
    other = other
    Ids <- MCIds
    Addresses <- MCAddresses
    Commands <- MCQuitOnly
    Quits <- MCQuits
    Kinds = {"value", "status"}
    Faults = {}
    MaxVersion = 1
    MaxFails = 0
    MESSAGE_COUNT = 1
    DOWORK_LOOP_NUM = 3
    Nil = Nil
INVARIANTS SendsUpdatedValues
