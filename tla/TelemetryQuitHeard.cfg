\* The gateway answers every request, with a value or nothing readable.
SPECIFICATION FairSpec
CONSTANTS
    Registers = {1, 2, 3}
    u1 = u1
    u2 = u2
    quit = quit
    other = other
    Ids <- MCIds
    Addresses <- MCAddresses
    Commands <- MCCommands
    Quits <- MCQuits
    Kinds = {"value", "malformed"}
    Faults = {"setup"}
    MaxVersion = 1
    MaxFails = 0
    MESSAGE_COUNT = 2
    DOWORK_LOOP_NUM = 3
    Nil = Nil
PROPERTIES CallsReturn QuitIsHeard
