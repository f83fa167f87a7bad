\* Bodies are split in every way; digits may follow a chunk in the buffer.
SPECIFICATION Spec
CONSTANTS
    Days <- MCDays
    Lengths = {0, 5, 13, 26}
    Codes = {200, 404}
    TrailingDigits = TRUE
    Nil = Nil
INVARIANTS TypeOK PrintedIsFromServer HandleFreed
