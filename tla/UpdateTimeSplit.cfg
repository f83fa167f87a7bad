\* The body is a time within the window; nothing follows a chunk.
SPECIFICATION Spec
CONSTANTS
    Days <- MCGoodDays
    Lengths = {13}
    Codes = {200}
    TrailingDigits = FALSE
    Nil = Nil
INVARIANTS PrintsResponseTime
