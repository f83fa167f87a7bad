\* Every file of up to four words.
SPECIFICATION Spec
CONSTANTS
    Digests <- MCDigests
    MAX_TRIAL = 500
    Files <- MCFiles
    Nil = Nil
INVARIANTS TypeOK ReportsDuplicates
