\* The version digit of any digest.
SPECIFICATION Spec
CONSTANTS
    Digests <- MCDigests
    Nil = Nil
INVARIANTS VersionIs3
