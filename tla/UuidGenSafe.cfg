\* Every value of the variant byte.
SPECIFICATION Spec
CONSTANTS
    Digests <- MCDigests
    Nil = Nil
INVARIANTS TypeOK FormOfUuid KeepsDigest AllFreed
