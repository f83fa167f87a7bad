------------------------------- MODULE UuidGen -------------------------------
(***************************************************************************)
(* The uuid generator (uuid/src/main.c and uuid.c): a name-based UUID made *)
(* of the MD5 digest of a fixed name space and the MAC address of the      *)
(* device.  The digest is an input, any 16 bytes.                          *)
(***************************************************************************)
EXTENDS UuidText, FiniteSets

CONSTANTS
    Digests,    \* digests MD5 may yield
    Nil         \* nothing yet

ASSUME DigestAssumption ==
    Digests # {} /\ Digests \subseteq [0 .. 15 -> 0 .. 255]

VARIABLES
    pc,        \* where main is
    mac,       \* main's array: "uninitialized", "read" or left as it was
    digest,    \* what MD5 yields for it
    output,    \* the allocation of gen_hash_string: "none", "live", "freed"
    hash,      \* the text made of the digest
    hyphen,    \* the allocation of add_hyphen that holds it
    exit       \* what main returns

vars == <<pc, mac, digest, output, hash, hyphen, exit>>

-----------------------------------------------------------------------------
(* main.                                                                   *)

Init ==
    /\ pc = "mac" /\ mac = "uninitialized"
    /\ digest = Nil /\ hash = Nil
    /\ output = "none" /\ hyphen = "none"
    /\ exit = Nil

\* get_mac_addr.  The file may be missing; that it holds no word is not
\* noticed, and the array stays as it was.
GetMacAddr ==
    /\ pc = "mac"
    /\ \/ mac' \in {"read", "uninitialized"} /\ pc' = "hash" /\ exit' = exit
       \/ mac' = mac /\ pc' = "exit" /\ exit' = 1
    /\ UNCHANGED <<digest, output, hash, hyphen>>

\* gen_hash_string up to its call of add_hyphen: MD5 over the name space and
\* the array, whatever is in it.
GenHashString ==
    /\ pc = "hash"
    /\ digest' \in Digests
    /\ output' = "live"
    /\ pc' = "hyphen"
    /\ UNCHANGED <<mac, hash, hyphen, exit>>

\* Mutant: add_hyphen leaves its argument to be freed by main.
HyphenateKeeps ==
    /\ pc = "hyphen"
    /\ hash' = UuidOf(digest)
    /\ hyphen' = "live"
    /\ pc' = "print"
    /\ UNCHANGED <<mac, digest, output, exit>>

\* add_hyphen: the result is a new allocation, the argument is freed.
Hyphenate ==
    /\ pc = "hyphen"
    /\ hash' = UuidOf(digest)
    /\ hyphen' = "live"
    /\ output' = "freed"
    /\ pc' = "print"
    /\ UNCHANGED <<mac, digest, exit>>

\* Mutant: the result is reported as an error.
PrintHashFails ==
    /\ pc = "print"
    /\ hyphen' = "freed"
    /\ exit' = Len(hash)
    /\ pc' = "exit"
    /\ UNCHANGED <<mac, digest, output, hash>>

PrintHash ==
    /\ pc = "print"
    /\ hyphen' = "freed"
    /\ exit' = 0
    /\ pc' = "exit"
    /\ UNCHANGED <<mac, digest, output, hash>>

\* main.c declares no gen_hash_string, so its result is an int there: where
\* pointers are wider the text may be looked for at a wrong address.
PrintTruncated ==
    /\ pc = "print"
    /\ pc' = "crashed"
    /\ UNCHANGED <<mac, digest, output, hash, hyphen, exit>>

Ended == pc \in {"exit", "crashed"} /\ UNCHANGED vars

Next == \/ GetMacAddr \/ GenHashString \/ Hyphenate
        \/ PrintHash \/ PrintTruncated \/ Ended

Spec == Init /\ [][Next]_vars

-----------------------------------------------------------------------------
(* Properties.                                                             *)

Allocation == {"none", "live", "freed"}

TypeOK ==
    /\ pc \in {"mac", "hash", "hyphen", "print", "exit", "crashed"}
    /\ mac \in {"uninitialized", "read"}
    /\ digest \in Digests \cup {Nil}
    /\ output \in Allocation /\ hyphen \in Allocation
    /\ hash = Nil \/ hash \in Seq(0 .. Hyphen)
    /\ exit \in {0, 1, Nil}

\* The text has the form of a UUID of variant 1 ("variant 1"): 36 characters,
\* the hyphens in their places, and 8, 9, A or B after the third one.
FormOfUuid ==
    hash # Nil =>
        /\ Len(hash) = 36
        /\ \A k \in 1 .. 36 : hash[k] = Hyphen <=> k \in HyphenPlaces
        /\ hash[20] \in 8 .. 11

\* Everything of the digest but the six bits the stamps claim, and the one bit
\* the second sets too many, is in the text: devices whose digests differ
\* elsewhere get different UUIDs.
KeepsDigest ==
    hash # Nil =>
        \A p \in (1 .. 36) \ HyphenPlaces :
            LET k == p - Cardinality({h \in HyphenPlaces : h < p})
                digit == HexText(digest)[k]
            IN  /\ k \notin {9, 17} => hash[p] = digit
                /\ k = 17 => hash[p] % 2 = digit % 2

\* Every allocation is freed when main returns.
AllFreed == pc = "exit" => output # "live" /\ hyphen # "live"

\* "produce type 3 UUIDs": the version, the digit after the second hyphen, is 3.
VersionIs3 == hash # Nil => hash[15] = 3
=============================================================================
