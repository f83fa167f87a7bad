------------------------------ MODULE UuidTest ------------------------------
(***************************************************************************)
(* The test program of the uuid generator (uuid_test.c): it makes a UUID   *)
(* of every word of a file and reports those whose first 16 characters are *)
(* those of another.  A word is abstracted to the digest MD5 yields for it *)
(* behind the name space.                                                  *)
(***************************************************************************)
EXTENDS UuidText, FiniteSets

CONSTANTS
    Digests,    \* digests MD5 may yield
    MAX_TRIAL,  \* the words there is room for
    Files,      \* what the file may hold, a sequence of digests
    Nil         \* nothing yet

\* The code does not look at MAX_TRIAL; it is left to the file to fit.
ASSUME FileAssumption ==
    /\ Digests # {} /\ Digests \subseteq [0 .. 15 -> 0 .. 255]
    /\ MAX_TRIAL \in Nat \ {0}
    /\ \A f \in Files : f \in Seq(Digests) /\ Len(f) <= MAX_TRIAL

VARIABLES
    pc,        \* where the program is
    macs,      \* the words read
    hashes,    \* the texts made of them, while they are allocated
    i, k,      \* the indices of the comparison
    reports,   \* the lines printed, each the index of a word
    err,       \* what get_mac_test returns
    exit       \* what main returns

vars == <<pc, macs, hashes, i, k, reports, err, exit>>

Init ==
    /\ pc = "args" /\ macs = <<>> /\ hashes = <<>>
    /\ i = 1 /\ k = 1
    /\ reports = <<>> /\ err = 0 /\ exit = Nil

Args ==
    /\ pc = "args"
    /\ \/ pc' = "read" /\ exit' = exit
       \/ pc' = "exit" /\ exit' = 1
    /\ UNCHANGED <<macs, hashes, i, k, reports, err>>

\* The loop over the file.  The end is found out by reading: of a file without
\* a word one is kept that was never assigned, and may read as anything.
ReadWords ==
    /\ pc = "read"
    /\ \E file \in Files :
         macs' \in IF file = <<>> THEN {<<d>> : d \in Digests} ELSE {file}
    /\ pc' = "hash"
    /\ UNCHANGED <<hashes, i, k, reports, err, exit>>

OpenFails ==
    /\ pc = "read"
    /\ err' = 1
    /\ pc' = "return"
    /\ UNCHANGED <<macs, hashes, i, k, reports, exit>>

HashWord ==
    /\ pc = "hash"
    /\ hashes' = Append(hashes, UuidOf(macs[Len(hashes) + 1]))
    /\ pc' = IF Len(hashes') < Len(macs) THEN "hash" ELSE "compare"
    /\ UNCHANGED <<macs, i, k, reports, err, exit>>

\* Mutant: as many characters are compared as the text has digits up there.
AlikeShort(a, b) == SubSeq(a, 1, 14) = SubSeq(b, 1, 14)

\* strncmp of 16 characters.
Alike(a, b) == SubSeq(a, 1, 16) = SubSeq(b, 1, 16)

\* Mutant: k <= j in the inner loop's test.
CompareOneMore ==
    /\ pc = "compare"
    /\ IF i # k /\ Alike(hashes[i], hashes[k])
       THEN reports' = Append(reports, i) /\ err' = 1
       ELSE UNCHANGED <<reports, err>>
    /\ k' = IF k <= Len(macs) THEN k + 1 ELSE 1
    /\ i' = IF k <= Len(macs) THEN i ELSE i + 1
    /\ pc' = IF i' > Len(macs) THEN "free" ELSE pc
    /\ UNCHANGED <<macs, hashes, exit>>

\* One turn of the two loops.
Compare ==
    /\ pc = "compare"
    /\ IF i # k /\ Alike(hashes[i], hashes[k])
       THEN reports' = Append(reports, i) /\ err' = 1
       ELSE UNCHANGED <<reports, err>>
    /\ k' = IF k < Len(macs) THEN k + 1 ELSE 1
    /\ i' = IF k < Len(macs) THEN i ELSE i + 1
    /\ pc' = IF i' > Len(macs) THEN "free" ELSE pc
    /\ UNCHANGED <<macs, hashes, exit>>

Free ==
    /\ pc = "free"
    /\ hashes' = <<>>
    /\ pc' = "return"
    /\ UNCHANGED <<macs, i, k, reports, err, exit>>

\* main returns 0 whatever get_mac_test has returned.
MainReturns ==
    /\ pc = "return"
    /\ exit' = 0
    /\ pc' = "exit"
    /\ UNCHANGED <<macs, hashes, i, k, reports, err>>

Exited == pc = "exit" /\ UNCHANGED vars

Next == \/ Args \/ ReadWords \/ OpenFails \/ HashWord \/ Compare \/ Free
        \/ MainReturns \/ Exited

Spec == Init /\ [][Next]_vars

-----------------------------------------------------------------------------
(* Properties.                                                             *)

\* While words are compared both indices are those of a text still allocated;
\* none is left when get_mac_test returns.
TypeOK ==
    /\ pc \in {"args", "read", "hash", "compare", "free", "return", "exit"}
    /\ macs \in Seq(Digests) /\ Len(macs) <= MAX_TRIAL
    /\ hashes \in Seq(Seq(0 .. Hyphen)) /\ Len(hashes) <= Len(macs)
    /\ pc = "compare" => {i, k} \subseteq DOMAIN hashes
    /\ pc \in {"return", "exit"} => hashes = <<>>
    /\ reports \in Seq(DOMAIN macs)
    /\ err \in {0, 1} /\ exit \in {0, 1, Nil}

\* What 16 characters tell of a digest: its first seven bytes, but for the
\* half that the 3 has been written to.
Told(d) == <<d[0], d[1], d[2], d[3], d[4] % 16, d[5], d[6]>>

\* "if there is a dupicate mac on in the file, then this will be identified",
\* once for every other word like it, at both places.  Words are alike if the
\* 16 characters tell the same of them; for all others nothing is printed.
ReportsDuplicates ==
    pc \in {"return", "exit"} =>
        \A n \in DOMAIN macs :
            Cardinality({r \in DOMAIN reports : reports[r] = n}) =
            Cardinality({m \in DOMAIN macs : m # n /\ Told(macs[m]) = Told(macs[n])})
=============================================================================
