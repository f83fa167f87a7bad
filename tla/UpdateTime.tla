----------------------------- MODULE UpdateTime -----------------------------
(***************************************************************************)
(* The update-time program (src/main.c and src/request.c): it asks a       *)
(* server for the time with libcurl, whose write callback keeps the number *)
(* in the body, and prints that number.                                    *)
(*                                                                         *)
(* A time is abstracted to its day: d stands for midnight of day d after   *)
(* 1970-01-01, 86400000 * d milliseconds, which has 13 digits from day     *)
(* 11575 on.  A body of any other length holds no time.                    *)
(***************************************************************************)
EXTENDS Naturals

CONSTANTS
    Days,           \* days a server may name, and 0 for text that names none
    Lengths,        \* lengths of the bodies a server sends
    Codes,          \* HTTP response codes
    TrailingDigits, \* may digits follow a chunk in libcurl's buffer?
    Nil

ASSUME TimeAssumption ==
    /\ Days \subseteq Nat /\ 0 \in Days
    /\ Lengths \subseteq Nat /\ Codes \subseteq Nat
    /\ TrailingDigits \in BOOLEAN
    /\ Nil \notin Nat

VARIABLES
    pc,        \* where main is
    curl,      \* the handle: "none", "null", "live" or "freed"
    time_ms,   \* request.c's static, as a day
    response,  \* what the server answers
    left,      \* bytes of its body that libcurl has still to pass on
    printed,   \* the time main prints
    exit       \* what main returns

vars == <<pc, curl, time_ms, response, left, printed, exit>>

TimeLength == 13

Responses == [code : Codes, len : Lengths, time : Days]

Init ==
    /\ pc = "args" /\ curl = "none"
    /\ time_ms = 0 /\ response = Nil /\ left = 0
    /\ printed = Nil /\ exit = Nil

\* The argument is there and starts with "https://", or it is not.
ParseArgs ==
    /\ pc = "args"
    /\ \/ pc' = "init" /\ exit' = exit
       \/ pc' = "exit" /\ exit' = 1
    /\ UNCHANGED <<curl, time_ms, response, left, printed>>

\* my_curl_init; what it returns is not looked at.
CurlInit ==
    /\ pc = "init"
    /\ curl' \in {"live", "null"}
    /\ pc' = "connect"
    /\ UNCHANGED <<time_ms, response, left, printed, exit>>

\* curl_easy_cleanup, which takes a null handle too, and main returns.
Finish(result) ==
    /\ curl' = IF curl = "live" THEN "freed" ELSE curl
    /\ exit' = result
    /\ pc' = "exit"

\* Mutant: a failed request returns without curl_easy_cleanup.
PerformFailsLeaks ==
    /\ pc \in {"connect", "receive"}
    /\ exit' = 2 /\ pc' = "exit"
    /\ UNCHANGED <<curl, time_ms, response, left, printed>>

\* curl_easy_perform fails, always when it has no handle.
PerformFails ==
    /\ pc \in {"connect", "receive"}
    /\ Finish(2)
    /\ UNCHANGED <<time_ms, response, left, printed>>

\* The server answers, with a body libcurl has to pass on.
Respond ==
    /\ pc = "connect" /\ curl = "live"
    /\ response' \in Responses
    /\ left' = response'.len
    /\ pc' = "receive"
    /\ UNCHANGED <<curl, time_ms, printed, exit>>

\* Mutant: the bounds are tested with || instead of &&.
SaneEither(d) == IF 16790 < d \/ d < 21900 THEN d ELSE 0

\* The sanity check: 1450656000000 < time_ms && time_ms < 1892160000000.
Sane(d) == IF 16790 < d /\ d < 21900 THEN d ELSE 0

\* The body is TimeLength digits and none of them, nor a blank, pads it.
HoldsTime(r) == r.len = TimeLength /\ r.time >= 11575

\* The chunk of TimeLength bytes is the body, and reads as what that says: with
\* digits behind the unterminated chunk, a body that is padded reads as any time.
ReadsAsBody ==
    response.len = TimeLength /\ (TrailingDigits => HoldsTime(response))

\* The days strtoll may find in a chunk of TimeLength bytes, any if it is a
\* piece of a longer body; and a number past every bound, reset to 0, if more
\* digits follow the chunk.
Parsed ==
    {Sane(d) : d \in IF ReadsAsBody THEN {response.time} ELSE Days}
        \cup (IF TrailingDigits THEN {0} ELSE {})

\* rspCallback: libcurl passes on n bytes of the body.
Deliver(n) ==
    /\ pc = "receive"
    /\ n \in 1 .. left
    /\ left' = left - n
    /\ IF n = TimeLength THEN time_ms' \in Parsed ELSE time_ms' = time_ms
    /\ UNCHANGED <<pc, curl, response, printed, exit>>

PerformDone ==
    /\ pc = "receive" /\ left = 0
    /\ pc' = "check"
    /\ UNCHANGED <<curl, time_ms, response, left, printed, exit>>

\* Mutant: the response code is returned as the program's result.
CheckCodeReturnsCode ==
    /\ pc = "check"
    /\ IF response.code = 200
       THEN printed' = time_ms /\ Finish(0)
       ELSE printed' = printed /\ Finish(response.code)
    /\ UNCHANGED <<time_ms, response, left>>

\* Only a response with code 200 has its time printed.
CheckCode ==
    /\ pc = "check"
    /\ IF response.code = 200
       THEN printed' = time_ms /\ Finish(0)
       ELSE printed' = printed /\ Finish(3)
    /\ UNCHANGED <<time_ms, response, left>>

Exited == pc = "exit" /\ UNCHANGED vars

Next ==
    \/ ParseArgs \/ CurlInit \/ PerformFails \/ Respond
    \/ \E n \in 1 .. left : Deliver(n)
    \/ PerformDone \/ CheckCode \/ Exited

Spec == Init /\ [][Next]_vars

-----------------------------------------------------------------------------
(* Properties.                                                             *)

TypeOK ==
    /\ pc \in {"args", "init", "connect", "receive", "check", "exit"}
    /\ curl \in {"none", "null", "live", "freed"}
    /\ time_ms \in Days
    /\ response \in Responses \cup {Nil}
    /\ left \in Nat
    /\ printed \in Days \cup {Nil}
    /\ exit \in {0, 1, 2, 3, Nil}

\* A time is printed only when the whole of a good response has come in, and
\* then it is 0 or within the bounds; where the body is just a time it is that
\* time or 0, however libcurl splits the body.
PrintedIsFromServer ==
    printed # Nil =>
        /\ response.code = 200 /\ left = 0
        /\ printed = 0 \/ printed \in 16791 .. 21899
        /\ HoldsTime(response) => printed \in {0, response.time}

\* The handle my_curl_init made is freed on every way out.
HandleFreed == pc = "exit" => curl # "live"

\* "returns time in milliseconds from the last response": a good response
\* whose body is a time has that time printed.
PrintsResponseTime ==
    printed # Nil /\ HoldsTime(response) => printed = response.time
=============================================================================
