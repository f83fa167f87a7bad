-------------------------- MODULE UpdateTime_proofs --------------------------
(***************************************************************************)
(* Proofs about update-time, for every set of days, lengths and codes.     *)
(***************************************************************************)
EXTENDS UpdateTime, TLAPS

\* What time_ms may hold while response is being passed on: nothing yet, or a
\* time that passed the sanity check, the response's own if that is one time.
TimeInHand(t) ==
    /\ t = 0 \/ t \in 16791 .. 21899
    /\ HoldsTime(response) => t \in {0, response.time}

Handling == pc \in {"receive", "check"}

\* The handle is live between CurlInit and the exit only, a response is there
\* while it is handled, and the time printed is the one it left in time_ms.
TimeInv ==
    /\ TypeOK
    /\ pc \in {"args", "init", "exit"} => curl # "live"
    /\ pc \in {"args", "init", "connect"} => time_ms = 0
    /\ pc # "exit" => printed = Nil
    /\ Handling => response \in Responses /\ TimeInHand(time_ms)
    /\ pc = "check" => left = 0
    /\ printed # Nil => response.code = 200 /\ left = 0 /\ TimeInHand(printed)

LEMMA TimeInvInit == Init => TimeInv
BY TimeAssumption DEF Init, TimeInv, TypeOK, Handling

\* The sanity check lets through what it is given, or 0.
LEMMA SaneRange ==
    ASSUME NEW d \in Days
    PROVE  /\ Sane(d) \in Days
           /\ Sane(d) = 0 \/ (Sane(d) \in 16791 .. 21899 /\ Sane(d) = d)
BY TimeAssumption DEF Sane

LEMMA ParsedInHand ==
    ASSUME response \in Responses, NEW t \in Parsed
    PROVE  t \in Days /\ TimeInHand(t)
<1>1. CASE t = 0
  BY <1>1, TimeAssumption DEF TimeInHand
<1>2. CASE ReadsAsBody /\ t = Sane(response.time)
  BY <1>2, SaneRange DEF TimeInHand, Responses
<1>3. CASE ~ReadsAsBody /\ \E d \in Days : t = Sane(d)
  <2>1. CASE ~HoldsTime(response)
    BY <1>3, <2>1, SaneRange DEF TimeInHand
  <2>2. CASE HoldsTime(response)
    BY <1>3, <2>2 DEF ReadsAsBody, HoldsTime
  <2> QED BY <2>1, <2>2
<1> QED BY <1>1, <1>2, <1>3 DEF Parsed

LEMMA TimeInvStep == TimeInv /\ [Next]_vars => TimeInv'
<1> SUFFICES ASSUME TimeInv, [Next]_vars PROVE TimeInv'
  OBVIOUS
<1> USE DEF TimeInv, Handling
<1>1. CASE ParseArgs
  BY <1>1 DEF ParseArgs, TypeOK
<1>2. CASE CurlInit
  BY <1>2 DEF CurlInit, TypeOK
<1>3. CASE PerformFails
  BY <1>3 DEF PerformFails, Finish, TypeOK
<1>4. CASE Respond
  <2>1. response' \in Responses /\ left' \in Nat
    BY <1>4, TimeAssumption DEF Respond, Responses
  <2>2. time_ms' = 0 /\ printed' = Nil
    BY <1>4 DEF Respond
  <2>3. TimeInHand(time_ms)'
    BY <2>2 DEF TimeInHand
  <2> QED BY <1>4, <2>1, <2>2, <2>3 DEF Respond, TypeOK
<1>5. ASSUME NEW n \in 1 .. left, Deliver(n)
      PROVE  TimeInv'
  <2>1. /\ pc = "receive" /\ pc' = pc /\ response' = response
        /\ curl' = curl /\ printed' = printed /\ exit' = exit
        /\ response \in Responses
    BY <1>5 DEF Deliver
  <2>2. left' \in Nat
    BY <1>5 DEF Deliver, TypeOK
  <2>3. time_ms' \in Days /\ TimeInHand(time_ms')
    BY <1>5, <2>1, ParsedInHand DEF Deliver, TypeOK
  <2>4. TimeInHand(time_ms)'
    BY <2>1, <2>3 DEF TimeInHand
  <2> QED BY <2>1, <2>2, <2>3, <2>4 DEF TypeOK
<1>6. CASE PerformDone
  <2>1. TimeInHand(time_ms)'
    BY <1>6 DEF PerformDone, TimeInHand
  <2> QED BY <1>6, <2>1 DEF PerformDone, TypeOK
<1>7. CASE CheckCode
  <2>1. /\ pc = "check" /\ pc' = "exit" /\ curl' # "live"
        /\ UNCHANGED <<time_ms, response, left>>
        /\ \/ response.code = 200 /\ printed' = time_ms
           \/ printed' = Nil
        /\ exit' \in {0, 3}
        /\ curl' \in {"none", "null", "freed"}
    BY <1>7 DEF CheckCode, Finish, TypeOK
  <2>2. printed' # Nil => TimeInHand(printed)'
    BY <2>1 DEF TimeInHand
  <2> QED BY <2>1, <2>2 DEF TypeOK
<1>8. CASE UNCHANGED vars
  <2>1. (TimeInHand(time_ms) <=> TimeInHand(time_ms)')
          /\ (TimeInHand(printed) <=> TimeInHand(printed)')
    BY <1>8 DEF vars, TimeInHand
  <2> QED BY <1>8, <2>1 DEF vars, TypeOK
<1> QED
  BY <1>1, <1>2, <1>3, <1>4, <1>5, <1>6, <1>7, <1>8 DEF Next, Exited

\* update-time keeps its types, whatever the server answers and however
\* libcurl splits it.
THEOREM TypeCorrect == Spec => []TypeOK
<1>1. TimeInv => TypeOK
  BY DEF TimeInv
<1> QED BY <1>1, TimeInvInit, TimeInvStep, PTL DEF Spec

\* A printed time comes from the whole of a response with code 200, is 0 or
\* within the sanity bounds, and is the response's own or 0.
THEOREM PrintedFromServer == Spec => []PrintedIsFromServer
<1>1. TimeInv => PrintedIsFromServer
  BY DEF TimeInv, TimeInHand, PrintedIsFromServer
<1> QED BY <1>1, TimeInvInit, TimeInvStep, PTL DEF Spec

\* The libcurl handle is freed on every way out of main.
THEOREM HandleIsFreed == Spec => []HandleFreed
<1>1. TimeInv => HandleFreed
  BY DEF TimeInv, HandleFreed
<1> QED BY <1>1, TimeInvInit, TimeInvStep, PTL DEF Spec
=============================================================================
