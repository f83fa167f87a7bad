-------------------------- MODULE NbZmqMbtcp_proofs --------------------------
(***************************************************************************)
(* Proofs about the register client.  The invariant NbInv says what the    *)
(* REQ socket's alternation gives the code, which never compares the id of *)
(* a reply; the other results follow from it.                              *)
(***************************************************************************)
EXTENDS NbZmqMbtcp, TLAPS

\* A call in progress has an id, and only such a call.
CallHasId == reading = Nil <=> guid = Nil

\* A value on its way back is not older than the caller's variable and not
\* newer than the device; an unfit one is no reading.
ReplyAge ==
    fails = 0 =>
        \A m \in toApp :
            /\ m.kind = "value" =>
                  latest[m.reg].ver <= m.ver /\ m.ver <= device[m.reg]
            /\ m.kind = "unfit" => m.ver = 0

\* A message under way for another call than the one in progress is one value
\* that may still be misdelivered.
Debt == IF \E m \in InFlight : m.id # guid THEN 1 ELSE 0

DebtBound == misdelivered + Debt <= 2 * fails

NbInv ==
    /\ NbTypeOK
    /\ OneOutstanding
    /\ LockStep
    /\ Provenance
    /\ CallHasId
    /\ ReplyAge
    /\ DebtBound

-----------------------------------------------------------------------------
(* Type correctness.                                                       *)

LEMMA NbTypeInit == NbInit => NbTypeOK
BY DEF NbInit, NbTypeOK, Reading

LEMMA ParseType ==
    ASSUME NbTypeOK, NEW m \in Reply, reading # Nil, Parse(m)
    PROVE  /\ latest' \in [Registers -> Reading]
           /\ ret' \in {0, 1}
           /\ misdelivered' \in Nat
BY DEF NbTypeOK, Parse, Reply, Reading

\* Every step keeps the types.
LEMMA NbTypeStep == NbTypeOK /\ [NbNext]_nbVars => NbTypeOK'
<1> SUFFICES ASSUME NbTypeOK, [NbNext]_nbVars PROVE NbTypeOK'
  OBVIOUS
<1>1. CASE Setup
  BY <1>1 DEF Setup, NbTypeOK, callVars, wireVars, histVars
<1>2. ASSUME NEW a \in Addresses, InitIpPort(a) PROVE NbTypeOK'
  BY <1>2 DEF InitIpPort, NbTypeOK, callVars, wireVars, histVars
<1>3. ASSUME NEW r \in Registers, CallRegister(r) PROVE NbTypeOK'
  BY <1>3 DEF CallRegister, FreshIds, Request, NbTypeOK, histVars
<1>4. CASE Receive
  BY <1>4, ParseType DEF Receive, Return, NbTypeOK
<1>5. CASE ReceiveFails
  <2>1. /\ latest' \in [Registers -> Reading]
        /\ ret' \in {0, 1}
        /\ misdelivered' \in Nat
    <3>1. CASE ret' = 1 /\ UNCHANGED <<latest, misdelivered>>
      BY <3>1 DEF NbTypeOK
    <3>2. CASE lastBuf # Nil /\ Parse(lastBuf)
      BY <1>5, <3>2, ParseType DEF ReceiveFails, NbTypeOK
    <3> QED BY <1>5, <3>1, <3>2 DEF ReceiveFails
  <2> QED
    BY <1>5, <2>1 DEF ReceiveFails, Return, NbTypeOK, wireVars
<1>6. CASE ReceiveInvalid
  BY <1>6 DEF ReceiveInvalid, Return, NbTypeOK, wireVars, histVars
<1>7. CASE Destroy
  BY <1>7 DEF Destroy, NbTypeOK, callVars, histVars
<1>8. ASSUME NEW m \in toDaemon, NEW k \in Kinds, Answer(m, k) PROVE NbTypeOK'
  <2>1. m \in Request /\ k \in ReplyKinds
    BY <1>8, KindAssumption DEF NbTypeOK
  <2> QED
    BY <1>8, <2>1 DEF Answer, Request, Reply, NbTypeOK, callVars, histVars
<1>9. ASSUME NEW m \in InFlight, Lose(m) PROVE NbTypeOK'
  BY <1>9 DEF Lose, NbTypeOK, callVars, histVars
<1>10. ASSUME NEW r \in Registers, DeviceChange(r) PROVE NbTypeOK'
  BY <1>10 DEF DeviceChange, NbTypeOK, callVars, wireVars, histVars
<1>11. CASE UNCHANGED nbVars
  BY <1>11 DEF nbVars, NbTypeOK, callVars, wireVars, histVars
<1> QED
  BY <1>1, <1>2, <1>3, <1>4, <1>5, <1>6, <1>7, <1>8, <1>9, <1>10, <1>11
     DEF NbNext, Client, CallReturns, Environment, Gateway

\* Every state of the register client has the declared types.
THEOREM NbTypeCorrect == NbSpec => []NbTypeOK
<1>1. QED BY NbTypeInit, NbTypeStep, PTL DEF NbSpec

-----------------------------------------------------------------------------
(* The invariant.                                                          *)

LEMMA NbInvInit == NbInit => NbInv
<1> SUFFICES ASSUME NbInit PROVE NbInv
  OBVIOUS
<1>1. NbTypeOK
  BY NbTypeInit
<1>2. InFlight = {} /\ Debt = 0
  BY DEF NbInit, InFlight, Debt
<1>3. Provenance /\ ReplyAge
  BY DEF NbInit, Provenance, ReplyAge
<1> QED
  BY <1>1, <1>2, <1>3
     DEF NbInit, NbInv, OneOutstanding, LockStep, CallHasId, DebtBound

\* The arithmetic of the bound, for the provers.
LEMMA AddNothing ==
    ASSUME NEW m \in Nat, NEW b, m <= b
    PROVE  m + 0 <= b
OBVIOUS

LEMMA OneFailureMore ==
    ASSUME NEW m \in Nat, NEW n \in Nat, NEW f \in Nat,
           m <= 2 * f, n <= m + 1
    PROVE  /\ n + 0 <= 2 * (f + 1)
           /\ n + 1 <= 2 * (f + 1)
OBVIOUS

\* Facts about Debt that hold whatever the state is.
LEMMA DebtRange == Debt \in {0, 1}
BY DEF Debt

\* A debt that stays or is forgiven keeps the bound.
LEMMA DebtNoMore ==
    ASSUME NEW m \in Nat, NEW d \in {0, Debt}, NEW b \in Int, m + Debt <= b
    PROVE  m + d <= b
BY DebtRange

\* What a call does to the wire: on a ready socket its request is alone under
\* way, on any other the wire stays as it is.
LEMMA CallKeepsInv ==
    ASSUME NbInv, NEW r \in Registers, CallRegister(r), NbTypeOK'
    PROVE  NbInv'
<1>1. /\ reading = Nil /\ guid = Nil /\ reading' = r
      /\ guid' \in Ids /\ guid' # Nil /\ reading' # Nil
      /\ \A m \in InFlight : m.id # guid'
      /\ UNCHANGED <<latest, toApp, device, fails, misdelivered>>
  BY NilAssumption
     DEF NbInv, CallRegister, CallHasId, FreshIds, InFlight, histVars
<1>2. CASE sock = "ready"
  <2> DEFINE q == [id |-> guid', reg |-> r, addr |-> target]
  <2>1. toDaemon = {} /\ toApp = {}
    BY <1>2 DEF NbInv, OneOutstanding, InFlight
  <2>2. toDaemon' = {q} /\ toApp' = {} /\ sock' = "awaiting"
    BY <1>1, <1>2, <2>1 DEF CallRegister
  <2>3. InFlight' = {q}
    BY <2>2 DEF InFlight
  <2>4. Debt' = 0
    BY <2>3 DEF Debt
  <2>5. OneOutstanding' /\ LockStep'
    BY <1>1, <2>2, <2>3 DEF OneOutstanding, LockStep
  <2>6. Provenance' /\ ReplyAge'
    BY <1>1, <2>2 DEF NbInv, Provenance, ReplyAge
  <2>7. DebtBound'
    BY <1>1, <2>4, DebtRange DEF NbInv, NbTypeOK, DebtBound
  <2> QED
    BY <1>1, <2>5, <2>6, <2>7 DEF NbInv, CallHasId
<1>3. CASE sock # "ready"
  <2>1. UNCHANGED <<toDaemon, sock>> /\ InFlight' = InFlight
    BY <1>1, <1>3 DEF CallRegister, InFlight
  <2>2. Debt' = Debt
    <3>1. \A m \in InFlight : m.id # guid
      BY <1>1, NilAssumption
         DEF NbInv, NbTypeOK, InFlight, Request, Reply
    <3> QED BY <1>1, <2>1, <3>1 DEF Debt
  <2>3. LockStep'
    <3>1. fails = 0 => InFlight = {}
      BY <1>1, <1>3 DEF CallRegister, NbInv, LockStep, OneOutstanding, InFlight
    <3> QED BY <1>1, <2>1, <3>1 DEF LockStep
  <2>4. OneOutstanding'
    BY <1>1, <2>1 DEF NbInv, OneOutstanding
  <2>5. Provenance' /\ ReplyAge' /\ DebtBound'
    BY <1>1, <2>2 DEF NbInv, Provenance, ReplyAge, DebtBound
  <2> QED
    BY <1>1, <2>3, <2>4, <2>5 DEF NbInv, CallHasId
<1> QED BY <1>2, <1>3

\* A reply received is the only message under way; afterwards there is none.
LEMMA ReceiveKeepsInv ==
    ASSUME NbInv, Receive, NbTypeOK'
    PROVE  NbInv'
<1>1. PICK m \in toApp : toApp' = toApp \ {m} /\ Parse(m)
  BY DEF Receive
<1>2. /\ reading \in Registers /\ reading' = Nil /\ guid' = Nil
      /\ sock' = "ready" /\ UNCHANGED <<toDaemon, device, fails>>
      /\ m \in Reply /\ m \in InFlight
  BY <1>1 DEF Receive, Return, NbInv, NbTypeOK, InFlight
<1>3. toApp' = {} /\ toDaemon' = {} /\ InFlight' = {}
  BY <1>1, <1>2 DEF NbInv, OneOutstanding, InFlight
<1>4. OneOutstanding' /\ LockStep' /\ CallHasId' /\ ReplyAge'
  BY <1>2, <1>3 DEF OneOutstanding, LockStep, CallHasId, ReplyAge
<1>5. Provenance'
  <2> SUFFICES ASSUME fails = 0 PROVE Provenance'
    BY <1>2 DEF Provenance
  <2>1. m.reg = reading
    BY <1>2 DEF NbInv, LockStep
  <2>2. m.kind \in {"value", "unfit"} => m.ver <= device[m.reg]
    BY <1>1, <1>2 DEF NbInv, NbTypeOK, ReplyAge, Reply
  <2>3. CASE m.kind \in {"value", "unfit"}
    BY <1>1, <1>2, <2>1, <2>2, <2>3
       DEF NbInv, NbTypeOK, Provenance, Parse, Reply
  <2>4. CASE m.kind \notin {"value", "unfit"}
    BY <1>1, <1>2, <2>4 DEF NbInv, Provenance, Parse
  <2> QED BY <2>3, <2>4
<1>6. DebtBound'
  <2>1. Debt' = 0
    BY <1>3 DEF Debt
  <2>2. m.id # guid => Debt = 1
    BY <1>2 DEF Debt
  <2>3. misdelivered' <= misdelivered + Debt
    BY <1>1, <2>2, DebtRange DEF Parse, NbInv, NbTypeOK
  <2>4. misdelivered \in Nat /\ misdelivered' \in Nat /\ fails \in Nat
    BY DEF NbInv, NbTypeOK
  <2>5. misdelivered + Debt <= 2 * fails
    BY DEF NbInv, DebtBound
  <2>6. misdelivered' <= 2 * fails
    BY <2>3, <2>4, <2>5, DebtRange
  <2>7. misdelivered' + 0 <= 2 * fails
    BY <2>4, <2>6, AddNothing
  <2> QED
    BY <1>2, <2>1, <2>7, Zenon DEF DebtBound
<1> QED BY <1>4, <1>5, <1>6 DEF NbInv

\* A receive that fails leaves the wire alone and owes two values at most:
\* the one it may take from the buffer and the one still to come.
LEMMA FailKeepsInv ==
    ASSUME NbInv, ReceiveFails, NbTypeOK'
    PROVE  NbInv'
<1>1. /\ fails' = fails + 1 /\ fails' # 0 /\ fails \in Nat
      /\ reading' = Nil /\ guid' = Nil
      /\ UNCHANGED <<sock, toDaemon, toApp>> /\ InFlight' = InFlight
  BY DEF ReceiveFails, Return, NbInv, NbTypeOK, wireVars, InFlight
<1>2. misdelivered' <= misdelivered + 1
  BY DEF ReceiveFails, Parse, NbInv, NbTypeOK
<1>3. OneOutstanding' /\ LockStep' /\ CallHasId' /\ Provenance' /\ ReplyAge'
  BY <1>1
     DEF NbInv, OneOutstanding, LockStep, CallHasId, Provenance, ReplyAge
<1>4. DebtBound'
  <2>1. Debt' \in {0, 1}
    BY DEF Debt
  <2>2. misdelivered \in Nat /\ misdelivered' \in Nat
    BY DEF NbInv, NbTypeOK
  <2>3. misdelivered + Debt <= 2 * fails
    BY DEF NbInv, DebtBound
  <2>4. misdelivered <= 2 * fails
    BY <1>1, <2>2, <2>3, DebtRange
  <2>5. /\ misdelivered' + 0 <= 2 * fails'
        /\ misdelivered' + 1 <= 2 * fails'
    BY <1>1, <1>2, <2>2, <2>4, OneFailureMore
  <2> QED
    BY <2>1, <2>5, Zenon DEF DebtBound
<1> QED BY <1>3, <1>4 DEF NbInv

\* An answer has the id and the register of the request it takes the place of.
LEMMA AnswerKeepsInv ==
    ASSUME NbInv, NEW m \in toDaemon, NEW k \in Kinds, Answer(m, k), NbTypeOK'
    PROVE  NbInv'
<1> DEFINE p == [id |-> m.id, reg |-> m.reg, kind |-> k,
                 ver |-> IF k = "value" THEN device[m.reg] ELSE 0]
<1>1. toDaemon = {m} /\ toApp = {} /\ m \in Request
  BY DEF NbInv, NbTypeOK, OneOutstanding
<1>2. /\ toDaemon' = {} /\ toApp' = IF sock = "awaiting" THEN {p} ELSE {}
      /\ InFlight = {m} /\ InFlight' = toApp'
      /\ UNCHANGED <<sock, reading, guid, latest, device, fails, misdelivered>>
  BY <1>1 DEF Answer, InFlight, callVars, histVars
<1>3. OneOutstanding'
  BY <1>2 DEF NbInv, OneOutstanding
<1>4. LockStep' /\ CallHasId' /\ Provenance'
  BY <1>2 DEF NbInv, LockStep, CallHasId, Provenance
<1>5. ReplyAge'
  BY <1>1, <1>2 DEF NbInv, NbTypeOK, Provenance, ReplyAge, Request, Reading
<1>6. DebtBound'
  <2>1. Debt' \in {0, Debt}
    BY <1>2 DEF Debt
  <2>2. /\ misdelivered \in Nat /\ 2 * fails \in Int
        /\ misdelivered + Debt <= 2 * fails
    BY DEF NbInv, NbTypeOK, DebtBound
  <2> QED
    BY <1>2, <2>1, <2>2, DebtNoMore DEF DebtBound
<1> QED
  BY <1>3, <1>4, <1>5, <1>6 DEF NbInv

\* A message lost makes the wire empty.
LEMMA LoseKeepsInv ==
    ASSUME NbInv, NEW m \in InFlight, Lose(m), NbTypeOK'
    PROVE  NbInv'
<1>1. /\ toDaemon' = {} /\ toApp' = {} /\ InFlight' = {}
      /\ UNCHANGED <<sock, reading, guid, latest, device, fails, misdelivered>>
  BY DEF NbInv, OneOutstanding, Lose, InFlight, callVars, histVars
<1>2. Debt' = 0
  BY <1>1 DEF Debt
<1>3. DebtBound'
  BY <1>1, <1>2, DebtRange DEF NbInv, NbTypeOK, DebtBound
<1> QED
  BY <1>1, <1>3 DEF NbInv, OneOutstanding, LockStep, CallHasId, Provenance,
                    ReplyAge

\* The device only moves forward.
LEMMA ChangeKeepsInv ==
    ASSUME NbInv, NEW r \in Registers, DeviceChange(r), NbTypeOK'
    PROVE  NbInv'
<1>1. /\ UNCHANGED <<sock, reading, guid, latest, toDaemon, toApp, fails,
                    misdelivered>>
      /\ InFlight' = InFlight
      /\ \A q \in Registers : device[q] \in Nat /\ device'[q] \in Nat
                             /\ device[q] <= device'[q]
  BY DEF DeviceChange, NbInv, NbTypeOK, callVars, wireVars, histVars, InFlight
<1>2. Debt' = Debt
  BY <1>1 DEF Debt
<1>3. Provenance'
  BY <1>1 DEF NbInv, NbTypeOK, Provenance, Reading
<1>4. ReplyAge'
  BY <1>1 DEF NbInv, NbTypeOK, ReplyAge, Reply
<1> QED
  BY <1>1, <1>2, <1>3, <1>4
     DEF NbInv, OneOutstanding, LockStep, CallHasId, DebtBound

\* Every step keeps the invariant.
LEMMA NbInvStep == NbInv /\ [NbNext]_nbVars => NbInv'
<1> SUFFICES ASSUME NbInv, [NbNext]_nbVars PROVE NbInv'
  OBVIOUS
<1>1. NbTypeOK'
  BY NbTypeStep DEF NbInv
<1>2. CASE Setup
  <2>1. /\ sock = "none" /\ sock' # "awaiting"
        /\ UNCHANGED <<callVars, wireVars, device, histVars>>
    BY <1>2 DEF Setup
  <2>2. InFlight' = InFlight /\ InFlight = {} /\ Debt' = Debt
    BY <2>1 DEF NbInv, OneOutstanding, InFlight, Debt, wireVars, callVars
  <2> QED
    BY <1>1, <2>1, <2>2
       DEF NbInv, OneOutstanding, LockStep, Provenance, CallHasId, ReplyAge,
           DebtBound, callVars, wireVars, histVars
<1>3. ASSUME NEW a \in Addresses, InitIpPort(a) PROVE NbInv'
  <2>1. UNCHANGED <<sock, callVars, wireVars, device, histVars>>
    BY <1>3 DEF InitIpPort
  <2>2. InFlight' = InFlight /\ Debt' = Debt
    BY <2>1 DEF InFlight, Debt, wireVars, callVars
  <2> QED
    BY <1>1, <2>1, <2>2
       DEF NbInv, OneOutstanding, LockStep, Provenance, CallHasId, ReplyAge,
           DebtBound, callVars, wireVars, histVars
<1>4. ASSUME NEW r \in Registers, CallRegister(r) PROVE NbInv'
  BY <1>1, <1>4, CallKeepsInv
<1>5. CASE Receive
  BY <1>1, <1>5, ReceiveKeepsInv
<1>6. CASE ReceiveFails
  BY <1>1, <1>6, FailKeepsInv
<1>7. CASE ReceiveInvalid
  <2>1. /\ sock = "invalid" /\ reading' = Nil /\ guid' = Nil
        /\ UNCHANGED <<sock, latest, wireVars, device, histVars>>
    BY <1>7 DEF ReceiveInvalid, Return
  <2>2. InFlight' = InFlight /\ InFlight = {}
    BY <2>1 DEF NbInv, OneOutstanding, InFlight, wireVars
  <2>3. Debt' = 0 /\ Debt = 0
    BY <2>2 DEF Debt
  <2> QED
    BY <1>1, <2>1, <2>2, <2>3
       DEF NbInv, OneOutstanding, LockStep, Provenance, CallHasId, ReplyAge,
           DebtBound, wireVars, histVars
<1>8. CASE Destroy
  <2>1. /\ sock' = "closed" /\ toDaemon' = toDaemon /\ toApp' = {}
        /\ UNCHANGED <<callVars, device, histVars>>
        /\ sock \notin {"none", "closed"}
    BY <1>8 DEF Destroy
  <2>2. InFlight' \subseteq InFlight /\ Debt' \in {0, Debt}
    BY <2>1 DEF InFlight, Debt, callVars
  <2>3. DebtBound'
    <3>1. /\ misdelivered \in Nat /\ 2 * fails \in Int
          /\ misdelivered + Debt <= 2 * fails
      BY DEF NbInv, NbTypeOK, DebtBound
    <3> QED BY <2>1, <2>2, <3>1, DebtNoMore DEF DebtBound, histVars
  <2> QED
    BY <1>1, <2>1, <2>2, <2>3
       DEF NbInv, OneOutstanding, LockStep, Provenance, CallHasId, ReplyAge,
           callVars, histVars
<1>9. ASSUME NEW m \in toDaemon, NEW k \in Kinds, Answer(m, k) PROVE NbInv'
  BY <1>1, <1>9, AnswerKeepsInv
<1>10. ASSUME NEW m \in InFlight, Lose(m) PROVE NbInv'
  BY <1>1, <1>10, LoseKeepsInv
<1>11. ASSUME NEW r \in Registers, DeviceChange(r) PROVE NbInv'
  BY <1>1, <1>11, ChangeKeepsInv
<1>12. CASE UNCHANGED nbVars
  <2>1. UNCHANGED <<sock, callVars, wireVars, device, histVars>>
    BY <1>12 DEF nbVars
  <2>2. InFlight' = InFlight /\ Debt' = Debt
    BY <2>1 DEF InFlight, Debt, wireVars, callVars
  <2> QED
    BY <1>1, <2>1, <2>2
       DEF NbInv, OneOutstanding, LockStep, Provenance, CallHasId, ReplyAge,
           DebtBound, callVars, wireVars, histVars
<1> QED
  BY <1>2, <1>3, <1>4, <1>5, <1>6, <1>7, <1>8, <1>9, <1>10, <1>11, <1>12
     DEF NbNext, Client, CallReturns, Environment, Gateway

LEMMA NbInvHolds == NbSpec => []NbInv
<1>1. QED BY NbInvInit, NbInvStep, PTL DEF NbSpec

\* The socket's alternation: one message under way, whatever receive fails.
THEOREM OneOutstandingHolds == NbSpec => []OneOutstanding
<1>1. NbInv => OneOutstanding
  BY DEF NbInv
<1>2. QED BY NbInvHolds, <1>1, PTL

\* A reply is never taken for the reply to another call while no receive has
\* failed, although no id is compared.
THEOREM LockStepHolds == NbSpec => []LockStep
<1>1. NbInv => LockStep
  BY DEF NbInv
<1>2. QED BY NbInvHolds, <1>1, PTL

\* Each variable holds a reading of its own register while no receive failed.
THEOREM ProvenanceHolds == NbSpec => []Provenance
<1>1. NbInv => Provenance
  BY DEF NbInv
<1>2. QED BY NbInvHolds, <1>1, PTL

\* Two values at most go astray for every receive that fails.
THEOREM MisdeliveryBounded == NbSpec => []MisdeliveryBound
<1>1. NbInv => MisdeliveryBound
  BY DebtRange DEF NbInv, NbTypeOK, DebtBound, MisdeliveryBound
<1>2. QED BY NbInvHolds, <1>1, PTL

-----------------------------------------------------------------------------
(* Refinement and monotonic reads.                                         *)

\* While receives do not fail, fails stays 0.
NoFailure == fails = 0

LEMMA NoFailureHolds ==
    ASSUME "recv" \notin Faults
    PROVE  NbSpec => []NoFailure
<1>1. NbInit => NoFailure
  BY DEF NbInit, NoFailure
<1>2. NoFailure /\ [NbNext]_nbVars => NoFailure'
  BY DEF NoFailure, NbNext, nbVars, histVars, Client, CallReturns, Environment,
         Gateway, Setup, InitIpPort, CallRegister, Receive, ReceiveFails,
         ReceiveInvalid, Destroy, Answer, Lose, DeviceChange
<1>3. QED BY <1>1, <1>2, PTL DEF NbSpec

\* A gateway that sends no unfit value has none on its way.
NoUnfit == \A m \in toApp : m.kind # "unfit"

LEMMA NoUnfitHolds ==
    ASSUME "unfit" \notin Kinds
    PROVE  NbSpec => []NoUnfit
<1>1. NbInit => NoUnfit
  BY DEF NbInit, NoUnfit
<1>2. NoUnfit /\ [NbNext]_nbVars => NoUnfit'
  BY DEF NoUnfit, NbNext, nbVars, wireVars, Client, CallReturns, Environment,
         Gateway, Setup, InitIpPort, CallRegister, Receive, ReceiveFails,
         ReceiveInvalid, Destroy, Answer, Lose, DeviceChange
<1>3. QED BY <1>1, <1>2, PTL DEF NbSpec

\* With nothing but m on its way back, VersionInReply is the version in m.
LEMMA VersionOf ==
    ASSUME NEW m, toApp = {m}
    PROVE  VersionInReply =
               IF m.kind \in {"value", "unfit"} THEN m.ver ELSE Nil
<1>1. CASE m.kind \in {"value", "unfit"}
  <2>1. (CHOOSE n \in toApp : n.kind \in {"value", "unfit"}) = m
    BY <1>1
  <2> QED BY <1>1, <2>1 DEF VersionInReply
<1>2. CASE m.kind \notin {"value", "unfit"}
  BY <1>2 DEF VersionInReply
<1> QED BY <1>1, <1>2

LEMMA VersionNone == toApp = {} => VersionInReply = Nil
BY DEF VersionInReply

\* Every step of the client is a step of the atomic read, or none.
LEMMA RefinementStep ==
    ASSUME NbInv, NbInv', fails = 0, fails' = 0, NbNext
    PROVE  [Atomic!Next]_(Atomic!vars)
<1> USE DEF Atomic!vars
<1>1. CASE Setup
  <2>1. UNCHANGED <<device, latest, reading, ret, toApp>>
    BY <1>1 DEF Setup, callVars, wireVars
  <2> QED BY <2>1 DEF VersionInReply
<1>2. ASSUME NEW a \in Addresses, InitIpPort(a)
      PROVE  [Atomic!Next]_(Atomic!vars)
  <2>1. UNCHANGED <<device, latest, reading, ret, toApp>>
    BY <1>2 DEF InitIpPort, callVars, wireVars
  <2> QED BY <2>1 DEF VersionInReply
<1>3. ASSUME NEW r \in Registers, CallRegister(r)
      PROVE  [Atomic!Next]_(Atomic!vars)
  <2>1. Atomic!Begin(r)
    BY <1>3 DEF CallRegister, Atomic!Begin, VersionInReply
  <2> QED BY <2>1 DEF Atomic!Next
<1>4. CASE Receive
  <2>1. PICK m \in toApp : toApp' = toApp \ {m} /\ Parse(m)
    BY <1>4 DEF Receive
  <2>2. /\ toApp = {m} /\ toApp' = {} /\ m \in Reply
        /\ m.reg = reading /\ reading # Nil /\ reading' = Nil
        /\ UNCHANGED device
    BY <1>4, <2>1 DEF Receive, Return, NbInv, NbTypeOK, OneOutstanding,
                      LockStep, InFlight
  <2>3. VersionInReply' = Nil
    BY <2>2 DEF VersionInReply
  <2>4. CASE m.kind \in {"value", "unfit"}
    <3>1. VersionInReply = m.ver /\ m.ver # Nil
      BY <2>2, <2>4, VersionOf, NilAssumption DEF Reply
    <3>2. Atomic!Succeed
      BY <2>1, <2>2, <2>3, <2>4, <3>1 DEF Parse, Atomic!Succeed
    <3> QED BY <3>2 DEF Atomic!Next
  <2>5. CASE m.kind \notin {"value", "unfit"}
    <3>1. Atomic!Fail
      BY <2>1, <2>2, <2>3, <2>5 DEF Parse, Atomic!Fail
    <3> QED BY <3>1 DEF Atomic!Next
  <2> QED BY <2>4, <2>5
<1>5. CASE ReceiveFails
  BY <1>5 DEF ReceiveFails, NbInv, NbTypeOK
<1>6. CASE ReceiveInvalid
  <2>1. toApp = {} /\ toApp' = {}
    BY <1>6 DEF ReceiveInvalid, wireVars, NbInv, OneOutstanding, InFlight
  <2>2. VersionInReply = Nil /\ VersionInReply' = Nil
    BY <2>1 DEF VersionInReply
  <2>3. Atomic!Fail
    BY <1>6, <2>2 DEF ReceiveInvalid, Return, Atomic!Fail
  <2> QED BY <2>3 DEF Atomic!Next
<1>7. CASE Destroy
  <2>1. VersionInReply' = Nil
    BY <1>7 DEF Destroy, VersionInReply
  <2>2. Atomic!Forget
    BY <1>7, <2>1 DEF Destroy, callVars, Atomic!Forget
  <2> QED BY <2>2 DEF Atomic!Next
<1>8. ASSUME NEW m \in toDaemon, NEW k \in Kinds, Answer(m, k)
      PROVE  [Atomic!Next]_(Atomic!vars)
  <2> DEFINE p == [id |-> m.id, reg |-> m.reg, kind |-> k,
                   ver |-> IF k = "value" THEN device[m.reg] ELSE 0]
  <2>1. /\ toApp = {} /\ toApp' = IF sock = "awaiting" THEN {p} ELSE {}
        /\ m \in Request /\ m.reg = reading /\ reading # Nil
        /\ UNCHANGED <<device, latest, reading, ret>>
    BY <1>8, NilAssumption
       DEF Answer, NbInv, NbTypeOK, OneOutstanding, LockStep, InFlight,
           callVars, Request
  <2>2. VersionInReply = Nil
    BY <2>1 DEF VersionInReply
  <2>3. CASE sock = "awaiting" /\ k \in {"value", "unfit"}
    <3>1. p.kind = k /\ p.ver = IF k = "value" THEN device[m.reg] ELSE 0
      OBVIOUS
    <3>2. (CHOOSE n \in toApp' : n.kind \in {"value", "unfit"}) = p
      BY <2>1, <2>3, <3>1
    <3>3. VersionInReply' = p.ver
      BY <2>1, <2>3, <3>1, <3>2 DEF VersionInReply
    <3>4. Atomic!Sample
      BY <2>1, <2>2, <2>3, <3>1, <3>3 DEF Atomic!Sample
    <3> QED BY <3>4 DEF Atomic!Next
  <2>4. CASE sock # "awaiting" \/ k \notin {"value", "unfit"}
    <3>1. VersionInReply' = Nil
      BY <2>1, <2>4 DEF VersionInReply
    <3> QED BY <2>1, <2>2, <3>1
  <2> QED BY <2>3, <2>4
<1>9. ASSUME NEW m \in InFlight, Lose(m)
      PROVE  [Atomic!Next]_(Atomic!vars)
  <2>1. toApp' = {}
    BY <1>9 DEF Lose, NbInv, OneOutstanding, InFlight
  <2>2. Atomic!Forget
    BY <1>9, <2>1 DEF Lose, callVars, VersionInReply, Atomic!Forget
  <2> QED BY <2>2 DEF Atomic!Next
<1>10. ASSUME NEW r \in Registers, DeviceChange(r)
       PROVE  [Atomic!Next]_(Atomic!vars)
  <2>1. Atomic!Change(r)
    BY <1>10 DEF DeviceChange, callVars, wireVars, VersionInReply,
                 Atomic!Change
  <2> QED BY <2>1 DEF Atomic!Next
<1> QED
  BY <1>1, <1>2, <1>3, <1>4, <1>5, <1>6, <1>7, <1>8, <1>9, <1>10
     DEF NbNext, Client, CallReturns, Environment, Gateway

\* While receives do not fail, whatever is lost, each successful read is one
\* atomic read of the device within its call.
THEOREM AtomicReads ==
    ASSUME "recv" \notin Faults
    PROVE  NbSpec => ImplementsAtomicRead
<1>1. NbInit => Atomic!Init
  BY DEF NbInit, Atomic!Init, VersionInReply
<1>2. /\ NbInv /\ NbInv' /\ NoFailure /\ NoFailure' /\ [NbNext]_nbVars
      => [Atomic!Next]_(Atomic!vars)
  <2>1. CASE UNCHANGED nbVars
    BY <2>1 DEF nbVars, callVars, wireVars, VersionInReply, Atomic!vars
  <2> QED BY <2>1, RefinementStep DEF NoFailure
<1>3. QED
  BY <1>1, <1>2, NbInvHolds, NoFailureHolds, PTL
     DEF NbSpec, ImplementsAtomicRead, Atomic!Spec

\* A step in which no receive fails takes no variable back, unless it takes
\* in an unfit value.
LEMMA ForwardStep ==
    ASSUME NbInv, [NbNext]_nbVars, fails' = 0, NEW r \in Registers
    PROVE  \/ latest'[r].ver >= latest[r].ver
           \/ /\ latest'[r].ver = 0
              /\ \E m \in toApp : m.kind = "unfit"
<1>1. /\ latest \in [Registers -> Reading]
      /\ \A q \in Registers : latest[q].ver \in Nat
  BY DEF NbInv, NbTypeOK, Reading
<1>2. CASE Receive
  <2>1. PICK m \in toApp : toApp' = toApp \ {m} /\ Parse(m)
    BY <1>2 DEF Receive
  <2>2. /\ m \in Reply /\ m.reg = reading /\ reading \in Registers
        /\ m.kind = "value" => latest[m.reg].ver <= m.ver
        /\ m.kind = "unfit" => m.ver = 0
    BY <1>2, <2>1 DEF Receive, NbInv, NbTypeOK, LockStep, ReplyAge, InFlight
  <2>3. CASE m.kind = "unfit"
    BY <1>1, <2>1, <2>2, <2>3 DEF Parse, Reply
  <2>4. CASE m.kind # "unfit"
    BY <1>1, <2>1, <2>2, <2>4 DEF Parse, Reply
  <2> QED BY <2>3, <2>4
<1>3. CASE ReceiveFails
  BY <1>3 DEF ReceiveFails, NbInv, NbTypeOK
<1>4. CASE UNCHANGED latest
  BY <1>1, <1>4
<1> QED
  BY <1>2, <1>3, <1>4
     DEF NbNext, Client, CallReturns, Environment, Gateway, Setup,
         InitIpPort, CallRegister, ReceiveInvalid, Destroy, Answer, Lose,
         DeviceChange, callVars, nbVars

\* A variable is never taken back to an older reading; an unfit value takes
\* the reading away.
THEOREM ReadsAreMonotonic == NbSpec => MonotonicReads
<1> DEFINE Forward ==
      fails' = 0 =>
        \A r \in Registers : \/ latest'[r].ver >= latest[r].ver
                              \/ /\ latest'[r].ver = 0
                                 /\ \E m \in toApp : m.kind = "unfit"
<1>1. NbInv /\ [NbNext]_nbVars => [Forward]_nbVars
  BY ForwardStep
<1>2. QED BY <1>1, NbInvHolds, PTL DEF NbSpec, MonotonicReads
=============================================================================
