------------------------ MODULE MbDataMessage_proofs ------------------------
(***************************************************************************)
(* Proofs about the message class.  MbInv says what is under way on the    *)
(* socket, whose it is, and what the failed receives may still cost.       *)
(***************************************************************************)
EXTENDS MbDataMessage, TLAPS

InFlight == toDaemon \cup toApp

\* One request or reply is under way, and only on a socket that awaits it; a
\* request may outlive the socket.
OneUnderWay ==
    /\ \A m, n \in toDaemon : m = n
    /\ \A m, n \in toApp : m = n
    /\ toDaemon = {} \/ toApp = {}
    /\ toDaemon # {} => requester \in {"awaiting", "closed"}
    /\ toApp # {} => requester = "awaiting"

\* While no receive has failed, what is under way is the call in progress or
\* the answer to it, and between calls the socket may send.
InStep ==
    fails = 0 =>
        /\ \A m \in toDaemon : call # Nil /\ m = call
        /\ \A m \in toApp : call # Nil /\ m.id = call.id
        /\ call = Nil => requester # "awaiting"

\* What the operation in progress has made of the callback.
CallbackSet ==
    call # Nil =>
        /\ call.op = "write_u16_register" => callback = Nil
        /\ call.op = "read_u16_register_callback" => callback \in Callbacks

CrashedIn ==
    crashed = "callback" =>
        call # Nil /\ call.op \in PlainReads

\* What may still go wrong of what has failed: a reply to another request, a
\* write whose call has returned, a request the socket will refuse.
StrayDebt ==
    IF \E m \in InFlight : call = Nil \/ m.id # call.id THEN 1 ELSE 0
LateDebt == IF \E m \in toDaemon : m # call THEN 1 ELSE 0
DropDebt == IF call = Nil /\ requester = "awaiting" THEN 1 ELSE 0

Debts ==
    /\ strays + StrayDebt <= 2 * fails
    /\ late + LateDebt <= fails
    /\ dropped + DropDebt <= fails

MbInv ==
    /\ TypeOK
    /\ OneUnderWay
    /\ InStep
    /\ CallbackSet
    /\ CrashedIn
    /\ Debts

-----------------------------------------------------------------------------
(* Type correctness.                                                       *)

LEMMA TypeInit == Init => TypeOK
BY DEF Init, TypeOK

LEMMA ParseType ==
    ASSUME TypeOK, call # Nil, NEW m \in Replies, Parse(m)
    PROVE  /\ call' \in Calls \cup {Nil}
           /\ asked' \in Callbacks \cup {Nil}
           /\ given' \in Seq(Words)
           /\ heard' \in Callbacks \cup {Nil}
           /\ strays' \in Nat
           /\ crashed' \in {Nil, "release", "callback"}
<1>1. m.vals \in Seq(Words) /\ <<>> \in Seq(Words)
  BY DEF Replies
<1>2. ASSUME NEW vals \in {<<>>, m.vals}, Return(m, vals),
             vals = <<>> \/ callback \in Callbacks
      PROVE  /\ call' = Nil /\ crashed' = crashed /\ asked' = Nil
             /\ given' \in Seq(Words) /\ strays' \in Nat
             /\ heard' \in Callbacks \cup {Nil}
  <2>1. (IF vals # <<>> /\ m.id # call.id THEN 1 ELSE 0) \in {0, 1}
    OBVIOUS
  <2>2. strays' \in Nat
    BY <1>2, <2>1 DEF TypeOK, Return
  <2>3. vals \in Seq(Words)
    BY <1>1
  <2> QED BY <1>2, <2>2, <2>3 DEF Return
<1>3. ASSUME NEW why, Crash(why)
      PROVE  /\ call' = call /\ crashed' = why /\ asked' = asked
             /\ given' \in Seq(Words) /\ strays' \in Nat
             /\ heard' \in Callbacks \cup {Nil}
  BY <1>3 DEF TypeOK, Crash
<1> QED
  BY <1>2, <1>3 DEF Parse, TypeOK

\* Every step keeps the types.
LEMMA TypeStep == TypeOK /\ [Next]_vars => TypeOK'
<1> SUFFICES ASSUME TypeOK, [Next]_vars PROVE TypeOK'
  OBVIOUS
<1> USE DEF objectVars, wireVars
<1>1. CASE InitZmq
  BY <1>1 DEF InitZmq, TypeOK
<1>2. CASE CloseZmq
  BY <1>2 DEF CloseZmq, TypeOK
<1>3. ASSUME NEW op \in Ops, NEW reg \in Registers, NEW val \in Words,
             NEW cbf \in Callbacks, Request(op, reg, val, cbf)
      PROVE  TypeOK'
  <2>1. call' \in Calls
    BY <1>3, NilAssumption DEF Request, ValueFor, FreshIds, Calls
  <2>2. callback' \in Callbacks \cup {Nil, "unset"}
    BY <1>3 DEF Request, CallbackFor, TypeOK
  <2>3. /\ requester' \in {"none", "ready", "awaiting", "invalid",
                            "unconnected", "closed"}
        /\ toDaemon' \subseteq Calls
        /\ dropped' \in Nat
        /\ crashed' \in {Nil, "release", "callback"}
    BY <1>3, <2>1 DEF Request, Send, TypeOK
  <2> QED BY <1>3, <2>1, <2>2, <2>3 DEF Request, TypeOK
<1>4. CASE Receive
  <2>1. PICK m \in toApp : toApp' = toApp \ {m} /\ lastBuf' = m /\ Parse(m)
    BY <1>4 DEF Receive
  <2>2. m \in Replies /\ call # Nil
    BY <1>4, <2>1 DEF Receive, Waiting, TypeOK
  <2> QED BY <1>4, <2>1, <2>2, ParseType DEF Receive, TypeOK
<1>5. CASE ReceiveFails
  <2>1. CASE Return(Nil, <<>>)
    BY <1>5, <2>1 DEF ReceiveFails, Return, TypeOK
  <2>2. CASE lastBuf # Nil /\ Parse(lastBuf)
    BY <1>5, <2>2, ParseType DEF ReceiveFails, Waiting, TypeOK
  <2> QED BY <1>5, <2>1, <2>2 DEF ReceiveFails
<1>6. CASE ReceiveInvalid
  BY <1>6 DEF ReceiveInvalid, Return, TypeOK
<1>7. ASSUME NEW m \in toDaemon, NEW body \in Bodies, Answer(m, body)
      PROVE  TypeOK'
  <2>1. m \in Calls /\ m.reg \in Registers /\ m.id \in Ids
    BY <1>7 DEF TypeOK, Calls
  <2>2. m.op = "write_u16_register" => m.val \in Words
    BY <2>1 DEF Calls
  <2>3. device' \in [Registers -> Words] /\ late' \in Nat
    BY <1>7, <2>1, <2>2 DEF Answer, TypeOK
  <2>4. PICK vals \in {<<>>, <<IF m.op = "write_u16_register" THEN m.val
                                                   ELSE device[m.reg]>>} :
          toApp' = IF requester = "awaiting"
                   THEN toApp \cup {[id |-> m.id, body |-> body, vals |-> vals]}
                   ELSE toApp
    BY <1>7 DEF Answer
  <2>5. vals \in Seq(Words)
    <3>1. (IF m.op = "write_u16_register" THEN m.val ELSE device[m.reg]) \in Words
      BY <2>1, <2>2 DEF TypeOK
    <3>2. <<>> \in Seq(Words) /\ \A w \in Words : <<w>> \in Seq(Words)
      OBVIOUS
    <3> QED BY <3>1, <3>2, Zenon
  <2>6. toApp' \subseteq Replies
    BY <2>1, <2>4, <2>5 DEF TypeOK, Replies
  <2> QED BY <1>7, <2>3, <2>6 DEF Answer, TypeOK
<1>8. CASE Lose
  BY <1>8 DEF Lose, TypeOK
<1>9. ASSUME NEW reg \in Registers, NEW word \in Words, DeviceChange(reg, word)
      PROVE  TypeOK'
  BY <1>9 DEF DeviceChange, TypeOK
<1>10. CASE UNCHANGED vars
  BY <1>10 DEF vars, TypeOK
<1> QED
  BY <1>1, <1>2, <1>3, <1>4, <1>5, <1>6, <1>7, <1>8, <1>9, <1>10
     DEF Next, Operation

\* Every state of the message class has the declared types; in particular a
\* request has a value with it just if it is a write.
THEOREM TypeCorrect == Spec => []TypeOK
<1>1. QED BY TypeInit, TypeStep, PTL DEF Spec

-----------------------------------------------------------------------------
(* The invariant.                                                          *)

LEMMA InvInit == Init => MbInv
<1> SUFFICES ASSUME Init PROVE MbInv
  OBVIOUS
<1>1. TypeOK
  BY TypeInit
<1>2. InFlight = {} /\ StrayDebt = 0 /\ LateDebt = 0 /\ DropDebt = 0
  BY DEF Init, InFlight, StrayDebt, LateDebt, DropDebt
<1>3. Debts
  BY <1>2 DEF Init, Debts
<1> QED
  BY <1>1, <1>3, NilAssumption
     DEF Init, MbInv, OneUnderWay, InStep, CallbackSet, CrashedIn

\* The arithmetic of the bounds, for the provers.
LEMMA OneFailureMore ==
    ASSUME NEW a \in Nat, NEW b \in Nat, NEW c \in Nat, NEW d \in {0, 1},
           NEW f \in Nat
    PROVE  /\ a + b <= 2 * f /\ c <= a + 1 => c + d <= 2 * (f + 1)
           /\ a + b <= f => a + d <= f + 1
OBVIOUS

LEMMA DebtRange ==
    StrayDebt \in {0, 1} /\ LateDebt \in {0, 1} /\ DropDebt \in {0, 1}
BY DEF StrayDebt, LateDebt, DropDebt

LEMMA DebtRangeNext ==
    StrayDebt' \in {0, 1} /\ LateDebt' \in {0, 1} /\ DropDebt' \in {0, 1}
BY DEF StrayDebt, LateDebt, DropDebt

\* While none fails, the debts are kept if none of them grows unpaid.
LEMMA DebtsKept ==
    ASSUME MbInv, TypeOK', fails' = fails,
           \/ strays' = strays /\ (StrayDebt' = 0 \/ StrayDebt' = StrayDebt)
           \/ strays' = strays + 1 /\ StrayDebt = 1 /\ StrayDebt' = 0,
           \/ late' = late /\ (LateDebt' = 0 \/ LateDebt' = LateDebt)
           \/ late' = late + 1 /\ LateDebt = 1 /\ LateDebt' = 0,
           \/ dropped' = dropped /\ (DropDebt' = 0 \/ DropDebt' = DropDebt)
           \/ dropped' = dropped + 1 /\ DropDebt = 1 /\ DropDebt' = 0
    PROVE  Debts'
<1>1. /\ strays \in Nat /\ late \in Nat /\ dropped \in Nat /\ fails \in Nat
      /\ strays + StrayDebt <= 2 * fails
      /\ late + LateDebt <= fails
      /\ dropped + DropDebt <= fails
  BY DEF MbInv, TypeOK, Debts
<1>2. \A a \in Nat, b \in {0, 1}, f \in Nat :
        /\ a + b <= f => a + 0 <= f
        /\ a + 1 <= f => (a + 1) + 0 <= f
  OBVIOUS
<1>3. strays' + StrayDebt' <= 2 * fails
  <2>1. 2 * fails \in Nat
    BY <1>1
  <2>2. CASE strays' = strays /\ StrayDebt' = StrayDebt
    BY <1>1, <2>2
  <2>3. CASE strays' = strays /\ StrayDebt' = 0
    BY <1>1, <1>2, <2>1, <2>3, DebtRange
  <2>4. CASE strays' = strays + 1 /\ StrayDebt = 1 /\ StrayDebt' = 0
    BY <1>1, <1>2, <2>1, <2>4
  <2> QED BY <2>2, <2>3, <2>4
<1>4. late' + LateDebt' <= fails
  <2>2. CASE late' = late /\ LateDebt' = LateDebt
    BY <1>1, <2>2
  <2>3. CASE late' = late /\ LateDebt' = 0
    BY <1>1, <1>2, <2>3, DebtRange
  <2>4. CASE late' = late + 1 /\ LateDebt = 1 /\ LateDebt' = 0
    BY <1>1, <1>2, <2>4
  <2> QED BY <2>2, <2>3, <2>4
<1>5. dropped' + DropDebt' <= fails
  <2>2. CASE dropped' = dropped /\ DropDebt' = DropDebt
    BY <1>1, <2>2
  <2>3. CASE dropped' = dropped /\ DropDebt' = 0
    BY <1>1, <1>2, <2>3, DebtRange
  <2>4. CASE dropped' = dropped + 1 /\ DropDebt = 1 /\ DropDebt' = 0
    BY <1>1, <1>2, <2>4
  <2> QED BY <2>2, <2>3, <2>4
<1> QED BY <1>3, <1>4, <1>5 DEF Debts

-----------------------------------------------------------------------------
(* Every step keeps the invariant.                                         *)

LEMMA InitZmqInv == MbInv /\ InitZmq /\ TypeOK' => MbInv'
<1> SUFFICES ASSUME MbInv, InitZmq, TypeOK' PROVE MbInv'
  OBVIOUS
<1> USE DEF objectVars, wireVars
<1>1. toDaemon = {} /\ toApp = {}
  BY DEF MbInv, OneUnderWay, InitZmq
<1>2. StrayDebt' = StrayDebt /\ LateDebt' = LateDebt /\ DropDebt' = 0
  BY DEF InitZmq, StrayDebt, LateDebt, DropDebt, InFlight
<1>3. Debts'
  BY <1>2, DebtsKept DEF InitZmq
<1>4. OneUnderWay' /\ InStep' /\ CallbackSet' /\ CrashedIn'
  BY <1>1 DEF MbInv, OneUnderWay, InStep, CallbackSet, CrashedIn, InitZmq
<1> QED BY <1>3, <1>4 DEF MbInv

LEMMA CloseZmqInv == MbInv /\ CloseZmq /\ TypeOK' => MbInv'
<1> SUFFICES ASSUME MbInv, CloseZmq, TypeOK' PROVE MbInv'
  OBVIOUS
<1> USE DEF objectVars, wireVars
<1>1. StrayDebt' \in {0, StrayDebt}
  BY DEF CloseZmq, StrayDebt, InFlight
<1>2. LateDebt' = LateDebt /\ DropDebt' = 0
  BY DEF CloseZmq, LateDebt, DropDebt
<1>3. Debts'
  BY <1>1, <1>2, DebtsKept DEF CloseZmq
<1>4. OneUnderWay' /\ InStep' /\ CallbackSet' /\ CrashedIn'
  BY DEF MbInv, OneUnderWay, InStep, CallbackSet, CrashedIn, CloseZmq
<1> QED BY <1>3, <1>4 DEF MbInv

\* A new call pays for what is still under way by its fresh id: that stays
\* what it was, another's.
LEMMA RequestInv ==
    ASSUME NEW op \in Ops, NEW reg \in Registers, NEW val \in Words,
           NEW cbf \in Callbacks,
           MbInv, Request(op, reg, val, cbf), TypeOK'
    PROVE  MbInv'
<1> USE DEF objectVars, wireVars
<1>1. PICK id \in FreshIds :
        call' = [op |-> op, reg |-> reg, id |-> id, val |-> ValueFor(op, val)]
  BY DEF Request
<1>2. /\ call = Nil /\ crashed = Nil
      /\ call' # Nil /\ call'.id = id /\ call'.op = op
  <2>1. call' \in Calls
    BY <1>1, NilAssumption DEF ValueFor, FreshIds, Calls
  <2>2. call' # Nil
    BY <2>1, NilAssumption
  <2>3. call'.id = id /\ call'.op = op
    BY <1>1
  <2> QED BY <2>2, <2>3 DEF Request, Idle
<1>3. \A m \in InFlight : m.id # id
  BY <1>1 DEF FreshIds, InFlight
<1>4. /\ toApp' = toApp /\ fails' = fails /\ strays' = strays /\ late' = late
      /\ callback' = CallbackFor(op, cbf) /\ crashed' \in {crashed, "release"}
  BY DEF Request
<1>5. \/ toDaemon' = toDaemon /\ requester # "ready" /\ requester' = requester
      \/ toDaemon' = toDaemon /\ requester' = requester /\ dropped' = dropped
      \/ /\ toDaemon' = toDaemon \cup {call'}
         /\ requester = "ready" /\ requester' = "awaiting" /\ dropped' = dropped
  BY DEF Request, Send, TypeOK, MbInv
<1>6. requester = "ready" => InFlight = {}
  BY DEF MbInv, OneUnderWay, InFlight
<1>7. OneUnderWay'
  BY <1>4, <1>5, <1>6 DEF MbInv, OneUnderWay, InFlight
<1>8. StrayDebt' = StrayDebt /\ LateDebt' = LateDebt
  <2>1. StrayDebt = (IF InFlight # {} THEN 1 ELSE 0)
    BY <1>2 DEF StrayDebt
  <2>2. LateDebt = (IF toDaemon # {} THEN 1 ELSE 0)
    <3>1. \A m \in toDaemon : m # Nil
      BY NilAssumption DEF MbInv, TypeOK
    <3> QED BY <1>2, <3>1 DEF LateDebt
  <2>3. CASE toDaemon' = toDaemon
    <3>1. InFlight' = InFlight
      BY <1>4, <2>3 DEF InFlight
    <3>2. \A m \in InFlight : m.id # call'.id
      BY <1>2, <1>3
    <3>3. \A m \in toDaemon : m # call'
      BY <3>2 DEF InFlight
    <3>4. StrayDebt' = (IF InFlight # {} THEN 1 ELSE 0)
      BY <1>2, <3>1, <3>2 DEF StrayDebt
    <3>5. LateDebt' = (IF toDaemon # {} THEN 1 ELSE 0)
      BY <2>3, <3>3 DEF LateDebt
    <3> QED BY <2>1, <2>2, <3>4, <3>5
  <2>4. CASE toDaemon' = toDaemon \cup {call'} /\ requester = "ready"
    <3>1. InFlight = {} /\ toDaemon = {} /\ InFlight' = {call'} /\ toDaemon' = {call'}
      BY <1>4, <1>6, <2>4 DEF InFlight
    <3>2. StrayDebt' = 0 /\ LateDebt' = 0
      BY <1>2, <3>1 DEF StrayDebt, LateDebt
    <3> QED BY <2>1, <2>2, <3>1, <3>2
  <2> QED BY <1>5, <2>3, <2>4
<1>9. /\ DropDebt' = 0
      /\ \/ dropped' = dropped
         \/ dropped' = dropped + 1 /\ DropDebt = 1
  <2>1. dropped \in Nat
    BY DEF MbInv, TypeOK
  <2>2. DropDebt' = 0
    BY <1>2 DEF DropDebt
  <2>3. CASE requester = "awaiting"
    BY <1>2, <2>2, <2>3 DEF Request, Send, DropDebt
  <2>4. CASE requester # "awaiting"
    BY <2>1, <2>2, <2>4 DEF Request, Send
  <2> QED BY <2>2, <2>3, <2>4
<1>10. Debts'
  BY <1>4, <1>8, <1>9, DebtsKept
<1>11. InStep'
  <2>1. fails = 0 => toDaemon = {} /\ toApp = {}
    BY <1>2 DEF MbInv, InStep
  <2> QED BY <1>2, <1>4, <1>5, <2>1 DEF InStep
<1>12. CallbackSet' /\ CrashedIn'
  <2>1. CallbackSet'
    BY <1>2, <1>4 DEF CallbackSet, CallbackFor
  <2>2. Nil # "callback"
    BY NilAssumption
  <2> QED BY <1>2, <1>4, <2>1, <2>2 DEF CrashedIn
<1> QED BY <1>7, <1>10, <1>11, <1>12 DEF MbInv

\* What Return and Parse make of the variables they touch, besides the types.
LEMMA ReturnEffect ==
    ASSUME MbInv, Waiting, NEW m, NEW vals, Return(m, vals)
    PROVE  /\ call' = Nil
           /\ crashed' # "callback"
           /\ \/ strays' = strays
              \/ strays' = strays + 1 /\ m.id # call.id
<1>1. strays \in Nat
  BY DEF MbInv, TypeOK
<1>2. crashed' # "callback"
  BY NilAssumption DEF Return, Waiting
<1> QED BY <1>1, <1>2 DEF Return

LEMMA ParseEffect ==
    ASSUME MbInv, Waiting, NEW m, Parse(m)
    PROVE  /\ call' \in {call, Nil}
           /\ CrashedIn'
           /\ \/ strays' = strays
              \/ strays' = strays + 1 /\ m.id # call.id
<1>1. CASE m.body = "bad payload" /\ Crash("release")
  BY <1>1 DEF Crash, CrashedIn
<1>2. CASE \E vals : Return(m, vals)
  BY <1>2, ReturnEffect DEF CrashedIn
<1>3. CASE callback = "unset" /\ Crash("callback")
  <2>1. call.op \in PlainReads
    <3>1. call.op \in Ops
      BY DEF MbInv, TypeOK, Calls, Waiting
    <3>2. "unset" # Nil /\ "unset" \notin Callbacks
      BY NilAssumption
    <3> QED BY <1>3, <3>1, <3>2 DEF MbInv, CallbackSet, Ops, ReadOps, PlainReads,
                             Waiting
  <2> QED BY <1>3, <2>1 DEF Crash, CrashedIn, Waiting
<1> QED
  BY <1>1, <1>2, <1>3 DEF Parse

LEMMA ReceiveInv == MbInv /\ Receive /\ TypeOK' => MbInv'
<1> SUFFICES ASSUME MbInv, Receive, TypeOK' PROVE MbInv'
  OBVIOUS
<1> USE DEF objectVars, wireVars
<1>1. PICK m \in toApp : toApp' = toApp \ {m} /\ lastBuf' = m /\ Parse(m)
  BY DEF Receive
<1>2. /\ Waiting /\ requester = "awaiting" /\ requester' = "ready"
      /\ callback' = callback /\ toDaemon' = toDaemon
      /\ fails' = fails /\ late' = late /\ dropped' = dropped
  BY DEF Receive
<1>3. toApp = {m} /\ toApp' = {} /\ toDaemon' = {}
  BY <1>1, <1>2 DEF MbInv, OneUnderWay
<1>4. /\ call' \in {call, Nil}
      /\ CrashedIn'
      /\ \/ strays' = strays
         \/ strays' = strays + 1 /\ m.id # call.id
  BY <1>1, <1>2, ParseEffect
<1>5. StrayDebt' = 0 /\ LateDebt' = 0 /\ DropDebt' = 0
  BY <1>2, <1>3 DEF StrayDebt, LateDebt, DropDebt, InFlight
<1>6. m.id # call.id => StrayDebt = 1
  BY <1>3 DEF StrayDebt, InFlight
<1>7. Debts'
  BY <1>2, <1>4, <1>5, <1>6, DebtsKept
<1>8. OneUnderWay' /\ InStep'
  BY <1>2, <1>3 DEF OneUnderWay, InStep
<1>9. CallbackSet'
  BY <1>2, <1>4 DEF MbInv, CallbackSet
<1> QED BY <1>4, <1>7, <1>8, <1>9 DEF MbInv

\* A failed receive pays for all that it may cost.
LEMMA ReceiveFailsInv == MbInv /\ ReceiveFails /\ TypeOK' => MbInv'
<1> SUFFICES ASSUME MbInv, ReceiveFails, TypeOK' PROVE MbInv'
  OBVIOUS
<1> USE DEF objectVars, wireVars
<1>1. /\ Waiting /\ requester = "awaiting" /\ requester' = requester
      /\ callback' = callback /\ toDaemon' = toDaemon /\ toApp' = toApp
      /\ fails' = fails + 1 /\ late' = late /\ dropped' = dropped
  BY DEF ReceiveFails
<1>2. /\ call' \in {call, Nil}
      /\ CrashedIn'
      /\ \/ strays' = strays
         \/ strays' = strays + 1
  <2>1. CASE Return(Nil, <<>>)
    BY <1>1, <2>1, ReturnEffect DEF CrashedIn
  <2>2. CASE Parse(lastBuf)
    BY <1>1, <2>2, ParseEffect
  <2> QED BY <2>1, <2>2 DEF ReceiveFails
<1>3. Debts'
  <2>1. /\ strays \in Nat /\ late \in Nat /\ dropped \in Nat /\ fails \in Nat
        /\ strays' \in Nat
        /\ strays + StrayDebt <= 2 * fails
        /\ late + LateDebt <= fails
        /\ dropped + DropDebt <= fails
    BY DEF MbInv, TypeOK, Debts
  <2>2. strays' <= strays + 1
    BY <1>2, <2>1
  <2>3. /\ StrayDebt \in Nat /\ LateDebt \in Nat /\ DropDebt \in Nat
    BY DebtRange
  <2>4. strays' + StrayDebt' <= 2 * (fails + 1)
    BY <2>1, <2>2, <2>3, DebtRangeNext, OneFailureMore
  <2>5. late + LateDebt' <= fails + 1
    BY <2>1, <2>3, DebtRangeNext, OneFailureMore
  <2>6. dropped + DropDebt' <= fails + 1
    BY <2>1, <2>3, DebtRangeNext, OneFailureMore
  <2> QED BY <1>1, <2>4, <2>5, <2>6 DEF Debts
<1>4. OneUnderWay'
  BY <1>1 DEF MbInv, OneUnderWay
<1>5. InStep'
  <2>1. fails' # 0
    BY <1>1 DEF MbInv, TypeOK
  <2> QED BY <2>1 DEF InStep
<1>6. CallbackSet'
  BY <1>1, <1>2 DEF MbInv, CallbackSet
<1> QED BY <1>2, <1>3, <1>4, <1>5, <1>6 DEF MbInv

LEMMA ReceiveInvalidInv == MbInv /\ ReceiveInvalid /\ TypeOK' => MbInv'
<1> SUFFICES ASSUME MbInv, ReceiveInvalid, TypeOK' PROVE MbInv'
  OBVIOUS
<1> USE DEF objectVars, wireVars
<1>1. /\ Waiting /\ requester = "invalid" /\ requester' = requester
      /\ Return(Nil, <<>>)
      /\ callback' = callback /\ toDaemon' = toDaemon /\ toApp' = toApp
      /\ fails' = fails /\ late' = late /\ dropped' = dropped
  BY DEF ReceiveInvalid
<1>2. toDaemon = {} /\ toApp = {}
  BY <1>1 DEF MbInv, OneUnderWay
<1>3. call' = Nil /\ crashed' # "callback" /\ strays' = strays
  <2>1. strays' = strays + 0
    BY <1>1 DEF Return
  <2>2. strays' = strays
    BY <2>1 DEF MbInv, TypeOK
  <2> QED BY <1>1, <2>2, ReturnEffect
<1>4. StrayDebt' = 0 /\ LateDebt' = 0 /\ DropDebt' = 0
  BY <1>1, <1>2 DEF StrayDebt, LateDebt, DropDebt, InFlight
<1>5. Debts'
  BY <1>1, <1>3, <1>4, DebtsKept
<1>6. OneUnderWay' /\ InStep' /\ CallbackSet' /\ CrashedIn'
  BY <1>1, <1>2, <1>3 DEF OneUnderWay, InStep, CallbackSet, CrashedIn
<1> QED BY <1>5, <1>6 DEF MbInv

\* An answer to another request than that of the call in progress is paid for.
LEMMA AnswerInv ==
    ASSUME NEW m \in toDaemon, NEW body \in Bodies, MbInv, Answer(m, body),
           TypeOK'
    PROVE  MbInv'
<1> USE DEF objectVars, wireVars
<1>1. /\ requester' = requester /\ callback' = callback /\ call' = call
      /\ crashed' = crashed /\ fails' = fails /\ strays' = strays
      /\ dropped' = dropped
  BY DEF Answer
<1>2. toDaemon = {m} /\ toDaemon' = {} /\ toApp = {}
  BY DEF Answer, MbInv, OneUnderWay
<1>3. PICK vals \in {<<>>, <<IF m.op = "write_u16_register" THEN m.val
                                                   ELSE device[m.reg]>>} :
        /\ body # "tree" => vals = <<>>
        /\ toApp' = IF requester = "awaiting"
                    THEN toApp \cup {[id |-> m.id, body |-> body, vals |-> vals]}
                    ELSE toApp
  BY DEF Answer
<1>4. \A n \in toApp' : n.id = m.id /\ n = [id |-> m.id, body |-> body, vals |-> vals]
  BY <1>2, <1>3
<1>5. OneUnderWay'
  <2>1. \A n, k \in toApp' : n = k
    BY <1>4
  <2>2. toApp' # {} => requester = "awaiting"
    BY <1>2, <1>3
  <2> QED BY <1>1, <1>2, <2>1, <2>2 DEF OneUnderWay
<1>6. InStep'
  <2>1. CASE fails = 0
    <3>1. call # Nil /\ m = call
      BY <2>1 DEF MbInv, InStep
    <3>2. \A n \in toApp' : n.id = call.id
      BY <1>3, <1>4, <3>1
    <3> QED BY <1>1, <1>2, <3>1, <3>2 DEF InStep
  <2>2. CASE fails # 0
    BY <1>1, <2>2 DEF InStep
  <2> QED BY <2>1, <2>2
<1>7. StrayDebt' \in {0, StrayDebt}
  <2>1. InFlight = {m} /\ InFlight' = toApp'
    BY <1>2 DEF InFlight
  <2>2. CASE call = Nil \/ m.id # call.id
    BY <2>1, <2>2 DEF StrayDebt
  <2>3. CASE ~(call = Nil \/ m.id # call.id)
    <3>1. \A n \in InFlight' : ~(call' = Nil \/ n.id # call'.id)
      BY <1>1, <1>4, <2>1, <2>3
    <3> QED BY <3>1 DEF StrayDebt
  <2> QED BY <2>2, <2>3, DebtRangeNext
<1>8. /\ LateDebt' = 0
      /\ \/ late' = late
         \/ late' = late + 1 /\ LateDebt = 1
  <2>1. LateDebt' = 0
    BY <1>2 DEF LateDebt
  <2>2. late' = late \/ late' = late + (IF m = call THEN 0 ELSE 1)
    BY DEF Answer
  <2>3. m # call => LateDebt = 1
    BY DEF LateDebt
  <2>4. late \in Nat
    BY DEF MbInv, TypeOK
  <2> QED BY <2>1, <2>2, <2>3, <2>4
<1>9. DropDebt' = DropDebt
  BY <1>1 DEF DropDebt
<1>10. Debts'
  BY <1>1, <1>7, <1>8, <1>9, DebtsKept
<1>11. CallbackSet' /\ CrashedIn'
  BY <1>1 DEF MbInv, CallbackSet, CrashedIn
<1> QED BY <1>5, <1>6, <1>10, <1>11 DEF MbInv

LEMMA LoseInv == MbInv /\ Lose /\ TypeOK' => MbInv'
<1> SUFFICES ASSUME MbInv, Lose, TypeOK' PROVE MbInv'
  OBVIOUS
<1> USE DEF objectVars, wireVars
<1>1. StrayDebt' = 0 /\ LateDebt' = 0 /\ DropDebt' = DropDebt
  BY DEF Lose, StrayDebt, LateDebt, DropDebt, InFlight
<1>2. Debts'
  BY <1>1, DebtsKept DEF Lose
<1>3. OneUnderWay' /\ InStep' /\ CallbackSet' /\ CrashedIn'
  BY DEF MbInv, OneUnderWay, InStep, CallbackSet, CrashedIn, Lose
<1> QED BY <1>2, <1>3 DEF MbInv

\* Steps that touch nothing the invariant is about.
LEMMA UntouchedInv ==
    ASSUME MbInv, TypeOK',
           UNCHANGED <<requester, callback, call, crashed, wireVars, fails,
                       strays, late, dropped>>
    PROVE  MbInv'
<1> USE DEF wireVars
<1>1. OneUnderWay' /\ InStep' /\ CallbackSet' /\ CrashedIn'
  BY DEF MbInv, OneUnderWay, InStep, CallbackSet, CrashedIn
<1>2. StrayDebt' = StrayDebt /\ LateDebt' = LateDebt /\ DropDebt' = DropDebt
  BY DEF StrayDebt, LateDebt, DropDebt, InFlight
<1>3. Debts'
  BY <1>2, DebtsKept
<1> QED BY <1>1, <1>3 DEF MbInv

LEMMA InvStep == MbInv /\ [Next]_vars => MbInv'
<1> SUFFICES ASSUME MbInv, [Next]_vars PROVE MbInv'
  OBVIOUS
<1>t. TypeOK'
  BY TypeStep DEF MbInv
<1>1. CASE InitZmq
  BY <1>1, <1>t, InitZmqInv
<1>2. CASE CloseZmq
  BY <1>2, <1>t, CloseZmqInv
<1>3. CASE Operation
  BY <1>3, <1>t, RequestInv DEF Operation
<1>4. CASE Receive
  BY <1>4, <1>t, ReceiveInv
<1>5. CASE ReceiveFails
  BY <1>5, <1>t, ReceiveFailsInv
<1>6. CASE ReceiveInvalid
  BY <1>6, <1>t, ReceiveInvalidInv
<1>7. CASE \E m \in toDaemon, body \in Bodies : Answer(m, body)
  BY <1>7, <1>t, AnswerInv
<1>8. CASE Lose
  BY <1>8, <1>t, LoseInv
<1>9. CASE \E reg \in Registers, word \in Words : DeviceChange(reg, word)
  BY <1>9, <1>t, UntouchedInv DEF DeviceChange, objectVars
<1>10. CASE UNCHANGED vars
  BY <1>10, <1>t, UntouchedInv DEF vars, objectVars
<1> QED
  BY <1>1, <1>2, <1>3, <1>4, <1>5, <1>6, <1>7, <1>8, <1>9, <1>10 DEF Next

\* MbInv holds in every state of the message class.
THEOREM MbInvariant == Spec => []MbInv
<1>1. QED BY InvInit, InvStep, PTL DEF Spec

-----------------------------------------------------------------------------
(* What it implies.                                                        *)

LEMMA DebtsPaid ==
    MbInv => StrayBound /\ LateWriteBound /\ DroppedBound
<1> SUFFICES ASSUME MbInv PROVE StrayBound /\ LateWriteBound /\ DroppedBound
  OBVIOUS
<1>1. /\ strays \in Nat /\ late \in Nat /\ dropped \in Nat /\ fails \in Nat
      /\ strays + StrayDebt <= 2 * fails
      /\ late + LateDebt <= fails
      /\ dropped + DropDebt <= fails
  BY DEF MbInv, TypeOK, Debts
<1>2. StrayDebt \in Nat /\ LateDebt \in Nat /\ DropDebt \in Nat
  BY DebtRange
<1>3. \A a, b, c \in Nat : a + b <= c => a <= c
  OBVIOUS
<1>4. 2 * fails \in Nat
  BY <1>1
<1>5. strays <= 2 * fails
  BY <1>1, <1>2, <1>3, <1>4
<1>6. late <= fails /\ dropped <= fails
  BY <1>1, <1>2, <1>3
<1> QED BY <1>5, <1>6 DEF StrayBound, LateWriteBound, DroppedBound

\* However many calls are made on however many registers: a failed zmq_recv
\* makes at most two values reach a callback for another request's.
THEOREM StraysBounded == Spec => []StrayBound
<1>1. QED BY MbInvariant, DebtsPaid, PTL

\* A write is carried out after its call has returned at most once for each
\* failed zmq_recv, and never while none has failed.
THEOREM LateWritesBounded == Spec => []LateWriteBound
<1>1. QED BY MbInvariant, DebtsPaid, PTL

\* A request is refused by the socket, which no caller learns, at most once
\* for each failed zmq_recv.
THEOREM DroppedBounded == Spec => []DroppedBound
<1>1. QED BY MbInvariant, DebtsPaid, PTL

\* The program never jumps through the unset callback pointer in a write, nor
\* in a read that is given a callback of its own.
THEOREM UnsetOnly == Spec => UnsetOnlyInPlainReads
<1>1. ASSUME MbInv, MbInv', [Next]_vars, crashed' = "callback"
      PROVE  call.op \in PlainReads
  <2> USE DEF objectVars, wireVars
  <2>1. call' # Nil /\ call'.op \in PlainReads
    BY <1>1 DEF MbInv, CrashedIn
  <2>2. CASE Operation
    <3>1. crashed' \in {Nil, "release"}
      BY <2>2 DEF Operation, Request, Idle
    <3> QED BY <1>1, <3>1, NilAssumption
  <2>3. CASE Receive
    BY <1>1, <2>1, <2>3, ParseEffect DEF Receive
  <2>4. CASE ReceiveFails
    <3>1. CASE Return(Nil, <<>>)
      BY <1>1, <2>1, <2>4, <3>1, ReturnEffect DEF ReceiveFails
    <3>2. CASE Parse(lastBuf)
      BY <1>1, <2>1, <2>4, <3>2, ParseEffect DEF ReceiveFails
    <3> QED BY <2>4, <3>1, <3>2 DEF ReceiveFails
  <2>5. CASE ReceiveInvalid
    BY <2>1, <2>5 DEF ReceiveInvalid, Return
  <2>6. CASE UNCHANGED call
    BY <2>1, <2>6
  <2> QED
    BY <1>1, <2>2, <2>3, <2>4, <2>5, <2>6
       DEF Next, vars, InitZmq, CloseZmq, Answer, Lose, DeviceChange
<1>2. MbInv /\ MbInv' /\ [Next]_vars =>
        [crashed' = "callback" =>
           call.op \in PlainReads]_vars
  BY <1>1
<1>3. Spec => [][crashed' = "callback" =>
                   call.op \in PlainReads]_vars
  BY <1>2, MbInvariant, PTL DEF Spec
<1> QED BY <1>3 DEF UnsetOnlyInPlainReads

-----------------------------------------------------------------------------
(* The class implements RegisterAccess.                                    *)

LEMMA SampleOf ==
    /\ call = Nil \/ toApp = {} => Sample = <<>>
    /\ \A m : call # Nil /\ toApp = {m} => Sample = m.vals
BY DEF Sample

LEMMA SampleOfNext ==
    /\ call' = Nil \/ toApp' = {} => Sample' = <<>>
    /\ \A m : call' # Nil /\ toApp' = {m} => Sample' = m.vals
BY DEF Sample

LEMMA AccessInit == Init => Access!Init
<1> SUFFICES ASSUME Init PROVE Access!Init
  OBVIOUS
<1>1. /\ device \in [Registers -> Words] /\ call = Nil /\ given = <<>>
      /\ fails = 0
  BY DEF Init
<1>2. Sample = <<>>
  BY <1>1, SampleOf
<1>3. (call # Nil /\ toDaemon = {}) = FALSE /\ (fails > 0) = FALSE
  BY <1>1
<1>4. asked = Nil /\ heard = Nil /\ Held = Nil
  BY DEF Init, Held
<1> QED BY <1>1, <1>2, <1>3, <1>4 DEF Access!Init

\* A step that changes neither the call nor what is seen of it.
LEMMA AccessStutter ==
    ASSUME UNCHANGED <<device, callback, call, asked, given, heard, fails>>,
           Sample' = Sample, call = Nil \/ UNCHANGED toDaemon
    PROVE  UNCHANGED Access!vars
<1>1. (call # Nil /\ toDaemon = {})' = (call # Nil /\ toDaemon = {})
  OBVIOUS
<1>2. (fails > 0)' = (fails > 0) /\ Held' = Held
  BY DEF Held
<1> QED BY <1>1, <1>2 DEF Access!vars

LEMMA OpOfCall ==
    ASSUME TypeOK, call # Nil
    PROVE  call \in Calls /\ call.op \in Ops /\ call.op # Nil
<1>1. call \in Calls /\ call.op \in Ops
  BY DEF TypeOK, Calls
<1> QED BY <1>1, NilAssumption

LEMMA AccessReturn ==
    ASSUME TypeOK, call # Nil, call' = Nil, asked' = Nil,
           UNCHANGED <<device, callback>>,
           \/ given' = <<>> /\ heard' = Nil
           \/ /\ call.op # "write_u16_register" /\ callback \in Callbacks
              /\ given' = Sample /\ Sample # <<>> /\ heard' = callback
    PROVE  Access!Return
<1>1. call.op # Nil
  BY OpOfCall
<1>2. Sample' = <<>>
  BY SampleOfNext
<1>3. /\ Held' = Held
      /\ callback \in Callbacks => Held = callback /\ Held # Nil
  BY NilAssumption DEF Held
<1>4. (call # Nil /\ toDaemon = {})' = FALSE
  OBVIOUS
<1> QED BY <1>1, <1>2, <1>3, <1>4 DEF Access!Return

LEMMA AccessBegin ==
    ASSUME NEW op \in Ops, NEW reg \in Registers, NEW val \in Words,
           NEW cbf \in Callbacks, MbInv, MbInv', fails = 0,
           Request(op, reg, val, cbf)
    PROVE  Access!Begin
<1>1. call = Nil /\ toApp' = toApp /\ given' = <<>> /\ device' = device
  BY DEF Request, Idle
<1>2. call'.op = op /\ op # Nil /\ call' # Nil
  <2>1. call' \in Calls /\ call'.op = op
    BY NilAssumption DEF Request, ValueFor, FreshIds, Calls
  <2> QED BY <2>1, NilAssumption
<1>3. toApp' = {}
  BY <1>1 DEF MbInv, InStep
<1>4. Sample' = <<>>
  BY <1>3, SampleOfNext
<1>5. (call # Nil /\ toDaemon = {})' \in BOOLEAN
  OBVIOUS
<1>6. Held' = CASE op \in PlainReads -> Held
                [] op = "write_u16_register" -> Nil
                [] OTHER -> asked'
  <2>1. CASE op \in PlainReads
    BY <2>1 DEF Request, CallbackFor, PlainReads, Held
  <2>2. CASE op = "write_u16_register"
    BY <2>2, NilAssumption DEF Request, CallbackFor, PlainReads, Held
  <2>3. CASE op = "read_u16_register_callback"
    BY <2>3, NilAssumption DEF Request, CallbackFor, PlainReads, Held
  <2> QED BY <2>1, <2>2, <2>3 DEF Ops, ReadOps
<1>7. heard' = Nil
  BY DEF Request
<1> QED BY <1>1, <1>2, <1>4, <1>5, <1>6, <1>7 DEF Access!Begin

LEMMA AccessReach ==
    ASSUME NEW m \in toDaemon, NEW body \in Bodies, MbInv, fails = 0,
           Answer(m, body)
    PROVE  Access!Reach
<1> USE DEF objectVars
<1>1. call # Nil /\ m = call /\ toDaemon = {m} /\ toApp = {}
  BY DEF MbInv, InStep, OneUnderWay
<1>2. /\ toDaemon' = {} /\ call' = call /\ given' = given
      /\ \/ /\ call.op = "write_u16_register"
            /\ device' = [device EXCEPT ![call.reg] = call.val]
         \/ UNCHANGED device
  BY <1>1 DEF Answer
<1>3. call.op # Nil /\ Held' = Held /\ asked' = asked /\ heard' = heard
  BY <1>1, OpOfCall DEF MbInv, Answer, Held
<1>4. PICK vals \in {<<>>, <<IF m.op = "write_u16_register" THEN m.val
                                                   ELSE device[m.reg]>>} :
        toApp' = IF requester = "awaiting"
                 THEN toApp \cup {[id |-> m.id, body |-> body, vals |-> vals]}
                 ELSE toApp
  BY DEF Answer
<1>5. Sample' = vals \/ Sample' = <<>>
  <2>1. CASE requester = "awaiting"
    <3>1. toApp' = {[id |-> m.id, body |-> body, vals |-> vals]}
      BY <1>1, <1>4, <2>1
    <3>2. Sample' = [id |-> m.id, body |-> body, vals |-> vals].vals
      BY <1>1, <1>2, <3>1, SampleOfNext
    <3> QED BY <3>2
  <2>2. CASE requester # "awaiting"
    BY <1>1, <1>4, <2>2, SampleOfNext
  <2> QED BY <2>1, <2>2
<1>6. call.op # "write_u16_register" => Sample' \in {<<>>, <<device[call.reg]>>}
  BY <1>1, <1>4, <1>5
<1>7. /\ ~(call # Nil /\ toDaemon = {})
      /\ (call # Nil /\ toDaemon = {})'
  BY <1>1, <1>2
<1> QED BY <1>1, <1>2, <1>3, <1>6, <1>7
       DEF Access!Reach, Access!callVars, Access!givenVars

LEMMA AccessReceive ==
    ASSUME MbInv, fails = 0, Receive
    PROVE  Access!Return \/ Access!Lose
<1> USE DEF objectVars, wireVars
<1>1. PICK m \in toApp : toApp' = toApp \ {m} /\ lastBuf' = m /\ Parse(m)
  BY DEF Receive
<1>2. toApp = {m} /\ toApp' = {} /\ toDaemon = {} /\ toDaemon' = {} /\ call # Nil
  BY <1>1 DEF Receive, Waiting, MbInv, OneUnderWay
<1>3. Sample = m.vals /\ callback' = callback
  BY <1>2, SampleOf DEF Receive
<1>4. ASSUME NEW why, Crash(why)
      PROVE  Access!Lose
  <2>1. /\ UNCHANGED <<call, asked, given, heard, device>> /\ Sample' = <<>>
        /\ Held' = Held
    BY <1>2, <1>3, <1>4, SampleOfNext DEF Crash, Receive, Held
  <2>2. (call # Nil /\ toDaemon = {})'
    BY <1>2, <2>1
  <2> QED BY <2>1, <2>2 DEF Access!Lose, Access!callVars, Access!givenVars
<1>5. CASE Return(m, <<>>)
  <2>1. /\ call' = Nil /\ asked' = Nil /\ given' = <<>> /\ heard' = Nil
        /\ device' = device
    BY <1>5 DEF Return, Receive
  <2> QED BY <1>2, <1>3, <2>1, AccessReturn DEF MbInv
<1>6. CASE callback \in Callbacks /\ Return(m, m.vals)
  <2>1. /\ call' = Nil /\ asked' = Nil /\ given' = m.vals /\ device' = device
        /\ heard' = IF m.vals = <<>> THEN Nil ELSE callback
    BY <1>6 DEF Return, Receive
  <2>2. call.op # "write_u16_register"
    BY <1>2, <1>6, NilAssumption DEF MbInv, CallbackSet
  <2>3. \/ given' = <<>> /\ heard' = Nil
        \/ given' = Sample /\ Sample # <<>> /\ heard' = callback
    BY <1>3, <2>1
  <2> QED BY <1>2, <1>3, <1>6, <2>1, <2>2, <2>3, AccessReturn DEF MbInv
<1>7. \/ \E why : Crash(why)
      \/ Return(m, <<>>)
      \/ callback \in Callbacks /\ Return(m, m.vals)
  BY <1>1 DEF Parse
<1> QED BY <1>4, <1>5, <1>6, <1>7

\* While no receive has failed, a step of the class is a step of
\* RegisterAccess or invisible there.
LEMMA AccessStep ==
    MbInv /\ MbInv' /\ [Next]_vars => [Access!Next \/ (fails > 0)']_(Access!vars)
<1> SUFFICES ASSUME MbInv, MbInv', [Next]_vars, ~(fails > 0)'
             PROVE  Access!Next \/ UNCHANGED Access!vars
  OBVIOUS
<1> USE DEF objectVars, wireVars
<1>f. fails' = 0 /\ fails = 0
  <2>1. fails \in Nat /\ fails' \in Nat
    BY DEF MbInv, TypeOK
  <2>2. fails' = 0
    BY <2>1
  <2>3. fails' = fails \/ fails' = fails + 1
    BY DEF Next, vars, InitZmq, CloseZmq, Operation, Request, Receive,
           ReceiveFails, ReceiveInvalid, Answer, Lose, DeviceChange
  <2> QED BY <2>1, <2>2, <2>3
<1>1. CASE InitZmq
  <2>1. UNCHANGED <<device, objectVars, fails, toDaemon, toApp>>
    BY <1>1 DEF InitZmq
  <2>2. Sample' = Sample
    BY <2>1 DEF Sample
  <2> QED BY <2>1, <2>2, AccessStutter
<1>2. CASE CloseZmq
  <2>1. UNCHANGED <<device, objectVars, fails, toDaemon>> /\ call = Nil
    BY <1>2 DEF CloseZmq, Idle
  <2>2. Sample' = Sample
    BY <2>1, SampleOf, SampleOfNext
  <2> QED BY <2>1, <2>2, AccessStutter
<1>3. CASE Operation
  BY <1>3, <1>f, AccessBegin DEF Operation, Access!Next
<1>4. CASE Receive
  BY <1>4, <1>f, AccessReceive DEF Access!Next
<1>5. CASE ReceiveFails
  BY <1>5, <1>f DEF ReceiveFails
<1>6. CASE ReceiveInvalid
  <2>1. /\ call # Nil /\ call' = Nil /\ asked' = Nil
        /\ given' = <<>> /\ heard' = Nil /\ UNCHANGED <<device, callback>>
    BY <1>6 DEF ReceiveInvalid, Waiting, Return
  <2> QED BY <2>1, AccessReturn DEF MbInv, Access!Next
<1>7. CASE \E m \in toDaemon, body \in Bodies : Answer(m, body)
  BY <1>7, <1>f, AccessReach DEF Access!Next
<1>8. CASE Lose
  <2>1. /\ UNCHANGED <<device, objectVars, fails>>
        /\ toDaemon' = {} /\ toApp' = {} /\ Sample' = <<>>
    BY <1>8, SampleOfNext DEF Lose
  <2>2. CASE call = Nil
    BY <2>1, <2>2, SampleOf, AccessStutter
  <2>3. CASE call # Nil
    <3>1. (call # Nil /\ toDaemon = {})'
      BY <2>1, <2>3
    <3>2. Held' = Held
      BY <2>1 DEF Held
    <3> QED
      BY <2>1, <3>1, <3>2
         DEF Access!Next, Access!Lose, Access!callVars, Access!givenVars
  <2> QED BY <2>2, <2>3
<1>9. CASE \E reg \in Registers, word \in Words : DeviceChange(reg, word)
  <2>1. UNCHANGED <<objectVars, fails, toDaemon, toApp>>
    BY <1>9 DEF DeviceChange
  <2>2. Sample' = Sample /\ Held' = Held
    BY <2>1 DEF Sample, Held
  <2>3. (call # Nil /\ toDaemon = {})' = (call # Nil /\ toDaemon = {})
    BY <2>1
  <2>4. device' \in [Registers -> Words]
    BY DEF MbInv, TypeOK
  <2> QED BY <2>1, <2>2, <2>3, <2>4 DEF Access!Next, Access!Change, Access!callVars,
                                        Access!givenVars
<1>10. CASE UNCHANGED vars
  <2>1. UNCHANGED <<device, objectVars, fails, toDaemon, toApp>>
    BY <1>10 DEF vars
  <2>2. Sample' = Sample
    BY <2>1 DEF Sample
  <2> QED BY <2>1, <2>2, AccessStutter
<1> QED
  BY <1>1, <1>2, <1>3, <1>4, <1>5, <1>6, <1>7, <1>8, <1>9, <1>10 DEF Next

\* Until a receive fails each call of the class reaches the device at most
\* once and within the call, and passes on at most the value found there, to
\* the callback of that call or to the one the object still holds.
THEOREM AccessImplemented == Spec => ImplementsRegisterAccess
<1>1. Spec => Access!Init /\ [][Access!Next \/ (fails > 0)']_(Access!vars)
  BY AccessInit, AccessStep, MbInvariant, PTL DEF Spec
<1> QED BY <1>1 DEF ImplementsRegisterAccess, Access!Spec

=============================================================================
