------------------------ MODULE IothubTelemetry_proofs ------------------------
(***************************************************************************)
(* Proofs about the telemetry program.  Its steps on the register client's *)
(* variables are steps of that client, so what NbZmqMbtcp_proofs proves of *)
(* the client holds in the program; TInv adds what the position in the     *)
(* program says about handles, library and quit flag.                      *)
(***************************************************************************)
EXTENDS IothubTelemetry, NbZmqMbtcp_proofs, FiniteSetTheorems

\* Where a read may be in progress, and where the client library is in use.
Before  == {"setup", "address", "config", "platform", "create", "callback"}
Looping == {"read", "build", "send", "dowork"}
Leaving == {"drain", "destroy", "deinit", "close", "exit"}

\* A register is being read only in the reading part of the loop, and once
\* quit has been received the program is on its way out.
Position ==
    /\ reading # Nil => pc = "read"
    /\ ~running => pc \in Leaving
    /\ pc \in {"read", "build", "send"} => iterator < MESSAGE_COUNT
    /\ pc \in Before => iterator = 0
    /\ pc \in Before \cup Looping \cup {"drain"} => drained < DOWORK_LOOP_NUM

\* Slots not reached yet hold no message, and the one about to be sent holds
\* one nobody has taken.
Frontier ==
    /\ \A i \in Slots :
         i > iterator \/ (i = iterator /\ pc \notin {"send", "dowork"})
            => handle[i] = "null"
    /\ pc = "send" => handle[iterator] = "live" /\ iterator \notin accepted

TInv ==
    /\ TypeOK
    /\ Position
    /\ HandleOwnership
    /\ Frontier
    /\ FrameOutlivesCallbacks

-----------------------------------------------------------------------------
(* The program's steps as steps of the register client.                    *)

\* Every step of the system is a step of the register client or leaves it be.
LEMMA ClientStep == TypeOK /\ [Next]_vars => [NbNext]_nbVars
<1> SUFFICES ASSUME TypeOK, [Next]_vars PROVE [NbNext]_nbVars
  OBVIOUS
<1>1. CASE SetupSocket
  BY <1>1 DEF SetupSocket, NbNext, Client
<1>2. CASE SetAddress
  BY <1>2, HostAssumption DEF SetAddress, NbNext, Client
<1>3. CASE StartRead
  BY <1>3, RegisterAssumption DEF StartRead, TypeOK, NbNext, Client
<1>4. CASE FinishRead
  BY <1>4 DEF FinishRead, NbNext, Client
<1>5. CASE CloseSocket
  BY <1>5 DEF CloseSocket, NbNext, Client
<1>6. CASE FieldSide
  BY <1>6 DEF FieldSide, NbNext
<1>7. CASE UNCHANGED nbVars
  BY <1>7
<1> QED
  BY <1>1, <1>2, <1>3, <1>4, <1>5, <1>6, <1>7
     DEF Next, Program, vars, Terminated, LoadConnectionString, InitPlatform,
         CreateClient, SetMessageCallback, BuildMessage, SendEvent, DoWork,
         Drain, DestroyClient, DeinitPlatform, HubSends

LEMMA ClientInit == Init => NbInv
BY NbInvInit DEF Init

-----------------------------------------------------------------------------
(* The callbacks.                                                          *)

\* What confirming messages that are pending does to the handles.
LEMMA ConfirmKeeps ==
    ASSUME TypeOK, HandleOwnership, NEW S \in SUBSET pending, NEW result,
           \A i \in S : result[i] \in Outcomes,
           Confirm(S, result), accepted' = accepted
    PROVE  /\ pending' = pending \ S /\ pending' \subseteq accepted'
           /\ handle' \in [Slots -> Handles]
           /\ outcome' \in [Slots -> Outcomes]
           /\ \A i \in Slots : handle[i] = "null" => handle'[i] = "null"
           /\ HandleOwnership'
<1>1. /\ pending \subseteq accepted /\ accepted \subseteq Slots
      /\ handle \in [Slots -> Handles] /\ outcome \in [Slots -> Outcomes]
  BY DEF TypeOK
<1>2. pending' = pending \ S
  BY DEF Confirm
<1>3. \A i \in Slots : handle'[i] = IF i \in S THEN "destroyed" ELSE handle[i]
  BY DEF Confirm
<1>4. handle' \in [Slots -> Handles] /\ outcome' \in [Slots -> Outcomes]
  BY <1>1 DEF Confirm, Handles
<1>5. \A i \in S : i \in Slots /\ handle[i] = "live"
  BY <1>1 DEF HandleOwnership
<1>6. HandleOwnership'
  BY <1>1, <1>2, <1>3, <1>5 DEF HandleOwnership
<1> QED
  BY <1>1, <1>2, <1>3, <1>4, <1>5, <1>6

\* The number of confirmations stays a number.
LEMMA ConfirmCounts ==
    ASSUME TypeOK, NEW S \in SUBSET pending, NEW result, Confirm(S, result)
    PROVE  /\ IsFiniteSet(S)
           /\ callbackCounter' \in Nat
<1>1. IsFiniteSet(Slots)
  BY CountAssumption, FS_Interval DEF Slots
<1>2. S \subseteq Slots
  BY DEF TypeOK
<1>3. IsFiniteSet(S)
  BY <1>1, <1>2, FS_Subset
<1>4. Cardinality(S) \in Nat
  BY <1>3, FS_CardinalityType
<1> QED BY <1>3, <1>4 DEF Confirm, TypeOK

LEMMA ReceiveCounts ==
    ASSUME TypeOK, NEW C \in SUBSET {c \in Commands : cmd[c] = "queued"},
           ReceiveMessages(C)
    PROVE  /\ IsFiniteSet(C)
           /\ cmd' \in [Commands -> {"unsent", "queued", "received"}]
           /\ running' \in BOOLEAN /\ (running' => running)
           /\ receiveContext' \in Nat
<1>1. IsFiniteSet(C)
  BY CommandAssumption, FS_Subset
<1>2. Cardinality(C) \in Nat
  BY <1>1, FS_CardinalityType
<1> QED BY <1>1, <1>2 DEF ReceiveMessages, TypeOK

\* What a call of DoWork keeps, whatever the library does in it.
LEMMA LibraryKeeps ==
    ASSUME TypeOK, HandleOwnership, LibraryWorks, accepted' = accepted
    PROVE  /\ pending' \subseteq accepted'
           /\ handle' \in [Slots -> Handles]
           /\ outcome' \in [Slots -> Outcomes]
           /\ callbackCounter' \in Nat /\ receiveContext' \in Nat
           /\ cmd' \in [Commands -> {"unsent", "queued", "received"}]
           /\ running' \in BOOLEAN
           /\ \A i \in Slots : handle[i] = "null" => handle'[i] = "null"
           /\ HandleOwnership'
<1>1. PICK S \in SUBSET pending :
        \E result \in [S -> {"ok", "failed"}] : Confirm(S, result)
  BY DEF LibraryWorks
<1>2. PICK C \in SUBSET {c \in Commands : cmd[c] = "queued"} :
        ReceiveMessages(C)
  BY DEF LibraryWorks
<1>3. PICK result \in [S -> {"ok", "failed"}] : Confirm(S, result)
  BY <1>1
<1>4. \A i \in S : result[i] \in Outcomes
  BY DEF Outcomes
<1>5. /\ pending' \subseteq accepted'
      /\ handle' \in [Slots -> Handles]
      /\ outcome' \in [Slots -> Outcomes]
      /\ \A i \in Slots : handle[i] = "null" => handle'[i] = "null"
      /\ HandleOwnership'
  BY <1>3, <1>4, ConfirmKeeps
<1>6. callbackCounter' \in Nat
  BY <1>3, ConfirmCounts
<1>7. /\ cmd' \in [Commands -> {"unsent", "queued", "received"}]
      /\ running' \in BOOLEAN /\ receiveContext' \in Nat
  BY <1>2, ReceiveCounts
<1> QED BY <1>5, <1>6, <1>7

-----------------------------------------------------------------------------
(* Type correctness.                                                       *)

LEMMA TypeInit == Init => TypeOK
<1> SUFFICES ASSUME Init PROVE TypeOK
  OBVIOUS
<1>1. NbTypeOK
  BY NbTypeInit DEF Init
<1>2. /\ iterator \in 0 .. MESSAGE_COUNT /\ drained \in 0 .. DOWORK_LOOP_NUM
      /\ step \in 1 .. 3
  BY CountAssumption DEF Init
<1> QED BY <1>1, <1>2 DEF Init, TypeOK, Locations, Handles, Outcomes

\* The end of an iteration stays within MESSAGE_COUNT.
LEMMA NextIterationKeeps ==
    ASSUME TypeOK, NextIteration, running' \in BOOLEAN
    PROVE  /\ iterator' \in 0 .. MESSAGE_COUNT
           /\ updated' = {}
           /\ iterator < MESSAGE_COUNT => iterator' = iterator + 1
           /\ ~(iterator < MESSAGE_COUNT) => iterator' = iterator
           /\ \/ ~running' /\ pc' = "drain"
              \/ running' /\ iterator' < MESSAGE_COUNT /\ pc' = "read"
              \/ running' /\ pc' = "dowork"
<1>1. iterator \in 0 .. MESSAGE_COUNT /\ MESSAGE_COUNT \in Nat
  BY CountAssumption DEF TypeOK
<1>2. iterator' = IF iterator < MESSAGE_COUNT THEN iterator + 1 ELSE iterator
  BY DEF NextIteration
<1>3. iterator' \in 0 .. MESSAGE_COUNT
  BY <1>1, <1>2
<1>4. \/ ~running' /\ pc' = "drain"
      \/ running' /\ iterator' < MESSAGE_COUNT /\ pc' = "read"
      \/ running' /\ pc' = "dowork"
  <2>1. CASE ~running'
    BY <2>1 DEF NextIteration, Goto
  <2>2. CASE running' /\ iterator' < MESSAGE_COUNT
    BY <2>2 DEF NextIteration, Goto
  <2>3. CASE running' /\ ~(iterator' < MESSAGE_COUNT)
    BY <2>3 DEF NextIteration, Goto
  <2> QED BY <2>1, <2>2, <2>3
<1> QED BY <1>2, <1>3, <1>4 DEF NextIteration

-----------------------------------------------------------------------------
(* The invariant.                                                          *)

LEMMA TInvInit == Init => TInv
<1> SUFFICES ASSUME Init PROVE TInv
  OBVIOUS
<1>1. TypeOK
  BY TypeInit
<1>2. Position
  BY CountAssumption
     DEF Init, NbInit, Position, Before, Looping, Leaving
<1>3. HandleOwnership /\ Frontier /\ FrameOutlivesCallbacks
  BY DEF Init, HandleOwnership, Frontier, FrameOutlivesCallbacks
<1> QED BY <1>1, <1>2, <1>3 DEF TInv

\* A step before the loop leaves messages, library and flag alone.
LEMMA SetupKeeps ==
    ASSUME TInv, NbTypeOK', UNCHANGED <<reading, loopVars, msgVars, cmdVars>>,
           pc \in Before,
           pc' \in Before \cup {"read", "destroy", "deinit", "close", "crashed"}
    PROVE  TInv'
<1>1. /\ UNCHANGED <<reading, iterator, step, updated, drained, handle, body>>
      /\ UNCHANGED <<accepted, pending, outcome, callbackCounter>>
      /\ UNCHANGED <<running, cmd, receiveContext>>
  BY DEF loopVars, msgVars, cmdVars
<1>2. TypeOK'
  BY <1>1 DEF TInv, TypeOK, Locations, Before
<1>3. /\ reading = Nil /\ running /\ iterator = 0
      /\ 0 < MESSAGE_COUNT /\ drained < DOWORK_LOOP_NUM
  BY CountAssumption DEF TInv, Position, TypeOK, Before, Leaving
<1>4. Position'
  BY <1>1, <1>3 DEF Position, Before, Looping, Leaving
<1>5. \A i \in Slots : handle[i] = "null"
  <2> SUFFICES ASSUME NEW i \in Slots PROVE i > iterator \/ i = iterator
    BY DEF TInv, Frontier, Before
  <2> QED BY <1>3 DEF Slots
<1>6. pending = {} /\ accepted = {}
  BY <1>5 DEF TInv, TypeOK, HandleOwnership
<1>7. Frontier' /\ HandleOwnership' /\ FrameOutlivesCallbacks'
  BY <1>1, <1>5, <1>6 DEF Frontier, HandleOwnership, FrameOutlivesCallbacks,
                          Before
<1> QED BY <1>2, <1>4, <1>7 DEF TInv

\* A read is begun or comes back.
LEMMA ReadKeeps ==
    ASSUME TInv, NbTypeOK', StartRead \/ FinishRead
    PROVE  TInv'
<1>1. /\ pc = "read" /\ pc' \in {"read", "build"}
      /\ reading' # Nil => pc' = "read"
      /\ step' \in 1 .. 3 /\ updated' \subseteq Registers
      /\ UNCHANGED <<iterator, drained, msgVars, cmdVars>>
  <2>1. CASE StartRead
    BY <2>1 DEF StartRead, loopVars, TInv, TypeOK
  <2>2. CASE FinishRead
    <3>1. reading' = Nil
      BY <2>2 DEF FinishRead, CallReturns, Receive, ReceiveFails,
                  ReceiveInvalid, Return
    <3>2. step \in 1 .. 3 /\ updated \subseteq Registers
      BY DEF TInv, TypeOK
    <3>3. step' \in 1 .. 3
      BY <2>2, <3>2 DEF FinishRead
    <3> QED
      BY <2>2, <3>1, <3>2, <3>3, RegisterAssumption DEF FinishRead, Goto
  <2> QED BY <2>1, <2>2
<1>2. UNCHANGED <<handle, body, accepted, pending, outcome, callbackCounter,
                 running, cmd, receiveContext>>
  BY <1>1 DEF msgVars, cmdVars
<1>3. TypeOK'
  BY <1>1, <1>2 DEF TInv, TypeOK, Locations
<1>4. Position'
  BY <1>1, <1>2 DEF TInv, Position, Before, Looping, Leaving
<1>5. Frontier' /\ HandleOwnership' /\ FrameOutlivesCallbacks'
  BY <1>1, <1>2 DEF TInv, Frontier, HandleOwnership, FrameOutlivesCallbacks
<1> QED BY <1>3, <1>4, <1>5 DEF TInv

\* A message is made in the slot of the iterator, which held none.
LEMMA BuildKeeps ==
    ASSUME TInv, NbTypeOK', BuildMessage
    PROVE  TInv'
<1>1. /\ pc = "build" /\ pc' \in {"send", "dowork"}
      /\ UNCHANGED <<reading, iterator, step, updated, drained, accepted,
                     pending, outcome, callbackCounter, running, cmd,
                     receiveContext>>
  BY DEF BuildMessage, Goto, nbVars, callVars, loopVars, cmdVars
<1>2. iterator \in Slots /\ handle[iterator] = "null"
  <2>1. iterator \in 0 .. MESSAGE_COUNT /\ iterator < MESSAGE_COUNT
    BY <1>1 DEF TInv, TypeOK, Position
  <2>2. iterator \in Slots
    BY <2>1, CountAssumption DEF Slots
  <2> QED BY <1>1, <2>2 DEF TInv, Frontier
<1>3. iterator \notin accepted /\ iterator \notin pending
  BY <1>2 DEF TInv, TypeOK, HandleOwnership
<1>4. \/ /\ handle' = [handle EXCEPT ![iterator] = "live"]
         /\ body' = [body EXCEPT ![iterator] = latest]
         /\ pc' = "send"
      \/ UNCHANGED <<handle, body>> /\ pc' = "dowork"
  BY DEF BuildMessage, Goto
<1>5. TypeOK'
  BY <1>1, <1>2, <1>4
     DEF TInv, TypeOK, NbTypeOK, Locations, Handles
<1>6. Position'
  BY <1>1 DEF TInv, Position, Before, Looping, Leaving
<1>7. HandleOwnership'
  BY <1>1, <1>2, <1>3, <1>4 DEF TInv, TypeOK, HandleOwnership
<1>8. Frontier'
  <2>1. \A i \in Slots : i > iterator => i # iterator
    BY DEF Slots, TInv, TypeOK
  <2> QED BY <1>1, <1>2, <1>3, <1>4, <2>1 DEF TInv, TypeOK, Frontier
<1>9. FrameOutlivesCallbacks'
  BY <1>1 DEF FrameOutlivesCallbacks
<1> QED BY <1>5, <1>6, <1>7, <1>8, <1>9 DEF TInv

\* A message handed over is live and was not handed over before.
LEMMA SendKeeps ==
    ASSUME TInv, NbTypeOK', SendEvent
    PROVE  TInv'
<1>1. /\ pc = "send" /\ pc' = "dowork"
      /\ UNCHANGED <<reading, iterator, step, updated, drained, handle, body,
                     outcome, callbackCounter, running, cmd, receiveContext>>
  BY DEF SendEvent, Goto, nbVars, callVars, loopVars, cmdVars
<1>2. /\ iterator \in Slots
      /\ handle[iterator] = "live" /\ iterator \notin accepted
  <2>1. iterator \in 0 .. MESSAGE_COUNT /\ iterator < MESSAGE_COUNT
    BY <1>1 DEF TInv, TypeOK, Position
  <2>2. iterator \in Slots
    BY <2>1, CountAssumption DEF Slots
  <2> QED BY <1>1, <2>2 DEF TInv, Frontier
<1>3. \/ /\ accepted' = accepted \cup {iterator}
         /\ pending' = pending \cup {iterator}
      \/ UNCHANGED <<accepted, pending>>
  BY DEF SendEvent
<1>4. TypeOK'
  BY <1>1, <1>2, <1>3 DEF TInv, TypeOK, Locations
<1>5. Position'
  BY <1>1 DEF TInv, Position, Before, Looping, Leaving
<1>6. HandleOwnership'
  BY <1>1, <1>2, <1>3 DEF TInv, TypeOK, HandleOwnership
<1>7. Frontier' /\ FrameOutlivesCallbacks'
  BY <1>1 DEF TInv, Frontier, FrameOutlivesCallbacks
<1> QED BY <1>4, <1>5, <1>6, <1>7 DEF TInv

\* A call of DoWork moves the frontier on by one slot and leaves the slots
\* beyond it alone.
LEMMA DoWorkKeeps ==
    ASSUME TInv, NbTypeOK', DoWork
    PROVE  TInv'
<1>1. /\ pc = "dowork"
      /\ UNCHANGED <<reading, step, drained, body, accepted>>
      /\ LibraryWorks /\ NextIteration
  BY DEF DoWork, nbVars, callVars
<1>2. /\ pending' \subseteq accepted'
      /\ handle' \in [Slots -> Handles]
      /\ outcome' \in [Slots -> Outcomes]
      /\ callbackCounter' \in Nat /\ receiveContext' \in Nat
      /\ cmd' \in [Commands -> {"unsent", "queued", "received"}]
      /\ running' \in BOOLEAN
      /\ \A i \in Slots : handle[i] = "null" => handle'[i] = "null"
      /\ HandleOwnership'
  BY <1>1, LibraryKeeps DEF TInv
<1>3. /\ iterator' \in 0 .. MESSAGE_COUNT
      /\ updated' = {}
      /\ iterator < MESSAGE_COUNT => iterator' = iterator + 1
      /\ ~(iterator < MESSAGE_COUNT) => iterator' = iterator
      /\ \/ ~running' /\ pc' = "drain"
         \/ running' /\ iterator' < MESSAGE_COUNT /\ pc' = "read"
         \/ running' /\ pc' = "dowork"
  BY <1>1, <1>2, NextIterationKeeps DEF TInv
<1>4. TypeOK'
  BY <1>1, <1>2, <1>3 DEF TInv, TypeOK, Locations
<1>5. Position'
  BY <1>1, <1>3 DEF TInv, Position, Before, Looping, Leaving
<1>6. Frontier'
  <2>1. \A i \in Slots : i > iterator' \/ i = iterator' => i > iterator
    BY <1>3, CountAssumption DEF TInv, TypeOK, Slots
  <2>2. \A i \in Slots : i > iterator => handle'[i] = "null"
    BY <1>2 DEF TInv, Frontier
  <2> QED BY <1>3, <2>1, <2>2 DEF Frontier
<1>7. FrameOutlivesCallbacks'
  BY <1>3 DEF FrameOutlivesCallbacks
<1> QED BY <1>2, <1>4, <1>5, <1>6, <1>7 DEF TInv

\* So does one of the calls after the quit message, with the frontier fixed.
LEMMA DrainKeeps ==
    ASSUME TInv, NbTypeOK', Drain
    PROVE  TInv'
<1>1. /\ pc = "drain" /\ drained' = drained + 1
      /\ pc' = IF drained' < DOWORK_LOOP_NUM THEN "drain" ELSE "destroy"
      /\ UNCHANGED <<reading, iterator, step, updated, body, accepted>>
      /\ LibraryWorks
  BY DEF Drain, Goto, nbVars, callVars
<1>2. /\ pending' \subseteq accepted'
      /\ handle' \in [Slots -> Handles]
      /\ outcome' \in [Slots -> Outcomes]
      /\ callbackCounter' \in Nat /\ receiveContext' \in Nat
      /\ cmd' \in [Commands -> {"unsent", "queued", "received"}]
      /\ running' \in BOOLEAN
      /\ \A i \in Slots : handle[i] = "null" => handle'[i] = "null"
      /\ HandleOwnership'
  BY <1>1, LibraryKeeps DEF TInv
<1>3. drained' \in 0 .. DOWORK_LOOP_NUM
  BY <1>1, CountAssumption DEF TInv, TypeOK, Position
<1>4. TypeOK'
  BY <1>1, <1>2, <1>3 DEF TInv, TypeOK, Locations
<1>5. Position'
  BY <1>1 DEF TInv, Position, Before, Looping, Leaving
<1>6. Frontier' /\ FrameOutlivesCallbacks'
  BY <1>1, <1>2 DEF TInv, Frontier, FrameOutlivesCallbacks
<1> QED BY <1>2, <1>4, <1>5, <1>6 DEF TInv

\* IoTHubClient_LL_Destroy leaves nothing with the library.
LEMMA DestroyKeeps ==
    ASSUME TInv, NbTypeOK', DestroyClient
    PROVE  TInv'
<1> DEFINE result == [i \in pending |-> "destroy"]
<1>1. /\ pc = "destroy" /\ pc' = "deinit"
      /\ UNCHANGED <<reading, iterator, step, updated, drained, body, accepted,
                     running, cmd, receiveContext>>
      /\ Confirm(pending, result)
  BY DEF DestroyClient, Goto, nbVars, callVars, loopVars, cmdVars
<1>2. \A i \in pending : result[i] \in Outcomes
  BY DEF Outcomes
<1>3. /\ pending' = {} /\ pending' \subseteq accepted'
      /\ handle' \in [Slots -> Handles]
      /\ outcome' \in [Slots -> Outcomes]
      /\ \A i \in Slots : handle[i] = "null" => handle'[i] = "null"
      /\ HandleOwnership'
  <2> HIDE DEF result
  <2>1. pending' = pending \ pending
    BY <1>1, <1>2, ConfirmKeeps DEF TInv
  <2> QED BY <1>1, <1>2, <2>1, ConfirmKeeps DEF TInv
<1>4. callbackCounter' \in Nat
  <2> HIDE DEF result
  <2> QED BY <1>1, ConfirmCounts DEF TInv
<1>5. TypeOK'
  BY <1>1, <1>3, <1>4 DEF TInv, TypeOK, Locations
<1>6. Position'
  BY <1>1 DEF TInv, Position, Before, Looping, Leaving
<1>7. Frontier'
  BY <1>1, <1>3 DEF TInv, Frontier
<1>8. FrameOutlivesCallbacks'
  BY <1>1, <1>3 DEF TInv, TypeOK, HandleOwnership, FrameOutlivesCallbacks
<1> QED BY <1>3, <1>5, <1>6, <1>7, <1>8 DEF TInv

\* Nothing the program keeps changes once it is past Destroy, nor when the
\* field side or the hub moves.
LEMMA LeavingKeeps ==
    ASSUME TInv, NbTypeOK', UNCHANGED <<reading, loopVars, msgVars, running>>,
           cmd' \in [Commands -> {"unsent", "queued", "received"}],
           receiveContext' = receiveContext,
           \/ pc' = pc
           \/ pc = "deinit" /\ pc' = "close"
           \/ pc = "close" /\ pc' = "exit"
    PROVE  TInv'
<1>1. UNCHANGED <<reading, iterator, step, updated, drained, handle, body,
                 accepted, pending, outcome, callbackCounter, running,
                 receiveContext>>
  BY DEF loopVars, msgVars
<1>2. TypeOK'
  BY <1>1 DEF TInv, TypeOK, Locations
<1>3. Position'
  BY <1>1 DEF TInv, Position, Before, Looping, Leaving
<1>4. Frontier' /\ HandleOwnership' /\ FrameOutlivesCallbacks'
  BY <1>1 DEF TInv, Frontier, HandleOwnership, FrameOutlivesCallbacks
<1> QED BY <1>2, <1>3, <1>4 DEF TInv

\* Every step keeps the invariant.
LEMMA TInvStep == TInv /\ NbTypeOK' /\ [Next]_vars => TInv'
<1> SUFFICES ASSUME TInv, NbTypeOK', [Next]_vars PROVE TInv'
  OBVIOUS
<1>1. CASE SetupSocket
  BY <1>1, SetupKeeps
     DEF SetupSocket, Setup, Goto, callVars, Before
<1>2. CASE SetAddress
  BY <1>2, SetupKeeps
     DEF SetAddress, InitIpPort, Goto, callVars, Before
<1>3. CASE LoadConnectionString
  BY <1>3, SetupKeeps
     DEF LoadConnectionString, Goto, nbVars, callVars, Before
<1>4. CASE InitPlatform
  BY <1>4, SetupKeeps DEF InitPlatform, Goto, nbVars, callVars, Before
<1>5. CASE CreateClient
  BY <1>5, SetupKeeps DEF CreateClient, Goto, nbVars, callVars, Before
<1>6. CASE SetMessageCallback
  BY <1>6, SetupKeeps DEF SetMessageCallback, Goto, nbVars, callVars, Before
<1>7. CASE StartRead
  BY <1>7, ReadKeeps
<1>8. CASE FinishRead
  BY <1>8, ReadKeeps
<1>9. CASE BuildMessage
  BY <1>9, BuildKeeps
<1>10. CASE SendEvent
  BY <1>10, SendKeeps
<1>11. CASE DoWork
  BY <1>11, DoWorkKeeps
<1>12. CASE Drain
  BY <1>12, DrainKeeps
<1>13. CASE DestroyClient
  BY <1>13, DestroyKeeps
<1>14. CASE DeinitPlatform
  BY <1>14, LeavingKeeps
     DEF DeinitPlatform, Goto, nbVars, callVars, cmdVars, TInv, TypeOK
<1>15. CASE CloseSocket
  BY <1>15, LeavingKeeps
     DEF CloseSocket, Destroy, Goto, callVars, cmdVars, TInv, TypeOK
<1>16. CASE FieldSide
  <2>1. UNCHANGED <<reading, pc, loopVars, msgVars, cmdVars>>
    BY <1>16 DEF FieldSide, Environment, Gateway, Answer, Lose, DeviceChange,
                 callVars
  <2> QED BY <2>1, LeavingKeeps DEF cmdVars, TInv, TypeOK
<1>17. ASSUME NEW c \in Commands, HubSends(c) PROVE TInv'
  <2>1. cmd' \in [Commands -> {"unsent", "queued", "received"}]
    BY <1>17 DEF HubSends, TInv, TypeOK
  <2> QED BY <1>17, <2>1, LeavingKeeps DEF HubSends, nbVars, callVars
<1>18. CASE UNCHANGED vars
  BY <1>18, LeavingKeeps DEF vars, nbVars, callVars, cmdVars, TInv, TypeOK
<1> QED
  BY <1>1, <1>2, <1>3, <1>4, <1>5, <1>6, <1>7, <1>8, <1>9, <1>10, <1>11,
     <1>12, <1>13, <1>14, <1>15, <1>16, <1>17, <1>18
     DEF Next, Program, Terminated

LEMMA Invariants == Spec => [](TInv /\ NbInv)
<1>1. Init => TInv /\ NbInv
  BY TInvInit, ClientInit
<1>2. TInv /\ NbInv /\ [Next]_vars => TInv' /\ NbInv'
  <2> SUFFICES ASSUME TInv, NbInv, [Next]_vars PROVE TInv' /\ NbInv'
    OBVIOUS
  <2>1. [NbNext]_nbVars
    BY ClientStep DEF TInv
  <2>2. NbInv'
    BY <2>1, NbInvStep
  <2> QED BY <2>2, TInvStep DEF NbInv
<1>3. QED BY <1>1, <1>2, PTL DEF Spec

\* The telemetry program is an instance of the register client's caller: all
\* that is proved of the client's specification holds in the program.
THEOREM ProgramUsesClient == Spec => NbSpec
<1>1. Init => NbInit
  BY DEF Init
<1>2. TInv /\ [Next]_vars => [NbNext]_nbVars
  BY ClientStep DEF TInv
<1>3. QED BY <1>1, <1>2, Invariants, PTL DEF Spec, NbSpec

\* Every state of the telemetry program has the declared types.
THEOREM TypeCorrect == Spec => []TypeOK
<1>1. TInv => TypeOK
  BY DEF TInv
<1>2. QED BY <1>1, Invariants, PTL

\* A message is destroyed by its confirmation and by nothing else, for any
\* number of messages and whatever the library and the gateway do.
THEOREM HandlesAreOwned == Spec => []HandleOwnership
<1>1. TInv => HandleOwnership
  BY DEF TInv
<1>2. QED BY <1>1, Invariants, PTL

\* No callback comes once the stack frame with the messages may be gone.
THEOREM FrameSafe == Spec => []FrameOutlivesCallbacks
<1>1. TInv => FrameOutlivesCallbacks
  BY DEF TInv
<1>2. QED BY <1>1, Invariants, PTL

\* After quit nothing is read, made or handed over.
THEOREM QuietOnceQuit == Spec => QuietAfterQuit
<1> DEFINE Quiet == ~running => /\ reading' = Nil
                                /\ body' = body
                                /\ accepted' = accepted
<1>1. TInv /\ TInv' /\ [Next]_vars => [Quiet]_vars
  <2> SUFFICES ASSUME TInv, TInv', Next, ~running PROVE Quiet
    OBVIOUS
  <2>1. pc \in Leaving /\ reading = Nil
    BY DEF TInv, Position, Leaving
  <2>2. CASE Drain \/ DestroyClient \/ DeinitPlatform \/ CloseSocket
    BY <2>1, <2>2 DEF Drain, DestroyClient, DeinitPlatform, CloseSocket,
                      Destroy, nbVars, callVars, msgVars
  <2>3. CASE FieldSide
    BY <2>1, <2>3 DEF FieldSide, Environment, Gateway, Answer, Lose,
                      DeviceChange, callVars, msgVars
  <2>4. ASSUME NEW c \in Commands, HubSends(c) PROVE Quiet
    BY <2>1, <2>4 DEF HubSends, nbVars, callVars, msgVars
  <2>5. CASE Terminated
    BY <2>1, <2>5 DEF Terminated, vars, nbVars, callVars, msgVars
  <2> QED
    BY <2>1, <2>2, <2>3, <2>4, <2>5
       DEF Leaving, Next, Program, SetupSocket, SetAddress,
           LoadConnectionString, InitPlatform, CreateClient,
           SetMessageCallback, StartRead, FinishRead, BuildMessage, SendEvent,
           DoWork
<1>2. QED BY <1>1, Invariants, PTL DEF Spec, QuietAfterQuit

-----------------------------------------------------------------------------
(* The counters.                                                           *)

\* Counting the members of S once more when S was not counted yet.
LEMMA CountMore ==
    ASSUME NEW A, IsFiniteSet(A), NEW S, IsFiniteSet(S), A \cap S = {}
    PROVE  Cardinality(A \cup S) = Cardinality(A) + Cardinality(S)
<1>1. Cardinality(A \cup S)
        = Cardinality(A) + Cardinality(S) - Cardinality(A \cap S)
  BY FS_Union
<1>2. Cardinality(A \cap S) = 0
  BY FS_EmptySet
<1>3. Cardinality(A) \in Nat /\ Cardinality(S) \in Nat
  BY FS_CardinalityType
<1> QED BY <1>1, <1>2, <1>3

LEMMA ConfirmCounter ==
    ASSUME TypeOK, CountersAgree, NEW S \in SUBSET pending, NEW result,
           Confirm(S, result), accepted' = accepted
    PROVE  callbackCounter' = Cardinality(accepted' \ pending')
<1>1. pending \subseteq accepted /\ accepted \subseteq Slots
  BY DEF TypeOK
<1>2. IsFiniteSet(Slots)
  BY CountAssumption, FS_Interval DEF Slots
<1>3. IsFiniteSet(accepted \ pending) /\ IsFiniteSet(S)
  BY <1>1, <1>2, FS_Subset
<1>4. pending' = pending \ S /\ (accepted \ pending) \cap S = {}
  BY DEF Confirm
<1>5. accepted' \ pending' = (accepted \ pending) \cup S
  BY <1>1, <1>4
<1> QED BY <1>3, <1>4, <1>5, CountMore DEF CountersAgree, Confirm

LEMMA ReceiveCounter ==
    ASSUME TypeOK, CountersAgree,
           NEW C \in SUBSET {c \in Commands : cmd[c] = "queued"},
           ReceiveMessages(C)
    PROVE  receiveContext' = Cardinality({c \in Commands : cmd'[c] = "received"})
<1> DEFINE R == {c \in Commands : cmd[c] = "received"}
<1>1. IsFiniteSet(R) /\ IsFiniteSet(C)
  BY CommandAssumption, FS_Subset
<1>2. R \cap C = {}
  OBVIOUS
<1>3. {c \in Commands : cmd'[c] = "received"} = R \cup C
  BY DEF ReceiveMessages
<1>4. receiveContext = Cardinality(R)
  BY DEF CountersAgree
<1> HIDE DEF R
<1> QED BY <1>1, <1>2, <1>3, <1>4, CountMore DEF ReceiveMessages

LEMMA CountersStep == TInv /\ CountersAgree /\ [Next]_vars => CountersAgree'
<1> SUFFICES ASSUME TInv, CountersAgree, [Next]_vars PROVE CountersAgree'
  OBVIOUS
<1> USE DEF TInv
<1>1. ASSUME LibraryWorks, accepted' = accepted PROVE CountersAgree'
  <2>1. PICK S \in SUBSET pending :
          \E result \in [S -> {"ok", "failed"}] : Confirm(S, result)
    BY <1>1 DEF LibraryWorks
  <2>2. PICK C \in SUBSET {c \in Commands : cmd[c] = "queued"} :
          ReceiveMessages(C)
    BY <1>1 DEF LibraryWorks
  <2>3. callbackCounter' = Cardinality(accepted' \ pending')
    BY <1>1, <2>1, ConfirmCounter
  <2>4. receiveContext' = Cardinality({c \in Commands : cmd'[c] = "received"})
    BY <2>2, ReceiveCounter
  <2> QED BY <2>3, <2>4 DEF CountersAgree
<1>2. CASE DoWork \/ Drain
  BY <1>1, <1>2 DEF DoWork, Drain
<1>3. CASE DestroyClient
  <2>1. /\ Confirm(pending, [i \in pending |-> "destroy"])
        /\ UNCHANGED <<accepted, cmd, receiveContext>>
    BY <1>3 DEF DestroyClient, cmdVars
  <2>2. callbackCounter' = Cardinality(accepted' \ pending')
    BY <2>1, ConfirmCounter
  <2> QED BY <2>1, <2>2 DEF CountersAgree
<1>4. CASE SendEvent
  <2>1. iterator \notin accepted
    BY <1>4 DEF SendEvent, Frontier
  <2>2. accepted' \ pending' = accepted \ pending
    BY <1>4, <2>1 DEF SendEvent
  <2>3. UNCHANGED <<callbackCounter, cmd, receiveContext>>
    BY <1>4 DEF SendEvent, cmdVars
  <2> QED BY <2>2, <2>3 DEF CountersAgree
<1>5. ASSUME NEW c \in Commands, HubSends(c) PROVE CountersAgree'
  <2>1. {d \in Commands : cmd'[d] = "received"}
          = {d \in Commands : cmd[d] = "received"}
    BY <1>5 DEF HubSends, TypeOK
  <2>2. UNCHANGED <<callbackCounter, accepted, pending, receiveContext>>
    BY <1>5 DEF HubSends, msgVars
  <2> QED BY <2>1, <2>2 DEF CountersAgree
<1>6. CASE UNCHANGED <<accepted, pending, callbackCounter, cmdVars>>
  BY <1>6 DEF CountersAgree, cmdVars
<1> QED
  BY <1>2, <1>3, <1>4, <1>5, <1>6
     DEF Next, Program, vars, Terminated, FieldSide, SetupSocket, SetAddress,
         LoadConnectionString, InitPlatform, CreateClient, SetMessageCallback,
         StartRead, FinishRead, BuildMessage, DeinitPlatform, CloseSocket,
         msgVars

\* callbackCounter and receiveContext count what they say, each thing once.
THEOREM CountersRight == Spec => []CountersAgree
<1>1. Init => CountersAgree
  <2> SUFFICES ASSUME Init PROVE CountersAgree
    OBVIOUS
  <2>1. /\ accepted \ pending = {}
        /\ {c \in Commands : cmd[c] = "received"} = {}
        /\ callbackCounter = 0 /\ receiveContext = 0
    BY DEF Init
  <2> QED BY <2>1, FS_EmptySet DEF CountersAgree
<1>2. QED BY <1>1, CountersStep, Invariants, PTL DEF Spec

-----------------------------------------------------------------------------
(* Telemetry does not go back in time.                                     *)

LEMMA Transitive ==
    ASSUME NEW a \in Nat, NEW b \in Nat, NEW c \in Nat, a <= b, c >= b
    PROVE  a <= c
OBVIOUS

\* Only a slot with a message made in it has a body; what is in it is not
\* newer than the variables the next message will be made of.
Sent ==
    /\ \A i \in Slots : handle[i] = "null" => body[i] = Nil
    /\ \A i \in Slots : body[i] # Nil =>
          \A r \in Registers : /\ body[i][r].reg = r
                              /\ body[i][r].ver <= latest[r].ver

LEMMA SentStep ==
    ASSUME TInv, NbInv, NbInv', fails = 0, fails' = 0,
           "unfit" \notin Kinds, NoUnfit,
           Sent, TelemetryMonotone, [Next]_vars
    PROVE  Sent' /\ TelemetryMonotone'
<1>1. [NbNext]_nbVars
  BY ClientStep DEF TInv
<1>2. /\ latest \in [Registers -> Reading] /\ latest' \in [Registers -> Reading]
      /\ body \in [Slots -> [Registers -> Reading] \cup {Nil}]
  BY DEF NbInv, NbTypeOK, TInv, TypeOK
<1>3. \A i \in Slots : body[i] # Nil => body[i] \in [Registers -> Reading]
  BY <1>2
<1>4. \A r \in Registers : latest'[r].ver >= latest[r].ver
  BY <1>1, ForwardStep DEF NoUnfit
<1>5. \A i \in Slots : body[i] # Nil =>
        \A r \in Registers : /\ body[i][r].reg = r
                            /\ body[i][r].ver <= latest'[r].ver
  <2> SUFFICES ASSUME NEW i \in Slots, body[i] # Nil, NEW r \in Registers
               PROVE  body[i][r].ver <= latest'[r].ver
    BY DEF Sent
  <2>1. /\ body[i][r].ver \in Nat /\ latest[r].ver \in Nat
        /\ latest'[r].ver \in Nat
    BY <1>2, <1>3 DEF Reading
  <2>2. body[i][r].ver <= latest[r].ver
    BY DEF Sent
  <2> QED BY <1>4, <2>1, <2>2, Transitive
<1>6. CASE BuildMessage /\ ~ UNCHANGED <<handle, body>>
  <2>1. /\ handle' = [handle EXCEPT ![iterator] = "live"]
        /\ body' = [body EXCEPT ![iterator] = latest]
        /\ pc = "build" /\ latest' = latest
    BY <1>6 DEF BuildMessage, nbVars, callVars
  <2>2. \A j \in Slots : j > iterator => body[j] = Nil
    BY <2>1 DEF TInv, Frontier, Sent
  <2>3. \A r \in Registers : latest[r].reg = r /\ latest[r].ver \in Nat
    BY <1>2 DEF NbInv, Provenance, Reading
  <2>4. \A j \in Slots : body'[j] = IF j = iterator THEN latest ELSE body[j]
    BY <1>2, <2>1
  <2>5. \A j \in Slots : handle'[j] = IF j = iterator THEN "live" ELSE handle[j]
    BY <2>1 DEF TInv, TypeOK
  <2>6. \A r \in Registers : latest[r].ver <= latest[r].ver
    BY <2>3
  <2>7. Sent'
    BY <1>5, <2>1, <2>3, <2>4, <2>5, <2>6 DEF Sent
  <2>8. TelemetryMonotone'
    <3> SUFFICES ASSUME NEW i \in Slots, NEW j \in Slots, i < j,
                        body'[i] # Nil, body'[j] # Nil, NEW r \in Registers
                 PROVE  /\ body'[j][r].reg = r
                        /\ body'[i][r].ver <= body'[j][r].ver
      BY DEF TelemetryMonotone
    <3>1. CASE j = iterator
      <4>1. i # iterator
        BY <3>1 DEF TInv, TypeOK, Slots
      <4> QED BY <1>5, <2>1, <2>3, <2>4, <3>1, <4>1
    <3>2. CASE j # iterator
      <4>1. i # iterator
        <5>1. j > i
          BY DEF Slots
        <5> QED BY <2>2, <2>4, <3>2, <5>1
      <4> QED BY <2>4, <3>2, <4>1 DEF TelemetryMonotone
    <3> QED BY <3>1, <3>2
  <2> QED BY <2>7, <2>8
<1>7. CASE body' = body /\ \A i \in Slots : handle'[i] = "null" => handle[i] = "null"
  BY <1>5, <1>7 DEF Sent, TelemetryMonotone
<1>8. CASE DoWork \/ Drain \/ DestroyClient
  <2>1. PICK S \in SUBSET pending : \E result : Confirm(S, result)
    BY <1>8 DEF DoWork, Drain, DestroyClient, LibraryWorks
  <2>2. \A i \in Slots : handle'[i] = IF i \in S THEN "destroyed" ELSE handle[i]
    BY <2>1 DEF Confirm
  <2>3. body' = body
    BY <1>8 DEF DoWork, Drain, DestroyClient
  <2> QED BY <1>7, <2>2, <2>3
<1>9. CASE UNCHANGED <<handle, body>>
  BY <1>7, <1>9
<1> QED
  BY <1>6, <1>8, <1>9
     DEF Next, Program, vars, Terminated, FieldSide, HubSends, SetupSocket,
         SetAddress, LoadConnectionString, InitPlatform, CreateClient,
         SetMessageCallback, StartRead, FinishRead, BuildMessage, SendEvent,
         DeinitPlatform, CloseSocket, msgVars

\* A later message never carries an older reading than an earlier one, and
\* every value is a reading of its own register, as long as zmq_recv does not
\* fail; reads that fail, replies that are lost and messages refused do not
\* disturb the order.
THEOREM TelemetryInOrder ==
    ASSUME "recv" \notin Faults
    PROVE  Spec => []TelemetryMonotone
<1>1. CASE "unfit" \in Kinds
  <2>1. TelemetryMonotone
    BY <1>1 DEF TelemetryMonotone
  <2> QED BY <2>1, PTL
<1>2. CASE "unfit" \notin Kinds
  <2>1. Init => Sent /\ TelemetryMonotone
    BY DEF Init, Sent, TelemetryMonotone
  <2>2. /\ TInv /\ NbInv /\ NbInv' /\ NoFailure /\ NoFailure' /\ NoUnfit
        /\ Sent /\ TelemetryMonotone /\ [Next]_vars
        => Sent' /\ TelemetryMonotone'
    BY <1>2, SentStep DEF NoFailure
  <2>3. NbSpec => []NoFailure /\ []NoUnfit
    BY <1>2, NoFailureHolds, NoUnfitHolds, PTL
  <2>4. Spec => []NoFailure /\ []NoUnfit
    BY <2>3, ProgramUsesClient, PTL
  <2> QED BY <2>1, <2>2, <2>4, Invariants, PTL DEF Spec
<1> QED BY <1>1, <1>2

-----------------------------------------------------------------------------
(* The ledger of messages.                                                 *)

\* What the ledger says of message i, and when that has changed.
LEMMA LedgerAt ==
    ASSUME NEW i \in Slots
    PROVE  /\ handle[i] = "null" => LedgerState[i] = "unused"
           /\ handle[i] = "destroyed" => LedgerState[i] = "released"
           /\ handle[i] = "live" =>
                LedgerState[i] = IF i \in pending THEN "handed" ELSE "held"
BY DEF LedgerState

LEMMA LedgerKept ==
    ASSUME UNCHANGED <<handle, pending>>
    PROVE  LedgerState' = LedgerState
BY DEF LedgerState

\* The ledger's Cardinality is the program's.
LEMMA SameCardinality ==
    ASSUME NEW S
    PROVE  Ledger!Cardinality(S) = Cardinality(S)
BY DEF Ledger!Cardinality, Cardinality

\* The callbacks release what they confirm.
LEMMA LedgerConfirm ==
    ASSUME TInv, NEW S \in SUBSET pending, NEW result, Confirm(S, result),
           ~LedgerClosed
    PROVE  Ledger!Release(S) /\ S \in SUBSET Slots
<1>1. /\ S \subseteq Slots /\ pending' = pending \ S
      /\ \A i \in Slots : handle'[i] = IF i \in S THEN "destroyed" ELSE handle[i]
      /\ \A i \in S : handle[i] = "live"
  BY DEF TInv, TypeOK, HandleOwnership, Confirm
<1>2. \A i \in S : LedgerState[i] = "handed"
  BY <1>1, LedgerAt
<1>3. LedgerState' =
        [i \in Slots |-> IF i \in S THEN "released" ELSE LedgerState[i]]
  <2> SUFFICES ASSUME NEW i \in Slots
               PROVE  (IF handle'[i] = "live"
                       THEN IF i \in pending' THEN "handed" ELSE "held"
                       ELSE IF handle'[i] = "null" THEN "unused" ELSE "released")
                      = IF i \in S THEN "released" ELSE LedgerState[i]
    BY DEF LedgerState
  <2>1. CASE i \in S
    BY <1>1, <2>1
  <2>2. CASE i \notin S
    <3>1. handle'[i] = handle[i] /\ (i \in pending' <=> i \in pending)
      BY <1>1, <2>2
    <3> QED BY <2>2, <3>1 DEF LedgerState
  <2> QED BY <2>1, <2>2
<1>4. callbackCounter' = callbackCounter + Cardinality(S)
  BY DEF Confirm
<1>5. Ledger!Cardinality(S) = Cardinality(S)
  BY SameCardinality
<1> QED BY <1>1, <1>2, <1>3, <1>4, <1>5 DEF Ledger!Release

LEMMA LedgerStep ==
    ASSUME TInv, TInv', [Next]_vars
    PROVE  [Ledger!Next]_(Ledger!vars)
<1> USE DEF Ledger!vars
<1>1. ASSUME UNCHANGED <<handle, pending, callbackCounter>>,
             LedgerClosed' = LedgerClosed
      PROVE  [Ledger!Next]_(Ledger!vars)
  BY <1>1, LedgerKept
<1>2. CASE BuildMessage /\ handle' # handle
  <2>1. /\ pc = "build" /\ pc' = "send"
        /\ handle' = [handle EXCEPT ![iterator] = "live"]
        /\ UNCHANGED <<pending, callbackCounter>>
    BY <1>2 DEF BuildMessage, Goto
  <2>2. /\ iterator \in Slots /\ handle[iterator] = "null"
        /\ iterator \notin pending
    <3>1. iterator \in 0 .. MESSAGE_COUNT /\ iterator < MESSAGE_COUNT
      BY <2>1 DEF TInv, TypeOK, Position
    <3>2. iterator \in Slots
      BY <3>1, CountAssumption DEF Slots
    <3> QED BY <2>1, <3>2 DEF TInv, Frontier, HandleOwnership
  <2>3. \A i \in Slots :
          handle'[i] = IF i = iterator THEN "live" ELSE handle[i]
    BY <2>1 DEF TInv, TypeOK
  <2>4. LedgerState[iterator] = "unused"
    BY <2>2, LedgerAt
  <2>5. LedgerState' = [LedgerState EXCEPT ![iterator] = "held"]
    BY <2>1, <2>2, <2>3 DEF LedgerState
  <2>6. Ledger!Make(iterator)
    BY <2>1, <2>4, <2>5 DEF Ledger!Make, LedgerClosed
  <2> QED BY <2>2, <2>6 DEF Ledger!Next
<1>3. CASE SendEvent /\ pending' # pending
  <2>1. /\ pc = "send" /\ pc' = "dowork"
        /\ pending' = pending \cup {iterator}
        /\ UNCHANGED <<handle, callbackCounter>>
    BY <1>3 DEF SendEvent, Goto
  <2>2. /\ iterator \in Slots /\ handle[iterator] = "live"
        /\ iterator \notin pending
    <3>1. iterator \in 0 .. MESSAGE_COUNT /\ iterator < MESSAGE_COUNT
      BY <2>1 DEF TInv, TypeOK, Position
    <3>2. iterator \in Slots
      BY <3>1, CountAssumption DEF Slots
    <3> QED BY <2>1, <3>2 DEF TInv, TypeOK, Frontier
  <2>3. LedgerState[iterator] = "held"
    BY <2>2, LedgerAt
  <2>4. LedgerState' = [LedgerState EXCEPT ![iterator] = "handed"]
    BY <2>1, <2>2 DEF LedgerState
  <2>5. Ledger!HandOver(iterator)
    BY <2>1, <2>3, <2>4 DEF Ledger!HandOver, LedgerClosed
  <2> QED BY <2>2, <2>5 DEF Ledger!Next
<1>4. CASE DoWork \/ Drain
  <2>1. pc \in {"dowork", "drain"} /\ LibraryWorks
    BY <1>4 DEF DoWork, Drain
  <2>2. pc' \in {"read", "dowork", "drain", "destroy"}
    <3>1. CASE DoWork
      BY <3>1, NextIterationKeeps DEF DoWork, TInv, TypeOK
    <3>2. CASE Drain
      BY <3>2 DEF Drain, Goto
    <3> QED BY <1>4, <3>1, <3>2
  <2>3. ~LedgerClosed /\ ~LedgerClosed'
    BY <2>1, <2>2 DEF LedgerClosed
  <2>4. LedgerClosed' = LedgerClosed
    BY <2>3 DEF LedgerClosed
  <2>5. PICK S \in SUBSET pending : \E result : Confirm(S, result)
    BY <2>1 DEF LibraryWorks
  <2>6. S \in SUBSET Slots /\ Ledger!Release(S)
    BY <2>3, <2>5, LedgerConfirm
  <2> QED BY <2>4, <2>6 DEF Ledger!Next
<1>5. CASE DestroyClient
  <2>1. /\ pc = "destroy" /\ pc' = "deinit"
        /\ Confirm(pending, [i \in pending |-> "destroy"])
    BY <1>5 DEF DestroyClient, Goto
  <2>2. ~LedgerClosed /\ LedgerClosed' = TRUE
    BY <2>1 DEF LedgerClosed
  <2>3. pending \in SUBSET Slots /\ Ledger!Release(pending)
    BY <2>1, <2>2, LedgerConfirm
  <2>4. \A i \in Slots : LedgerState'[i] # "handed"
    <3>1. pending' = {}
      BY <2>1 DEF Confirm
    <3> QED BY <3>1 DEF LedgerState
  <2> QED BY <2>2, <2>3, <2>4 DEF Ledger!Next
<1>6. CASE (InitPlatform \/ CreateClient) /\ pc' \in {"deinit", "close"}
  <2>1. /\ pc \in {"platform", "create"} /\ pc' \in {"deinit", "close"}
        /\ UNCHANGED <<handle, pending, callbackCounter>>
    BY <1>6 DEF InitPlatform, CreateClient, msgVars
  <2>2. ~LedgerClosed /\ LedgerClosed' = TRUE
    BY <2>1 DEF LedgerClosed
  <2>3. pending' = {} /\ LedgerState' = LedgerState /\ callbackCounter \in Nat
    BY <2>1, LedgerKept DEF TInv, TypeOK, FrameOutlivesCallbacks
  <2>4. Ledger!Release({})
    <3>1. LedgerState' = [i \in Slots |-> LedgerState[i]]
      BY <2>3 DEF LedgerState
    <3>2. callbackCounter' = callbackCounter + Ledger!Cardinality({})
      BY <2>1, <2>3, FS_EmptySet, SameCardinality
    <3> QED BY <2>2, <3>1, <3>2 DEF Ledger!Release
  <2>5. \A i \in Slots : LedgerState'[i] # "handed"
    BY <2>3 DEF LedgerState
  <2>6. {} \in SUBSET Slots
    OBVIOUS
  <2> QED BY <2>2, <2>4, <2>5, <2>6 DEF Ledger!Next
<1>7. CASE /\ InitPlatform \/ CreateClient \/ SetMessageCallback
           /\ pc' \notin {"deinit", "close"}
  BY <1>1, <1>7 DEF InitPlatform, CreateClient, SetMessageCallback, Goto,
                    msgVars, LedgerClosed
<1>8. CASE SetupSocket \/ SetAddress \/ LoadConnectionString \/ StartRead
             \/ FinishRead
  BY <1>1, <1>8 DEF SetupSocket, SetAddress, LoadConnectionString, StartRead,
                    FinishRead, Goto, msgVars, LedgerClosed
<1>9. CASE BuildMessage /\ handle' = handle
  BY <1>1, <1>9 DEF BuildMessage, Goto, LedgerClosed
<1>10. CASE SendEvent /\ pending' = pending
  BY <1>1, <1>10 DEF SendEvent, Goto, LedgerClosed
<1>11. CASE DeinitPlatform \/ CloseSocket
  BY <1>1, <1>11 DEF DeinitPlatform, CloseSocket, Goto, msgVars, LedgerClosed
<1>12. CASE FieldSide \/ \E c \in Commands : HubSends(c)
  BY <1>1, <1>12 DEF FieldSide, HubSends, msgVars, LedgerClosed
<1>13. CASE UNCHANGED vars
  BY <1>1, <1>13 DEF vars, msgVars, LedgerClosed
<1>14. SetMessageCallback => pc' \notin {"deinit", "close"}
  BY DEF SetMessageCallback, Goto
<1> QED
  BY <1>2, <1>3, <1>4, <1>5, <1>6, <1>7, <1>8, <1>9, <1>10, <1>11, <1>12,
     <1>13, <1>14
     DEF Next, Program, Terminated

\* Each message is made once, handed over at most once and released exactly
\* once if it is, and the ledger closes with nothing handed over: for any
\* number of messages.
THEOREM LedgerImplemented == Spec => ImplementsLedger
<1>1. Init => Ledger!Init
  BY DEF Init, Ledger!Init, LedgerState, LedgerClosed
<1>2. TInv /\ TInv' /\ [Next]_vars => [Ledger!Next]_(Ledger!vars)
  BY LedgerStep
<1>3. QED
  BY <1>1, <1>2, Invariants, PTL DEF Spec, ImplementsLedger, Ledger!Spec

-----------------------------------------------------------------------------
(* The way out.                                                            *)

\* The calls left once quit has been received: of DoWork, then of the three
\* functions that undo the set-up.
CallsLeft ==
    CASE pc = "drain"   -> (DOWORK_LOOP_NUM - drained) + 3
      [] pc = "destroy" -> 3
      [] pc = "deinit"  -> 2
      [] pc = "close"   -> 1
      [] OTHER          -> 0

LEMMA CallsLeftType ==
    TInv /\ ~running =>
        /\ CallsLeft \in Nat
        /\ CallsLeft = 0 => pc = "exit"
        /\ pc = "drain" => CallsLeft = (DOWORK_LOOP_NUM - drained) + 3
        /\ pc = "destroy" => CallsLeft = 3
        /\ pc = "deinit" => CallsLeft = 2
        /\ pc = "close" => CallsLeft = 1
<1> SUFFICES ASSUME TInv, ~running
             PROVE  /\ CallsLeft \in Nat
                    /\ CallsLeft = 0 => pc = "exit"
                    /\ pc = "drain" => CallsLeft = (DOWORK_LOOP_NUM - drained) + 3
                    /\ pc = "destroy" => CallsLeft = 3
                    /\ pc = "deinit" => CallsLeft = 2
                    /\ pc = "close" => CallsLeft = 1
  OBVIOUS
<1>1. pc \in Leaving /\ (pc = "drain" => drained < DOWORK_LOOP_NUM)
  BY DEF TInv, Position
<1>2. drained \in Nat /\ DOWORK_LOOP_NUM \in Nat
  BY CountAssumption DEF TInv, TypeOK
<1>3. CASE pc = "drain"
  BY <1>1, <1>2, <1>3 DEF CallsLeft
<1>4. CASE pc \in {"destroy", "deinit", "close", "exit"}
  BY <1>4 DEF CallsLeft
<1> QED BY <1>1, <1>3, <1>4 DEF Leaving

LEMMA ProgramLeaves ==
    ASSUME TInv, TInv', ~running, Program
    PROVE  CallsLeft' < CallsLeft
<1>1. pc \in Leaving /\ (pc = "drain" => drained < DOWORK_LOOP_NUM)
  BY DEF TInv, Position
<1>2. drained \in Nat /\ DOWORK_LOOP_NUM \in Nat
  BY CountAssumption DEF TInv, TypeOK
<1>3. \/ Drain \/ DestroyClient \/ DeinitPlatform \/ CloseSocket
  BY <1>1 DEF Leaving, Program, SetupSocket, SetAddress, LoadConnectionString,
       InitPlatform, CreateClient, SetMessageCallback, StartRead, FinishRead,
       BuildMessage, SendEvent, DoWork
<1>4. CASE Drain
  <2>1. /\ pc = "drain" /\ drained' = drained + 1
        /\ pc' = IF drained' < DOWORK_LOOP_NUM THEN "drain" ELSE "destroy"
    BY <1>4 DEF Drain, Goto
  <2>2. CallsLeft = (DOWORK_LOOP_NUM - drained) + 3
    BY <2>1, CallsLeftType
  <2>3. CASE drained' < DOWORK_LOOP_NUM
    <3>1. CallsLeft' = (DOWORK_LOOP_NUM - drained') + 3
      BY <2>1, <2>3 DEF CallsLeft
    <3> QED BY <1>2, <2>1, <2>2, <3>1
  <2>4. CASE ~ (drained' < DOWORK_LOOP_NUM)
    <3>1. CallsLeft' = 3
      BY <2>1, <2>4 DEF CallsLeft
    <3> QED BY <1>1, <1>2, <2>1, <2>2, <3>1
  <2> QED BY <2>3, <2>4
<1>5. CASE DestroyClient
  BY <1>5 DEF DestroyClient, Goto, CallsLeft
<1>6. CASE DeinitPlatform
  BY <1>6 DEF DeinitPlatform, Goto, CallsLeft
<1>7. CASE CloseSocket
  BY <1>7 DEF CloseSocket, Goto, CallsLeft
<1> QED BY <1>3, <1>4, <1>5, <1>6, <1>7

LEMMA OthersWait == [Next]_vars /\ ~ Program => CallsLeft' = CallsLeft
<1> SUFFICES ASSUME [Next]_vars, ~ Program PROVE CallsLeft' = CallsLeft
  OBVIOUS
<1>1. pc' = pc /\ drained' = drained
  BY DEF Next, vars, FieldSide, HubSends, Terminated, loopVars
<1> QED BY <1>1 DEF CallsLeft

\* Once quit has been received each step of the program is one call less to
\* make, what gateway, device and hub do changes nothing about that, and when
\* there is none left main has returned.
THEOREM WayOutShrinks ==
    Spec => /\ [](~running => CallsLeft \in Nat /\ (CallsLeft = 0 => pc = "exit"))
            /\ [][~running =>
                    IF Program THEN CallsLeft' < CallsLeft ELSE CallsLeft' = CallsLeft]_vars
<1>1. TInv => (~running => CallsLeft \in Nat /\ (CallsLeft = 0 => pc = "exit"))
  BY CallsLeftType
<1>2. TInv /\ TInv' /\ [Next]_vars =>
        [~running =>
           IF Program THEN CallsLeft' < CallsLeft ELSE CallsLeft' = CallsLeft]_vars
  BY ProgramLeaves, OthersWait
<1> QED BY <1>1, <1>2, Invariants, PTL DEF Spec
=============================================================================
