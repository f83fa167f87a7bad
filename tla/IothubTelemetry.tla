--------------------------- MODULE IothubTelemetry ---------------------------
(***************************************************************************)
(* The telemetry program of iotHub_mbtcp (main and                         *)
(* iothub_client_sample_mqtt_run of src/iothub_client_NB301_mqtt.c),       *)
(* composed with the register client of NbZmqMbtcp and with the Azure IoT  *)
(* Hub client library and the hub, which are outside this code.            *)
(*                                                                         *)
(* The program is one thread.  It reads three registers through the        *)
(* client, hands a message made of the three variables to the library, and *)
(* lets the library work; the library runs both callbacks inside DoWork.   *)
(***************************************************************************)
EXTENDS NbZmqMbtcp

CONSTANTS
    MESSAGE_COUNT,      \* messages the program sends
    DOWORK_LOOP_NUM,    \* calls of DoWork after a quit message
    Commands,           \* messages the hub sends to the device
    Quits               \* those of them that read "quit"

\* The address the program is built with, 192.168.1.9 port 502.
HostAddress == [len |-> 11, port |-> 502]

ASSUME RegisterAssumption == Registers = 1 .. 3
ASSUME HostAssumption == HostAddress \in Addresses
ASSUME CountAssumption == /\ MESSAGE_COUNT \in Nat \ {0}
                          /\ DOWORK_LOOP_NUM \in Nat \ {0}
ASSUME CommandAssumption == IsFiniteSet(Commands) /\ Quits \subseteq Commands

VARIABLES
    pc,               \* where the program is
    iterator,         \* iterations done, and MESSAGE_COUNT from there on
    step,             \* the register to read next
    updated,          \* history: the registers read in this iteration
    running,          \* g_continueRunning
    drained,          \* the loop index after the quit message
    handle,           \* messages[i].messageHandle and the message behind it
    body,             \* the values message i was made of
    callbackCounter,  \* confirmations received
    receiveContext,   \* messages from the hub received
    accepted,         \* history: messages SendEventAsync took
    pending,          \* library: messages whose callback is still to come
    outcome,          \* library: result each callback got
    cmd               \* hub: what became of each of its messages

loopVars == <<iterator, step, updated, drained>>
msgVars  == <<handle, body, accepted, pending, outcome, callbackCounter>>
cmdVars  == <<running, cmd, receiveContext>>
vars == <<nbVars, pc, loopVars, msgVars, cmdVars>>

Slots == 0 .. MESSAGE_COUNT - 1

Handles  == {"null", "live", "destroyed"}
Outcomes == {"none", "ok", "failed", "destroy"}

Locations == {"setup", "address", "config", "platform", "create", "callback",
              "read", "build", "send", "dowork", "drain", "destroy",
              "deinit", "close", "exit", "crashed"}

-----------------------------------------------------------------------------
(* main, and iothub_client_sample_mqtt_run up to its loop.                 *)

Goto(p) == pc' = p

\* zmq_setup; what it returns is not looked at.
SetupSocket ==
    /\ pc = "setup"
    /\ Setup
    /\ Goto("address")
    /\ UNCHANGED <<loopVars, msgVars, cmdVars>>

SetAddress ==
    /\ pc = "address"
    /\ InitIpPort(HostAddress)
    /\ Goto("config")
    /\ UNCHANGED <<loopVars, msgVars, cmdVars>>

\* getConnectionString yields NULL when the file is not there or has nothing in
\* it, and puts is given that NULL.
LoadConnectionString ==
    /\ pc = "config"
    /\ Goto("platform") \/ Goto("crashed")
    /\ UNCHANGED <<nbVars, loopVars, msgVars, cmdVars>>

\* platform_init, CreateFromConnectionString and SetMessageCallback: each
\* undoes what came before it when it fails.  Options that cannot be set are
\* only reported.
InitPlatform ==
    /\ pc = "platform"
    /\ Goto("create") \/ Goto("close")
    /\ UNCHANGED <<nbVars, loopVars, msgVars, cmdVars>>

CreateClient ==
    /\ pc = "create"
    /\ Goto("callback") \/ Goto("deinit")
    /\ UNCHANGED <<nbVars, loopVars, msgVars, cmdVars>>

SetMessageCallback ==
    /\ pc = "callback"
    /\ Goto("read") \/ Goto("destroy")
    /\ UNCHANGED <<nbVars, loopVars, msgVars, cmdVars>>

-----------------------------------------------------------------------------
(* The loop, for an iterator below MESSAGE_COUNT.                          *)

\* get_u16_register(step, ...): the call is made ...
StartRead ==
    /\ pc = "read"
    /\ CallRegister(step)
    /\ UNCHANGED <<pc, loopVars, msgVars, cmdVars>>

\* Mutant: a read that fails is repeated until it succeeds.
FinishReadRetries ==
    /\ pc = "read"
    /\ CallReturns
    /\ updated' = IF ret' = 0 THEN updated \cup {step} ELSE updated
    /\ CASE ret' # 0              -> step' = step /\ pc' = pc
         [] ret' = 0 /\ step < 3  -> step' = step + 1 /\ pc' = pc
         [] OTHER                 -> step' = 1 /\ Goto("build")
    /\ UNCHANGED <<iterator, drained, msgVars, cmdVars>>

\* ... and comes back.  Its result goes to res, which nothing reads.
FinishRead ==
    /\ pc = "read"
    /\ CallReturns
    /\ updated' = IF ret' = 0 THEN updated \cup {step} ELSE updated
    /\ IF step < 3
       THEN step' = step + 1 /\ pc' = pc
       ELSE step' = 1 /\ Goto("build")
    /\ UNCHANGED <<iterator, drained, msgVars, cmdVars>>

\* Mutant: one EVENT_INSTANCE for all messages.
BuildMessageOneSlot ==
    /\ pc = "build"
    /\ \/ /\ handle' = [handle EXCEPT ![0] = "live"]
          /\ body' = [body EXCEPT ![iterator] = latest]
          /\ Goto("send")
       \/ /\ UNCHANGED <<handle, body>>
          /\ Goto("dowork")
    /\ UNCHANGED <<nbVars, loopVars, accepted, pending, outcome,
                   callbackCounter, cmdVars>>

\* IoTHubMessage_CreateFromByteArray of the text made from the variables.
BuildMessage ==
    /\ pc = "build"
    /\ \/ /\ handle' = [handle EXCEPT ![iterator] = "live"]
          /\ body' = [body EXCEPT ![iterator] = latest]
          /\ Goto("send")
       \/ /\ UNCHANGED <<handle, body>>
          /\ Goto("dowork")
    /\ UNCHANGED <<nbVars, loopVars, accepted, pending, outcome,
                   callbackCounter, cmdVars>>

\* Mutant: the message is destroyed after it has been handed over.
SendEventDestroys ==
    /\ pc = "send"
    /\ \/ /\ accepted' = accepted \cup {iterator}
          /\ pending' = pending \cup {iterator}
       \/ UNCHANGED <<accepted, pending>>
    /\ handle' = [handle EXCEPT ![iterator] = "destroyed"]
    /\ Goto("dowork")
    /\ UNCHANGED <<nbVars, loopVars, body, outcome, callbackCounter, cmdVars>>

\* IoTHubClient_LL_SendEventAsync.  A message it refuses is only reported.
SendEvent ==
    /\ pc = "send"
    /\ \/ /\ accepted' = accepted \cup {iterator}
          /\ pending' = pending \cup {iterator}
       \/ UNCHANGED <<accepted, pending>>
    /\ Goto("dowork")
    /\ UNCHANGED <<nbVars, loopVars, handle, body, outcome, callbackCounter,
                   cmdVars>>

-----------------------------------------------------------------------------
(* DoWork and the callbacks it runs.                                       *)

\* Mutant: only what was delivered is counted.
ConfirmCountsDelivered(S, result) ==
    /\ pending' = pending \ S
    /\ outcome' = [i \in Slots |-> IF i \in S THEN result[i] ELSE outcome[i]]
    /\ handle' = [i \in Slots |-> IF i \in S THEN "destroyed" ELSE handle[i]]
    /\ callbackCounter' = callbackCounter
                            + Cardinality({i \in S : result[i] = "ok"})

\* SendConfirmationCallback for every message in S, in any order: the result
\* is only printed.
Confirm(S, result) ==
    /\ pending' = pending \ S
    /\ outcome' = [i \in Slots |-> IF i \in S THEN result[i] ELSE outcome[i]]
    /\ handle' = [i \in Slots |-> IF i \in S THEN "destroyed" ELSE handle[i]]
    /\ callbackCounter' = callbackCounter + Cardinality(S)

\* ReceiveMessageCallback for every message in C.
ReceiveMessages(C) ==
    /\ cmd' = [c \in Commands |-> IF c \in C THEN "received" ELSE cmd[c]]
    /\ running' = (running /\ C \cap Quits = {})
    /\ receiveContext' = receiveContext + Cardinality(C)

\* IoTHubClient_LL_DoWork: the library confirms some messages, delivered or
\* given up, and passes on some of what has come in.
LibraryWorks ==
    /\ \E S \in SUBSET pending :
         \E result \in [S -> {"ok", "failed"}] : Confirm(S, result)
    /\ \E C \in SUBSET {c \in Commands : cmd[c] = "queued"} :
         ReceiveMessages(C)

\* Mutant: iterator <= MESSAGE_COUNT in the loop's test.
NextIterationOneMore ==
    LET i == IF iterator < MESSAGE_COUNT THEN iterator + 1 ELSE iterator
    IN  /\ iterator' = i
        /\ updated' = {}
        /\ Goto(CASE ~running'                      -> "drain"
                  [] running' /\ i <= MESSAGE_COUNT -> "read"
                  [] OTHER                          -> "dowork")

\* Mutant: the quit flag is looked at only when every message has been sent.
NextIterationSendsAll ==
    LET i == IF iterator < MESSAGE_COUNT THEN iterator + 1 ELSE iterator
    IN  /\ iterator' = i
        /\ updated' = {}
        /\ Goto(CASE i < MESSAGE_COUNT               -> "read"
                  [] ~running' /\ i = MESSAGE_COUNT -> "drain"
                  [] OTHER                          -> "dowork")

\* The end of an iteration.  From MESSAGE_COUNT on the program no longer tells
\* the values of iterator apart, so it stops counting.
NextIteration ==
    LET i == IF iterator < MESSAGE_COUNT THEN iterator + 1 ELSE iterator
    IN  /\ iterator' = i
        /\ updated' = {}
        /\ Goto(CASE ~running'                      -> "drain"
                  [] running' /\ i < MESSAGE_COUNT  -> "read"
                  [] OTHER                          -> "dowork")

DoWork ==
    /\ pc = "dowork"
    /\ LibraryWorks
    /\ NextIteration
    /\ UNCHANGED <<nbVars, step, drained, body, accepted>>

\* Mutant: the way out does not pass through IoTHubClient_LL_Destroy.
DrainSkipsDestroy ==
    /\ pc = "drain"
    /\ LibraryWorks
    /\ drained' = drained + 1
    /\ Goto(IF drained' < DOWORK_LOOP_NUM THEN "drain" ELSE "deinit")
    /\ UNCHANGED <<nbVars, iterator, step, updated, body, accepted>>

\* Mutant: the index of the draining loop is not increased.
DrainForever ==
    /\ pc = "drain"
    /\ LibraryWorks
    /\ drained' = drained
    /\ Goto(IF drained' < DOWORK_LOOP_NUM THEN "drain" ELSE "destroy")
    /\ UNCHANGED <<nbVars, iterator, step, updated, body, accepted>>

\* The calls of DoWork made after the quit message.
Drain ==
    /\ pc = "drain"
    /\ LibraryWorks
    /\ drained' = drained + 1
    /\ Goto(IF drained' < DOWORK_LOOP_NUM THEN "drain" ELSE "destroy")
    /\ UNCHANGED <<nbVars, iterator, step, updated, body, accepted>>

-----------------------------------------------------------------------------
(* The way out.                                                            *)

\* IoTHubClient_LL_Destroy confirms what it still holds.
DestroyClient ==
    /\ pc = "destroy"
    /\ Confirm(pending, [i \in pending |-> "destroy"])
    /\ Goto("deinit")
    /\ UNCHANGED <<nbVars, loopVars, body, accepted, cmdVars>>

DeinitPlatform ==
    /\ pc = "deinit"
    /\ Goto("close")
    /\ UNCHANGED <<nbVars, loopVars, msgVars, cmdVars>>

\* zmq_destroy, and main returns.
CloseSocket ==
    /\ pc = "close"
    /\ Destroy
    /\ Goto("exit")
    /\ UNCHANGED <<loopVars, msgVars, cmdVars>>

-----------------------------------------------------------------------------
(* The whole system.                                                       *)

\* The hub keeps a message for a device that is not connected yet.
HubSends(c) ==
    /\ cmd[c] = "unsent"
    /\ cmd' = [cmd EXCEPT ![c] = "queued"]
    /\ UNCHANGED <<nbVars, pc, loopVars, msgVars, running, receiveContext>>

FieldSide ==
    /\ Environment
    /\ UNCHANGED <<pc, loopVars, msgVars, cmdVars>>

Init ==
    /\ NbInit
    /\ pc = "setup"
    /\ iterator = 0 /\ step = 1 /\ updated = {} /\ drained = 0
    /\ running = TRUE
    /\ handle = [i \in Slots |-> "null"]
    /\ body = [i \in Slots |-> Nil]
    /\ callbackCounter = 0 /\ receiveContext = 0
    /\ accepted = {} /\ pending = {}
    /\ outcome = [i \in Slots |-> "none"]
    /\ cmd = [c \in Commands |-> "unsent"]

Program ==
    \/ SetupSocket \/ SetAddress \/ LoadConnectionString
    \/ InitPlatform \/ CreateClient \/ SetMessageCallback
    \/ StartRead \/ FinishRead \/ BuildMessage \/ SendEvent
    \/ DoWork \/ Drain
    \/ DestroyClient \/ DeinitPlatform \/ CloseSocket

Terminated == pc \in {"exit", "crashed"} /\ UNCHANGED vars

Next ==
    \/ Program
    \/ FieldSide
    \/ \E c \in Commands : HubSends(c)
    \/ Terminated

Spec == Init /\ [][Next]_vars

\* The program's thread is scheduled; nothing is asked of anybody else.
ProgramFairSpec == Spec /\ WF_vars(Program)

\* And the gateway answers, and a message the hub has sent is passed on by
\* one of the calls of DoWork to come.
Delivers(c) == (DoWork \/ Drain) /\ cmd[c] = "queued" /\ cmd'[c] = "received"

FairSpec ==
    /\ ProgramFairSpec
    /\ WF_vars(Gateway /\ UNCHANGED <<pc, loopVars, msgVars, cmdVars>>)
    /\ \A c \in Commands : SF_vars(Delivers(c))

-----------------------------------------------------------------------------
(* Properties.                                                             *)

TypeOK ==
    /\ NbTypeOK
    /\ pc \in Locations
    /\ iterator \in 0 .. MESSAGE_COUNT
    /\ step \in 1 .. 3
    /\ updated \subseteq Registers
    /\ running \in BOOLEAN
    /\ drained \in 0 .. DOWORK_LOOP_NUM
    /\ handle \in [Slots -> Handles]
    /\ body \in [Slots -> [Registers -> Reading] \cup {Nil}]
    /\ callbackCounter \in Nat
    /\ receiveContext \in Nat
    /\ accepted \subseteq Slots
    /\ pending \subseteq accepted
    /\ outcome \in [Slots -> Outcomes]
    /\ cmd \in [Commands -> {"unsent", "queued", "received"}]

\* Every message is destroyed by its confirmation and by nothing else: a
\* callback still to come finds its message live, and a message whose
\* callback has come is gone.
HandleOwnership ==
    /\ \A i \in pending : handle[i] = "live"
    /\ \A i \in Slots : handle[i] = "destroyed" <=> i \in accepted \ pending

\* messages[] lives on the stack of iothub_client_sample_mqtt_run: when that
\* function is past IoTHubClient_LL_Destroy no callback may still come, and
\* the only messages left undestroyed are those SendEventAsync refused.
FrameOutlivesCallbacks ==
    pc \in {"deinit", "close", "exit"} =>
        /\ pending = {}
        /\ \A i \in accepted : handle[i] = "destroyed"

\* callbackCounter counts the confirmed messages, each once, and
\* receiveContext the messages received from the hub.
CountersAgree ==
    /\ callbackCounter = Cardinality(accepted \ pending)
    /\ receiveContext = Cardinality({c \in Commands : cmd[c] = "received"})

\* Telemetry does not go back in time: every value sent is a reading of the
\* register it is sent under, and a later message never carries an older
\* reading of a register than an earlier one, whatever reads have failed, as
\* long as no value_data is unfit.
TelemetryMonotone ==
    "unfit" \notin Kinds => \A i, j \in Slots :
        i < j /\ body[i] # Nil /\ body[j] # Nil =>
            \A r \in Registers : /\ body[j][r].reg = r
                                 /\ body[i][r].ver <= body[j][r].ver

\* After a quit message no register is read, no message is made and none is
\* handed to the library.
QuietAfterQuit ==
    [][~running => /\ reading' = Nil
                   /\ body' = body
                   /\ accepted' = accepted]_vars

\* "update the variables before sending out the messages": a message is made
\* of values read in its own iteration.
SendsUpdatedValues == pc = "send" => updated = Registers

\* "gotten quit message, call DoWork 3 more time to complete final sending":
\* no message is left for IoTHubClient_LL_Destroy to give up.
FinalSendingCompletes == \A i \in Slots : outcome[i] # "destroy"

\* Once a quit message is received the program ends, also when the gateway
\* no longer answers: nothing on the way out waits for it.
QuitEnds == ~running ~> pc = "exit"

\* A quit message the hub sends to a program in its loop ends the program,
\* as long as the gateway answers: a read must not keep DoWork from running.
QuitIsHeard ==
    \A c \in Quits :
        (cmd[c] = "queued" /\ pc \in {"read", "build", "send", "dowork"})
            ~> pc = "exit"

\* What the handles and the library's queue say of each message.
LedgerState ==
    [i \in Slots |->
        IF handle[i] = "live"
        THEN IF i \in pending THEN "handed" ELSE "held"
        ELSE IF handle[i] = "null" THEN "unused" ELSE "released"]

LedgerClosed == pc \in {"deinit", "close", "exit"}

\* The ledger of messages: each is handed over at most once, released exactly
\* once if it is, and the ledger closes with nothing handed over.
Ledger == INSTANCE MessageLedger WITH
            Messages  <- Slots,
            state     <- LedgerState,
            confirmed <- callbackCounter,
            closed    <- LedgerClosed

ImplementsLedger == Ledger!Spec
=============================================================================
