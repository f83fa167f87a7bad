----------------------------- MODULE NbZmqMbtcp -----------------------------
(***************************************************************************)
(* The Modbus register client of iotHub_mbtcp (src/nb_zmq_mbtcp.c) and its *)
(* environment: the ZeroMQ REQ socket it owns, the gateway process at the  *)
(* other end of ipc:///tmp/zeromq/modbus_tcp, and the Modbus device whose  *)
(* registers the gateway reads.                                            *)
(*                                                                         *)
(* A register value is abstracted to the pair of the register it was read  *)
(* from and a version: device[r] counts how often register r has changed,  *)
(* so two readings can be compared for origin and for age.  Version 0 is   *)
(* no reading: what a variable was compiled with, or made of a value_data  *)
(* that is no number of 16 bits.                                           *)
(***************************************************************************)
EXTENDS Integers, FiniteSets

CONSTANTS
    Registers,    \* registers the caller reads
    Ids,          \* request ids, the values uuid_generate can return
    Addresses,    \* arguments init_ip_port is called with: [len, port]
    Kinds,        \* kinds of reply the gateway sends
    Faults,       \* faults the environment may show, a subset of FaultKinds
    MaxVersion,   \* bound: how often a device register changes
    MaxFails,     \* bound: how often zmq_recv fails
    Nil           \* no call, no reply, no address

FaultKinds == {"lose", "recv", "setup", "connect"}

\* What message_parse tells apart, a resp_object with value.value_data, one
\* with none (status and error_string), and anything else; and what it does
\* not: a value_data that is unfit, no number or none of 16 bits.
ReplyKinds == {"value", "unfit", "status", "malformed"}

\* init_ip_port refuses a port or a length of the address out of range.
Accepts(a) == a.port \in 0 .. 5000 /\ a.len \in 6 .. 36

\* The buffer the accepted address is copied to has room for 15 characters
\* and the terminating zero; the code leaves that to its caller.
AddressFits(a) == Accepts(a) => a.len <= 15

ASSUME NilAssumption == /\ Nil \notin Registers /\ Nil \notin Ids
                        /\ Nil \notin Addresses /\ Nil \notin Nat
ASSUME AddressAssumption ==
    /\ Addresses \subseteq [len : Nat, port : Int]
    /\ \A a \in Addresses : AddressFits(a)
ASSUME KindAssumption == Kinds \subseteq ReplyKinds
ASSUME FaultAssumption == Faults \subseteq FaultKinds
ASSUME BoundAssumption == MaxVersion \in Nat \ {0} /\ MaxFails \in Nat

VARIABLES
    sock,       \* the static "requester": state of the REQ socket
    target,     \* the statics target_ipaddr and target_port
    reading,    \* the register of the get_u16_register call in progress
    guid,       \* the id of the request that call built
    latest,     \* the variables the callbacks assign, by register
    ret,        \* what the last get_u16_register call returned
    lastBuf,    \* the reply last received, still in the stack's old bytes
    toDaemon,   \* requests on their way to the gateway
    toApp,      \* replies on their way back
    device,     \* the version each device register has
    fails,      \* history: how often zmq_recv has failed
    misdelivered \* history: values delivered that answered another request

callVars == <<reading, guid, latest, ret>>
histVars == <<fails, misdelivered>>
wireVars == <<toDaemon, toApp>>
nbVars == <<sock, target, callVars, lastBuf, wireVars, device, histVars>>

Reading == [reg : Registers, ver : Nat]
Request == [id : Ids, reg : Registers, addr : Addresses \cup {Nil}]
Reply   == [id : Ids, reg : Registers, kind : ReplyKinds, ver : Nat]

InFlight == toDaemon \cup toApp

-----------------------------------------------------------------------------
(* zmq_setup, init_ip_port and zmq_destroy.                                *)

\* The results of zmq_ctx_new, zmq_socket and zmq_connect are not looked at:
\* a socket that could not be made, or is there and was not connected, is found
\* out by the calls that use it.
Setup ==
    /\ sock = "none"
    /\ \/ sock' = "ready"
       \/ "setup" \in Faults /\ sock' = "invalid"
       \/ "connect" \in Faults /\ sock' = "unconnected"
    /\ UNCHANGED <<target, callVars, lastBuf, wireVars, device, histVars>>

InitIpPort(a) ==
    /\ reading = Nil
    /\ target' = IF Accepts(a) THEN a ELSE target
    /\ UNCHANGED <<sock, callVars, lastBuf, wireVars, device, histVars>>

\* What has come back goes with the socket.  A request stays on its way:
\* zmq_ctx_destroy lingers, and returns only when the gateway has been sent it.
Destroy ==
    /\ reading = Nil
    /\ sock \notin {"none", "closed"}
    /\ sock' = "closed"
    /\ toApp' = {}
    /\ UNCHANGED <<target, callVars, lastBuf, toDaemon, device, histVars>>

-----------------------------------------------------------------------------
(* get_u16_register.                                                       *)

\* An id uuid_generate returns differs from every id still to be seen.
FreshIds == Ids \ ({m.id : m \in InFlight} \cup
                   (IF lastBuf = Nil THEN {} ELSE {lastBuf.id}))

\* Mutant: a socket that sends whether or not a reply is outstanding, as any
\* type other than ZMQ_REQ would.
CallRegisterAnySocket(r) ==
    /\ reading = Nil
    /\ sock \notin {"none", "closed"}
    /\ reading' = r
    /\ guid' \in FreshIds
    /\ toDaemon' = toDaemon \cup {[id |-> guid', reg |-> r, addr |-> target]}
    /\ sock' = "awaiting"
    /\ UNCHANGED <<target, latest, ret, lastBuf, toApp, device, histVars>>

\* The call up to zmq_recv, between zmq_setup and zmq_destroy as main makes it.
\* zmq_send fails, and nobody looks, when the socket still awaits the reply to
\* an earlier request; on a socket that is not connected it waits for ever, and
\* so does the call.
CallRegister(r) ==
    /\ reading = Nil
    /\ sock \notin {"none", "closed"}
    /\ reading' = r
    /\ guid' \in FreshIds
    /\ IF sock = "ready"
       THEN /\ toDaemon' = toDaemon \cup
                             {[id |-> guid', reg |-> r, addr |-> target]}
            /\ sock' = "awaiting"
       ELSE UNCHANGED <<toDaemon, sock>>
    /\ UNCHANGED <<target, latest, ret, lastBuf, toApp, device, histVars>>

\* Mutant: message_parse without the test for value.value_data, so that an
\* error reply reads as the number 0.
ParseUnchecked(m) ==
    IF m.kind # "malformed"
    THEN /\ latest' = [latest EXCEPT ![reading] =
                                       [reg |-> m.reg, ver |-> m.ver]]
         /\ ret' = 0
         /\ misdelivered' = misdelivered + (IF m.id = guid THEN 0 ELSE 1)
    ELSE /\ ret' = 1
         /\ UNCHANGED <<latest, misdelivered>>

\* Mutant: message_parse reports an error the way init_ip_port does.
ParseMinusOne(m) ==
    IF m.kind \in {"value", "unfit"}
    THEN /\ latest' = [latest EXCEPT ![reading] =
                                       [reg |-> m.reg, ver |-> m.ver]]
         /\ ret' = 0
         /\ misdelivered' = misdelivered + (IF m.id = guid THEN 0 ELSE 1)
    ELSE /\ ret' = -1
         /\ UNCHANGED <<latest, misdelivered>>

\* message_parse of reply m.  The id of the reply is never compared, and a
\* value_data that is unfit is cast and reported as read.
Parse(m) ==
    IF m.kind \in {"value", "unfit"}
    THEN /\ latest' = [latest EXCEPT ![reading] =
                                       [reg |-> m.reg, ver |-> m.ver]]
         /\ ret' = 0
         /\ misdelivered' = misdelivered + (IF m.id = guid THEN 0 ELSE 1)
    ELSE /\ ret' = 1
         /\ UNCHANGED <<latest, misdelivered>>

Return == reading' = Nil /\ guid' = Nil

\* Mutant: a reply that does not parse is skipped and another one waited for.
ReceiveUntilParsed ==
    /\ reading # Nil
    /\ sock = "awaiting"
    /\ \E m \in toApp :
         /\ toApp' = toApp \ {m}
         /\ lastBuf' = m
         /\ IF m.kind = "malformed"
            THEN UNCHANGED <<latest, ret, misdelivered, reading, guid, sock>>
            ELSE Parse(m) /\ Return /\ sock' = "ready"
    /\ UNCHANGED <<target, toDaemon, device, fails>>

\* zmq_recv yields a reply and the socket may send again.
Receive ==
    /\ reading # Nil
    /\ sock = "awaiting"
    /\ \E m \in toApp :
         /\ toApp' = toApp \ {m}
         /\ lastBuf' = m
         /\ Parse(m)
    /\ sock' = "ready"
    /\ Return
    /\ UNCHANGED <<target, toDaemon, device, fails>>

\* zmq_recv fails and its -1 is used all the same: the buffer is parsed
\* uninitialized.  It holds bytes that do not parse, or those an earlier call
\* left on the same stack addresses.  The socket goes on awaiting its reply.
ReceiveFails ==
    /\ "recv" \in Faults
    /\ reading # Nil
    /\ sock = "awaiting"
    /\ fails < MaxFails
    /\ fails' = fails + 1
    /\ \/ ret' = 1 /\ UNCHANGED <<latest, misdelivered>>
       \/ lastBuf # Nil /\ Parse(lastBuf)
    /\ Return
    /\ UNCHANGED <<sock, target, lastBuf, wireVars, device>>

\* Mutant: zmq_recv with ZMQ_DONTWAIT, which gives up on a reply to come.
ReceiveNoWait ==
    /\ reading # Nil
    /\ sock \in {"invalid", "awaiting"}
    /\ ret' = 1
    /\ Return
    /\ UNCHANGED <<sock, target, latest, lastBuf, wireVars, device, histVars>>

\* On a socket that was never made both calls fail and no reply ever came.
ReceiveInvalid ==
    /\ reading # Nil
    /\ sock = "invalid"
    /\ ret' = 1
    /\ Return
    /\ UNCHANGED <<sock, target, latest, lastBuf, wireVars, device, histVars>>

CallReturns == Receive \/ ReceiveFails \/ ReceiveInvalid

-----------------------------------------------------------------------------
(* The environment: gateway process, wire and device.                      *)

\* The gateway reads the device and answers; it has no value to report when
\* the request names no device.  The version is of no use in other replies.
\* To a socket that is closed no reply gets back.
Answer(m, k) ==
    /\ m \in toDaemon
    /\ k = "value" => m.addr # Nil
    /\ toDaemon' = toDaemon \ {m}
    /\ toApp' = IF sock = "awaiting"
                THEN toApp \cup
                       {[id |-> m.id, reg |-> m.reg, kind |-> k,
                         ver |-> IF k = "value" THEN device[m.reg] ELSE 0]}
                ELSE toApp
    /\ UNCHANGED <<sock, target, callVars, lastBuf, device, histVars>>

\* A gateway that restarts takes what it had read or queued with it.
Lose(m) ==
    /\ "lose" \in Faults
    /\ m \in InFlight
    /\ toDaemon' = toDaemon \ {m}
    /\ toApp' = toApp \ {m}
    /\ UNCHANGED <<sock, target, callVars, lastBuf, device, histVars>>

DeviceChange(r) ==
    /\ device[r] < MaxVersion
    /\ device' = [device EXCEPT ![r] = @ + 1]
    /\ UNCHANGED <<sock, target, callVars, lastBuf, wireVars, histVars>>

Gateway == \E m \in toDaemon, k \in Kinds : Answer(m, k)

Environment ==
    \/ Gateway
    \/ \E m \in InFlight : Lose(m)
    \/ \E r \in Registers : DeviceChange(r)

-----------------------------------------------------------------------------
(* The client on its own: a caller that reads registers in any order.      *)

NbInit ==
    /\ sock = "none" /\ target = Nil
    /\ reading = Nil /\ guid = Nil /\ ret = 0
    /\ latest = [r \in Registers |-> [reg |-> r, ver |-> 0]]
    /\ lastBuf = Nil
    /\ toDaemon = {} /\ toApp = {}
    /\ device = [r \in Registers |-> 1]
    /\ fails = 0 /\ misdelivered = 0

Client ==
    \/ Setup
    \/ \E a \in Addresses : InitIpPort(a)
    \/ \E r \in Registers : CallRegister(r)
    \/ CallReturns
    \/ Destroy

NbNext == Client \/ Environment

NbSpec == NbInit /\ [][NbNext]_nbVars

-----------------------------------------------------------------------------
(* Properties.                                                             *)

NbTypeOK ==
    /\ sock \in {"none", "ready", "awaiting", "invalid", "unconnected", "closed"}
    /\ target \in Addresses \cup {Nil}
    /\ reading \in Registers \cup {Nil}
    /\ guid \in Ids \cup {Nil}
    /\ latest \in [Registers -> Reading]
    /\ ret \in {0, 1}
    /\ lastBuf \in Reply \cup {Nil}
    /\ toDaemon \subseteq Request
    /\ toApp \subseteq Reply
    /\ device \in [Registers -> Nat]
    /\ fails \in Nat
    /\ misdelivered \in Nat

\* At most one request or reply is under way, and only while the socket awaits
\* a reply, or has been closed awaiting one: the REQ socket's alternation
\* survives failed receives.
OneOutstanding ==
    /\ \A m, n \in toDaemon : m = n
    /\ \A m, n \in toApp : m = n
    /\ toDaemon = {} \/ toApp = {}
    /\ toDaemon # {} => sock \in {"awaiting", "closed"}
    /\ toApp # {} => sock = "awaiting"

\* While no receive has failed, what is under way belongs to the call in
\* progress, and between calls the socket is ready to send: the replies,
\* whose ids message_parse ignores, cannot be taken for one another.
LockStep ==
    fails = 0 =>
        /\ \A m \in InFlight : m.id = guid /\ m.reg = reading
        /\ reading = Nil => sock # "awaiting"

\* A variable holds a reading of its own register, not newer than the
\* device, while no receive has failed.
Provenance ==
    fails = 0 => \A r \in Registers : /\ latest[r].reg = r
                                      /\ latest[r].ver <= device[r]

\* A failed receive makes at most two values go to the wrong caller: the old
\* reply left in the buffer, and its own late reply, taken by a later call.
MisdeliveryBound == misdelivered <= 2 * fails

\* A variable never goes back to an older reading while no receive fails; it
\* loses its reading only to a reply whose value_data is unfit.
MonotonicReads ==
    [][fails' = 0 =>
         \A r \in Registers : \/ latest'[r].ver >= latest[r].ver
                               \/ /\ latest'[r].ver = 0
                                  /\ \E m \in toApp : m.kind = "unfit"]_nbVars

\* Every get_u16_register call comes back.  It needs the gateway to answer:
\* zmq_recv has no timeout.
CallsReturn == reading # Nil ~> reading = Nil

\* The version on its way back to the caller, if there is one.
VersionInReply ==
    IF \E m \in toApp : m.kind \in {"value", "unfit"}
    THEN (CHOOSE m \in toApp : m.kind \in {"value", "unfit"}).ver
    ELSE Nil

\* The promise to the caller: a successful read is one atomic read of the
\* device, taken at some moment between call and return, or no reading at
\* all if the gateway sends values that are unfit; any other read reports 1
\* and leaves the variable alone.
Atomic == INSTANCE RegisterRead WITH sample  <- VersionInReply,
                                     Garbles <- "unfit" \in Kinds

ImplementsAtomicRead == Atomic!Spec
=============================================================================
