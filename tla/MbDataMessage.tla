---------------------------- MODULE MbDataMessage ----------------------------
(***************************************************************************)
(* The class mb_data_message of json_example: one object, its ZeroMQ REQ   *)
(* socket, the gateway that answers it and the Modbus device behind that.  *)
(* Each of its four operations sends one request, waits for one reply and  *)
(* hands what the reply has under value_data to the callback the object    *)
(* holds at that moment.  JsonWalk is about how that is found in a reply;  *)
(* here a reply has at most one such value.                                *)
(***************************************************************************)
EXTENDS Naturals, Sequences

CONSTANTS
    Registers,
    Words,        \* the words a register may hold
    Ids,          \* request ids, the values uuid_generate can return
    Callbacks,    \* the functions callers pass
    MaxFails,     \* bound: how often zmq_recv fails
    Nil           \* no call, no reply, no word; also the pointer NULL

ASSUME BoundAssumption == MaxFails \in Nat

PlainReads == {"read_u16_register", "read_flt_register"}
ReadOps == PlainReads \cup {"read_u16_register_callback"}
Ops == ReadOps \cup {"write_u16_register"}

\* What message_start_parse and parse_payload tell apart: text that is not an
\* object with an id and a payload, a payload that lacks its type or its
\* array, and one that has both.
Bodies == {"rejected", "bad payload", "tree"}

VARIABLES
    requester,  \* the REQ socket
    callback,   \* the member: "unset" until a call assigns it
    call,       \* the request of the operation in progress
    asked,      \* history: the callback its caller has passed, if any
    toDaemon,   \* requests on their way to the gateway
    toApp,      \* replies on their way back
    device,     \* the words in the device's registers
    lastBuf,    \* the reply last received, still in the stack's old bytes
    given,      \* what the last operation has passed to the callback
    heard,      \* the callback it has passed that to
    crashed,    \* what ended the program, "release" or "callback"
    fails,      \* history: how often zmq_recv has failed
    strays,     \* history: values passed on that answered another request
    late,       \* history: writes carried out after their call had returned
    dropped     \* history: requests zmq_send refused, a reply being awaited

wireVars == <<toDaemon, toApp>>
objectVars == <<callback, call, asked, given, heard, crashed>>
vars == <<requester, objectVars, wireVars, device, lastBuf, fails, strays,
          late, dropped>>

\* Only a write has a value with it.
Calls == {c \in [op : Ops, reg : Registers, val : Words \cup {Nil}, id : Ids] :
            c.val = Nil <=> c.op # "write_u16_register"}
Replies == [id : Ids, body : Bodies, vals : Seq(Words)]

ASSUME NilAssumption ==
    /\ Nil \notin Words \cup Callbacks
    /\ Nil \notin Calls \cup Replies
    /\ Nil \notin Ops \cup {"unset", "release", "callback"}
    /\ "unset" \notin Callbacks

-----------------------------------------------------------------------------
(* The operations of the class.                                            *)

Init ==
    /\ requester = "none" /\ callback = "unset" /\ call = Nil
    /\ toDaemon = {} /\ toApp = {} /\ lastBuf = Nil
    /\ device \in [Registers -> Words]
    /\ asked = Nil /\ given = <<>> /\ heard = Nil /\ crashed = Nil
    /\ fails = 0 /\ strays = 0 /\ late = 0 /\ dropped = 0

Idle == call = Nil /\ crashed = Nil

\* No result is looked at: the socket may not be there, or not be connected.
InitZmq ==
    /\ Idle /\ requester = "none"
    /\ requester' \in {"ready", "invalid", "unconnected"}
    /\ UNCHANGED <<objectVars, wireVars, device, lastBuf, fails, strays, late,
                   dropped>>

\* What has come back goes with the socket.  A request stays on its way:
\* zmq_ctx_destroy lingers, and returns only when the gateway has been sent it.
CloseZmq ==
    /\ Idle /\ requester \notin {"none", "closed"}
    /\ requester' = "closed"
    /\ toApp' = {}
    /\ UNCHANGED <<objectVars, toDaemon, device, lastBuf, fails, strays, late,
                   dropped>>

\* Mutant: write_u16_register leaves the callback as it is.
CallbackForKept(op, cbf) ==
    IF op = "read_u16_register_callback" THEN cbf ELSE callback

\* Mutant: a callback is taken only while the object has none.
CallbackForFirst(op, cbf) ==
    CASE op = "read_u16_register_callback" /\ callback \notin Callbacks -> cbf
      [] op = "write_u16_register" -> Nil
      [] OTHER -> callback

\* What an operation makes of the member before it calls reg_func.
CallbackFor(op, cbf) ==
    CASE op = "read_u16_register_callback" -> cbf
      [] op = "write_u16_register" -> Nil
      [] OTHER -> callback

\* Mutant: value_data is set whatever the command is.
ValueForAny(op, val) == val

\* The value_data reg_func puts into a request.
ValueFor(op, val) == IF op = "write_u16_register" THEN val ELSE Nil

\* An id uuid_generate returns differs from every id still to be seen.
FreshIds == Ids \ ({m.id : m \in toDaemon \cup toApp} \cup
                   (IF lastBuf = Nil THEN {} ELSE {lastBuf.id}))

\* zmq_send fails, and nobody looks, if the socket awaits an earlier reply; on
\* one that is not connected it waits for ever, and so does the operation.
Send ==
    /\ toDaemon' = IF requester = "ready" THEN toDaemon \cup {call'}
                                          ELSE toDaemon
    /\ requester' = IF requester = "ready" THEN "awaiting" ELSE requester
    /\ dropped' = dropped + (IF requester = "awaiting" THEN 1 ELSE 0)

\* An operation up to zmq_recv.  reg_func gives up payload and payload_data
\* after root, which owned them: the use of freed memory may end the program.
Request(op, reg, val, cbf) ==
    /\ Idle /\ requester \notin {"none", "closed"}
    /\ callback' = CallbackFor(op, cbf)
    /\ \E id \in FreshIds :
         call' = [op |-> op, reg |-> reg, id |-> id,
                  val |-> ValueFor(op, val)]
    /\ \/ crashed' = "release" /\ UNCHANGED <<requester, toDaemon, dropped>>
       \/ crashed' = crashed /\ Send
    /\ asked' = IF op = "read_u16_register_callback" THEN cbf ELSE Nil
    /\ given' = <<>> /\ heard' = Nil
    /\ UNCHANGED <<toApp, device, lastBuf, fails, strays, late>>

\* The operation returns, having passed vals of reply m to the callback.
Return(m, vals) ==
    /\ call' = Nil /\ asked' = Nil
    /\ given' = vals
    /\ heard' = IF vals = <<>> THEN Nil ELSE callback
    /\ strays' = strays + (IF vals # <<>> /\ m.id # call.id THEN 1 ELSE 0)
    /\ crashed' = crashed

Crash(why) == crashed' = why /\ UNCHANGED <<call, asked, given, heard, strays>>

\* message_start_parse of m.  parse_payload gives up the payload it borrowed
\* when it does not like it, and jroot gives it up again.  A callback never
\* set is any pointer; the call through it ends the program unless the bits
\* happen to be NULL.
Parse(m) ==
    \/ m.body = "bad payload" /\ Crash("release")
    \/ m.body # "tree" /\ Return(m, <<>>)
    \/ /\ m.body = "tree"
       /\ \/ callback \in Callbacks /\ Return(m, m.vals)
          \/ callback \notin Callbacks /\ Return(m, <<>>)
          \/ callback = "unset" /\ m.vals # <<>> /\ Crash("callback")

Waiting == call # Nil /\ crashed = Nil

\* Mutant: a write does not wait for its reply.
ReceiveForReads ==
    /\ Waiting /\ requester = "awaiting"
    /\ \/ /\ call.op # "write_u16_register"
          /\ \E m \in toApp : toApp' = toApp \ {m} /\ lastBuf' = m /\ Parse(m)
          /\ requester' = "ready"
       \/ /\ call.op = "write_u16_register"
          /\ Return(Nil, <<>>)
          /\ UNCHANGED <<toApp, lastBuf, requester>>
    /\ UNCHANGED <<callback, toDaemon, device, fails, late, dropped>>

Receive ==
    /\ Waiting /\ requester = "awaiting"
    /\ \E m \in toApp : toApp' = toApp \ {m} /\ lastBuf' = m /\ Parse(m)
    /\ requester' = "ready"
    /\ UNCHANGED <<callback, toDaemon, device, fails, late, dropped>>

\* zmq_recv fails and its -1 is used: the buffer holds bytes that do not
\* parse, or the reply an earlier call left on the same stack addresses.
ReceiveFails ==
    /\ Waiting /\ requester = "awaiting"
    /\ fails < MaxFails
    /\ fails' = fails + 1
    /\ \/ Return(Nil, <<>>)
       \/ lastBuf # Nil /\ Parse(lastBuf)
    /\ UNCHANGED <<requester, callback, wireVars, device, lastBuf, late, dropped>>

\* On a socket that was never made no reply ever came.
ReceiveInvalid ==
    /\ Waiting /\ requester = "invalid"
    /\ Return(Nil, <<>>)
    /\ UNCHANGED <<requester, callback, wireVars, device, lastBuf, fails, late,
                   dropped>>

-----------------------------------------------------------------------------
(* The environment: gateway process, wire and device.                      *)

\* The gateway has the device carry out m, or cannot, and answers; where
\* there is a value it is that of the register, or the one just written.  A
\* reply to read_flt_register may have it as an integer too, which the walk
\* takes for a word like any other; a value it has as a real is passed to
\* nobody, and so is none here.
Answer(m, body) ==
    /\ m \in toDaemon
    /\ toDaemon' = toDaemon \ {m}
    /\ \/ /\ m.op = "write_u16_register"
          /\ device' = [device EXCEPT ![m.reg] = m.val]
          /\ late' = late + (IF m = call THEN 0 ELSE 1)
       \/ UNCHANGED <<device, late>>
    /\ \E vals \in {<<>>, <<IF m.op = "write_u16_register" THEN m.val
                                                          ELSE device[m.reg]>>} :
         /\ body # "tree" => vals = <<>>
         /\ toApp' = IF requester = "awaiting"
                     THEN toApp \cup {[id |-> m.id, body |-> body, vals |-> vals]}
                     ELSE toApp
    /\ UNCHANGED <<requester, objectVars, lastBuf, fails, strays, dropped>>

\* A gateway that restarts takes what it had read or queued with it.
Lose ==
    /\ toDaemon \cup toApp # {}
    /\ toDaemon' = {} /\ toApp' = {}
    /\ UNCHANGED <<requester, objectVars, device, lastBuf, fails, strays, late,
                   dropped>>

DeviceChange(reg, word) ==
    /\ device' = [device EXCEPT ![reg] = word]
    /\ UNCHANGED <<requester, objectVars, wireVars, lastBuf, fails, strays, late,
                   dropped>>

Operation ==
    \E op \in Ops, reg \in Registers, val \in Words, cbf \in Callbacks :
        Request(op, reg, val, cbf)

Next ==
    \/ InitZmq \/ CloseZmq \/ Operation
    \/ Receive \/ ReceiveFails \/ ReceiveInvalid
    \/ \E m \in toDaemon, body \in Bodies : Answer(m, body)
    \/ Lose
    \/ \E reg \in Registers, word \in Words : DeviceChange(reg, word)

Spec == Init /\ [][Next]_vars

-----------------------------------------------------------------------------
(* Properties.                                                             *)

TypeOK ==
    /\ requester \in
           {"none", "ready", "awaiting", "invalid", "unconnected", "closed"}
    /\ callback \in Callbacks \cup {Nil, "unset"}
    /\ call \in Calls \cup {Nil}
    /\ asked \in Callbacks \cup {Nil}
    /\ toDaemon \subseteq Calls
    /\ toApp \subseteq Replies
    /\ device \in [Registers -> Words]
    /\ lastBuf \in Replies \cup {Nil}
    /\ given \in Seq(Words)
    /\ heard \in Callbacks \cup {Nil}
    /\ crashed \in {Nil, "release", "callback"}
    /\ fails \in Nat /\ strays \in Nat /\ late \in Nat /\ dropped \in Nat

\* A failed receive makes at most two values reach a callback as the answer
\* to another request: the old one in the buffer, and its own late one.
StrayBound == strays <= 2 * fails

\* A write is carried out after its call has returned only if a receive has
\* failed in that call: the device is not written behind the caller's back.
LateWriteBound == late <= fails

\* A failed receive costs at most one other request, which is never sent
\* although its operation returns like any other.
DroppedBound == dropped <= fails

\* The program jumps through the pointer the constructor leaves unset only in
\* a read that is given no callback.
UnsetOnlyInPlainReads ==
    [][crashed' = "callback" =>
         call.op \in PlainReads]_vars

\* What is on its way back to the call in progress.
Sample ==
    IF call # Nil /\ toApp # {} THEN (CHOOSE m \in toApp : TRUE).vals ELSE <<>>

Held == IF callback = "unset" THEN Nil ELSE callback

\* While no receive fails, each call reaches the device at most once and
\* within the call, and passes on at most what it found there, to the callback
\* its caller gave or, in a plain read, to the one the object still holds.
Access == INSTANCE RegisterAccess WITH
            Plain  <- PlainReads,
            Write  <- "write_u16_register",
            op     <- IF call = Nil THEN Nil ELSE call.op,
            reg    <- IF call = Nil THEN Nil ELSE call.reg,
            word   <- IF call = Nil THEN Nil ELSE call.val,
            over   <- call # Nil /\ toDaemon = {},
            sample <- Sample,
            held   <- Held,
            faulty <- fails > 0

ImplementsRegisterAccess == Access!Spec
=============================================================================
