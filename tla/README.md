# Verification of the OEM toolbox programs

TLA+ models of the programs of this repository, checked with TLC on small
instances, and theorems about them, proved with TLAPS for every value of the
constants. Paths below are relative to the repository.

The repository holds six small programs for a gateway device. Only the UUID
generator and its test share code; each is one thread. What makes them hard to
test is at their edges: a request socket with unchecked results, an asynchronous
client library that calls back, an HTTP library that cuts its data where it
likes, and JSON trees with owners that are counted by hand.

## 1. Inventory

### Modbus register client: `iotHub_mbtcp/src/nb_zmq_mbtcp.c`

- State: the statics `target_ipaddr`, `target_port`, `context`, `requester` (a
  ZeroMQ REQ socket); and, through the callbacks, the caller's variables.
- Operations: `zmq_setup`, `init_ip_port`, `get_u16_register` (build a request,
  `zmq_send`, `message_parse` of what `zmq_recv` yields, callback), `zmq_destroy`.
- Interaction: called by the telemetry program; exchanges one message at a time
  with a gateway process over `ipc:///tmp/zeromq/modbus_tcp`, which reads the
  Modbus device.
- Hard: no result of ZeroMQ is looked at, there is no receive timeout, and the id
  of a reply is never compared with that of the request.
- Correct if: a reply is never taken for another request's, a variable is only
  assigned what its register held during the call, and every call comes back.

### Telemetry program: `iotHub_mbtcp/src/iothub_client_NB301_mqtt.c`

- State: `messages[]` on the stack, the message handles, `callbackCounter`,
  `receiveContext`, `g_continueRunning`, `iterator`, the three variables.
- Operations: `main`, the loop of `iothub_client_sample_mqtt_run`, the callbacks
  `ReceiveMessageCallback` and `SendConfirmationCallback`, the draining after quit.
- Interaction: reads three registers through the client, hands messages to the
  IoT Hub client library and lets it work; the library runs both callbacks inside
  `IoTHubClient_LL_DoWork` (`iotHub_mbtcp/inc/iothub_client_ll.h:415`) and inside
  `IoTHubClient_LL_Destroy`.
- Hard: ownership of a message is passed between loop, library and callback; the
  library holds pointers into a stack frame; a flag is set in a callback; blocking
  reads stand between two calls of `DoWork`.
- Correct if: each message is released exactly once and before its frame goes,
  telemetry does not go back in time, and a quit message ends the program.

### Time update program: `update-time/src`

- State: the static `time_ms`, the libcurl handle. Operations: `parse_args`,
  `my_curl_init`, `rspCallback`, `get_time`, `main`.
- Hard: libcurl passes a body on in chunks of any size, not terminated; each is
  judged alone. Results are partly unchecked.
- Correct if: what is printed is the server's time, and the handle is freed.

### UUID generator: `uuid/src/main.c`, `uuid/src/uuid.c`

- State: three buffers. Operations: `get_mac_addr`, `gen_hash_string`,
  `add_hyphen`, `main`.
- Hard: bits and positions.
- Correct if: the text is a UUID of the version and variant the code names, made
  of the whole digest, and nothing is leaked.

### UUID test program: `uuid/src/uuid_test.c`

- State: the words of a file, a text allocated for each, two loop indices.
  Operations: `get_mac_test`, `main`.
- Hard: which bits 16 characters tell of; what an empty file does; that the end of
  the file is found out by reading behind it.
- Correct if: duplicates are reported and nothing else is (`uuid/readme.txt:41`),
  and every text is compared while it is allocated.

### Modbus message class: `json_example/src`, `json_example/inc`

- State: the globals `requester` and `context`, the member `callback`, reference
  counts of JSON values. Operations: `init_zmq`, `read_u16_register`,
  `read_u16_register_callback`, `read_flt_register`, `write_u16_register`,
  `close_zmq`.
- Hard: as the register client, and: a callback that stays in the object, an
  unset pointer, surplus `json_decref` calls, an error text passed by value
  through two mutually recursive functions.
- Correct if: each call reaches the device at most once and before it returns, and
  the values of its reply reach the right callback, once, in order.

### Not programs of interest here

`init_modbus/src/main.c` makes two vendor calls in a row. `documentation/` holds
a script template and a note. `iotHub_mbtcp/inc` and `libs` are the vendored Azure
SDK, parson and their archives.

## 2. Modules

| module | models | role |
|---|---|---|
| `RegisterRead` | the promise of `get_u16_register` | abstract specification |
| `NbZmqMbtcp` | `nb_zmq_mbtcp.c`, socket, gateway, device | component; implements `RegisterRead` |
| `MessageLedger` | what a sender owes its messages | abstract specification |
| `IothubTelemetry` | the telemetry program | EXTENDS `NbZmqMbtcp`; implements `MessageLedger` |
| `UpdateTime` | the time update program | component |
| `UuidText` | what `uuid.c` makes of a digest | operators shared by the next two |
| `UuidGen` | the UUID generator | component; EXTENDS `UuidText` |
| `UuidTest` | the UUID test program | component; EXTENDS `UuidText` |
| `RegisterAccess` | what an object of the message class promises | abstract specification |
| `MbDataMessage` | the class of `json_example`, socket, gateway, device | component; implements `RegisterAccess` |
| `JsonWalk` | the walk of that class over a reply | component |
| `..._proofs` | | theorems about the module of that name |
| `MC...` | | instances for TLC |

### How the models correspond to the code

**NbZmqMbtcp.** `sock` is the REQ socket behind `requester`: it alternates
between *ready* and *awaiting*; it is *invalid* when it could not be made, where each
call of ZeroMQ fails at once, and *unconnected* when only `zmq_connect` has failed,
where `zmq_send` waits for ever: neither result is looked at (lines 29-30).
`CallRegister(r)` is `get_u16_register` up to `zmq_recv`; the call then ends by
`Receive`, `ReceiveFails` or `ReceiveInvalid`, each of which contains
`message_parse` (`Parse`) and the return. A value is abstracted to the register it
was read from and a version that says how often the register had changed, which is
what "right register" and "not older" need; version 0 is a value that is none: the
compiled-in one, or what `(uint16_t)json_value_get_number` makes of a `value_data`
that is no number of 16 bits (a reply of kind *unfit*). `lastBuf` is the stack buffer of
`message_parse`: a failed receive may parse what an earlier call left there.
The address in the request only decides whether the gateway can have a value.
`Answer`, `Lose` and `DeviceChange` are the gateway, its restarts and the device.
`Destroy` leaves a request on its way, which `zmq_ctx_destroy` waits for; its reply
finds no socket. `RegisterRead` promises that a read returns 0 exactly if it has
assigned what its register held during the call, and returns 1 otherwise.
`fails` and `misdelivered` are history.

**IothubTelemetry.** `pc` names the statement the program is at; each action is
one call with everything that follows it up to the next. A read is two actions,
since the gateway and the device move while `zmq_recv` blocks. `DoWork` runs any
number of confirmations and hub messages, in one step: the callbacks are
synchronous and nothing else of the program runs meanwhile. `NextIteration` is the
loop test. `handle[i]` is `messages[i].messageHandle`; `pending`, `outcome` and
`accepted` are the library's side. `iterator` stops at `MESSAGE_COUNT`, from where
the code no longer tells its values apart. Reads after a quit message
(`QuietAfterQuit`), the early exits of the set-up and the NULL given to `puts`
are all there.

**UpdateTime.** A time is its day; `Deliver(n)` is one call of `rspCallback` with
n bytes. A chunk of 13 bytes that is not the whole body may read as any time, and
as none when digits follow it in the buffer. A whole body of 13 bytes that is no
number of 13 digits (it is padded with blanks or zeros, or is no number: `HoldsTime`)
may likewise read as any time when digits follow it.

**UuidGen.** The digest is an input; `Stamp`, `HexText` and `AddHyphen` (in
`UuidText`) are the code's operations on bytes and characters. A missing declaration
makes `main` lose half of a 64-bit pointer (`PrintTruncated`).

**UuidTest.** A word is the digest MD5 yields for it. `HashWord` and `Compare` are
one turn of their loops; indices start at 1. Of an empty file one array is hashed
that was never assigned: `ReadWords` gives it any digest.

**MbDataMessage.** `Request` is an operation up to `zmq_recv` with everything
`reg_func` does: the callback is assigned, the request built, the JSON values given
up (once too often, which may end the program), and the request sent, or refused if
the socket still awaits a reply. The socket may be unconnected, as in
`NbZmqMbtcp`. `Receive`, `ReceiveFails` and `ReceiveInvalid` are the rest, with
`message_start_parse` (`Parse`) and the return in each. A reply is text that is
rejected, a payload that lacks its type or array, or a tree that has at most one number
named value_data; how that is found is `JsonWalk`'s. A reply to
`read_flt_register` is no exception: of a real nothing is passed on, but an integer in
it goes to whatever callback the object holds, as it would in any reply. Use of freed
memory and the call through an unset pointer are choices between ending the program
(`crashed`) and going on. `given` is what the last operation passed to the callback;
`asked`, the callback its caller named, `heard`, the one that was called, and
`fails`, `strays`, `late` and `dropped` are history. The gateway (`Answer`, `Lose`)
may outlive the object's socket: a request sent stays its own after `close_zmq`.

**RegisterAccess.** No socket, message or id: a call begins, reaches the device or
does not, and returns; `over` and `sample` say what the device has done for it. What it
passes on goes to the callback the caller named or, in an operation that names none,
to the one held since an earlier call (`held`): that a callback outlives its call is
what the class does, and a write ends it. The refinement maps the call in progress to
`op`, `reg` and `word`, an empty way to the gateway to `over`, what is on its way back
to `sample`, and the member `callback`, unless unset or NULL, to `held`.

**JsonWalk.** `stack` is the C call stack of `parse_array` and `parse_object`,
outermost call first, each frame with the value it is about and its loop index; an
index goes on when the call made for its value returns (`Returned`). Each action is
one turn of the innermost loop; `Default` returns from that loop alone, since `err`
is passed by value. jansson keeps the members of an object in the order of the text.
The trees come with the values that may stand at each depth (`Json`): TLA+ has no
type of finite trees, and a level for each depth says that they are finite.
What `PassesNumbers` expects is said without a walk: a number is in reach by a *way*,
a sequence of indices none of which stands behind a value without a case (`Ways`),
and its place among the values passed on is the number of those before it in the text
(`Rank`).

## 3. Runs

All bounds are constants of the configurations.

| run | shows | bounds, and why they are enough |
|---|---|---|
| `nb` | until a receive fails, replies are not mixed up (`LockStep`), variables hold readings of their own register (`Provenance`) and never go back (`MonotonicReads`); always, the socket alternates (`OneOutstanding`) and at most two values per failed receive go astray (`MisdeliveryBound`) | 2 registers, 2 versions, 3 ids: with one request under way and one reply in the buffer two ids are in use, and a third is fresh. Up to 3 failed receives: one shifts the replies, the second hits a shifted socket, the third finds a stale buffer after that. All four kinds of reply; a socket that is not made, or not connected |
| `telemetry_safe` | `HandleOwnership`, `FrameOutlivesCallbacks`, `CountersAgree`, `TelemetryMonotone`, `QuietAfterQuit`, `ImplementsLedger`; once quit has been received the program ends even if the gateway never answers again (`QuitEnds`); each read of the program that returns 0 is one atomic read, and any other assigns nothing (`ImplementsAtomicRead`); with reads that fail or never return, a socket that is not made or not connected, and messages refused or given up | 2 messages (one pending while the other is made), 2 versions, 3 registers and 3 draining calls as in the code, the quit command |
| `telemetry_quit_heard` | every read comes back (`CallsReturn`) and a queued quit message ends the program (`QuitIsHeard`) if the gateway answers | 2 messages, 2 commands |
| `telemetry_updated` | finding: messages are sent with values that were not updated | 1 message, replies may be errors |
| `telemetry_final_sending` | finding: three more calls of `DoWork` need not complete the sending | 1 message |
| `update_time_safe` | what is printed comes from a whole good response, is its time or 0 if the body is 13 digits, and the handle is freed | bodies of 0, 5, 13 and 26 bytes split in every way; days at both ends of the window |
| `update_time_split` | finding: a time that comes in two pieces is printed as 0 | a body of 13 bytes |
| `uuid_safe` | form of the UUID, digest kept, allocations freed | all 256 values of the variant byte, four of the byte the version goes to |
| `uuid_version` | finding: the version digit is not 3 | the same |
| `uuid_test` | each duplicate is reported once for every other word like it, at both places, and nothing else is (`ReportsDuplicates`); texts are compared only while allocated (`TypeOK`) | all files of up to 4 words over 5 digests that differ in one place each: either half of the byte the 3 goes to, the last byte 16 characters tell of, the one behind, nowhere. Four words have two pairs or one triple |
| `mb_data_message` | `ImplementsRegisterAccess` until a receive fails, which says what is passed on and to which callback; then values astray (`StrayBound`), late writes (`LateWriteBound`) and dropped requests (`DroppedBound`) are bounded by the failures; the unset pointer is used by plain reads only | 2 registers of 2 words, 3 ids, 2 callbacks (one named by the caller while the other is held), up to 3 failed receives, for the reasons given for `nb` |
| `json_walk` | the walk ends (`WalkEnds`) and passes on the numbers a definition without a walk expects (`PassesNumbers`), in 16 bits | every array of up to two leaves, arrays or objects of up to two leaves; and a level deeper those where one of them stands in front of a number, which is what a value without a case may or may not cost. One number is negative and has more than 16 bits |

Deadlock is not checked where the system stops by design: a lost reply leaves
`zmq_recv` waiting for ever (`nb`, `telemetry_safe`, `mb_data_message`), and the
object of `mb_data_message` is not used after `close_zmq` or a crash.

Symmetry is used in `nb` and `mb_data_message`, on ids: the programs never look at
them, and these runs check no liveness.

### Fairness

`ProgramFairSpec` asks that the program's thread runs (weak fairness of its next
step): it is a process of its own that waits for nothing but `zmq_recv`. A read
whose reply never comes is not a step that is enabled, so nothing is asked of the
gateway. `FairSpec` adds that the gateway answers what it holds, and that a message
the hub has queued is passed on by one of infinitely many calls of `DoWork` (strong
fairness: each single call may pass on nothing). `CallsReturn` and `QuitIsHeard`
are checked with a socket that is connected or not made at all: on one that was made
and not connected `zmq_send` waits for a peer no fairness provides. `QuitEnds` needs
the first only.
`WalkEnds` needs weak fairness of the walk, a computation that waits for nothing.

## 4. Proofs

`NbZmqMbtcp_proofs` proves, for any registers, ids, addresses, kinds of reply and
bounds:

- `NbTypeCorrect`, `OneOutstandingHolds`, `LockStepHolds`, `ProvenanceHolds`,
  `ReadsAreMonotonic`, and `MisdeliveryBounded` for any number of failures.
- `AtomicReads`: without failing receives the client implements `RegisterRead`,
  what each call returns included.

The inductive invariant `NbInv` joins the type invariant, `OneOutstanding`,
`LockStep` and `Provenance` with what they do not say: a call in progress has an id
and only such a call (`CallHasId`), without which a message could belong to no call;
a value on its way back is not older than the variable it is for and not newer than
the device (`ReplyAge`), without which receiving it could break `Provenance` or
`MonotonicReads`; and a message under way for another call than the one in progress
is a value that may still go astray (`Debt`). `misdelivered + Debt <= 2 * fails` is
inductive where `MisdeliveryBound` is not: a failure first leaves a late reply, and
only a later call delivers it.

`IothubTelemetry_proofs` proves, for any `MESSAGE_COUNT`, `DOWORK_LOOP_NUM` and set
of commands:

- `ProgramUsesClient`: the program's specification implies the client's, so all
  theorems above hold in it.
- `TypeCorrect`, `HandlesAreOwned`, `FrameSafe`, `QuietOnceQuit`, `CountersRight`,
  `LedgerImplemented`; and `TelemetryInOrder` without failing receives.
- `WayOutShrinks`: once quit has been received every step of the program leaves one
  call less to make (`CallsLeft`), nothing else changes their number, and with none
  left `main` has returned.

Its invariant `TInv` adds to `TypeOK`, `HandleOwnership` and
`FrameOutlivesCallbacks` where the program can be (`Position`: a read is in progress
only at `read`, the program is on its way out once quit is received, an index into
`messages[]` is in range where it is used) and how far the slots are used
(`Frontier`: those not reached yet hold nothing, and the one about to be sent holds a
message nobody has taken). `TelemetryInOrder` needs in addition that no message made
is newer than the variables are now (`Sent`), `CountersRight` that the sets counted
are finite.

Assumptions are those the modules state about their constants: registers are 1 to
3, the program's address is one of those considered, addresses accepted fit their
buffer (`AddressFits`: true of the address built in, not enforced by
`init_ip_port`), counts are positive, ids and registers differ from `Nil`.

`MbDataMessage_proofs` proves, for any registers, words, ids, callbacks and number of
failures: `TypeCorrect`, `StraysBounded`, `LateWritesBounded`, `DroppedBounded`,
`UnsetOnly`, and `AccessImplemented`, that the class implements `RegisterAccess`. The
bounds are not inductive: a failed receive first leaves a request or reply under way,
and only later calls deliver it, have it carried out or are refused for it. `MbInv`
therefore adds what is still owed to each count (`StrayDebt`, `LateDebt`,
`DropDebt`): a message under way that is not the call's, a request that is not the
call's, an idle object whose socket awaits a reply. Each is at most one because at
most one message is under way (`OneUnderWay`), so a failure can pay for all of them.
That ids are fresh is needed where a new call begins: what is under way must not
become its own. `InStep` says that nothing is owed until a receive fails; with
`CallbackSet`, what each operation has made of the member `callback` out of the one its
caller named, the refinement follows step by step. Of a reply nothing is assumed but
that it answers a request.

`UpdateTime_proofs` proves `PrintedFromServer` and `HandleIsFreed` for any bodies and
any way to split them, from `TimeInHand`: what `time_ms` may hold while a response is
being passed on.

`UuidText_proofs` shows what `AddHyphen`, `HexText` and `Stamp` make of any 16 bytes,
group by group: where each character is copied from (`GroupAdded`, `Copied`), that two
digits tell a byte (`DigitsTellByte`) and which bits the stamping changes. From that
`UuidGen_proofs` concludes that the text always has the form of a UUID (`TextIsUuid`),
that it keeps every other digit of the digest at its place (`TextKeepsDigest`), and
that both allocations are freed. `TextTellsDigest` draws the conclusion for two
devices: their texts differ unless their digests agree in all but the seven bits the
stamps take.

`UuidTest_proofs` proves, for files of any length that fits, that the two loops stay
within the texts, and `DuplicatesReported`: each word is reported once for every other word
like it in what 16 characters tell. The strings compared say the same of two digests as
`Told` does (`AlikeIsTold`), and `CountInv` says what has been reported so far: of
each word one report for every word like it among the pairs the loops have been over
(`Over`). The property itself speaks of the end of the program only.

`JsonWalk_proofs` proves, for trees of any width and depth, `TypeCorrect` and
`NumbersPassed`. Its invariant `WalkInv` says that the stack leads from value to value
and that no index has gone past what is in reach (`IsStack`), and that the callback has
been given as many values as there are numbers before the walk (`Done`), the n-th being
the one of rank n (`InOrder`). `PassesNumbers` is not inductive: it does not say where
the walk is. The lemmas are about the order of the text: it is one on ways
(`BeforeTransitive`, `BeforeOrExtends`), so a rank tells a number (`RankTells`); a
call passes nothing (`BeforeCall`), an index that goes on passes what it was at and
all in it (`BeforeAdvanced`), and a call that returns has passed no number less than
its caller's index then does (`BeforeReturned`). `WalkShrinks` counts what is left:
the ways the walk has not come past, twice, and the room for calls (`StepsAt`). A call
takes up room, an index that goes on leaves a way behind, and a return gives back
room for one call but leaves a way behind too.

Two of these results need induction over the natural numbers. The library's theorem for
it takes an operator as a parameter, which the provers cannot instantiate; `Least` and
`Induction` of `JsonWalk_proofs` say the same of sets, from the well-foundedness of the
natural numbers. `WaysAre` uses them to show that the recursive function in `Ways` has
the values a definition without recursion gives it.

Model-checked only: liveness (`CallsReturn`, `QuitEnds`, `QuitIsHeard`, `WalkEnds`),
since TLAPS has no rules for fairness here. Of `WalkEnds` and `QuitEnds` what remains
beyond `WalkShrinks` and `WayOutShrinks` is that walk and program go on as long as they
can, which is what their fairness says. Every other property of a
passing run is stated by a theorem. `TelemetryInOrder` and `AtomicReads` assume, as the
run that checks their properties does, that no receive fails.

## 5. Findings

Where the code does not do what its comments and documents say; each is a run
that ends in a counterexample.

1. `iothub_client_NB301_mqtt.c:246` "update the variables before sending out the
   messages": the reads' results are ignored (`telemetry_updated`).
2. `iothub_client_NB301_mqtt.c:289` "to complete final sending": pending messages
   are given up after three calls (`telemetry_final_sending`).
3. `update-time/include/request.h:13` "returns time in milliseconds from the last
   response": a time that arrives in two pieces is dropped (`update_time_split`).
4. `uuid/readme.txt:35` and `uuid/src/uuid.c:60`, "type 3": the version is written
   to byte 4 instead of byte 6 (`uuid_version`).

Seen on the way and plain from the text, without a run: `request.h:14` says that
`get_time` returns 0xFFFFFFFF on error, it returns 0; the sanity check at
`request.c:15` covers 2015-12-21 to 2029-12-17, its comment says 2016 to 2030;
`main` of `uuid_test.c` drops the result of `get_mac_test` (line 75), so the test
`uuid/CMakeLists.txt:33` registers passes whatever is found; `err` of
`mb_data_message.cpp` never reaches `parse_payload`, so that its message is never
printed (line 152).

## 6. Not modelled, and why

- `init_modbus` makes two calls of a vendor's library in a row and keeps nothing
  between them; the script template and the build files do nothing at run time.
- The vendored headers (Azure IoT SDK, parson; some 18,000 of the repository's
  lines, 12,600 of them one header of generated macros) declare what is implemented
  in archives: there is no behaviour in them to translate. jansson, libcurl, ZeroMQ,
  libuuid and OpenSSL are not in the repository. What the programs rely on of all of
  these is external in the models.
- Bytes of buffers and memory of the JSON libraries: the receive buffer's ends
  (`nb_zmq_mbtcp.c:139`), the copy of the address (line 52), the parse result that
  is not freed (147-149), the leaked `command_json` (`mb_data_message.cpp:77`) and
  error texts (190, 214), the use of an object that may have been freed (98; the
  program ends there or goes on, and no property is about it), the array
  `uuid_test.c` hashes unassigned when its file is empty (27), and more words than it
  has room for are listed as hazards without a property.
- `iterator` of the telemetry program wrapping around after some seven years.

## 7. Plan

Done: the register client with its abstract read; the telemetry program with its
message ledger; the time update program; the UUID generator and its test; the message
class with its abstract object and its walk; proofs about all of them.

Left: what the telemetry program sends once a receive has failed. The number of such
messages is not bounded by the number of failures, since a variable keeps the value of
another register for as long as its own reads bring errors; what `MisdeliveryBounded`
should allow to prove is that a variable holds such a value only from a misdelivered
reply to the next good read. The composed state space with failures is beyond a quick
run.
