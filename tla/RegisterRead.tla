---------------------------- MODULE RegisterRead ----------------------------
(***************************************************************************)
(* What get_u16_register promises its caller, with no socket, message or   *)
(* id in it: a call either assigns the caller's variable the value the     *)
(* device register had at one moment of the call and returns 0, or leaves  *)
(* the variable alone and returns 1.                                       *)
(***************************************************************************)
EXTENDS Naturals

CONSTANTS
    Registers, MaxVersion, Nil,
    Garbles   \* whether what is read may be no reading, version 0

VARIABLES
    device,   \* the version each device register has
    latest,   \* the caller's variables, by register
    reading,  \* the register of the call in progress
    sample,   \* the version read during that call
    ret       \* what the last call has returned

vars == <<device, latest, reading, sample, ret>>

Init ==
    /\ device = [r \in Registers |-> 1]
    /\ latest = [r \in Registers |-> [reg |-> r, ver |-> 0]]
    /\ reading = Nil
    /\ sample = Nil
    /\ ret = 0

Begin(r) ==
    /\ reading = Nil
    /\ reading' = r
    /\ UNCHANGED <<device, latest, sample, ret>>

\* The device is read once in a call ...
Sample ==
    /\ reading # Nil /\ sample = Nil
    /\ \/ sample' = device[reading]
       \/ Garbles /\ sample' = 0
    /\ UNCHANGED <<device, latest, reading, ret>>

\* ... and what was read may be lost on its way to the caller.
Forget ==
    /\ sample' = Nil
    /\ UNCHANGED <<device, latest, reading, ret>>

Succeed ==
    /\ reading # Nil /\ sample # Nil
    /\ latest' = [latest EXCEPT ![reading] = [reg |-> reading, ver |-> sample]]
    /\ reading' = Nil /\ sample' = Nil
    /\ ret' = 0
    /\ UNCHANGED device

Fail ==
    /\ reading # Nil
    /\ reading' = Nil /\ sample' = Nil
    /\ ret' = 1
    /\ UNCHANGED <<device, latest>>

Change(r) ==
    /\ device[r] < MaxVersion
    /\ device' = [device EXCEPT ![r] = @ + 1]
    /\ UNCHANGED <<latest, reading, sample, ret>>

Next ==
    \/ \E r \in Registers : Begin(r) \/ Change(r)
    \/ Sample \/ Forget \/ Succeed \/ Fail

Spec == Init /\ [][Next]_vars
=============================================================================
