--------------------------- MODULE RegisterAccess ---------------------------
(***************************************************************************)
(* What an object of mb_data_message promises its caller, with no socket,  *)
(* message or id in it: each call reaches the device at most once, between *)
(* its beginning and its end; a write passes nothing to a callback, and a  *)
(* read at most the value the register had then.  A read that is given a   *)
(* callback passes it to that one, and the object holds on to it; a plain  *)
(* read passes it to the callback held, if there is one; a write makes the *)
(* object hold none.                                                       *)
(* Nothing is promised from the first receive that fails.                  *)
(***************************************************************************)
EXTENDS Sequences

CONSTANTS Registers, Words, Nil, Plain, Write

VARIABLES
    device,   \* the words in the device's registers
    op,       \* the operation of the call in progress
    reg,      \* the register it is about
    word,     \* the word it writes
    asked,    \* the callback its caller gives
    over,     \* the device has been reached, or will not be
    sample,   \* what was read there, if it is on its way back
    given,    \* what the last call has passed to a callback
    heard,    \* the callback it has passed that to
    held,     \* the callback the object holds
    faulty    \* a receive has failed

vars == <<device, op, reg, word, asked, over, sample, given, heard, held,
          faulty>>
callVars == <<op, reg, word, asked, held>>
givenVars == <<given, heard>>

Init ==
    /\ device \in [Registers -> Words]
    /\ op = Nil /\ reg = Nil /\ word = Nil /\ asked = Nil
    /\ over = FALSE /\ sample = <<>> /\ given = <<>>
    /\ heard = Nil /\ held = Nil
    /\ faulty = FALSE

Begin ==
    /\ op = Nil /\ op' # Nil
    /\ over' \in BOOLEAN
    /\ held' = CASE op' \in Plain -> held
                 [] op' = Write    -> Nil
                 [] OTHER          -> asked'
    /\ sample' = <<>> /\ given' = <<>> /\ heard' = Nil
    /\ UNCHANGED device

\* The device carries the call out, or refuses to.
Reach ==
    /\ op # Nil /\ ~over /\ over'
    /\ \/ /\ op = Write
          /\ device' = [device EXCEPT ![reg] = word]
       \/ UNCHANGED device
    /\ op # Write => sample' \in {<<>>, <<device[reg]>>}
    /\ UNCHANGED <<callVars, givenVars>>

Lose ==
    /\ over' /\ sample' = <<>>
    /\ UNCHANGED <<device, callVars, givenVars>>

Return ==
    /\ op # Nil /\ op' = Nil /\ reg' = Nil /\ word' = Nil /\ asked' = Nil
    /\ \/ given' = <<>> /\ heard' = Nil
       \/ /\ op # Write /\ held # Nil
          /\ given' = sample /\ sample # <<>> /\ heard' = held
    /\ over' = FALSE /\ sample' = <<>>
    /\ UNCHANGED <<device, held>>

Change ==
    /\ device' \in [Registers -> Words]
    /\ UNCHANGED <<callVars, over, sample, givenVars>>

Next == Begin \/ Reach \/ Lose \/ Return \/ Change

Spec == Init /\ [][Next \/ faulty']_vars
=============================================================================
