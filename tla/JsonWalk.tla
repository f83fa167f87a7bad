------------------------------ MODULE JsonWalk ------------------------------
(***************************************************************************)
(* How mb_data_message.cpp walks the payload_data of a reply: parse_array  *)
(* and parse_object call one another, each with a loop of its own over the *)
(* values directly in its argument.  The call stack is explicit here, so   *)
(* that what a loop does can be told from what its callers' loops do.      *)
(*                                                                         *)
(* A JSON value is a record: its type, whether its key starts with         *)
(* "value_dat", its number, and the values directly in it.                 *)
(***************************************************************************)
EXTENDS Integers, FiniteSets, SequencesExt

CONSTANTS
    Depth,      \* how deep a payload_data may go
    Json,       \* for each depth up to it, values that go no deeper
    Trees       \* the arrays a reply may have as its payload_data

Types == {"object", "array", "string", "integer", "real", "other"}
Containers == {"object", "array"}
Values == UNION {Json[n] : n \in 0 .. Depth}
ShortSize == 65536                    \* how many values an uint16_t has
Shorts == 0 .. ShortSize - 1

ASSUME TreeAssumption ==
    /\ Depth \in Nat
    /\ \A t \in Trees : t \in Json[Depth] /\ t.type = "array"
    /\ \A n \in 0 .. Depth : \A v \in Json[n] :
         /\ v.type \in Types /\ v.match \in BOOLEAN /\ v.val \in Int
         /\ v.kids \in Seq(Values)
         /\ v.type \notin Containers => v.kids = <<>>
         /\ \A i \in DOMAIN v.kids : n > 0 /\ v.kids[i] \in Json[n - 1]

VARIABLES
    tree,     \* the payload_data walked over
    given,    \* whether cbf is a function, not NULL
    stack,    \* the calls in progress, outermost first, and their indices
    passed    \* what the callback has been given

vars == <<tree, given, stack, passed>>

Frame(v) == [of |-> v, at |-> 1]

\* parse_payload calls parse_array.
Init ==
    /\ tree \in Trees /\ given \in BOOLEAN
    /\ stack = <<Frame(tree)>>
    /\ passed = <<>>

Top == stack[Len(stack)]
InLoop == stack # <<>> /\ Top.at <= Len(Top.of.kids)
Value == Top.of.kids[Top.at]

\* The innermost loop goes on to its next value.
Advanced(s) == [s EXCEPT ![Len(s)].at = @ + 1]

\* The innermost call returns, and its caller's loop goes on.
Returned == LET callers == SubSeq(stack, 1, Len(stack) - 1)
            IN  IF callers = <<>> THEN <<>> ELSE Advanced(callers)

\* Mutant: the callback takes the 64 bits of json_integer_value.
AsArgumentWide(val) == val

\* The parameter of the callback is an uint16_t.
AsArgument(val) == val % ShortSize

-----------------------------------------------------------------------------
(* The cases of the two switches.                                          *)

Descend ==
    /\ InLoop
    /\ Value.type \in Containers
    /\ stack' = Append(stack, Frame(Value))
    /\ UNCHANGED <<tree, given, passed>>

\* In an object only: an integer goes to the callback if its key matches.
Integer ==
    /\ InLoop /\ Top.of.type = "object"
    /\ Value.type = "integer"
    /\ passed' = IF Value.match /\ given
                 THEN Append(passed, AsArgument(Value.val)) ELSE passed
    /\ stack' = Advanced(stack)
    /\ UNCHANGED <<tree, given>>

\* In an object only: a string, or a real, whose value is printed at most.
StringOrReal ==
    /\ InLoop /\ Top.of.type = "object"
    /\ Value.type \in {"string", "real"}
    /\ stack' = Advanced(stack)
    /\ UNCHANGED <<tree, given, passed>>

\* What the innermost loop has no case for.
NoCase == IF Top.of.type = "array" THEN Value.type \notin Containers
                                   ELSE Value.type = "other"

\* Mutant: the error ends the whole walk, as it would if err reached the
\* callers and they looked at it.
DefaultEndsWalk ==
    /\ InLoop /\ NoCase
    /\ stack' = <<>>
    /\ UNCHANGED <<tree, given, passed>>

\* default: the error text goes to err, a copy, and this loop returns.
Default ==
    /\ InLoop /\ NoCase
    /\ stack' = Returned
    /\ UNCHANGED <<tree, given, passed>>

\* Mutant: a call that has come to its end is made again.
LoopEndsAgain ==
    /\ stack # <<>> /\ ~InLoop
    /\ stack' = [stack EXCEPT ![Len(stack)] = Frame(Top.of)]
    /\ UNCHANGED <<tree, given, passed>>

LoopEnds ==
    /\ stack # <<>> /\ ~InLoop
    /\ stack' = Returned
    /\ UNCHANGED <<tree, given, passed>>

WalkOver == stack = <<>> /\ UNCHANGED vars

Walk == Descend \/ Integer \/ StringOrReal \/ Default \/ LoopEnds

Next == Walk \/ WalkOver

Spec == Init /\ [][Next]_vars /\ WF_vars(Walk)

-----------------------------------------------------------------------------
(* What the walk passes on, said without a walk.                           *)

\* The values directly in v up to the first its loop has no case for.
Reachable(v) ==
    {i \in DOMAIN v.kids :
        \A j \in 1 .. i : IF v.type = "array" THEN v.kids[j].type \in Containers
                                              ELSE v.kids[j].type # "other"}

\* A way into a tree t goes from value to value, by an index in each.  It ends
\* at a value; one step further are the values directly in it.
End(t, w) == IF w = <<>> THEN t ELSE w[Len(w)].of.kids[w[Len(w)].at]

Further(t, w) ==
    {Append(w, [of |-> End(t, w), at |-> i]) : i \in Reachable(End(t, w))}

Ways(t) ==
    LET upTo[n \in Nat] ==
            IF n = 0 THEN {<<>>}
            ELSE upTo[n - 1] \cup UNION {Further(t, w) : w \in upTo[n - 1]}
    IN  upTo[Depth]

Numbers(t) == {w \in Ways(t) : End(t, w).type = "integer" /\ End(t, w).match}

\* The order of the text.
Before(p, q) ==
    \E k \in DOMAIN p \cap DOMAIN q :
        p[k].at < q[k].at /\ \A j \in 1 .. k - 1 : p[j] = q[j]

Rank(t, w) == Cardinality({x \in Numbers(t) : Before(x, w)}) + 1

\* What 16 bits hold of a number.
Short(i) == i % ShortSize

\* The n-th number of the text that can be reached, in 16 bits.
Expected ==
    LET nth(n) == CHOOSE w \in Numbers(tree) : Rank(tree, w) = n
    IN  IF given THEN [n \in 1 .. Cardinality(Numbers(tree)) |->
                          Short(End(tree, nth(n)).val)]
                 ELSE <<>>

-----------------------------------------------------------------------------
(* Properties.                                                             *)

\* A call in progress was made for the value its caller's index is at.
TypeOK ==
    /\ given \in BOOLEAN
    /\ passed \in Seq(Shorts)
    /\ \A k \in DOMAIN stack :
         /\ stack[k].of.type \in Containers
         /\ stack[k].at \in 1 .. Len(stack[k].of.kids) + 1
         /\ stack[k].of = End(tree, SubSeq(stack, 1, k - 1))

\* The callback is given the numbers named value_data once each and in the
\* order of the text, in 16 bits; a value without a case costs those behind it
\* in the same array or object, but nothing outside of that.
PassesNumbers ==
    /\ IsPrefix(passed, Expected)
    /\ stack = <<>> => passed = Expected

\* The walk comes to its end.
WalkEnds == <>(stack = <<>>)
=============================================================================
