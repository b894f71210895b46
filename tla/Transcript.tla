------------------------------ MODULE Transcript ------------------------------
(***************************************************************************)
(* What a durable turn promises: what the agent says is kept in order,     *)
(* without a gap and without a repetition, and is told once, whole, after  *)
(* the agent has ended.  Of a text that is longer than twice Half, the     *)
(* head and the tail are kept and told, each without a gap; what is        *)
(* between them is cut, and nothing else ever is.  A crash, a poll that    *)
(* fails or two polls at once may delay that, and change nothing else.     *)
(***************************************************************************)
EXTENDS Naturals, Sequences

CONSTANTS Turns, Half

VARIABLES
    said,   \* number of chunks that the agent has written
    ended,  \* whether it writes no more
    kept,   \* the chunks that are kept
    told    \* the replies

transcript == <<said, ended, kept, told>>

\* The first n chunks: all of them, or a head, a 0 and a tail that ends with n.
Text(n) ==
    IF n <= 2 * Half THEN [i \in 1..n |-> i]
    ELSE [i \in 1..(2 * Half + 1) |->
            IF i <= Half THEN i
            ELSE IF i = Half + 1 THEN 0
            ELSE n - (2 * Half + 1) + i]

\* How far a text goes.
Upto(text) == IF text = <<>> THEN 0 ELSE text[Len(text)]

Init ==
    /\ said = [t \in Turns |-> 0]
    /\ ended = [t \in Turns |-> FALSE]
    /\ kept = [t \in Turns |-> <<>>]
    /\ told = [t \in Turns |-> <<>>]

Says(t) ==
    /\ ~ended[t] /\ said' = [said EXCEPT ![t] = @ + 1]
    /\ UNCHANGED <<ended, kept, told>>

\* A virtual machine that stops ends all of them.
End(some) ==
    /\ ended' = [t \in Turns |-> ended[t] \/ t \in some]
    /\ UNCHANGED <<said, kept, told>>

Keeps(t) ==
    /\ told[t] = <<>>
    /\ \E n \in Upto(kept[t])..said[t] : kept' = [kept EXCEPT ![t] = Text(n)]
    /\ UNCHANGED <<said, ended, told>>

Tells(t) ==
    /\ ended[t] /\ told[t] = <<>>
    /\ kept' = [kept EXCEPT ![t] = Text(said[t])]
    /\ told' = [told EXCEPT ![t] = <<Text(said[t])>>]
    /\ UNCHANGED <<said, ended>>

Next ==
    \/ \E t \in Turns : Says(t) \/ Keeps(t) \/ Tells(t)
    \/ \E some \in SUBSET Turns : End(some)

Spec == Init /\ [][Next]_transcript
=============================================================================
