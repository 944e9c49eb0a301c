------------------------------ MODULE Dialogue ------------------------------
(***************************************************************************)
(* What the client of voidmcp's stdio mode may rely on: it writes lines,   *)
(* and what it reads, cut at the newlines, is a sequence of frames.  Each  *)
(* frame is one whole message: a notification, or the answer to the first  *)
(* line that asks for one and has none yet.                                *)
(***************************************************************************)
EXTENDS Naturals, Sequences

CONSTANTS
    Lines,      \* what a line may be
    Answered(_) \* does a line ask for an answer?

VARIABLES
    asked,      \* the lines the client has written
    heard       \* the frames it can read: <<i>> answers line i, <<0>> is a
                \* notification

Init == asked = <<>> /\ heard = <<>>

Ask(line) ==
    /\ asked' = Append(asked, line)
    /\ UNCHANGED heard

HasAnswer(i) == \E j \in DOMAIN heard : heard[j] = <<i>>
Open == {i \in DOMAIN asked : Answered(asked[i]) /\ ~HasAnswer(i)}

Answer(i) ==
    /\ i \in Open
    /\ \A j \in Open : i <= j
    /\ heard' = Append(heard, <<i>>)
    /\ UNCHANGED asked

Notify ==
    /\ heard' = Append(heard, <<0>>)
    /\ UNCHANGED asked

Next ==
    \/ \E line \in Lines : Ask(line)
    \/ \E i \in DOMAIN asked : Answer(i)
    \/ Notify

Spec == Init /\ [][Next]_<<asked, heard>>

=============================================================================
