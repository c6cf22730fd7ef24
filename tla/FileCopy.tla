------------------------------ MODULE FileCopy ------------------------------
(***************************************************************************)
(* What the copy program asyncio.c promises: the blocks of the input file  *)
(* reach the output file in any order, each once, at its own offset and    *)
(* enciphered, and success is reported when all of them have.  Only the    *)
(* last block may come out shorter or longer than expected, because the    *)
(* input may change its length while it is copied.                         *)
(***************************************************************************)
EXTENDS Integers, Sequences

CONSTANTS
    Input,      \* what the input file holds, as far as it may ever reach
    Size,       \* its length when the copy begins
    BSZ         \* the size of a block

VARIABLES out, done, status

Hole == -1
Blocks == {b \in 0 .. (Size - 1) : b % BSZ = 0}

\* The cipher: a letter is replaced by the one 13 places on, in a circle.
Rot13(c) ==
    LET turn(base) == base + ((c - base + 13) % 26)
    IN  IF c \in 97 .. 122 THEN turn(97)
        ELSE IF c \in 65 .. 90 THEN turn(65) ELSE c

Init ==
    /\ out = [p \in 1 .. Len(Input) |-> Hole]
    /\ done = {}
    /\ status = "running"

Put(b, n) ==
    /\ status = "running" /\ b \notin done
    /\ b + BSZ < Size => n = BSZ
    /\ out' = [p \in DOMAIN out |-> IF p \in (b + 1) .. (b + n)
                                    THEN Rot13(Input[p]) ELSE out[p]]
    /\ done' = done \cup {b}
    /\ UNCHANGED status

Succeed ==
    /\ status = "running" /\ done = Blocks
    /\ status' = "exit"
    /\ UNCHANGED <<out, done>>

Fail ==
    /\ status = "running"
    /\ status' = "failed"
    /\ UNCHANGED <<out, done>>

Next ==
    \/ \E b \in Blocks, n \in 0 .. BSZ : Put(b, n)
    \/ Succeed
    \/ Fail

vars == <<out, done, status>>
Spec == Init /\ [][Next]_vars /\ WF_vars(Next)

=============================================================================
