-------------------------- MODULE RegularRegister ---------------------------
(***************************************************************************)
(* What reading a register promises.  The scooter's words change while a   *)
(* read is under way; a read fails, or returns every word of its register  *)
(* as that word was at some time since the read began.  Different words    *)
(* may be as they were at different times: a register, in the sense of the *)
(* literature, that is regular word by word and not atomic.                *)
(***************************************************************************)
EXTENDS Naturals, Sequences

CONSTANTS
    Registers, NoRegister,
    First,          \* [Registers -> index of its first word]
    Words,          \* [Registers -> how many words it has]
    Addresses, Values

VARIABLES
    memory,     \* the scooter's words
    register,   \* the register being read
    held,       \* memory as it was since the read began
    result      \* what the last read returned, <<>> if it failed

vars == <<memory, register, held, result>>

Init ==
    /\ memory \in [Addresses -> Values]
    /\ register = NoRegister
    /\ held = {}
    /\ result = <<>>

Change ==
    /\ \E a \in Addresses, v \in Values : memory' = [memory EXCEPT ![a] = v]
    /\ held' = IF register = NoRegister THEN {} ELSE held \union {memory'}
    /\ UNCHANGED <<register, result>>

Begin ==
    /\ register = NoRegister
    /\ register' \in Registers
    /\ held' = {memory}
    /\ result' = <<>>
    /\ UNCHANGED memory

\* Each of the words was in its place at some time during the read.
Held(words) ==
    \A k \in 1 .. Words[register] :
        \E m \in held : words[k] = m[First[register] + k - 1]

Return ==
    /\ register # NoRegister
    /\ result' \in [1 .. Words[register] -> Values]
    /\ Held(result')
    /\ register' = NoRegister
    /\ held' = {}
    /\ UNCHANGED memory

\* A read fails, at once or after it has begun.
Fail ==
    /\ register' = NoRegister
    /\ held' = {}
    /\ result' = <<>>
    /\ UNCHANGED memory

Next == Change \/ Begin \/ Return \/ Fail

Spec == Init /\ [][Next]_vars
=============================================================================
