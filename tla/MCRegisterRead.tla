--------------------------- MODULE MCRegisterRead ---------------------------
(* A board with a register of three words and one of one word.               *)
EXTENDS RegisterRead

CONSTANTS wide, narrow

MCRegisters == {wide, narrow}
MCAddresses == 0 .. 3
MCFirst == [r \in MCRegisters |-> IF r = wide THEN 0 ELSE 3]
MCWords == [r \in MCRegisters |-> IF r = wide THEN 3 ELSE 1]
=============================================================================
