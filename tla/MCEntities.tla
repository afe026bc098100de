----------------------------- MODULE MCEntities -----------------------------
(* Three fills; polls lose nothing, a board, or one of the error registers. *)
EXTENDS Entities

MCFills == {"typical", "zero", "short"}

\* In "short" the registers of several words bring no data (a walk whose
\* answers are empty), and the others something.
MCPayload(fill, r) ==
    CASE fill = "typical" -> [i \in 1 .. r.length |-> IF i % 2 = 1 THEN 48 + i ELSE 15]
      [] fill = "zero" -> [i \in 1 .. r.length |-> 0]
      [] fill = "short" -> IF r.length > 2 THEN <<>> ELSE <<1, 0>>

BoardKeys(board) == {r.key : r \in {x \in Registers : x.board = board}}

MCLosses == {{}, BoardKeys(BMS), {"error_code", "serial_number"}, {"warning_code"}}
=============================================================================
