----------------------------- MODULE MCExchange -----------------------------
(* The three boards, with five fills of their memories.                     *)
EXTENDS Exchange

MCBoards == {MCU, BLE, BMS}

MCMemories == {"distinct", "letters", "high", "gaps", "blanks"}

MCWord(fill, board, index) ==
    CASE fill = "distinct" ->   \* no two words are the same
           (board - MCU + 1) * 8192 + 31 * index
      [] fill = "letters" ->    \* a serial has four words and a half, an undecodable
                                \* byte, a NUL and rubbish; the pack has ten cells
           IF index \in {21, 7, 94, 170, 171, 172} THEN 0
           ELSE 65 + (index % 26) + 256 * (IF index \in {20, 6, 93} THEN 200 ELSE 66)
      [] fill = "high" ->       \* negative numbers, and small high words
           IF index \in {184, 226, 228} THEN 32767 ELSE 65436
      [] fill = "gaps" ->       \* every other cell is empty
           IF index % 2 = 0 THEN 3900 + index ELSE 0
      [] fill = "blanks" ->     \* texts of blanks, with undecodable bytes
           32 + 256 * (IF index % 2 = 0 THEN 66 ELSE 200)
=============================================================================
