----------------------------- MODULE FrameFifo ------------------------------
(***************************************************************************)
(* What the client's notification handling promises about one link: the    *)
(* frames the scooter sends are handed on whole, in order, each once and   *)
(* none invented, however the link cuts and pads them.  A new link starts  *)
(* empty.                                                                  *)
(***************************************************************************)
EXTENDS Naturals, Sequences

CONSTANT Frames

VARIABLES
    sent,       \* frames the scooter has sent on this link
    handed      \* frames handed to the decryption layer

Init ==
    /\ sent = <<>>
    /\ handed = <<>>

Send ==
    /\ \E f \in Frames : sent' = Append(sent, f)
    /\ UNCHANGED handed

HandOn ==
    /\ Len(handed) < Len(sent)
    /\ handed' = Append(handed, sent[Len(handed) + 1])
    /\ UNCHANGED sent

NewLink ==
    /\ sent' = <<>>
    /\ handed' = <<>>

Next == Send \/ HandOn \/ NewLink

Spec == Init /\ [][Next]_<<sent, handed>>
=============================================================================
