----------------------------- MODULE MCTSParser -----------------------------
(* Instances of TSParser for TLC.                                          *)
EXTENDS TSParser

\* Lengths that end before, at and after the end of a packet.
Edges == {0, 4, 9, 15, 40}

=============================================================================
