------------------------- MODULE MCStreamLifecycle -------------------------
(* Instances of StreamLifecycle for TLC.                                   *)
EXTENDS StreamLifecycle, TLC

Symmetry == Permutations(Streams) \cup Permutations(Senders)
                \cup Permutations(Readers) \cup Permutations(Actors)

\* For instances without readers.  acceptReaders() then only polls, and that one
\* of its two looks at the flags comes late is the same to everybody else as that
\* Accept takes longer: both looks are taken before anybody else goes on.
Polling == \E s \in Streams : rd[s] \in {"check", "gate"}

Poll == \E s \in Streams : AcceptorCheckStop(s) \/ AcceptorReadActive(s)

NextPolled == IF Polling THEN Poll ELSE Next

SpecPolled == Init /\ [][NextPolled]_vars

\* Where LoadStreams() leaves off if it is quick: all streams are there and
\* active, and no goroutine has taken a step.
AllAdded ==
    /\ registered = Streams
    /\ replaced = {}
    /\ active = [s \in Streams |-> TRUE]
    /\ pc = [s \in Streams |-> "top"]
    /\ Untouched

FairSpecLoaded == AllAdded /\ [][NextPolled]_vars /\ Fairness

=============================================================================
