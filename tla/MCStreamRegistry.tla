-------------------------- MODULE MCStreamRegistry --------------------------
(* Instances of StreamRegistry for TLC.                                    *)
EXTENDS StreamRegistry, TLC

NoFile == <<>>

\* The egress port of the first pair is the ingress port of the second, which
\* shares its egress port with the third.
CrossingPairs == <<<<1, 2>>, <<2, 3>>, <<4, 3>>>>

Symmetry == Permutations(Ids) \cup Permutations(Handlers)

=============================================================================
