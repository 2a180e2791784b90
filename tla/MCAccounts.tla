----------------------------- MODULE MCAccounts -----------------------------
(* Instances of Accounts for TLC.                                          *)
EXTENDS Accounts, TLC

\* Nobody, a file of this program, one of an earlier version in plaintext, and
\* one that cannot be upgraded.
ByHand == {<<>>} \cup {"admin" :> [pass |-> p[1], hashed |-> p[2]] :
                          p \in {<<"admin", TRUE>>, <<"admin", FALSE>>, <<"long", FALSE>>}}

Symmetry == Permutations(Clients)

=============================================================================
