---------------------------- MODULE MCDashboard ----------------------------
(* Instances of Dashboard for TLC.                                         *)
EXTENDS Dashboard, TLC

OneConnection == {1}
TwoConnections == 1..2

=============================================================================
