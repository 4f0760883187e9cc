-------------------------- MODULE MCDashboardPage --------------------------
(* A page of the dashboard, with and without a password.                   *)
EXTENDS DashboardPage, TLC

CONSTANTS a1, a2, b1, b2, c1, p1, k1, i1, i2

MCSymmetry ==
    Permutations(Password) \cup Permutations(Session) \cup Permutations(Slot)
=============================================================================
