---------------------- MODULE MCStatisticsMaintenance ----------------------
(* Two routes and the background task over one provider's quota.           *)
EXTENDS StatisticsMaintenance

CONSTANTS q1, q2

=============================================================================
