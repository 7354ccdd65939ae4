---------------------------- MODULE MCHealthCheck ----------------------------
(***************************************************************************)
(* UpdateNetwork on every list of up to MaxNodes nodes over three URLs and *)
(* two priorities: two pings are enough for ties, a slower and a faster    *)
(* node; the statuses have one member of each class the code tells apart,  *)
(* with the boundaries 399/400 and 499/500.                                *)
(***************************************************************************)
EXTENDS HealthCheck

MCStatuses == {200, 299, 300, 399, 400, 429, 499, 500}
MCPings    == {1, 2}
MCPrios    == {1, 2}
=============================================================================
