------------------------------- MODULE MCDhcp -------------------------------
(***************************************************************************)
(* A small segment for TLC. Clients c1 and c3 run on the same host, so     *)
(* that one run meets what an earlier run left in flight. No client runs   *)
(* on h3.                                                                  *)
(***************************************************************************)
EXTENDS Dhcp, FiniteSets, TLC

CONSTANTS c1, c2, c3, h1, h2, h3

MCHostOf == (c1 :> h1) @@ (c2 :> h2) @@ (c3 :> h1)
=============================================================================
