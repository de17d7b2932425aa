----------------------------- MODULE MCWifiRadio -----------------------------
(***************************************************************************)
(* WifiRadio for TLC: two stations, two events behind at most.             *)
(***************************************************************************)
EXTENDS WifiRadio
=============================================================================
