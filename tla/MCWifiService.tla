--------------------------- MODULE MCWifiService ---------------------------
(* A small instance of WifiService for TLC. *)
EXTENDS WifiService
=============================================================================
