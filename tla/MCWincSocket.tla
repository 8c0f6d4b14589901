---------------------------- MODULE MCWincSocket ----------------------------
(* A small instance of WincSocket for TLC. *)
EXTENDS WincSocket
=============================================================================
