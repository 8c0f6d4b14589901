------------------------------ MODULE MCCloud ------------------------------
(* Small instances of CloudService for TLC. *)
EXTENDS CloudService

(* what the application does *)
MCSubscribe == {"subscribe"}
=============================================================================
