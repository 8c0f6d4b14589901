--------------------------- MODULE MCSerialConsole ---------------------------
(* A small instance of SerialConsole for TLC. *)
EXTENDS SerialConsole
CONSTANTS a
MCLetters == {a}
=============================================================================
