-------------------------- MODULE MCExchangeBuffer --------------------------
(* A small instance of ExchangeBuffer for TLC. *)
EXTENDS ExchangeBuffer

MCBytes == {1, 2}
MCPeek == {1}
=============================================================================
