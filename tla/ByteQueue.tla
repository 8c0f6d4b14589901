------------------------------ MODULE ByteQueue ------------------------------
(***************************************************************************)
(* What an exchange buffer promises: a bounded queue of bytes.  A write    *)
(* keeps the part of its data that fits, a read takes the oldest bytes, a  *)
(* peek shows them and leaves them, and clearing it forgets them.          *)
(***************************************************************************)
EXTENDS Integers, Sequences

CONSTANTS
  Bytes,       (* the values of a byte                                     *)
  Capacity,    (* the most bytes it holds                                  *)
  MaxLength    (* the most bytes a caller writes or reads at once          *)

VARIABLES
  bytes,   (* what has been written and not been read, oldest first        *)
  out      (* what the last read or peek returned                          *)

Shorter(m, n) == IF m < n THEN m ELSE n

Front(n) == SubSeq(bytes, 1, Shorter(n, Len(bytes)))

Init == bytes = <<>> /\ out = <<>>

Clear == bytes' = <<>> /\ UNCHANGED out

Put(data) ==
  /\ bytes' = bytes \o SubSeq(data, 1, Shorter(Len(data), Capacity - Len(bytes)))
  /\ UNCHANGED out

Look(n) == out' = Front(n) /\ UNCHANGED bytes

Take(n) ==
  /\ out' = Front(n)
  /\ bytes' = SubSeq(bytes, Shorter(n, Len(bytes)) + 1, Len(bytes))

Next ==
  \/ Clear
  \/ \E data \in UNION {[1 .. n -> Bytes] : n \in 0 .. MaxLength} : Put(data)
  \/ \E n \in 0 .. MaxLength : Look(n)
  \/ \E n \in 0 .. MaxLength : Take(n)

Spec == Init /\ [][Next]_<<bytes, out>>
=============================================================================
