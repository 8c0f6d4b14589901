---------------------------- MODULE MCTwiMaster ----------------------------
(* The calls of i2c_simple_master.c for TLC. *)
EXTENDS TwiMaster

(* write1ByteRegister and write2ByteRegister *)
MCWriteRegister(n) == [first |-> "reg", reads |-> FALSE, then |-> "continue",
                       refused |-> "restartWrite", len |-> n, tries |-> 1]
MCWriteNBytes(n) == [first |-> "data", reads |-> FALSE, then |-> "stop",
                     refused |-> "restartWrite", len |-> n, tries |-> 1]
(* read1ByteRegister tries twice; read2ByteRegister, readDataBlock once *)
MCReadRegister(n) == [first |-> "reg", reads |-> FALSE, then |-> "restartRead",
                      refused |-> "restartWrite", len |-> n, tries |-> IF n = 1 THEN 2 ELSE 1]
MCReadNBytes(n) == [first |-> "data", reads |-> TRUE, then |-> "stop",
                    refused |-> "stop", len |-> n, tries |-> 1]

MCCalls ==
  {MCWriteRegister(1), MCWriteRegister(2), MCReadRegister(1), MCReadRegister(2),
   MCReadRegister(3), MCReadNBytes(1), MCReadNBytes(3), MCWriteNBytes(1), MCWriteNBytes(3)}
=============================================================================
