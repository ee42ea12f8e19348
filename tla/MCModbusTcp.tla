---------------------------- MODULE MCModbusTcp ----------------------------
(***************************************************************************)
(* Small connections for TLC: units 1 and 2, targets 0 (a broadcast) and   *)
(* 257 (the unit byte of unit 1, but never an accepted answer).  Answers   *)
(* have their real lengths: 9 bytes an exception, 11 the read of one       *)
(* register, 12 a write.                                                   *)
(***************************************************************************)
EXTENDS ModbusTcp

Req(d, o, c) == [dev |-> d, op |-> o, address |-> 512, count |-> c]

OneRead      == {Req(1, "readHoldingRegisters", 1)}
TwoUnits     == OneRead \cup {Req(2, "writeHoldingRegisters", 1)}
EveryTarget  == TwoUnits \cup {Req(257, "readHoldingRegisters", 1),
                               Req(0, "writeHoldingRegisters", 1),
                               Req(1, "readInputRegisters", 124)}
=============================================================================
