---------------------------- MODULE MCModbusRtu ----------------------------
(***************************************************************************)
(* Small lines for TLC, with slaves 1 and 2.  Answers have their real      *)
(* lengths: 5 bytes an exception, 7 the read of one register, 8 a write.   *)
(***************************************************************************)
EXTENDS ModbusRtu

Req(d, o, c) == [dev |-> d, op |-> o, address |-> 512, count |-> c]

ReadAndWrite == {Req(1, "readHoldingRegisters", 1), Req(1, "writeHoldingRegisters", 1)}
SomeRequests == ReadAndWrite \cup {Req(2, "readHoldingRegisters", 1),
                                   Req(0, "writeHoldingRegisters", 1),   \* a broadcast
                                   Req(1, "readInputRegisters", 124)}    \* refused
=============================================================================
