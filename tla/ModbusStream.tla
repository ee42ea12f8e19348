---------------------------- MODULE ModbusStream ----------------------------
(* What read does with the bytes s the kernel holds, given room bytes.     *)
EXTENDS Integers, Sequences

Least(a, b) == IF a < b THEN a ELSE b

Taken(s, room) == SubSeq(s, 1, Least(Len(s), room))
Left(s, room)  == SubSeq(s, Least(Len(s), room) + 1, Len(s))
=============================================================================
