----------------------------- MODULE ModbusPdu -----------------------------
(***************************************************************************)
(* The protocol data units of modbus.cpp: which requests the front end     *)
(* refuses, what a device puts in its answer, and which integer the front  *)
(* end returns for an answer.  Return values are the integers of the code: *)
(* 0 is success, an exception returns minus its code byte, the library's   *)
(* own errors are the MBE_ constants of modbus_errors.h.                   *)
(***************************************************************************)
EXTENDS Integers

MBE_TOO_MANY                    == -256
MBE_ADDRESS_OVERFLOW            == -257
MBE_BAD_RESPONSE_LENGTH         == -258
MBE_NOT_CONNECTED               == -259
MBE_SEND_REQUEST_FAILED         == -261
MBE_RECEIVE_FAILED              == -263
MBE_UNEXPECTED_DEVICE_RESPONDED == -264
MBE_RESPONSE_TOO_LONG           == -265
MBE_TIMED_OUT                   == -266
MBE_CRC_FAIL                    == -267
MBE_BAD_TRANSACTION_ID          == -268
MBE_BAD_PROTOCOL_ID             == -269

Register == 0 .. 65535                  \* uint16_t
Byte     == 0 .. 255                    \* uint8_t

(* The three operations that are implemented and their function codes      *)
(* (modbus.cpp:49, 82 and 117).                                            *)
FunctionCode == [writeHoldingRegisters |-> 16,
                 readHoldingRegisters  |-> 3,
                 readInputRegisters    |-> 4]
Op      == DOMAIN FunctionCode
Reads   == {"readHoldingRegisters", "readInputRegisters"}

(* device & 0xFF: the address byte of a frame.  Address 0 is a broadcast.  *)
Addr(dev) == dev % 256
Broadcast(r) == Addr(r.dev) = 0

Request == [dev : Nat, op : Op, address : Register, count : Register]

----------------------------------------------------------------------------
(* The sanity checks.  address and count are uint16_t, both are promoted   *)
(* to int before they are added: the sum does not wrap.                    *)
TooMany(r)          == r.count > 123
AddressOverflows(r) == r.address + r.count < r.address

Refusal(r) == IF TooMany(r) THEN MBE_TOO_MANY
              ELSE IF AddressOverflows(r) THEN MBE_ADDRESS_OVERFLOW
              ELSE 0

----------------------------------------------------------------------------
(* The answer of a device to r, as far as the front end looks at it: its   *)
(* function code byte, the byte after it and its length.  Answers come in  *)
(* two forms, the normal one and the exception.                            *)
IllegalDataAddress == 2

NormalAnswer(r) ==
    IF r.op = "writeHoldingRegisters"
    THEN [fn |-> FunctionCode[r.op], second |-> r.address \div 256, len |-> 5]
    ELSE [fn |-> FunctionCode[r.op], second |-> (2 * r.count) % 256,
          len |-> 2 * r.count + 2]

ExceptionAnswer(r, code) ==
    [fn |-> FunctionCode[r.op] + 128, second |-> code, len |-> 2]

Answer(r, form) == IF form = "normal" THEN NormalAnswer(r)
                   ELSE ExceptionAnswer(r, IllegalDataAddress)

(* What the front end returns when the transaction delivered answer a.     *)
IsException(a) == a.fn >= 128            \* fn & 0x80

(* Mutant: a read ignores the length.                                      *)
ReadReturnAnyLength(count, a) == IF IsException(a) THEN - a.second ELSE 0 * count

WriteReturn(a) == IF IsException(a) THEN - a.second ELSE 0

ReadReturn(count, a) ==
    IF IsException(a) THEN - a.second
    ELSE IF a.second # 2 * count \/ a.len # 2 * count + 2
         THEN MBE_BAD_RESPONSE_LENGTH
    ELSE 0

Validate(r, a) == IF r.op \in Reads THEN ReadReturn(r.count, a)
                  ELSE WriteReturn(a)
=============================================================================
