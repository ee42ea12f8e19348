--------------------------- MODULE ModbusFrontEnd ---------------------------
(***************************************************************************)
(* One call of writeHoldingRegisters, readHoldingRegisters or              *)
(* readInputRegisters (modbus.cpp), with the buffer that holds first the   *)
(* request and then the answer: an answer of ilen bytes overwrites the     *)
(* first ilen bytes only, and the checks look at bytes 0 and 1 whatever    *)
(* ilen is.  The transaction may deliver any answer, not only those of an  *)
(* honest device; of the bytes, 0 and 1 are kept and where they come from. *)
(***************************************************************************)
EXTENDS ModbusPdu

CONSTANTS Requests,     \* the requests the application makes
          Bytes,        \* the values answer bytes may take
          Lengths,      \* the lengths answers may have, 0 .. maxilen
          Errors        \* the errors a transaction may return

ASSUME FrontEndAssumption ==
    /\ Requests \subseteq Request
    /\ Bytes \subseteq Byte
    /\ Lengths \subseteq 0 .. 258
    /\ Errors \subseteq Int \ {0}

VARIABLES pc,           \* "idle", "transaction", "validate" or "done"
          req,          \* the arguments of the call
          buff,         \* buff[0] and buff[1]: value and origin
          ilen,         \* the length of the answer
          data,         \* where the registers handed to the caller come from
          ret           \* what the call returned

vars == <<pc, req, buff, ilen, data, ret>>

Leftover(v) == [value |-> v, from |-> "request"]
Fresh(v)    == [value |-> v, from |-> "answer"]

Init ==
    /\ pc = "idle"
    /\ req \in Requests
    /\ buff = [fn |-> Leftover(0), second |-> Leftover(0)]
    /\ ilen = 0 /\ data = "untouched" /\ ret = 0

Refuse ==
    /\ pc = "idle" /\ Refusal(req) # 0
    /\ pc' = "done" /\ ret' = Refusal(req)
    /\ UNCHANGED <<req, buff, ilen, data>>

BuildRequest ==
    /\ pc = "idle" /\ Refusal(req) = 0
    /\ pc' = "transaction"
    /\ buff' = [fn     |-> Leftover(FunctionCode[req.op]),
                second |-> Leftover(req.address \div 256)]
    /\ UNCHANGED <<req, ilen, data, ret>>

TransactionFails(e) ==
    /\ pc = "transaction"
    /\ pc' = "done" /\ ret' = e
    /\ UNCHANGED <<req, buff, ilen, data>>

Deliver(fn, second, len) ==
    /\ pc = "transaction"
    /\ pc' = "validate"
    /\ ilen' = len
    /\ buff' = [fn     |-> IF len > 0 THEN Fresh(fn) ELSE buff.fn,
                second |-> IF len > 1 THEN Fresh(second) ELSE buff.second]
    /\ UNCHANGED <<req, data, ret>>

(* The answer as the checks see it.                                        *)
Seen == [fn |-> buff.fn.value, second |-> buff.second.value, len |-> ilen]

Return ==
    /\ pc = "validate"
    /\ pc' = "done"
    /\ ret' = Validate(req, Seen)
    /\ data' = IF req.op \notin Reads \/ IsException(Seen) \/ ret' # 0 THEN data
               ELSE IF ilen >= 2 * req.count + 2 THEN "answer"
               ELSE "leftover"
    /\ UNCHANGED <<req, buff, ilen>>

Next ==
    \/ Refuse \/ BuildRequest \/ Return
    \/ \E e \in Errors : TransactionFails(e)
    \/ \E fn, second \in Bytes, len \in Lengths : Deliver(fn, second, len)

Spec == Init /\ [][Next]_vars

----------------------------------------------------------------------------
(* Properties.                                                             *)

(* The types of the variables; an answer never exceeds the buffer of 258   *)
(* bytes that the front end hands to transaction (modbus.cpp:80-88).       *)
TypeOK ==
    /\ pc \in {"idle", "transaction", "validate", "done"}
    /\ req \in Requests
    /\ buff.fn.value \in Byte /\ buff.second.value \in Byte
    /\ ilen \in 0 .. 258
    /\ data \in {"untouched", "answer", "leftover"}
    /\ ret \in Int

(* A read that hands registers to the caller returns 0, the registers are  *)
(* bytes of the answer, and the byte count that let them pass is the       *)
(* answer's own, never what the request left in the buffer                 *)
(* (modbus.cpp:94-104).                                                    *)
ReadsTheAnswer ==
    (pc = "done" /\ data # "untouched") =>
        /\ ret = 0 /\ data = "answer"
        /\ buff.second.from = "answer"
        /\ ilen = 2 * req.count + 2 /\ req.count <= 123
=============================================================================
