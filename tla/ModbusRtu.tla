----------------------------- MODULE ModbusRtu -----------------------------
(***************************************************************************)
(* A master calling rtu_serial_bus::transaction (modbus_serial_rtu.cpp)    *)
(* through the front end of modbus.cpp, the serial line and the slaves on  *)
(* it.  ascii_serial_bus::transaction is the same text with a deadline of  *)
(* 200 ms instead of 1 s; time is abstract here, so this is its model too. *)
(*                                                                         *)
(* A byte of an answer is a pair <<n, i>>: byte i of the answer to call n. *)
(* Nothing in a frame says which call it answers, so the code sees only    *)
(* whether the bytes it has collected are one whole frame (the CRC holds)  *)
(* and from which device it comes.  The CRC is ideal: it holds for whole   *)
(* frames and fails for everything else.                                   *)
(***************************************************************************)
EXTENDS ModbusPdu, ModbusStream

CONSTANTS Requests,     \* the requests the application makes
          Slaves,       \* the addresses of the slaves on the line
          MaxCalls,     \* bound: calls made
          MaxLen,       \* maxilen, the size of the response buffer
          MaxNoise,     \* bound: bytes garbled on the line
          SplitAt,      \* bound: where a frame may be split on its way
          Late,         \* a slave may answer after the master's deadline
          Gaps,         \* a slave may pause inside a frame for over 1.7 ms
          IoErrors      \* write, select and read may fail

ASSUME RtuAssumption ==
    /\ Requests \subseteq Request /\ Requests # {}
    /\ Slaves \subseteq 1 .. 255
    /\ MaxCalls \in Nat /\ MaxLen \in Nat /\ MaxNoise \in Nat
    /\ SplitAt \subseteq Nat
    /\ Late \in BOOLEAN /\ Gaps \in BOOLEAN /\ IoErrors \in BOOLEAN

VARIABLES isOpen,       \* serial_fd >= 0
          calls,        \* the number of calls made so far
          asked,        \* asked[n]: the request of call n
          code,         \* code[n]: what call n returned
          re,           \* re[n]: the call whose answer call n took, 0 for none
          slave,        \* slave[n]: what the slave made of call n
          sent,         \* sent[n]: how many bytes of its answer are sent
          rx,           \* bytes the kernel holds for serial_fd
          buf,          \* ibuff[0 .. *ilen-1]
          over,         \* *ilen = -1
          noise         \* bytes garbled so far

callVars  == <<calls, asked, code, re>>
slaveVars == <<slave, sent, noise>>
vars == <<isOpen, calls, asked, code, re, slave, sent, rx, buf, over, noise>>

Calls   == 1 .. MaxCalls
Pending == 1            \* not a value the code returns: the call has not
Garbled == <<0, 0>>

Waiting == calls > 0 /\ code[calls] = Pending
Idle    == ~Waiting

Init ==
    /\ isOpen = FALSE
    /\ calls = 0
    /\ asked = [n \in Calls |-> CHOOSE r \in Requests : TRUE]
    /\ code  = [n \in Calls |-> 0]
    /\ re    = [n \in Calls |-> 0]
    /\ slave = [n \in Calls |-> "unheard"]
    /\ sent  = [n \in Calls |-> 0]
    /\ rx = <<>> /\ buf = <<>> /\ over = FALSE
    /\ noise = 0

----------------------------------------------------------------------------
(* Frames: device address, PDU and CRC.                                    *)

FrameLen(n)  == Answer(asked[n], slave[n]).len + 3
Frame(n)     == [i \in 1 .. FrameLen(n) |-> <<n, i>>]
HasAnswer(n) == slave[n] \in {"normal", "exception"}
Talking(n)   == HasAnswer(n) /\ sent[n] < FrameLen(n)
MidFrame     == \E n \in Calls : Talking(n) /\ sent[n] > 0
Owed         == \E n \in Calls : Talking(n) \/ (slave[n] = "heard" /\ ~Broadcast(asked[n]))

----------------------------------------------------------------------------
(* serial_bus: open and close.  The kernel drops what it holds for a port  *)
(* that is closed.  open reports nothing: a rate it does not know or a     *)
(* device it cannot set up leave the port closed.                          *)

Open(works) ==
    /\ Idle
    /\ isOpen' = works
    /\ rx' = <<>>
    /\ UNCHANGED <<callVars, slaveVars, buf, over>>

Close ==
    /\ Idle /\ isOpen
    /\ isOpen' = FALSE
    /\ rx' = <<>>
    /\ UNCHANGED <<callVars, slaveVars, buf, over>>

----------------------------------------------------------------------------
(* A call of the front end, up to the wait for the answer.                 *)

Begin(r, c) ==
    /\ Idle /\ calls < MaxCalls
    /\ calls' = calls + 1
    /\ asked' = [asked EXCEPT ![calls + 1] = r]
    /\ code'  = [code EXCEPT ![calls + 1] = c]
    /\ UNCHANGED <<isOpen, re, sent, rx, noise>>

CallRefused(r) ==
    /\ Refusal(r) # 0
    /\ Begin(r, Refusal(r))
    /\ UNCHANGED <<slave, buf, over>>

CallNotConnected(r) ==
    /\ Refusal(r) = 0 /\ ~isOpen
    /\ Begin(r, MBE_NOT_CONNECTED)
    /\ UNCHANGED <<slave, buf, over>>

(* write fails or is short: no slave sees a whole request.                 *)
CallSendFails(r) ==
    /\ Refusal(r) = 0 /\ isOpen /\ IoErrors
    /\ Begin(r, MBE_SEND_REQUEST_FAILED)
    /\ UNCHANGED <<slave, buf, over>>

(* To address 0 the code waits for nothing and runs into its last line.    *)
CallBroadcast(r) ==
    /\ Refusal(r) = 0 /\ isOpen /\ Broadcast(r)
    /\ Begin(r, MBE_TIMED_OUT)
    /\ slave' = [slave EXCEPT ![calls + 1] = "heard"]
    /\ UNCHANGED <<buf, over>>

(* Mutant: the response of the previous call is left in the buffer.        *)
CallUnicastKeepingBuffer(r, heard) ==
    /\ Refusal(r) = 0 /\ isOpen /\ ~Broadcast(r)
    /\ heard => Addr(r.dev) \in Slaves
    /\ Begin(r, Pending)
    /\ slave' = [slave EXCEPT ![calls + 1] = IF heard THEN "heard" ELSE "unheard"]
    /\ UNCHANGED <<buf, over>>

CallUnicast(r, heard) ==
    /\ Refusal(r) = 0 /\ isOpen /\ ~Broadcast(r)
    /\ heard => Addr(r.dev) \in Slaves
    /\ Begin(r, Pending)
    /\ slave' = [slave EXCEPT ![calls + 1] = IF heard THEN "heard" ELSE "unheard"]
    /\ buf' = <<>> /\ over' = FALSE

----------------------------------------------------------------------------
(* The receive loop.                                                       *)

End(c, m) ==
    /\ code' = [code EXCEPT ![calls] = c]
    /\ re'   = [re EXCEPT ![calls] = m]
    /\ UNCHANGED <<isOpen, calls, asked, slaveVars, buf, over>>

(* Mutant: read is given maxilen, not what is left of it.                  *)
ReadBytesPastTheEnd ==
    /\ Waiting /\ rx # <<>>
    /\ ~over /\ Len(buf) # MaxLen
    /\ buf' = buf \o rx /\ rx' = <<>>
    /\ UNCHANGED <<isOpen, callVars, slaveVars, over>>

(* select finds data and there is room: append what fits.                  *)
ReadBytes ==
    /\ Waiting /\ rx # <<>>
    /\ ~over /\ Len(buf) # MaxLen
    /\ buf' = buf \o Taken(rx, MaxLen - Len(buf))
    /\ rx'  = Left(rx, MaxLen - Len(buf))
    /\ UNCHANGED <<isOpen, callVars, slaveVars, over>>

(* ... and there is none: *ilen = -1, the data is read and dropped.        *)
Discard ==
    /\ Waiting /\ rx # <<>>
    /\ over \/ Len(buf) = MaxLen
    /\ over' = TRUE /\ buf' = <<>>
    /\ rx' = Left(rx, MaxLen)
    /\ UNCHANGED <<isOpen, callVars, slaveVars>>

(* The read of the overflow branch fails.                                  *)
DiscardFails ==
    /\ IoErrors /\ Waiting /\ rx # <<>>
    /\ over \/ Len(buf) = MaxLen
    /\ code' = [code EXCEPT ![calls] = MBE_RESPONSE_TOO_LONG]
    /\ over' = TRUE /\ buf' = <<>>
    /\ UNCHANGED <<isOpen, calls, asked, re, slaveVars, rx>>

(* select fails, or the read of the normal branch does.                    *)
ReceiveFails ==
    /\ IoErrors /\ Waiting
    /\ End(MBE_RECEIVE_FAILED, 0)
    /\ UNCHANGED rx

(* Mutant: only more than five bytes do.                                   *)
LongSilence == Waiting /\ rx = <<>> /\ ~over /\ Len(buf) > 5 /\ (MidFrame => Gaps)

(* 1.7 ms of silence after more than three bytes end the response.         *)
Silence ==
    /\ Waiting /\ rx = <<>>
    /\ ~over /\ Len(buf) > 3
    /\ MidFrame => Gaps

Whole(m) == m \in Calls /\ buf = Frame(m)

(* Mutant: the device is not compared.                                     *)
FromAnyone(m) == m \in Calls

(* if (ibuff[0] != device): an address byte against the unmasked target.   *)
FromTarget(m) == Addr(asked[m].dev) = asked[calls].dev

CrcFails ==
    /\ Silence
    /\ \A m \in Calls : ~Whole(m)
    /\ End(MBE_CRC_FAIL, 0)
    /\ UNCHANGED rx

WrongDevice(m) ==
    /\ Silence
    /\ Whole(m) /\ ~FromTarget(m)
    /\ End(MBE_UNEXPECTED_DEVICE_RESPONDED, 0)
    /\ UNCHANGED rx

(* transaction returns 0 and the front end looks at the answer.            *)
Accept(m) ==
    /\ Silence
    /\ Whole(m) /\ FromTarget(m)
    /\ End(Validate(asked[calls], Answer(asked[m], slave[m])), m)
    /\ UNCHANGED rx

(* Mutant: the deadline holds only while nothing has come.                 *)
ExpireOnEmpty ==
    /\ Waiting /\ rx = <<>> /\ buf = <<>>
    /\ Late \/ (~Owed /\ ~over)
    /\ End(MBE_TIMED_OUT, 0)
    /\ UNCHANGED rx

(* The deadline.  On a line that is never late it passes only when nothing *)
(* more can come and what came is no end of a response.                    *)
Expire ==
    /\ Waiting
    /\ Late \/ (rx = <<>> /\ ~Owed /\ (over \/ Len(buf) <= 3))
    /\ End(MBE_TIMED_OUT, 0)
    /\ UNCHANGED rx

----------------------------------------------------------------------------
(* The slaves.  A slave serves what it hears in order, and answers only    *)
(* what is addressed to it alone.                                          *)

Serve(n, form) ==
    /\ slave[n] = "heard"
    /\ \A m \in 1 .. n - 1 :
          \/ Addr(asked[m].dev) \notin {0, Addr(asked[n].dev)}
          \/ slave[m] # "heard" /\ ~Talking(m)
    /\ form \in IF Broadcast(asked[n]) THEN {"silent"} ELSE {"normal", "exception"}
    /\ slave' = [slave EXCEPT ![n] = form]
    /\ UNCHANGED <<isOpen, callVars, sent, rx, buf, over, noise>>

(* k bytes of the answer to call n reach the kernel, if the port is open.  *)
Send(n, k) ==
    /\ Talking(n)
    /\ sent[n] + k \in SplitAt \cup {FrameLen(n)}
    /\ sent' = [sent EXCEPT ![n] = @ + k]
    /\ rx' = IF isOpen THEN rx \o [i \in 1 .. k |-> <<n, sent[n] + i>>] ELSE rx
    /\ UNCHANGED <<isOpen, callVars, slave, buf, over, noise>>

(* One byte reaches the kernel with an error.                              *)
SendGarbled(n) ==
    /\ Talking(n) /\ noise < MaxNoise /\ isOpen
    /\ noise' = noise + 1
    /\ sent' = [sent EXCEPT ![n] = @ + 1]
    /\ rx' = Append(rx, Garbled)
    /\ UNCHANGED <<isOpen, callVars, slave, buf, over>>

----------------------------------------------------------------------------
User ==
    \/ \E works \in BOOLEAN : Open(works)
    \/ Close
    \/ \E r \in Requests :
          \/ CallRefused(r)
          \/ CallNotConnected(r)
          \/ CallSendFails(r)
          \/ CallBroadcast(r)
          \/ \E heard \in BOOLEAN : CallUnicast(r, heard)

Loop ==
    \/ ReadBytes
    \/ Discard
    \/ CrcFails
    \/ \E m \in Calls : WrongDevice(m)
    \/ \E m \in Calls : Accept(m)
    \/ Expire

Faults == DiscardFails \/ ReceiveFails

Slave(n) ==
    \/ \E form \in {"normal", "exception", "silent"} : Serve(n, form)
    \/ \E k \in 1 .. FrameLen(n) - sent[n] : Send(n, k)
    \/ SendGarbled(n)

Next == User \/ Loop \/ Faults \/ \E n \in Calls : Slave(n)

Spec == Init /\ [][Next]_vars

(* The loop runs until it returns, and a slave goes on with what it began. *)
(* No system call is obliged to fail.                                      *)
FairSpec == Spec /\ WF_vars(Loop) /\ \A n \in Calls : WF_vars(Slave(n))

----------------------------------------------------------------------------
(* Properties.                                                             *)

ByteOfAnswer == (Calls \X (Nat \ {0})) \cup {Garbled}

(* The types of the variables; no call waits on a closed port; the         *)
(* response buffer never holds more than maxilen bytes                     *)
(* (transaction, modbus_serial_rtu.cpp:31).                                *)
TypeOK ==
    /\ isOpen \in BOOLEAN
    /\ calls \in 0 .. MaxCalls
    /\ asked \in [Calls -> Requests]
    /\ code \in [Calls -> Int]
    /\ re \in [Calls -> 0 .. MaxCalls]
    /\ slave \in [Calls -> {"unheard", "heard", "normal", "exception", "silent"}]
    /\ sent \in [Calls -> Nat]
    /\ rx \in Seq(ByteOfAnswer)
    /\ buf \in Seq(ByteOfAnswer) /\ Len(buf) <= MaxLen
    /\ over \in BOOLEAN
    /\ noise \in Nat
    /\ Waiting => isOpen

(* On any line, however late, broken or noisy: the answer a call takes was *)
(* given by the slave it is addressed to, to a call made no later          *)
(* (modbus_serial_rtu.cpp:79-92).                                          *)
AnswerFromTarget ==
    \A n \in 1 .. calls : re[n] # 0 =>
        /\ re[n] <= n
        /\ HasAnswer(re[n])
        /\ Addr(asked[re[n]].dev) = asked[n].dev

(* On any line: a read that returns 0 took the normal answer to a read of  *)
(* as many registers (readHoldingRegisters, modbus.cpp:93-104).  The       *)
(* function code is not looked at; that a write's answer has an odd length *)
(* saves it.                                                               *)
ReadOfThatShape ==
    \A n \in 1 .. calls : (code[n] = 0 /\ asked[n].op \in Reads) =>
        /\ re[n] # 0
        /\ slave[re[n]] = "normal"
        /\ asked[re[n]].op \in Reads
        /\ asked[re[n]].count = asked[n].count

(* On any line: no answer serves two calls, and the answers of one slave   *)
(* are taken in the order of the requests (the buffer restarts with each   *)
(* call, the kernel queue does not).                                       *)
AnswersInOrder ==
    \A n \in 1 .. calls : \A m \in 1 .. n - 1 :
        (re[m] # 0 /\ re[n] # 0 /\ Addr(asked[m].dev) = Addr(asked[n].dev))
            => re[m] < re[n]

(* A call takes its own answer or none, and what it reports as done is     *)
(* done.  Holds where the silence of the line can be relied upon: slaves   *)
(* that answer within the deadline the comment of line 54 gives them, and  *)
(* without pauses.                                                         *)
OwnAnswer ==
    \A n \in 1 .. calls :
        /\ re[n] \in {0, n}
        /\ code[n] = 0 => slave[n] = "normal"

(* The promise of a bus; exactly, on a line that can be relied upon.       *)
Reliable == ~(Late \/ Gaps \/ IoErrors)
Promise == INSTANCE ModbusTransport WITH
               answered <- {n \in Calls : HasAnswer(n)},
               busy     <- Waiting,
               Exact    <- Reliable

(* The detailed specification keeps that promise: every step of the calls, *)
(* the line and the slaves is a step of ModbusTransport or none.           *)
KeepsPromise == Promise!Spec

(* Every transaction returns (the deadline of line 68).                    *)
CallReturns == Waiting ~> Idle

(* On a line that can be relied upon, a request that is heard is answered: *)
(* the call takes that answer, unless noise or an address above 255 makes  *)
(* it refuse it.                                                           *)
HeardIsAnswered ==
    \A n \in Calls :
        (slave[n] = "heard" /\ code[n] = Pending /\ noise = MaxNoise)
            ~> (re[n] = n \/ asked[n].dev > 255)

=============================================================================
