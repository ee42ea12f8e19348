-------------------------- MODULE ModbusTransport --------------------------
(***************************************************************************)
(* What bus::transaction promises to its caller, whatever the bus is: the  *)
(* abstract specification that ModbusRtu and ModbusTcp implement.          *)
(*                                                                         *)
(* Calls are numbered.  A call ends with an error that says nothing about  *)
(* what the device did, or with the answer a device gave to some call of   *)
(* the same target; an answer is used for one call only, and answers of    *)
(* one target are used in the order in which they were asked for.  With    *)
(* Exact a call is answered by its own answer or by none.                  *)
(***************************************************************************)
EXTENDS ModbusPdu

CONSTANTS Requests,     \* the requests a caller makes
          MaxCalls,     \* bound: the calls that are numbered
          Exact         \* TRUE: a call accepts no answer but its own

VARIABLES calls,        \* the number of calls made so far
          asked,        \* asked[n]: the request of call n
          answered,     \* the calls whose answer a device has put on the bus
          re,           \* re[n]: the call whose answer call n got, 0 for none
          busy          \* the last call has not returned

vars == <<calls, asked, answered, re, busy>>

Calls == 1 .. MaxCalls

Init ==
    /\ calls = 0
    /\ asked \in [Calls -> Requests]
    /\ answered = {}
    /\ re = [n \in Calls |-> 0]
    /\ busy = FALSE

(* A call that waits for an answer, and one that fails on the spot.        *)
Ask(r, wait) ==
    /\ ~busy /\ calls < MaxCalls
    /\ calls' = calls + 1
    /\ asked' = [asked EXCEPT ![calls + 1] = r]
    /\ busy' = wait
    /\ UNCHANGED <<answered, re>>

(* A device gives its answer to call n, at any time after it was asked.    *)
DeviceAnswers(n) ==
    /\ n <= calls
    /\ answered' = answered \cup {n}
    /\ UNCHANGED <<calls, asked, re, busy>>

(* The answer to call m is one that the pending call may be given.         *)
MayUse(m) ==
    /\ m \in answered
    /\ Addr(asked[m].dev) = Addr(asked[calls].dev)
    /\ \A k \in 1 .. calls : Addr(asked[k].dev) = Addr(asked[m].dev) => re[k] < m
    /\ Exact => m = calls

Return(m) ==
    /\ busy /\ MayUse(m)
    /\ busy' = FALSE
    /\ re' = [re EXCEPT ![calls] = m]
    /\ UNCHANGED <<calls, asked, answered>>

Fail ==
    /\ busy
    /\ busy' = FALSE
    /\ UNCHANGED <<calls, asked, answered, re>>

Next ==
    \/ \E r \in Requests, wait \in BOOLEAN : Ask(r, wait)
    \/ \E n \in Calls : DeviceAnswers(n)
    \/ \E m \in Calls : Return(m)
    \/ Fail

Spec == Init /\ [][Next]_vars
=============================================================================
