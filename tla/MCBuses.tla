------------------------------ MODULE MCBuses ------------------------------
(***************************************************************************)
(* The two buses in the same surroundings: both on lines that keep their   *)
(* times, or both with answers that may be late.  They share nothing, so   *)
(* that a behaviour is one of one of them, the other as it was at first.   *)
(***************************************************************************)
EXTENDS MCModbusTcp

CONSTANTS SerialRequests, SerialSplitAt, SerialMaxLen,  \* those of ModbusTcp, for the serial bus
          Slaves, MaxNoise, Gaps

VARIABLES bus,          \* the bus that is used, "tcp" or "serial"
          sIsOpen, sCalls, sAsked, sCode, sRe, slave, sSent, sRx, sBuf, over, noise

serialVars == <<sIsOpen, sCalls, sAsked, sCode, sRe, slave, sSent, sRx, sBuf, over, noise>>

(* The failing system calls of the serial bus are in MCModbusRtu.          *)
Serial == INSTANCE ModbusRtu WITH
              Requests <- SerialRequests, SplitAt <- SerialSplitAt, MaxLen <- SerialMaxLen,
              IoErrors <- FALSE,
              isOpen <- sIsOpen, calls <- sCalls, asked <- sAsked, code <- sCode, re <- sRe,
              sent <- sSent, rx <- sRx, buf <- sBuf

BusesInit == bus \in {"tcp", "serial"} /\ Init /\ Serial!Init

BusesNext ==
    /\ UNCHANGED bus
    /\ \/ bus = "tcp" /\ Next /\ UNCHANGED serialVars
       \/ bus = "serial" /\ Serial!Next /\ UNCHANGED vars

BusesSpec == BusesInit /\ [][BusesNext]_<<bus, vars, serialVars>>

(* The fairness is that of ModbusTcp and of ModbusRtu.                     *)
BusesFairSpec ==
    /\ BusesSpec
    /\ WF_vars(bus = "tcp" /\ Loop)
    /\ \A n \in Calls : WF_vars(bus = "tcp" /\ Server(n))
    /\ WF_serialVars(bus = "serial" /\ Serial!Loop)
    /\ \A n \in Calls : WF_serialVars(bus = "serial" /\ Serial!Slave(n))

----------------------------------------------------------------------------
(* Properties: those of ModbusTcp, by their own names, and of ModbusRtu.   *)

(* The serial bus keeps the promise of a bus: every step of the calls, the *)
(* line and the slaves is a step of ModbusTransport or none                *)
(* (modbus_serial_rtu.cpp:26-110).                                         *)
SerialKeepsPromise == Serial!KeepsPromise

(* On a serial line that can be relied upon a request that is heard is     *)
(* answered: the call takes that answer (modbus_serial_rtu.cpp:66-92).     *)
SerialHeardIsAnswered == Serial!HeardIsAnswered

(* The answers of one slave are taken in the order in which they were      *)
(* asked for, and none twice, however late they come                       *)
(* (modbus_serial_rtu.cpp:66-92).                                          *)
AnswersInOrder == Serial!AnswersInOrder
=============================================================================
