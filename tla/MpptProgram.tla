---------------------------- MODULE MpptProgram ----------------------------
(***************************************************************************)
(* The test program of mppt.cpp as a process: what main does from its      *)
(* command line to its exit, the signals that interrupt it, the alarm      *)
(* handler that samples the generators, and the clean-up stack             *)
(* (destroyer.h).  One thread: while the alarm handler runs main does not, *)
(* and further alarms wait; SIGINT and SIGTERM interrupt either.           *)
(*                                                                         *)
(* What an exchange with a supply does is in KepcoExchange; here it is one *)
(* step, and what matters is when it runs and who interrupts it.  The      *)
(* sensors and the process-id file are external and return.                *)
(***************************************************************************)
EXTENDS Integers, Sequences, SequencesExt

CONSTANTS Epoch,        \* the time of day, in seconds since 1970, at the start
          Period,       \* dSamplePeriod
          Durations,    \* the values dDuration may be given
          MaxAlarms     \* bound: alarms delivered

ASSUME MpptAssumption ==
    /\ Epoch \in Nat /\ Period \in Nat
    /\ Durations \subseteq 1 .. Epoch
    /\ MaxAlarms \in Nat

Modes == {"refused", "simulation", "sensor test", "psu test", "tracking", "generator test"}

RequirePsu(m)     == m \in {"psu test", "tracking", "generator test"}
RequireSensors(m) == m \in {"sensor test", "tracking", "generator test"}

Signals  == {"SIGINT", "SIGTERM", "SIGALRM"}
Supplies == {"psu1", "psu2"}

VARIABLES mode, dDuration,  \* from the command line
          pc,               \* what main does next, "ended" or "killed"
          hpc,              \* what the alarm handler does next, or "none"
          v,                \* the stack of the destroyer d
          psu,              \* psu[k]: supply k is ready (its status)
          output,           \* output[k]: "off", "on", or "left on" by a close
          disposition,      \* of each signal: "default", "handler", "ignored"
          interrupt_process,
          alarm_sem, main_wait,
          timer,            \* the interval timer runs
          alarms,           \* alarms delivered to the handler
          disturbed         \* a signal's handler ran during an exchange

power == <<psu, output>>
hardware == <<v, power>>
signalling == <<disposition, interrupt_process>>
semaphores == <<alarm_sem, main_wait>>
sampling == <<timer, alarms>>
vars == <<mode, dDuration, pc, hpc, hardware, signalling, semaphores, sampling, disturbed>>

Init ==
    /\ mode \in Modes /\ dDuration \in Durations
    /\ pc = "command line" /\ hpc = "none"
    /\ v = <<>>
    /\ psu = [k \in Supplies |-> FALSE] /\ output = [k \in Supplies |-> "off"]
    /\ disposition = [s \in Signals |-> "default"] /\ interrupt_process = FALSE
    /\ alarm_sem = 0 /\ main_wait = 0
    /\ timer = FALSE /\ alarms = 0
    /\ disturbed = FALSE

----------------------------------------------------------------------------
(* main.  It runs only while the alarm handler does not.                   *)

Main(here) == pc = here /\ hpc = "none" /\ UNCHANGED <<mode, dDuration, hpc, alarms, disturbed>>
Goto(there) == pc' = there
Return == Goto("clear")

CommandLine ==
    /\ Main("command line")
    /\ IF mode = "refused" THEN Return
       ELSE Goto(IF RequirePsu(mode) THEN "open psu1"
                 ELSE IF RequireSensors(mode) THEN "sensors" ELSE "prepare")
    /\ UNCHANGED <<hardware, signalling, semaphores, timer>>

(* Both are opened, whatever becomes of the first.  A supply that is ready *)
(* is told to switch its output on, and open does not look at the answer.  *)
(* Who switched it on before is not this program's affair.                 *)
OpenPsu(k) ==
    /\ Main(IF k = "psu1" THEN "open psu1" ELSE "open psu2")
    /\ \E ready, on \in BOOLEAN :
          /\ on => ready
          /\ psu' = [psu EXCEPT ![k] = ready]
          /\ output' = [output EXCEPT ![k] = IF on THEN "on" ELSE "off"]
    /\ Goto(IF k = "psu1" THEN "open psu2" ELSE "check")
    /\ UNCHANGED <<v, signalling, semaphores, timer>>

CheckPsus ==
    /\ Main("check")
    /\ IF psu["psu1"] /\ psu["psu2"]
       THEN v' = Append(v, "disable_power_supplies") /\ Goto("set up")
       ELSE Return /\ UNCHANGED v
    /\ UNCHANGED <<power, signalling, semaphores, timer>>

SetUp ==
    /\ Main("set up")
    /\ Goto(IF RequireSensors(mode) THEN "sensors" ELSE "psu test")
    /\ UNCHANGED <<hardware, signalling, semaphores, timer>>

Sensors ==
    /\ Main("sensors")
    /\ \/ Return                                \* no connection, or -st
       \/ mode # "sensor test" /\ Goto("prepare")
    /\ UNCHANGED <<hardware, signalling, semaphores, timer>>

PsuTest ==
    /\ Main("psu test")
    /\ Return
    /\ UNCHANGED <<hardware, signalling, semaphores, timer>>

(* The generator model, the trackers and the output file; a simulation is  *)
(* all done here.                                                          *)
Prepare ==
    /\ Main("prepare")
    /\ \/ Return
       \/ mode # "simulation" /\ Goto("SIGINT")
    /\ UNCHANGED <<hardware, signalling, semaphores, timer>>

(* Mutant: SIGINT is handled twice and SIGTERM not.                        *)
InstallHandlerTwice(s, next) ==
    /\ Main(s)
    /\ \/ /\ disposition' = [disposition EXCEPT
                 ![IF s = "SIGTERM" THEN "SIGINT" ELSE s] = "handler"]
          /\ Goto(next)
       \/ Return /\ UNCHANGED disposition
    /\ UNCHANGED <<hardware, interrupt_process, semaphores, timer>>

InstallHandler(s, next) ==
    /\ Main(s)
    /\ \/ disposition' = [disposition EXCEPT ![s] = "handler"] /\ Goto(next)
       \/ Return /\ UNCHANGED disposition
    /\ UNCHANGED <<hardware, interrupt_process, semaphores, timer>>

InitAlarmSem ==
    /\ Main("alarm_sem")
    /\ \/ alarm_sem' = 1 /\ Goto("main_wait")
       \/ Return /\ UNCHANGED alarm_sem
    /\ UNCHANGED <<hardware, signalling, main_wait, timer>>

(* The semaphore of main; then the handlers are on the stack.              *)
InitMainWait ==
    /\ Main("main_wait")
    /\ \/ main_wait' = 1 /\ v' = Append(v, "remove_signal_handlers") /\ Goto("timer")
       \/ Return /\ UNCHANGED <<main_wait, v>>
    /\ UNCHANGED <<power, signalling, alarm_sem, timer>>

SetTimer ==
    /\ Main("timer")
    /\ \/ timer' = TRUE /\ Goto("loop")
       \/ Return /\ UNCHANGED timer
    /\ UNCHANGED <<hardware, signalling, semaphores>>

(* The time given to sem_timedwait is long past: it takes what is there or *)
(* fails, and never waits.                                                 *)
LoopTurn ==
    /\ Main("loop") /\ ~interrupt_process
    /\ main_wait > 0 /\ main_wait' = main_wait - 1
    /\ UNCHANGED <<pc, hardware, signalling, alarm_sem, timer>>

(* Mutant: a wait that fails ends the loop.                                *)
LoopEndsOnTimeout ==
    /\ Main("loop") /\ (interrupt_process \/ main_wait = 0)
    /\ Return
    /\ UNCHANGED <<hardware, signalling, semaphores, timer>>

LoopEnds ==
    /\ Main("loop") /\ interrupt_process
    /\ Return
    /\ UNCHANGED <<hardware, signalling, semaphores, timer>>

----------------------------------------------------------------------------
(* destroyer::clear: the function on top is called, then taken off.        *)

(* Mutant: the function at the bottom is called.                           *)
Bottom == Head(v)
Top == Last(v)

RemoveSignalHandlers ==
    /\ Main("clear") /\ v # <<>> /\ Top = "remove_signal_handlers"
    /\ disposition' = [s \in Signals |-> "ignored"]
    /\ alarm_sem' = 0
    /\ v' = Front(v)
    /\ UNCHANGED <<pc, power, interrupt_process, main_wait, timer>>

DisablePowerSupplies ==
    /\ Main("clear") /\ v # <<>> /\ Top = "disable_power_supplies"
    /\ Goto("close psu1")
    /\ UNCHANGED <<hardware, signalling, semaphores, timer>>

(* kepco_bop::close.  A supply that is ready is told to reset; it may not  *)
(* hear it, and nobody asks: it is no longer ready, and so not told again. *)
Close(k) ==
    /\ psu' = [psu EXCEPT ![k] = FALSE]
    /\ \/ psu[k] /\ output' = [output EXCEPT ![k] = "off"]
       \/ psu[k] /\ output[k] = "on" /\ output' = [output EXCEPT ![k] = "left on"]
       \/ ~psu[k] /\ UNCHANGED output

(* Mutant: the function is called but not taken off.                       *)
ClosePsuStays(k) ==
    /\ Main(IF k = "psu1" THEN "close psu1" ELSE "close psu2")
    /\ Close(k)
    /\ Goto(IF k = "psu1" THEN "close psu2" ELSE "clear")
    /\ UNCHANGED <<v, signalling, semaphores, timer>>

ClosePsu(k) ==
    /\ Main(IF k = "psu1" THEN "close psu1" ELSE "close psu2")
    /\ Close(k)
    /\ Goto(IF k = "psu1" THEN "close psu2" ELSE "clear")
    /\ v' = IF k = "psu2" THEN Front(v) ELSE v
    /\ UNCHANGED <<signalling, semaphores, timer>>

Cleared ==
    /\ Main("clear") /\ v = <<>>
    /\ Goto("exit psu2")
    /\ UNCHANGED <<hardware, signalling, semaphores, timer>>

(* The supplies are global: their destructors close what is still open.    *)
ExitPsu(k) ==
    /\ Main(IF k = "psu1" THEN "exit psu1" ELSE "exit psu2")
    /\ Close(k)
    /\ Goto(IF k = "psu1" THEN "ended" ELSE "exit psu1")
    /\ UNCHANGED <<v, signalling, semaphores, timer>>

----------------------------------------------------------------------------
(* alarm_handler.  It measures both supplies, and sets both when tracking. *)

Handler(here) == hpc = here /\ UNCHANGED <<mode, dDuration, pc, hardware, disposition,
                                           timer, alarms, disturbed>>

Alarm ==
    /\ timer /\ alarms < MaxAlarms
    /\ pc \notin {"ended", "killed"} /\ hpc = "none"
    /\ disposition["SIGALRM"] = "handler"
    /\ alarms' = alarms + 1
    /\ hpc' = "entered"
    /\ UNCHANGED <<mode, dDuration, pc, hardware, signalling, semaphores, timer, disturbed>>

AlarmBegins ==
    /\ Handler("entered")
    /\ main_wait' = main_wait + 1
    /\ \/ /\ interrupt_process
          /\ hpc' = "none" /\ UNCHANGED <<interrupt_process, alarm_sem>>
       \/ /\ ~interrupt_process /\ alarm_sem = 0        \* overload: abort
          /\ hpc' = "none" /\ interrupt_process' = TRUE /\ UNCHANGED alarm_sem
       \/ /\ ~interrupt_process /\ alarm_sem > 0
          /\ hpc' = "measure psu1" /\ alarm_sem' = alarm_sem - 1
          /\ UNCHANGED interrupt_process

Exchange(here, next) ==
    /\ Handler(here)
    /\ hpc' = next
    /\ UNCHANGED <<interrupt_process, semaphores>>

Sample ==
    \/ Exchange("measure psu1", "measure psu2")
    \/ Exchange("measure psu2", IF mode = "tracking" THEN "set psu1" ELSE "finish")
    \/ Exchange("set psu1", "set psu2")
    \/ Exchange("set psu2", "finish")

(* startTime is a global that nothing assigns.                             *)
startTime == 0
tod == Epoch + alarms * Period

(* Mutant: the semaphore is not given back.                                *)
AlarmFinishesLocked ==
    /\ Handler("finish")
    /\ interrupt_process' = (interrupt_process \/ tod - startTime >= dDuration)
    /\ hpc' = "none"
    /\ UNCHANGED semaphores

AlarmFinishes ==
    /\ Handler("finish")
    /\ interrupt_process' = (interrupt_process \/ tod - startTime >= dDuration)
    /\ alarm_sem' = alarm_sem + 1
    /\ hpc' = "none"
    /\ UNCHANGED main_wait

----------------------------------------------------------------------------
(* SIGINT and SIGTERM, at any time.                                        *)

InExchange ==
    IF hpc = "none"
    THEN pc \in {"open psu1", "open psu2", "set up", "psu test", "close psu1", "close psu2",
                 "exit psu1", "exit psu2"}
    ELSE hpc \notin {"entered", "finish"}

Interrupt(s) ==
    /\ pc \notin {"ended", "killed"}
    /\ \/ /\ disposition[s] = "default"
          /\ pc' = "killed"
          /\ UNCHANGED <<interrupt_process, disturbed>>
       \/ /\ disposition[s] = "handler"
          /\ interrupt_process' = TRUE
          /\ disturbed' = (disturbed \/ InExchange)
          /\ UNCHANGED pc
    /\ UNCHANGED <<mode, dDuration, hpc, hardware, disposition, semaphores, sampling>>

----------------------------------------------------------------------------
MainStep ==
    \/ CommandLine \/ CheckPsus \/ SetUp \/ Sensors \/ PsuTest \/ Prepare
    \/ InstallHandler("SIGINT", "SIGTERM") \/ InstallHandler("SIGTERM", "SIGALRM")
    \/ InstallHandler("SIGALRM", "alarm_sem")
    \/ InitAlarmSem \/ InitMainWait \/ SetTimer
    \/ LoopTurn \/ LoopEnds
    \/ RemoveSignalHandlers \/ DisablePowerSupplies \/ Cleared
    \/ \E k \in Supplies : OpenPsu(k) \/ ClosePsu(k) \/ ExitPsu(k)

HandlerStep == AlarmBegins \/ Sample \/ AlarmFinishes

Next ==
    \/ MainStep \/ Alarm \/ HandlerStep
    \/ \E s \in {"SIGINT", "SIGTERM"} : Interrupt(s)

Spec == Init /\ [][Next]_vars

(* Main and the handler run; an exchange that a signal has disturbed may   *)
(* wait for ever (KepcoExchange, OperationEnds).  The timer expires again  *)
(* and again, and the kernel delivers its signal.                          *)
FairSpec ==
    /\ Spec
    /\ WF_vars(MainStep /\ ~disturbed)
    /\ WF_vars(HandlerStep /\ ~disturbed)
    /\ WF_vars(Alarm)

----------------------------------------------------------------------------
(* Properties.                                                             *)

MainPlaces ==
    {"command line", "open psu1", "open psu2", "check", "set up", "sensors", "psu test",
     "prepare", "SIGINT", "SIGTERM", "SIGALRM", "alarm_sem", "main_wait", "timer", "loop",
     "clear", "close psu1", "close psu2", "exit psu1", "exit psu2", "ended", "killed"}

HandlerPlaces ==
    {"none", "entered", "measure psu1", "measure psu2", "set psu1", "set psu2", "finish"}

Stacks == {<<>>, <<"disable_power_supplies">>,
           <<"disable_power_supplies", "remove_signal_handlers">>}

(* The types of the variables; the semaphore is binary, and only a run     *)
(* that has supplies has anything on the stack (mppt.cpp:261, 621).        *)
TypeOK ==
    /\ mode \in Modes /\ dDuration \in Durations
    /\ pc \in MainPlaces /\ hpc \in HandlerPlaces
    /\ v \in Stacks
    /\ psu \in [Supplies -> BOOLEAN] /\ output \in [Supplies -> {"off", "on", "left on"}]
    /\ disposition \in [Signals -> {"default", "handler", "ignored"}]
    /\ interrupt_process \in BOOLEAN /\ timer \in BOOLEAN /\ disturbed \in BOOLEAN
    /\ alarm_sem \in 0 .. 1 /\ main_wait \in Nat
    /\ alarms \in 0 .. MaxAlarms

(* Whatever failed on the way, unless a signal killed the program before   *)
(* it got to its loop: an output that the program switched on has been     *)
(* told to go off.  It is on at the end only if the supply did not hear    *)
(* the one reset that close sends (mppt.cpp:250-274, 594-621,              *)
(* kepco.h:89-98).                                                         *)
OffAtTheEnd ==
    (pc = "ended" \/ (pc = "killed" /\ timer)) => \A k \in Supplies : output[k] # "on"

(* When the supplies are closed after the loop no signal can disturb the   *)
(* exchanges: the last function added, the removal of the handlers, has    *)
(* run before (mppt.cpp:157-164, destroyer.h:58-64).                       *)
CloseUndisturbed ==
    (timer /\ pc \in {"close psu1", "close psu2"}) =>
        hpc = "none" /\ \A s \in Signals : disposition[s] = "ignored"

(* The check for an overload never finds one: the kernel holds an alarm    *)
(* back while the handler of another runs (mppt.cpp:665-670).              *)
NoOverload == hpc = "entered" => alarm_sem = 1

(* What -t asks for: a run that no signal ends early lasts its duration.   *)
(* It does not: t, the time of the test, is the time of day, and any run   *)
(* ends at its first alarm (mppt.cpp:113, 672-678, 726).                   *)
LastsItsDuration ==
    [][(hpc = "finish" /\ hpc' = "none" /\ interrupt_process' /\ ~interrupt_process)
          => alarms * Period >= dDuration]_vars

(* The alarm handler talks to the supplies only while main is in its loop, *)
(* never while main sets them up or closes them, nor once main has left    *)
(* (mppt.cpp:642, 663, 681-695).                                           *)
OneAtATime ==
    hpc \notin {"none", "entered"} => pc = "loop"

(* A run that has set its timer ends, unless a signal disturbs an exchange *)
(* (mppt.cpp:642-658, 726).                                                *)
RunEnds == timer ~> (pc = "ended" \/ disturbed)
=============================================================================
