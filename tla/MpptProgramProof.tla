------------------------- MODULE MpptProgramProof -------------------------
(***************************************************************************)
(* Proofs about the test program: its types, and that the supplies are     *)
(* told to go off by its end, closed undisturbed, and never talked to by   *)
(* main and the alarm handler at once.                                     *)
(***************************************************************************)
EXTENDS MpptProgram, SequenceTheorems, TLAPS

Disable == "disable_power_supplies"
Removal == "remove_signal_handlers"
Timed   == {"tracking", "generator test"}

(* Where main is tells what is on the stack and which modes get there.     *)
Stacked ==
    /\ pc \in {"command line", "open psu1", "open psu2", "check"} => v = <<>>
    /\ pc \in {"open psu1", "open psu2", "check", "set up", "psu test"} => RequirePsu(mode)
    /\ pc \in {"sensors", "prepare"} =>
           v = IF mode \in Timed THEN <<Disable>> ELSE <<>>
    /\ pc = "sensors" => RequireSensors(mode)
    /\ pc = "prepare" => mode \in Timed \cup {"simulation"}
    /\ pc \in {"SIGINT", "SIGTERM", "SIGALRM", "alarm_sem", "main_wait"} => v = <<Disable>>
    /\ pc \in {"timer", "loop"} => v = <<Disable, Removal>>
    /\ pc \in {"set up", "psu test", "close psu1", "close psu2"} => v = <<Disable>>
    /\ pc \in {"exit psu1", "exit psu2", "ended"} => v = <<>>

(* And how signals are handled; once the timer is set never by default.    *)
Disposed ==
    /\ pc \in {"SIGTERM", "SIGALRM", "alarm_sem", "main_wait", "timer", "loop"} =>
           disposition["SIGINT"] = "handler"
    /\ pc \in {"SIGALRM", "alarm_sem", "main_wait", "timer", "loop"} =>
           disposition["SIGTERM"] = "handler"
    /\ pc \in {"alarm_sem", "main_wait", "timer", "loop"} =>
           disposition["SIGALRM"] = "handler"
    /\ timer => /\ pc \in {"loop", "clear", "close psu1", "close psu2", "exit psu2",
                           "exit psu1", "ended"}
                /\ \A s \in Signals : disposition[s] # "default"
                /\ v # <<Disable, Removal>> => \A s \in Signals : disposition[s] = "ignored"
                /\ pc # "loop" => interrupt_process

(* The handler runs only while alarms are handled, and what it holds.      *)
Handling ==
    /\ hpc # "none" => /\ timer /\ pc \in {"loop", "clear"} /\ alarms > 0
                       /\ disposition["SIGALRM"] = "handler"
    /\ hpc \notin {"none", "entered"} => pc = "loop"
    /\ pc \in {"main_wait", "timer"} => alarm_sem = 1
    /\ timer /\ disposition["SIGALRM"] = "handler" =>
           alarm_sem = IF hpc \in {"none", "entered"} THEN 1 ELSE 0

(* What the exits have closed; an output is on only at a supply that close *)
(* has not come to.                                                        *)
Closed ==
    /\ \A k \in Supplies : output[k] = "on" => psu[k]
    /\ pc \in {"exit psu1", "ended"} => ~psu["psu2"]
    /\ pc = "ended" => ~psu["psu1"]

(* The two halves of TypeOK: where things are, and the counts.             *)
Control ==
    /\ mode \in Modes
    /\ pc \in MainPlaces /\ hpc \in HandlerPlaces
    /\ v \in Stacks
    /\ psu \in [Supplies -> BOOLEAN] /\ output \in [Supplies -> {"off", "on", "left on"}]
    /\ disposition \in [Signals -> {"default", "handler", "ignored"}]
    /\ interrupt_process \in BOOLEAN /\ timer \in BOOLEAN /\ disturbed \in BOOLEAN

Counts ==
    /\ dDuration \in Durations
    /\ alarm_sem \in 0 .. 1 /\ main_wait \in Nat
    /\ alarms \in 0 .. MaxAlarms

IInv ==
    /\ TypeOK /\ Stacked /\ Disposed /\ Handling /\ Closed

(* The stacks that occur, from the top down.                               *)
LEMMA StackParts ==
    /\ Append(<<>>, Disable) = <<Disable>>
    /\ Append(<<Disable>>, Removal) = <<Disable, Removal>>
    /\ Last(<<Disable>>) = Disable /\ Front(<<Disable>>) = <<>>
    /\ Last(<<Disable, Removal>>) = Removal /\ Front(<<Disable, Removal>>) = <<Disable>>
    /\ <<>> # <<Disable>> /\ <<>> # <<Disable, Removal>> /\ <<Disable>> # <<Disable, Removal>>
    /\ Disable # Removal
<1> DEFINE S == {Disable, Removal}
<1>0. <<Disable>> \in Seq(S) /\ <<Disable, Removal>> \in Seq(S) /\ <<>> \in Seq(S)
  OBVIOUS
<1>1. Append(<<>>, Disable) = <<Disable>>
  <2>1. /\ Append(<<>>, Disable) \in Seq(S) /\ Len(Append(<<>>, Disable)) = 1
        /\ Append(<<>>, Disable)[1] = Disable
    BY <1>0, AppendProperties
  <2>2. Len(<<Disable>>) = 1 /\ <<Disable>>[1] = Disable
    OBVIOUS
  <2>3. QED
    BY <1>0, <2>1, <2>2, SeqEqual
<1>2. Append(<<Disable>>, Removal) = <<Disable, Removal>>
  <2> DEFINE a == Append(<<Disable>>, Removal)
  <2>1. Len(<<Disable>>) = 1 /\ <<Disable>>[1] = Disable
    OBVIOUS
  <2>2. a \in Seq(S) /\ Len(a) = 2 /\ a[1] = Disable /\ a[2] = Removal
    BY <1>0, <2>1, AppendProperties
  <2>3. /\ Len(<<Disable, Removal>>) = 2 /\ <<Disable, Removal>>[1] = Disable
        /\ <<Disable, Removal>>[2] = Removal
    OBVIOUS
  <2>4. \A i \in 1 .. Len(a) : a[i] = <<Disable, Removal>>[i]
    BY <2>2, <2>3
  <2> HIDE DEF a
  <2>5. a = <<Disable, Removal>>
    BY <1>0, <2>2, <2>3, <2>4, SeqEqual
  <2>6. QED
    BY <2>5 DEF a
<1>3. Last(<<Disable>>) = Disable /\ Last(<<Disable, Removal>>) = Removal
  BY DEF Last
<1>4. Front(<<Disable>>) = <<>>
  <2>1. Front(<<Disable>>) = SubSeq(<<Disable>>, 1, 0)
    BY DEF Front
  <2>2. QED
    BY <2>1, SubSeqEmpty
<1>5. Front(<<Disable, Removal>>) = <<Disable>>
  <2> DEFINE f == SubSeq(<<Disable, Removal>>, 1, 1)
  <2>1. Front(<<Disable, Removal>>) = f
    BY DEF Front
  <2>2. \A i \in 1 .. 1 : <<Disable, Removal>>[i] \in S
    OBVIOUS
  <2>3. f \in Seq(S) /\ Len(f) = 1 /\ f[1] = Disable
    <3>1. /\ f \in Seq(S) /\ Len(f) = (IF 1 <= 1 THEN 1 - 1 + 1 ELSE 0)
          /\ \A i \in 1 .. 1 - 1 + 1 : f[i] = <<Disable, Removal>>[1 + i - 1]
      BY <2>2, SubSeqProperties
    <3>2. QED
      BY <3>1
  <2>4. Len(<<Disable>>) = 1 /\ <<Disable>>[1] = Disable
    OBVIOUS
  <2>5. QED
    BY <1>0, <2>1, <2>3, <2>4, SeqEqual
<1>6. <<>> # <<Disable>> /\ <<>> # <<Disable, Removal>> /\ <<Disable>> # <<Disable, Removal>>
  <2>1. Len(<<>>) = 0 /\ Len(<<Disable>>) = 1 /\ Len(<<Disable, Removal>>) = 2
    OBVIOUS
  <2>2. QED
    BY <2>1
<1>7. Disable # Removal
  BY DEF Disable, Removal
<1>8. QED
  BY <1>1, <1>2, <1>3, <1>4, <1>5, <1>6, <1>7

----------------------------------------------------------------------------
(* The invariant holds at the start.                                       *)
LEMMA InitIInv == Init => IInv
<1> SUFFICES ASSUME Init PROVE IInv
  OBVIOUS
<1>1. Control
  BY DEF Init, Control, MainPlaces, HandlerPlaces, Stacks, Signals, Supplies
<1>2. Counts
  <2>1. dDuration \in Durations /\ alarm_sem = 0 /\ main_wait = 0 /\ alarms = 0
    BY Zenon DEF Init
  <2>2. QED
    BY <2>1, MpptAssumption DEF Counts, MpptAssumption
<1>3. Stacked /\ Disposed /\ Handling /\ Closed
  BY DEF Init, Stacked, Disposed, Handling, Closed
<1>4. QED
  BY <1>1, <1>2, <1>3 DEF IInv, TypeOK, Control, Counts

(* Both an open and a close leave an output on only at a supply that is    *)
(* ready.                                                                  *)
PowerOK ==
    /\ psu \in [Supplies -> BOOLEAN] /\ output \in [Supplies -> {"off", "on", "left on"}]
    /\ \A k \in Supplies : output[k] = "on" => psu[k]

LEMMA OpenPower ==
    ASSUME NEW k \in Supplies, PowerOK, OpenPsu(k)
    PROVE  PowerOK'
<1>1. PICK ready \in BOOLEAN, on \in BOOLEAN :
          /\ on => ready
          /\ psu' = [psu EXCEPT ![k] = ready]
          /\ output' = [output EXCEPT ![k] = IF on THEN "on" ELSE "off"]
  BY Zenon DEF OpenPsu
<1>2. psu' \in [Supplies -> BOOLEAN]
  BY <1>1 DEF PowerOK
<1>3. output' \in [Supplies -> {"off", "on", "left on"}]
  BY <1>1 DEF PowerOK
<1>4. ASSUME NEW j \in Supplies, output'[j] = "on" PROVE psu'[j]
  <2>1. CASE j = k
    <3>1. output'[k] = IF on THEN "on" ELSE "off"
      BY <1>1 DEF PowerOK
    <3>2. on
      BY <1>4, <2>1, <3>1
    <3>3. psu'[k] = ready
      BY <1>1 DEF PowerOK
    <3>4. QED
      BY <1>1, <2>1, <3>2, <3>3
  <2>2. CASE j # k
    <3>1. output'[j] = output[j] /\ psu'[j] = psu[j]
      BY <1>1, <2>2 DEF PowerOK
    <3>2. QED
      BY <1>4, <3>1 DEF PowerOK
  <2>3. QED
    BY <2>1, <2>2
<1>5. QED
  BY <1>2, <1>3, <1>4 DEF PowerOK

LEMMA ClosePower ==
    ASSUME NEW k \in Supplies, PowerOK, Close(k)
    PROVE  PowerOK' /\ psu' = [psu EXCEPT ![k] = FALSE]
<1>1. /\ psu' = [psu EXCEPT ![k] = FALSE]
      /\ \/ output' = [output EXCEPT ![k] = "off"]
         \/ output' = [output EXCEPT ![k] = "left on"]
         \/ ~psu[k] /\ output' = output
  BY Zenon DEF Close
<1>2. psu' \in [Supplies -> BOOLEAN]
  BY <1>1 DEF PowerOK
<1>3. output' \in [Supplies -> {"off", "on", "left on"}]
  BY <1>1 DEF PowerOK
<1>4. ASSUME NEW j \in Supplies, output'[j] = "on" PROVE psu'[j]
  <2>1. j # k
    BY <1>1, <1>4 DEF PowerOK
  <2>2. output'[j] = output[j] /\ psu'[j] = psu[j]
    BY <1>1, <2>1 DEF PowerOK
  <2>3. QED
    BY <1>4, <2>2 DEF PowerOK
<1>5. QED
  BY <1>1, <1>2, <1>3, <1>4 DEF PowerOK

LEMMA StepIInv == IInv /\ [Next]_vars => IInv'
<1> SUFFICES ASSUME IInv, [Next]_vars PROVE IInv'
  OBVIOUS
<1>0. Control /\ Counts /\ Stacked /\ Disposed /\ Handling /\ Closed
  BY DEF IInv, TypeOK, Control, Counts
<1> USE DEF MainPlaces, HandlerPlaces, Modes, Timed, Signals, Supplies, RequirePsu,
        RequireSensors, power, hardware, signalling, semaphores, sampling, Main, Goto, Return, Handler
<1>1. CASE CommandLine
  <2>1. Control'
    BY <1>0, <1>1
    DEF CommandLine, Control, Stacks, Stacked, Disable, Removal
  <2>2. Counts'
    BY <1>0, <1>1
    DEF CommandLine, Counts
  <2>3. Stacked'
    BY <1>0, <1>1
    DEF CommandLine, Control, Stacks, Stacked, Disable, Removal
  <2>4. Disposed'
    BY <1>0, <1>1
    DEF CommandLine, Control, Stacks, Stacked, Disposed, Handling, Disable, Removal
  <2>5. Handling'
    BY <1>0, <1>1
    DEF CommandLine, Control, Disposed, Handling, Stacks
  <2>6. Closed'
    BY <1>0, <1>1
    DEF CommandLine, Control, Closed
  <2>7. QED
    BY <2>1, <2>2, <2>3, <2>4, <2>5, <2>6 DEF IInv, TypeOK, Control, Counts
<1>2. CASE CheckPsus
  <2>1. Control'
    BY <1>0, <1>2, StackParts
    DEF CheckPsus, Control, Stacks, Stacked, Disable, Removal
  <2>2. Counts'
    BY <1>0, <1>2
    DEF CheckPsus, Counts
  <2>3. Stacked'
    BY <1>0, <1>2, StackParts
    DEF CheckPsus, Control, Stacks, Stacked, Disable, Removal
  <2>4. Disposed'
    BY <1>0, <1>2, StackParts
    DEF CheckPsus, Control, Stacks, Stacked, Disposed, Handling, Disable, Removal
  <2>5. Handling'
    BY <1>0, <1>2, StackParts
    DEF CheckPsus, Control, Disposed, Handling, Stacks, Disable, Removal
  <2>6. Closed'
    BY <1>0, <1>2
    DEF CheckPsus, Control, Closed
  <2>7. QED
    BY <2>1, <2>2, <2>3, <2>4, <2>5, <2>6 DEF IInv, TypeOK, Control, Counts
<1>3. CASE SetUp
  <2>1. Control'
    BY <1>0, <1>3
    DEF SetUp, Control, Stacks, Stacked, Disable, Removal
  <2>2. Counts'
    BY <1>0, <1>3
    DEF SetUp, Counts
  <2>3. Stacked'
    BY <1>0, <1>3
    DEF SetUp, Control, Stacks, Stacked, Disable, Removal
  <2>4. Disposed'
    BY <1>0, <1>3
    DEF SetUp, Control, Stacks, Stacked, Disposed, Handling, Disable, Removal
  <2>5. Handling'
    BY <1>0, <1>3
    DEF SetUp, Control, Disposed, Handling, Stacks
  <2>6. Closed'
    BY <1>0, <1>3
    DEF SetUp, Control, Closed
  <2>7. QED
    BY <2>1, <2>2, <2>3, <2>4, <2>5, <2>6 DEF IInv, TypeOK, Control, Counts
<1>4. CASE Sensors
  <2>1. Control'
    BY <1>0, <1>4
    DEF Sensors, Control, Stacks, Stacked, Disable, Removal
  <2>2. Counts'
    BY <1>0, <1>4
    DEF Sensors, Counts
  <2>3. Stacked'
    BY <1>0, <1>4
    DEF Sensors, Control, Stacks, Stacked, Disable, Removal
  <2>4. Disposed'
    BY <1>0, <1>4
    DEF Sensors, Control, Stacks, Stacked, Disposed, Handling, Disable, Removal
  <2>5. Handling'
    BY <1>0, <1>4
    DEF Sensors, Control, Disposed, Handling, Stacks
  <2>6. Closed'
    BY <1>0, <1>4
    DEF Sensors, Control, Closed
  <2>7. QED
    BY <2>1, <2>2, <2>3, <2>4, <2>5, <2>6 DEF IInv, TypeOK, Control, Counts
<1>5. CASE PsuTest
  <2>1. Control'
    BY <1>0, <1>5
    DEF PsuTest, Control, Stacks, Stacked, Disable, Removal
  <2>2. Counts'
    BY <1>0, <1>5
    DEF PsuTest, Counts
  <2>3. Stacked'
    BY <1>0, <1>5
    DEF PsuTest, Control, Stacks, Stacked, Disable, Removal
  <2>4. Disposed'
    BY <1>0, <1>5
    DEF PsuTest, Control, Stacks, Stacked, Disposed, Handling, Disable, Removal
  <2>5. Handling'
    BY <1>0, <1>5
    DEF PsuTest, Control, Disposed, Handling, Stacks
  <2>6. Closed'
    BY <1>0, <1>5
    DEF PsuTest, Control, Closed
  <2>7. QED
    BY <2>1, <2>2, <2>3, <2>4, <2>5, <2>6 DEF IInv, TypeOK, Control, Counts
<1>6. CASE Prepare
  <2>1. Control'
    BY <1>0, <1>6
    DEF Prepare, Control, Stacks, Stacked, Disable, Removal
  <2>2. Counts'
    BY <1>0, <1>6
    DEF Prepare, Counts
  <2>3. Stacked'
    BY <1>0, <1>6
    DEF Prepare, Control, Stacks, Stacked, Disable, Removal
  <2>4. Disposed'
    BY <1>0, <1>6
    DEF Prepare, Control, Stacks, Stacked, Disposed, Handling, Disable, Removal
  <2>5. Handling'
    BY <1>0, <1>6
    DEF Prepare, Control, Disposed, Handling, Stacks
  <2>6. Closed'
    BY <1>0, <1>6
    DEF Prepare, Control, Closed
  <2>7. QED
    BY <2>1, <2>2, <2>3, <2>4, <2>5, <2>6 DEF IInv, TypeOK, Control, Counts
<1>7. CASE InstallHandler("SIGINT", "SIGTERM")
  <2>1. Control'
    BY <1>0, <1>7
    DEF InstallHandler, Control, Stacks, Stacked, Disable, Removal
  <2>2. Counts'
    BY <1>0, <1>7
    DEF InstallHandler, Counts
  <2>3. Stacked'
    BY <1>0, <1>7
    DEF InstallHandler, Control, Stacks, Stacked, Disable, Removal
  <2>4. Disposed'
    BY <1>0, <1>7
    DEF InstallHandler, Control, Stacks, Stacked, Disposed, Handling, Disable, Removal
  <2>5. Handling'
    BY <1>0, <1>7
    DEF InstallHandler, Control, Disposed, Handling, Stacks
  <2>6. Closed'
    BY <1>0, <1>7
    DEF InstallHandler, Control, Closed
  <2>7. QED
    BY <2>1, <2>2, <2>3, <2>4, <2>5, <2>6 DEF IInv, TypeOK, Control, Counts
<1>8. CASE InstallHandler("SIGTERM", "SIGALRM")
  <2>1. Control'
    BY <1>0, <1>8
    DEF InstallHandler, Control, Stacks, Stacked, Disable, Removal
  <2>2. Counts'
    BY <1>0, <1>8
    DEF InstallHandler, Counts
  <2>3. Stacked'
    BY <1>0, <1>8
    DEF InstallHandler, Control, Stacks, Stacked, Disable, Removal
  <2>4. Disposed'
    BY <1>0, <1>8
    DEF InstallHandler, Control, Stacks, Stacked, Disposed, Handling, Disable, Removal
  <2>5. Handling'
    BY <1>0, <1>8
    DEF InstallHandler, Control, Disposed, Handling, Stacks
  <2>6. Closed'
    BY <1>0, <1>8
    DEF InstallHandler, Control, Closed
  <2>7. QED
    BY <2>1, <2>2, <2>3, <2>4, <2>5, <2>6 DEF IInv, TypeOK, Control, Counts
<1>9. CASE InstallHandler("SIGALRM", "alarm_sem")
  <2>1. Control'
    BY <1>0, <1>9
    DEF InstallHandler, Control, Stacks, Stacked, Disable, Removal
  <2>2. Counts'
    BY <1>0, <1>9
    DEF InstallHandler, Counts
  <2>3. Stacked'
    BY <1>0, <1>9
    DEF InstallHandler, Control, Stacks, Stacked, Disable, Removal
  <2>4. Disposed'
    BY <1>0, <1>9
    DEF InstallHandler, Control, Stacks, Stacked, Disposed, Handling, Disable, Removal
  <2>5. Handling'
    BY <1>0, <1>9
    DEF InstallHandler, Control, Disposed, Handling, Stacks
  <2>6. Closed'
    BY <1>0, <1>9
    DEF InstallHandler, Control, Closed
  <2>7. QED
    BY <2>1, <2>2, <2>3, <2>4, <2>5, <2>6 DEF IInv, TypeOK, Control, Counts
<1>10. CASE InitAlarmSem
  <2>1. Control'
    BY <1>0, <1>10
    DEF InitAlarmSem, Control, Stacks, Stacked, Disable, Removal
  <2>2. Counts'
    BY <1>0, <1>10, MpptAssumption
    DEF InitAlarmSem, Counts, MpptAssumption, Handling
  <2>3. Stacked'
    BY <1>0, <1>10
    DEF InitAlarmSem, Control, Stacks, Stacked, Disable, Removal
  <2>4. Disposed'
    BY <1>0, <1>10
    DEF InitAlarmSem, Control, Stacks, Stacked, Disposed, Handling, Disable, Removal
  <2>5. Handling'
    BY <1>0, <1>10
    DEF InitAlarmSem, Control, Counts, Disposed, Handling, Stacks
  <2>6. Closed'
    BY <1>0, <1>10
    DEF InitAlarmSem, Control, Closed
  <2>7. QED
    BY <2>1, <2>2, <2>3, <2>4, <2>5, <2>6 DEF IInv, TypeOK, Control, Counts
<1>11. CASE InitMainWait
  <2>1. Control'
    BY <1>0, <1>11, StackParts
    DEF InitMainWait, Control, Stacks, Stacked, Disable, Removal
  <2>2. Counts'
    BY <1>0, <1>11, MpptAssumption
    DEF InitMainWait, Counts, MpptAssumption, Handling
  <2>3. Stacked'
    BY <1>0, <1>11, StackParts
    DEF InitMainWait, Control, Stacks, Stacked, Disable, Removal
  <2>4. Disposed'
    BY <1>0, <1>11, StackParts
    DEF InitMainWait, Control, Stacks, Stacked, Disposed, Handling, Disable, Removal
  <2>5. Handling'
    BY <1>0, <1>11, StackParts
    DEF InitMainWait, Control, Counts, Disposed, Handling, Stacks, Disable, Removal
  <2>6. Closed'
    BY <1>0, <1>11
    DEF InitMainWait, Control, Closed
  <2>7. QED
    BY <2>1, <2>2, <2>3, <2>4, <2>5, <2>6 DEF IInv, TypeOK, Control, Counts
<1>12. CASE SetTimer
  <2>1. Control'
    BY <1>0, <1>12
    DEF SetTimer, Control, Stacks, Stacked, Disable, Removal
  <2>2. Counts'
    BY <1>0, <1>12, MpptAssumption
    DEF SetTimer, Counts, MpptAssumption, Handling
  <2>3. Stacked'
    BY <1>0, <1>12
    DEF SetTimer, Control, Stacks, Stacked, Disable, Removal
  <2>4. Disposed'
    <3>1. pc = "timer" /\ v' = v /\ disposition' = disposition /\ v = <<Disable, Removal>>
      BY <1>0, <1>12 DEF SetTimer, Stacked
    <3>2. \A s \in Signals : disposition[s] = "handler"
      BY <1>0, <3>1 DEF Disposed
    <3>3. CASE pc' = "loop"
      BY <1>0, <3>1, <3>2, <3>3 DEF Disposed, Disable, Removal
    <3>4. CASE pc' = "clear" /\ timer' = timer
      BY <1>0, <3>1, <3>4 DEF Disposed
    <3>5. QED
      BY <1>12, <3>3, <3>4 DEF SetTimer
  <2>5. Handling'
    BY <1>0, <1>12
    DEF SetTimer, Control, Counts, Disposed, Handling, Stacks
  <2>6. Closed'
    BY <1>0, <1>12
    DEF SetTimer, Control, Closed
  <2>7. QED
    BY <2>1, <2>2, <2>3, <2>4, <2>5, <2>6 DEF IInv, TypeOK, Control, Counts
<1>13. CASE LoopTurn
  <2>1. Control'
    BY <1>0, <1>13
    DEF LoopTurn, Control, Stacks, Stacked, Disable, Removal
  <2>2. Counts'
    BY <1>0, <1>13, MpptAssumption
    DEF LoopTurn, Counts, MpptAssumption, Handling
  <2>3. Stacked'
    BY <1>0, <1>13
    DEF LoopTurn, Control, Stacks, Stacked, Disable, Removal
  <2>4. Disposed'
    BY <1>0, <1>13
    DEF LoopTurn, Control, Stacks, Stacked, Disposed, Handling, Disable, Removal
  <2>5. Handling'
    BY <1>0, <1>13
    DEF LoopTurn, Control, Counts, Disposed, Handling, Stacks
  <2>6. Closed'
    BY <1>0, <1>13
    DEF LoopTurn, Control, Closed
  <2>7. QED
    BY <2>1, <2>2, <2>3, <2>4, <2>5, <2>6 DEF IInv, TypeOK, Control, Counts
<1>14. CASE LoopEnds
  <2>1. Control'
    BY <1>0, <1>14
    DEF LoopEnds, Control, Stacks, Stacked, Disable, Removal
  <2>2. Counts'
    BY <1>0, <1>14
    DEF LoopEnds, Counts
  <2>3. Stacked'
    BY <1>0, <1>14
    DEF LoopEnds, Control, Stacks, Stacked, Disable, Removal
  <2>4. Disposed'
    BY <1>0, <1>14
    DEF LoopEnds, Control, Stacks, Stacked, Disposed, Handling, Disable, Removal
  <2>5. Handling'
    BY <1>0, <1>14
    DEF LoopEnds, Control, Disposed, Handling, Stacks
  <2>6. Closed'
    BY <1>0, <1>14
    DEF LoopEnds, Control, Closed
  <2>7. QED
    BY <2>1, <2>2, <2>3, <2>4, <2>5, <2>6 DEF IInv, TypeOK, Control, Counts
<1>15. CASE RemoveSignalHandlers
  <2>1. Control'
    BY <1>0, <1>15, StackParts
    DEF RemoveSignalHandlers, Top, Control, Stacks, Stacked, Disable, Removal
  <2>2. Counts'
    BY <1>0, <1>15, MpptAssumption
    DEF RemoveSignalHandlers, Top, Counts, MpptAssumption, Handling
  <2>3. Stacked'
    BY <1>0, <1>15, StackParts
    DEF RemoveSignalHandlers, Top, Control, Stacks, Stacked, Disable, Removal
  <2>4. Disposed'
    BY <1>0, <1>15, StackParts
    DEF RemoveSignalHandlers, Top, Control, Stacks, Stacked, Disposed, Handling, Disable, Removal
  <2>5. Handling'
    BY <1>0, <1>15, StackParts
    DEF RemoveSignalHandlers, Top, Control, Counts, Disposed, Handling, Stacks, Disable, Removal
  <2>6. Closed'
    BY <1>0, <1>15
    DEF RemoveSignalHandlers, Top, Control, Closed
  <2>7. QED
    BY <2>1, <2>2, <2>3, <2>4, <2>5, <2>6 DEF IInv, TypeOK, Control, Counts
<1>16. CASE DisablePowerSupplies
  <2>1. Control'
    BY <1>0, <1>16, StackParts
    DEF DisablePowerSupplies, Top, Control, Stacks, Stacked, Disable, Removal
  <2>2. Counts'
    BY <1>0, <1>16
    DEF DisablePowerSupplies, Top, Counts
  <2>3. Stacked'
    BY <1>0, <1>16, StackParts
    DEF DisablePowerSupplies, Top, Control, Stacks, Stacked, Disable, Removal
  <2>4. Disposed'
    BY <1>0, <1>16, StackParts
    DEF DisablePowerSupplies, Top, Control, Stacks, Stacked, Disposed, Handling, Disable, Removal
  <2>5. Handling'
    BY <1>0, <1>16, StackParts
    DEF DisablePowerSupplies, Top, Control, Disposed, Handling, Stacks, Disable, Removal
  <2>6. Closed'
    BY <1>0, <1>16
    DEF DisablePowerSupplies, Top, Control, Closed
  <2>7. QED
    BY <2>1, <2>2, <2>3, <2>4, <2>5, <2>6 DEF IInv, TypeOK, Control, Counts
<1>17. CASE Cleared
  <2>1. Control'
    BY <1>0, <1>17, StackParts
    DEF Cleared, Control, Stacks, Stacked, Disable, Removal
  <2>2. Counts'
    BY <1>0, <1>17
    DEF Cleared, Counts
  <2>3. Stacked'
    BY <1>0, <1>17, StackParts
    DEF Cleared, Control, Stacks, Stacked, Disable, Removal
  <2>4. Disposed'
    BY <1>0, <1>17, StackParts
    DEF Cleared, Control, Stacks, Stacked, Disposed, Handling, Disable, Removal
  <2>5. Handling'
    BY <1>0, <1>17, StackParts
    DEF Cleared, Control, Disposed, Handling, Stacks, Disable, Removal
  <2>6. Closed'
    BY <1>0, <1>17
    DEF Cleared, Control, Closed
  <2>7. QED
    BY <2>1, <2>2, <2>3, <2>4, <2>5, <2>6 DEF IInv, TypeOK, Control, Counts
<1>18. ASSUME NEW k \in Supplies, OpenPsu(k) PROVE IInv'
  <2>1. Control'
    <3>1. PowerOK'
      BY <1>0, <1>18, OpenPower, Zenon DEF Control, Closed, PowerOK
    <3>2. QED
      BY <1>0, <1>18, <3>1 DEF OpenPsu, PowerOK, Control, Stacks, Stacked, Disable, Removal
  <2>2. Counts'
    BY <1>0, <1>18
    DEF OpenPsu, Counts
  <2>3. Stacked'
    BY <1>0, <1>18
    DEF OpenPsu, Control, Stacks, Stacked, Disable, Removal
  <2>4. Disposed'
    BY <1>0, <1>18
    DEF OpenPsu, Control, Stacks, Stacked, Disposed, Handling, Disable, Removal
  <2>5. Handling'
    BY <1>0, <1>18
    DEF OpenPsu, Control, Disposed, Handling, Stacks
  <2>6. Closed'
    <3>1. PowerOK'
      BY <1>0, <1>18, OpenPower, Zenon DEF Control, Closed, PowerOK
    <3>2. pc' \in {"open psu2", "check"}
      BY <1>18 DEF OpenPsu
    <3>3. QED
      BY <3>1, <3>2 DEF PowerOK, Closed
  <2>7. QED
    BY <2>1, <2>2, <2>3, <2>4, <2>5, <2>6 DEF IInv, TypeOK, Control, Counts
<1>19. ASSUME NEW k \in Supplies, ClosePsu(k) PROVE IInv'
  <2>1. Control'
    <3>1. PowerOK'
      BY <1>0, <1>19, ClosePower, Zenon DEF Control, Closed, PowerOK, ClosePsu
    <3>2. QED
      BY <1>0, <1>19, <3>1, StackParts DEF ClosePsu, PowerOK, Control, Stacks, Stacked, Disable, Removal
  <2>2. Counts'
    BY <1>0, <1>19
    DEF ClosePsu, Counts
  <2>3. Stacked'
    <3>1. CASE k = "psu1"
      BY <1>0, <1>19, <3>1 DEF ClosePsu, Stacked
    <3>2. CASE k = "psu2"
      <4>1. pc' = "clear"
        BY <1>19, <3>2 DEF ClosePsu
      <4>2. QED
        BY <4>1 DEF Stacked
    <3>3. QED
      BY <3>1, <3>2
  <2>4. Disposed'
    BY <1>0, <1>19, StackParts
    DEF ClosePsu, Control, Stacks, Stacked, Disposed, Handling, Disable, Removal
  <2>5. Handling'
    BY <1>0, <1>19, StackParts
    DEF ClosePsu, Control, Disposed, Handling, Stacks, Disable, Removal
  <2>6. Closed'
    <3>1. PowerOK'
      BY <1>0, <1>19, ClosePower, Zenon DEF Control, Closed, PowerOK, ClosePsu
    <3>2. pc' \in {"close psu2", "clear"}
      BY <1>19 DEF ClosePsu
    <3>3. QED
      BY <3>1, <3>2 DEF PowerOK, Closed
  <2>7. QED
    BY <2>1, <2>2, <2>3, <2>4, <2>5, <2>6 DEF IInv, TypeOK, Control, Counts
<1>20. ASSUME NEW k \in Supplies, ExitPsu(k) PROVE IInv'
  <2>1. Control'
    <3>1. PowerOK'
      BY <1>0, <1>20, ClosePower, Zenon DEF Control, Closed, PowerOK, ExitPsu
    <3>2. QED
      BY <1>0, <1>20, <3>1 DEF ExitPsu, PowerOK, Control, Stacks, Stacked, Disable, Removal
  <2>2. Counts'
    BY <1>0, <1>20
    DEF ExitPsu, Counts
  <2>3. Stacked'
    BY <1>0, <1>20
    DEF ExitPsu, Control, Stacks, Stacked, Disable, Removal
  <2>4. Disposed'
    BY <1>0, <1>20
    DEF ExitPsu, Control, Stacks, Stacked, Disposed, Handling, Disable, Removal
  <2>5. Handling'
    BY <1>0, <1>20
    DEF ExitPsu, Control, Disposed, Handling, Stacks
  <2>6. Closed'
    <3>1. PowerOK' /\ psu' = [psu EXCEPT ![k] = FALSE]
      BY <1>0, <1>20, ClosePower, Zenon DEF Control, Closed, PowerOK, ExitPsu
    <3>2. /\ pc = (IF k = "psu1" THEN "exit psu1" ELSE "exit psu2")
          /\ pc' = (IF k = "psu1" THEN "ended" ELSE "exit psu1")
      BY <1>20 DEF ExitPsu
    <3>3. CASE k = "psu1"
      BY <1>0, <3>1, <3>2, <3>3 DEF Control, PowerOK, Closed
    <3>4. CASE k = "psu2"
      BY <1>0, <3>1, <3>2, <3>4 DEF Control, PowerOK, Closed
    <3>5. QED
      BY <3>1, <3>3, <3>4
  <2>7. QED
    BY <2>1, <2>2, <2>3, <2>4, <2>5, <2>6 DEF IInv, TypeOK, Control, Counts
<1>21. CASE Alarm
  <2>1. Control'
    BY <1>0, <1>21
    DEF Alarm, Control, Stacks, Stacked, Disable, Removal
  <2>2. Counts'
    BY <1>0, <1>21, MpptAssumption
    DEF Alarm, Counts, MpptAssumption, Handling
  <2>3. Stacked'
    BY <1>0, <1>21
    DEF Alarm, Control, Stacks, Stacked, Disable, Removal
  <2>4. Disposed'
    BY <1>0, <1>21
    DEF Alarm, Control, Stacks, Stacked, Disposed, Handling, Disable, Removal
  <2>5. Handling'
    <3>1. /\ timer /\ hpc = "none" /\ hpc' = "entered" /\ alarms' = alarms + 1
          /\ disposition["SIGALRM"] = "handler"
          /\ UNCHANGED <<pc, timer, disposition, alarm_sem>>
      BY <1>21, Zenon DEF Alarm
    <3>2. alarms' > 0
      BY <1>0, <3>1 DEF Counts
    <3>3. pc \in {"loop", "clear"}
      BY <1>0, <3>1, StackParts DEF Disposed, Stacked
    <3>4. alarm_sem = 1
      BY <1>0, <3>1 DEF Handling
    <3>5. QED
      BY <3>1, <3>2, <3>3, <3>4 DEF Handling
  <2>6. Closed'
    BY <1>0, <1>21
    DEF Alarm, Control, Closed
  <2>7. QED
    BY <2>1, <2>2, <2>3, <2>4, <2>5, <2>6 DEF IInv, TypeOK, Control, Counts
<1>22. CASE AlarmBegins
  <2>1. Control'
    <3>1. /\ UNCHANGED <<mode, pc, v, power, disposition, timer, disturbed>>
          /\ hpc' \in {"none", "measure psu1"}
      BY <1>22, Zenon DEF AlarmBegins
    <3>2. interrupt_process' = interrupt_process \/ interrupt_process' = TRUE
      BY <1>22, Zenon DEF AlarmBegins
    <3>3. /\ interrupt_process' \in BOOLEAN /\ timer' \in BOOLEAN
          /\ disturbed' \in BOOLEAN
      BY <1>0, <3>1, <3>2, Zenon DEF Control
    <3>4. /\ mode' \in Modes /\ pc' \in MainPlaces /\ hpc' \in HandlerPlaces
          /\ v' \in Stacks /\ psu' \in [Supplies -> BOOLEAN]
          /\ output' \in [Supplies -> {"off", "on", "left on"}]
          /\ disposition' \in [Signals -> {"default", "handler", "ignored"}]
      BY <1>0, <3>1 DEF Control
    <3>5. QED
      BY <3>3, <3>4 DEF Control
  <2>2. Counts'
    <3>1. /\ main_wait' = main_wait + 1 /\ UNCHANGED <<dDuration, alarms>>
          /\ alarm_sem' = alarm_sem \/ (alarm_sem > 0 /\ alarm_sem' = alarm_sem - 1)
      BY <1>22, Zenon DEF AlarmBegins
    <3>2. QED
      BY <1>0, <3>1, MpptAssumption DEF Counts, MpptAssumption
  <2>3. Stacked'
    BY <1>0, <1>22
    DEF AlarmBegins, Control, Stacks, Stacked, Disable, Removal
  <2>4. Disposed'
    BY <1>0, <1>22
    DEF AlarmBegins, Control, Stacks, Stacked, Disposed, Handling, Disable, Removal
  <2>5. Handling'
    <3>1. /\ hpc = "entered" /\ UNCHANGED <<pc, timer, disposition, alarms>>
          /\ \/ hpc' = "none" /\ (interrupt_process \/ alarm_sem = 0) /\ alarm_sem' = alarm_sem
             \/ /\ ~interrupt_process /\ hpc' = "measure psu1"
                /\ alarm_sem' = alarm_sem - 1
      BY <1>22, Zenon DEF AlarmBegins
    <3>2. alarm_sem = 1 /\ timer /\ pc \in {"loop", "clear"} /\ alarms > 0
      BY <1>0, <3>1 DEF Handling
    <3>3. CASE hpc' = "none" /\ alarm_sem' = alarm_sem
      BY <3>1, <3>2, <3>3 DEF Handling
    <3>4. CASE ~interrupt_process /\ hpc' = "measure psu1" /\ alarm_sem' = alarm_sem - 1
      <4>1. pc = "loop"
        BY <1>0, <3>2, <3>4 DEF Disposed
      <4>3. alarm_sem' = alarm_sem - 1
        BY <3>4, Zenon
      <4>4. alarm_sem' = 0
        BY <3>2, <4>3
      <4>5. hpc' = "measure psu1"
        BY <3>4, Zenon
      <4>6. UNCHANGED <<pc, timer, disposition, alarms>>
        BY <3>1, Zenon
      <4>7. timer' /\ pc' = "loop" /\ alarms' > 0
        BY <3>2, <4>1, <4>6
      <4>8. disposition'["SIGALRM"] = "handler"
        BY <1>0, <3>1, <4>6 DEF Handling
      <4>9. QED
        BY <4>4, <4>5, <4>7, <4>8 DEF Handling
    <3>5. QED
      BY <3>1, <3>3, <3>4, Zenon
  <2>6. Closed'
    BY <1>0, <1>22
    DEF AlarmBegins, Control, Closed
  <2>7. QED
    BY <2>1, <2>2, <2>3, <2>4, <2>5, <2>6 DEF IInv, TypeOK, Control, Counts
<1>23. CASE Sample
  <2>1. Control'
    <3>1. /\ UNCHANGED <<mode, pc, v, power, disposition, interrupt_process, timer, disturbed>>
          /\ hpc' \in HandlerPlaces
      BY <1>23 DEF Sample, Exchange
    <3>2. /\ interrupt_process' \in BOOLEAN /\ timer' \in BOOLEAN
          /\ disturbed' \in BOOLEAN
      BY <1>0, <3>1, Zenon DEF Control
    <3>3. /\ mode' \in Modes /\ pc' \in MainPlaces /\ hpc' \in HandlerPlaces
          /\ v' \in Stacks /\ psu' \in [Supplies -> BOOLEAN]
          /\ output' \in [Supplies -> {"off", "on", "left on"}]
          /\ disposition' \in [Signals -> {"default", "handler", "ignored"}]
      BY <1>0, <3>1 DEF Control
    <3>4. QED
      BY <3>2, <3>3 DEF Control
  <2>2. Counts'
    BY <1>0, <1>23
    DEF Sample, Exchange, Counts
  <2>3. Stacked'
    BY <1>0, <1>23
    DEF Sample, Exchange, Control, Stacks, Stacked, Disable, Removal
  <2>4. Disposed'
    BY <1>0, <1>23
    DEF Sample, Exchange, Control, Stacks, Stacked, Disposed, Handling, Disable, Removal
  <2>5. Handling'
    BY <1>0, <1>23
    DEF Sample, Exchange, Control, Disposed, Handling, Stacks
  <2>6. Closed'
    BY <1>0, <1>23
    DEF Sample, Exchange, Control, Closed
  <2>7. QED
    BY <2>1, <2>2, <2>3, <2>4, <2>5, <2>6 DEF IInv, TypeOK, Control, Counts
<1>24. CASE AlarmFinishes
  <2>1. Control'
    BY <1>0, <1>24
    DEF AlarmFinishes, Control, Stacks, Stacked, Disable, Removal
  <2>2. Counts'
    BY <1>0, <1>24, MpptAssumption
    DEF AlarmFinishes, Counts, MpptAssumption, Handling
  <2>3. Stacked'
    BY <1>0, <1>24
    DEF AlarmFinishes, Control, Stacks, Stacked, Disable, Removal
  <2>4. Disposed'
    BY <1>0, <1>24
    DEF AlarmFinishes, Control, Stacks, Stacked, Disposed, Handling, Disable, Removal
  <2>5. Handling'
    <3>1. /\ hpc = "finish" /\ hpc' = "none" /\ alarm_sem' = alarm_sem + 1
          /\ UNCHANGED <<pc, timer, disposition>>
      BY <1>24, Zenon DEF AlarmFinishes
    <3>2. alarm_sem = 0 /\ pc = "loop"
      BY <1>0, <3>1 DEF Handling
    <3>3. alarm_sem' = 1
      BY <3>1, <3>2
    <3>4. QED
      BY <3>1, <3>2, <3>3 DEF Handling
  <2>6. Closed'
    BY <1>0, <1>24
    DEF AlarmFinishes, Control, Closed
  <2>7. QED
    BY <2>1, <2>2, <2>3, <2>4, <2>5, <2>6 DEF IInv, TypeOK, Control, Counts
<1>25. ASSUME NEW s \in {"SIGINT", "SIGTERM"}, Interrupt(s) PROVE IInv'
  <2>1. Control'
    <3>1. /\ UNCHANGED <<mode, hpc, v, power, disposition, timer>>
          /\ pc' \in {pc, "killed"}
      BY <1>25 DEF Interrupt
    <3>2. /\ interrupt_process' \in {interrupt_process, TRUE}
          /\ disturbed' \in {disturbed, (disturbed \/ InExchange)}
      BY <1>25, Zenon DEF Interrupt
    <3>3. interrupt_process' \in BOOLEAN /\ disturbed' \in BOOLEAN
      BY <1>0, <3>2 DEF Control
    <3>4. QED
      BY <1>0, <3>1, <3>3 DEF Control
  <2>2. Counts'
    BY <1>0, <1>25
    DEF Interrupt, Counts
  <2>3. Stacked'
    BY <1>0, <1>25
    DEF Interrupt, Control, Stacks, Stacked, Disable, Removal
  <2>4. Disposed'
    BY <1>0, <1>25
    DEF Interrupt, Control, Stacks, Stacked, Disposed, Handling, Disable, Removal
  <2>5. Handling'
    BY <1>0, <1>25
    DEF Interrupt, Control, Disposed, Handling, Stacks
  <2>6. Closed'
    BY <1>0, <1>25
    DEF Interrupt, Control, Closed
  <2>7. QED
    BY <2>1, <2>2, <2>3, <2>4, <2>5, <2>6 DEF IInv, TypeOK, Control, Counts
<1>26. CASE UNCHANGED vars
  <2>1. Control'
    <3>1. UNCHANGED <<mode, pc, hpc, v, power, disposition, interrupt_process, timer, disturbed>>
      BY <1>26 DEF vars
    <3>2. interrupt_process' \in BOOLEAN /\ timer' \in BOOLEAN /\ disturbed' \in BOOLEAN
      BY <1>0, <3>1, Zenon DEF Control
    <3>3. /\ mode' \in Modes /\ pc' \in MainPlaces /\ hpc' \in HandlerPlaces
          /\ v' \in Stacks /\ psu' \in [Supplies -> BOOLEAN]
          /\ output' \in [Supplies -> {"off", "on", "left on"}]
          /\ disposition' \in [Signals -> {"default", "handler", "ignored"}]
      BY <1>0, <3>1 DEF Control
    <3>4. QED
      BY <3>2, <3>3 DEF Control
  <2>2. Counts'
    BY <1>0, <1>26
    DEF vars, Counts
  <2>3. Stacked'
    BY <1>0, <1>26
    DEF vars, Control, Stacks, Stacked, Disable, Removal
  <2>4. Disposed'
    BY <1>0, <1>26
    DEF vars, Control, Stacks, Stacked, Disposed, Handling, Disable, Removal
  <2>5. Handling'
    BY <1>0, <1>26
    DEF vars, Control, Disposed, Handling, Stacks
  <2>6. Closed'
    BY <1>0, <1>26
    DEF vars, Control, Closed
  <2>7. QED
    BY <2>1, <2>2, <2>3, <2>4, <2>5, <2>6 DEF IInv, TypeOK, Control, Counts
<1>27. QED
  BY <1>1, <1>2, <1>3, <1>4, <1>5, <1>6, <1>7, <1>8, <1>9, <1>10, <1>11, <1>12, <1>13, <1>14, <1>15, <1>16, <1>17, <1>18, <1>19, <1>20, <1>21, <1>22, <1>23, <1>24, <1>25, <1>26 DEF Next, MainStep, HandlerStep

----------------------------------------------------------------------------
(* Every state of a run satisfies the invariant.                           *)
LEMMA Invariant == Spec => []IInv
<1>1. Init => IInv
  BY InitIInv
<1>2. IInv /\ [Next]_vars => IInv'
  BY StepIInv
<1>3. QED
  BY <1>1, <1>2, PTL DEF Spec

(* The variables of the program keep their types: the semaphore of the     *)
(* alarms stays binary, and the clean-up stack holds at most the two       *)
(* functions main adds, in the order it adds them.                         *)
THEOREM TypeInvariant == Spec => []TypeOK
<1>1. IInv => TypeOK
  BY DEF IInv
<1>2. QED
  BY <1>1, Invariant, PTL

(* When the program has ended, or was killed after its timer was set, each *)
(* output it switched on has been told to go off, whichever of its steps   *)
(* failed on the way: it is on only if the supply did not hear the reset   *)
(* of its close.                                                           *)
THEOREM SuppliesToldOff == Spec => []OffAtTheEnd
<1>1. IInv => OffAtTheEnd
  <2> SUFFICES ASSUME IInv, pc = "ended" \/ (pc = "killed" /\ timer)
               PROVE  \A k \in Supplies : output[k] # "on"
    BY DEF OffAtTheEnd
  <2>1. pc = "ended"
    BY DEF IInv, Disposed
  <2>2. QED
    BY <2>1 DEF IInv, Closed, Supplies
<1>2. QED
  BY <1>1, Invariant, PTL

(* The clean-up that closes the supplies after the loop runs with every    *)
(* signal ignored and no handler active, so no exchange of it is cut.      *)
THEOREM UndisturbedClose == Spec => []CloseUndisturbed
<1>1. IInv => CloseUndisturbed
  <2> SUFFICES ASSUME IInv, timer, pc \in {"close psu1", "close psu2"}
               PROVE  hpc = "none" /\ \A s \in Signals : disposition[s] = "ignored"
    BY DEF CloseUndisturbed
  <2>1. v = <<Disable>>
    BY DEF IInv, Stacked
  <2>2. \A s \in Signals : disposition[s] = "ignored"
    BY <2>1, StackParts DEF IInv, Disposed
  <2>3. hpc = "none"
    BY DEF IInv, Handling
  <2>4. QED
    BY <2>2, <2>3
<1>2. QED
  BY <1>1, Invariant, PTL

(* The overload the alarm handler checks for cannot happen.                *)
THEOREM OverloadIsDead == Spec => []NoOverload
<1>1. IInv => NoOverload
  BY DEF IInv, Handling, NoOverload
<1>2. QED
  BY <1>1, Invariant, PTL

(* Main and the alarm handler never talk to the supplies at once.          *)
THEOREM OneUser == Spec => []OneAtATime
<1>1. IInv => OneAtATime
  BY DEF IInv, Handling, OneAtATime
<1>2. QED
  BY <1>1, Invariant, PTL
=============================================================================
