----------------------------- MODULE Destroyer -----------------------------
(***************************************************************************)
(* The clean-up stack (destroyer.h) with tasks that may add a task while   *)
(* they are called, and throw.  A call of add makes a task of its own:     *)
(* tasks are numbered in the order in which they are added.                *)
(***************************************************************************)
EXTENDS Naturals, Sequences, SequencesExt

CONSTANTS MaxTasks      \* bound: the tasks that are added

VARIABLES v,            \* the stack
          running,      \* the task that clear is calling, 0 for none
          phase,        \* "use", "clear" or "exit" (the destructor), "gone"
          added,        \* the number of tasks added so far
          byProgram,    \* those that were added outside of clear
          called        \* the tasks that have been called

vars == <<v, running, phase, added, byProgram, called>>

Init ==
    /\ v = <<>> /\ running = 0 /\ phase = "use"
    /\ added = 0 /\ byProgram = {} /\ called = {}

Push == /\ added < MaxTasks
        /\ added' = added + 1
        /\ v' = Append(v, added + 1)
        /\ UNCHANGED <<running, phase, called>>

Add == phase = "use" /\ Push /\ byProgram' = byProgram \cup {added + 1}

(* A task that is being called adds another.                               *)
AddInside == running # 0 /\ Push /\ UNCHANGED byProgram

Clear(to) ==
    /\ phase = "use" /\ phase' = to
    /\ UNCHANGED <<v, running, added, byProgram, called>>

(* Mutant: the first task is called first.                                 *)
CallFirst ==
    /\ phase \in {"clear", "exit"} /\ running = 0 /\ v # <<>>
    /\ running' = Head(v)
    /\ called' = called \cup {running'}
    /\ UNCHANGED <<v, phase, added, byProgram>>

Call ==
    /\ phase \in {"clear", "exit"} /\ running = 0 /\ v # <<>>
    /\ running' = Last(v)
    /\ called' = called \cup {running'}
    /\ UNCHANGED <<v, phase, added, byProgram>>

(* pop_back takes off what is last by now: not the task that was called    *)
(* but the one it added, and the task that added it is called again.       *)
Return ==
    /\ running # 0
    /\ running' = 0
    /\ v' = Front(v)
    /\ UNCHANGED <<phase, added, byProgram, called>>

(* The task stays on the stack.  An exception that leaves the destructor   *)
(* ends the program.                                                       *)
Throw ==
    /\ running # 0
    /\ running' = 0
    /\ phase' = IF phase = "exit" THEN "gone" ELSE "use"
    /\ UNCHANGED <<v, added, byProgram, called>>

Cleared ==
    /\ phase \in {"clear", "exit"} /\ running = 0 /\ v = <<>>
    /\ phase' = IF phase = "exit" THEN "gone" ELSE "use"
    /\ UNCHANGED <<v, running, added, byProgram, called>>

Next == Add \/ AddInside \/ Clear("clear") \/ Clear("exit") \/ Call \/ Return \/ Throw \/ Cleared

Spec == Init /\ [][Next]_vars

----------------------------------------------------------------------------
(* Properties.                                                             *)

(* Tasks are on the stack once, in the order in which they were added; the *)
(* one that is being called is among them.                                 *)
TypeOK ==
    /\ \A i, j \in DOMAIN v : i < j => v[i] < v[j]
    /\ ToSet(v) \cup byProgram \cup called \subseteq 1 .. added
    /\ running # 0 => running \in ToSet(v) \cap called
    /\ phase \in {"use", "clear", "exit", "gone"}

(* "free all resources in last-in-first-out order" (destroyer.h:46-48):    *)
(* whatever tasks throw or add, a task the program added is called for the *)
(* first time when all the later ones have been, and is kept until then.   *)
LastInFirstOut ==
    /\ byProgram \ called \subseteq ToSet(v)
    /\ running \in byProgram =>
          \A t \in byProgram : t > running => t \in called
=============================================================================
