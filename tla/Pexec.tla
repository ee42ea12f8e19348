------------------------------- MODULE Pexec -------------------------------
(***************************************************************************)
(* The process launcher (pexec.cpp): a program starts children, one after  *)
(* the other, with pipes for the standard streams it asks for.  Every      *)
(* process has a table of descriptors; pipe and dup2 are those of POSIX, a *)
(* child inherits the whole table, and no descriptor is close-on-exec.     *)
(*                                                                         *)
(* A child reads its standard input to the end; it exits then, or before   *)
(* (external: what is executed is not part of the repository).             *)
(***************************************************************************)
EXTENDS Integers, Sequences, FiniteSets, SequencesExt

CONSTANTS MaxChildren,  \* bound: the calls of pexec
          MaxFd,        \* the highest descriptor
          Closed        \* standard streams that the program may have closed

Program == 0
Children == 1 .. MaxChildren
Free == [is |-> "free"]
Other == [is |-> "inherited"]
End(c, s, e) == [is |-> "end", child |-> c, stream |-> s, end |-> e]

Number == [stdin |-> 0, stdout |-> 1, stderr |-> 2]
Fds == 0 .. MaxFd

VARIABLES table,        \* table[p][fd]: what the descriptor stands for
          calls,        \* the calls of pexec so far
          wanted,       \* the streams of the call that are not null
          pc,           \* where the call is: at the pipe of a stream, "fork",
                        \* "close", "fail" or "idle"
          parentEnd,    \* *stdin, *stdout and *stderr
          childEnd,     \* nstdin, nstdout and nstderr, 0 at first
          before,       \* history: the table of the program before the call
          child         \* child[c]: "none", "setup", "runs" or "gone", what it has to do

vars == <<table, calls, wanted, pc, parentEnd, childEnd, before, child>>

Nothing == [s \in DOMAIN Number |-> 0]

Init ==
    /\ \E closed \in SUBSET Closed :
          table = [p \in {Program} \cup Children |->
                     [fd \in Fds |-> IF p = Program /\ fd \in 0 .. 2 \ closed
                                     THEN Other ELSE Free]]
    /\ calls = 0 /\ wanted = {} /\ pc = "idle"
    /\ parentEnd = Nothing /\ childEnd = Nothing
    /\ before = table[Program]
    /\ child = [c \in Children |-> [at |-> "none"]]

FreeFds == {fd \in Fds : table[Program][fd] = Free}

Lowest(S) == CHOOSE fd \in S : \A other \in S : fd <= other

Begin(streams) ==
    /\ pc = "idle" /\ calls < MaxChildren
    /\ calls' = calls + 1 /\ wanted' = streams
    /\ pc' = "stdin"
    /\ parentEnd' = Nothing /\ childEnd' = Nothing
    /\ before' = table[Program]
    /\ UNCHANGED <<table, child>>

AtPipe == pc \in DOMAIN Number
After == [stdin |-> "stdout", stdout |-> "stderr", stderr |-> "fork"]

NoPipe ==
    /\ AtPipe /\ pc \notin wanted
    /\ pc' = After[pc]
    /\ UNCHANGED <<table, calls, wanted, parentEnd, childEnd, before, child>>

(* Mutant: the child gets the reading end of every pipe.                   *)
ChildReadsAll(s) == TRUE

ChildReads(s) == s = "stdin"

(* The reading end gets the lower descriptor.                              *)
Pipe ==
    /\ AtPipe /\ pc \in wanted /\ Cardinality(FreeFds) >= 2
    /\ LET r == Lowest(FreeFds)
           w == Lowest(FreeFds \ {r})
           mine == IF ChildReads(pc) THEN w ELSE r
           its  == IF ChildReads(pc) THEN r ELSE w
       IN  /\ table' = [table EXCEPT ![Program][r] = End(calls, pc, "r"),
                                     ![Program][w] = End(calls, pc, "w")]
           /\ parentEnd' = [parentEnd EXCEPT ![pc] = mine]
           /\ childEnd' = [childEnd EXCEPT ![pc] = its]
    /\ pc' = After[pc]
    /\ UNCHANGED <<calls, wanted, before, child>>

PipeFails ==
    /\ AtPipe /\ pc \in wanted
    /\ pc' = "fail"
    /\ UNCHANGED <<table, calls, wanted, parentEnd, childEnd, before, child>>

ForkFails ==
    /\ pc = "fork" /\ pc' = "fail"
    /\ UNCHANGED <<table, calls, wanted, parentEnd, childEnd, before, child>>

Without(t, fds) == [fd \in Fds |-> IF fd \in fds THEN Free ELSE t[fd]]

(* The streams whose pipe exists, as the macro fail sees it: nstdin, 0 for *)
(* none, may be descriptor 0.                                              *)
Made == {s \in wanted : childEnd[s] # 0}

(* Mutant: the program's own ends stay open.                               *)
FailHalf ==
    /\ pc = "fail" /\ pc' = "idle"
    /\ table' = [table EXCEPT ![Program] = Without(@, {childEnd[s] : s \in Made})]
    /\ UNCHANGED <<calls, wanted, parentEnd, childEnd, before, child>>

Fail ==
    /\ pc = "fail" /\ pc' = "idle"
    /\ table' = [table EXCEPT ![Program] =
                    Without(@, {childEnd[s] : s \in Made} \cup {parentEnd[s] : s \in Made})]
    /\ UNCHANGED <<calls, wanted, parentEnd, childEnd, before, child>>

Fork ==
    /\ pc = "fork" /\ pc' = "close"
    /\ table' = [table EXCEPT ![calls] = table[Program]]
    /\ child' = [child EXCEPT ![calls] = [at |-> "setup", todo |-> <<"stdin", "stderr", "stdout">>,
                     wanted |-> wanted, mine |-> parentEnd, its |-> childEnd,
                     standard |-> {fd \in 0 .. 2 : before[fd] # Free}]]
    /\ UNCHANGED <<calls, wanted, parentEnd, childEnd, before>>

Close ==
    /\ pc = "close" /\ pc' = "idle"
    /\ table' = [table EXCEPT ![Program] = Without(@, {childEnd[s] : s \in wanted})]
    /\ UNCHANGED <<calls, wanted, parentEnd, childEnd, before, child>>

----------------------------------------------------------------------------
(* The child: close of the program's end, dup2 over the standard stream;   *)
(* the descriptor it copies stays open.                                    *)
Rewired(t, c, s) ==
    LET closed == Without(t, {child[c].mine[s]})
    IN  [closed EXCEPT ![Number[s]] = closed[child[c].its[s]]]

(* Mutant: the child keeps the program's end.                              *)
SetUpOpen(c) ==
    /\ child[c].at = "setup" /\ child[c].todo # <<>>
    /\ LET s == Head(child[c].todo) IN
       table' = [table EXCEPT ![c] = IF s \in child[c].wanted
                    THEN [@ EXCEPT ![Number[s]] = table[c][child[c].its[s]]] ELSE @]
    /\ child' = [child EXCEPT ![c].todo = Tail(@)]
    /\ UNCHANGED <<calls, wanted, pc, parentEnd, childEnd, before>>

SetUp(c) ==
    /\ child[c].at = "setup" /\ child[c].todo # <<>>
    /\ LET s == Head(child[c].todo) IN
       table' = [table EXCEPT ![c] = IF s \in child[c].wanted THEN Rewired(@, c, s) ELSE @]
    /\ child' = [child EXCEPT ![c].todo = Tail(@)]
    /\ UNCHANGED <<calls, wanted, pc, parentEnd, childEnd, before>>

Exec(c) ==
    /\ child[c].at = "setup" /\ child[c].todo = <<>>
    /\ child' = [child EXCEPT ![c] = [at |-> "runs", wanted |-> child[c].wanted,
                                            standard |-> child[c].standard]]
    /\ UNCHANGED <<table, calls, wanted, pc, parentEnd, childEnd, before>>

Gone(c) ==
    /\ child' = [child EXCEPT ![c] = [at |-> "gone"]]
    /\ table' = [table EXCEPT ![c] = [fd \in Fds |-> Free]]
    /\ UNCHANGED <<calls, wanted, pc, parentEnd, childEnd, before>>

ExecFails(c) == child[c].at = "setup" /\ child[c].todo = <<>> /\ Gone(c)

(* The processes that hold an end of a pipe.                               *)
Holders(end) == {p \in {Program} \cup Children : \E fd \in Fds : table[p][fd] = end}

ReadsToTheEnd(c) ==
    /\ child[c].at = "runs"
    /\ \A d \in Children, s \in DOMAIN Number :
          table[c][0] = End(d, s, "r") => Holders(End(d, s, "w")) = {}
    /\ Gone(c)

Exits(c) == child[c].at = "runs" /\ Gone(c)

(* The program closes an end it was given, in any order.                   *)
ProgramCloses ==
    /\ pc = "idle"
    /\ \E fd \in Fds : /\ table[Program][fd] \notin {Free, Other}
                       /\ table' = [table EXCEPT ![Program][fd] = Free]
    /\ UNCHANGED <<calls, wanted, pc, parentEnd, childEnd, before, child>>

Call == NoPipe \/ Pipe \/ PipeFails \/ ForkFails \/ Fail \/ Fork \/ Close
ChildRuns(c) == SetUp(c) \/ Exec(c) \/ ExecFails(c) \/ ReadsToTheEnd(c)

Next ==
    \/ \E streams \in SUBSET DOMAIN Number : Begin(streams)
    \/ Call
    \/ \E c \in Children : ChildRuns(c) \/ Exits(c)
    \/ ProgramCloses

Spec == Init /\ [][Next]_vars

(* A call goes on, and a child goes on and reads to the end of its input.  *)
FairSpec ==
    /\ Spec
    /\ WF_vars(Call)
    /\ \A c \in Children : WF_vars(ChildRuns(c))

----------------------------------------------------------------------------
(* Properties.                                                             *)

(* A call that fails (pexec.cpp:11-16) leaves the table as it was, as long *)
(* as descriptor 0 was taken: the macro takes a 0 for no descriptor.       *)
FailureLeavesNothing ==
    [][pc = "fail" /\ pc' = "idle" /\ before[0] # Free => table'[Program] = before]_vars

(* A child that runs (pexec.cpp:41-58) has its ends of the pipes it was    *)
(* given for standard streams, as long as the program had all three.       *)
StreamsAreWired ==
    \A c \in Children : child[c].at = "runs" /\ child[c].standard = 0 .. 2 =>
        \A s \in child[c].wanted :
            table[c][Number[s]] = End(c, s, IF s = "stdin" THEN "r" ELSE "w")

(* Children end once the program has given up its ends of the pipes,       *)
(* although a child holds ends of the pipes of those before it; unless the *)
(* program has no standard input of its own to hand on.                    *)
ChildrenEnd ==
    (/\ pc = "idle"
     /\ table[Program][0] = Other
     /\ \A fd \in Fds : table[Program][fd] \in {Free, Other})
        ~> (pc # "idle" \/ \A c \in Children : child[c].at \in {"none", "gone"})
=============================================================================
