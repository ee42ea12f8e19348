------------------------------ MODULE ArgTool ------------------------------
(***************************************************************************)
(* The command line (arg_tool.h, arg_tool.cpp): arg_eval looks every       *)
(* argument up in a table of options and notes, in the variable an option  *)
(* points to, that it was given or where its parameter is.  Several        *)
(* options may share a variable.                                           *)
(***************************************************************************)
EXTENDS Integers, Sequences, SequencesExt

CONSTANTS Tables,       \* the tables, sequences of options
          Lines         \* the command lines, without the program's name

(* The fields id, index (the variable, "null" for none) and flags of arg_t;*)
(* type is one of "default", "flag" and "none".                            *)
Option == [id : STRING, index : STRING, type : {"default", "flag", "none"},
           required : BOOLEAN, end : BOOLEAN]

VARIABLES args, argv,   \* the table and the arguments, from 1
          arg,          \* the argument that is looked up
          index,        \* what the variables hold
          pc,           \* "zero", "match", "required" or "done"
          ret           \* what arg_eval returned

vars == <<args, argv, arg, index, pc, ret>>

Variables == {args[i].index : i \in DOMAIN args}

(* The variables of the program hold anything before the call.             *)
Init ==
    /\ args \in Tables /\ argv \in Lines
    /\ arg = 1 /\ pc = "zero" /\ ret = 0
    /\ index \in {[v \in Variables |-> n] : n \in {0, 1}}

Return(n) == pc' = "done" /\ ret' = n

Zero ==
    LET bad == SelectInSeq(args, LAMBDA o : o.index = "null")
        seen == IF bad = 0 THEN args ELSE SubSeq(args, 1, bad - 1)
    IN  /\ pc = "zero"
        /\ index' = [v \in Variables |-> IF \E i \in DOMAIN seen : seen[i].index = v THEN 0
                                         ELSE index[v]]
        /\ IF bad # 0 THEN Return(-bad) ELSE pc' = "match" /\ UNCHANGED ret
        /\ UNCHANGED <<args, argv, arg>>

(* The option of the argument, the first of the table.                     *)
Found == SelectInSeq(args, LAMBDA o : o.id = argv[arg])
This == args[Found]

Looks == pc = "match" /\ arg <= Len(argv)

Refuse ==
    /\ Looks
    /\ \/ Found = 0
       \/ Found # 0 /\ index[This.index] # 0
       \/ Found # 0 /\ This.type = "default" /\ ~This.end /\ arg + 1 > Len(argv)
    /\ Return(arg)
    /\ UNCHANGED <<args, argv, arg, index>>

Fresh == Looks /\ Found # 0 /\ index[This.index] = 0

TakeEnd ==
    /\ Fresh /\ This.end
    /\ index' = [index EXCEPT ![This.index] = arg + 1]
    /\ pc' = "required"
    /\ UNCHANGED <<args, argv, arg, ret>>

TakeFlag ==
    /\ Fresh /\ ~This.end /\ This.type = "flag"
    /\ index' = [index EXCEPT ![This.index] = 1]
    /\ arg' = arg + 1
    /\ UNCHANGED <<args, argv, pc, ret>>

(* Mutant: the parameter is looked up too.                                 *)
TakeParameterTwice ==
    /\ Fresh /\ ~This.end /\ This.type = "default" /\ arg + 1 <= Len(argv)
    /\ index' = [index EXCEPT ![This.index] = arg + 1]
    /\ arg' = arg + 1
    /\ UNCHANGED <<args, argv, pc, ret>>

(* A parameter may look like an option.                                    *)
TakeParameter ==
    /\ Fresh /\ ~This.end /\ This.type = "default" /\ arg + 1 <= Len(argv)
    /\ index' = [index EXCEPT ![This.index] = arg + 1]
    /\ arg' = arg + 2
    /\ UNCHANGED <<args, argv, pc, ret>>

(* An option without a type is passed over, as often as it is given.       *)
PassOver ==
    /\ Fresh /\ ~This.end /\ This.type = "none"
    /\ arg' = arg + 1
    /\ UNCHANGED <<args, argv, index, pc, ret>>

NoneLeft ==
    /\ pc = "match" /\ arg > Len(argv)
    /\ pc' = "required"
    /\ UNCHANGED <<args, argv, arg, index, ret>>

Required ==
    LET missing == SelectInSeq(args, LAMBDA o : o.required /\ index[o.index] = 0)
    IN  /\ pc = "required"
        /\ Return(-missing)
        /\ UNCHANGED <<args, argv, arg, index>>

Next == Zero \/ Refuse \/ TakeEnd \/ TakeFlag \/ TakeParameter \/ PassOver \/ NoneLeft \/ Required

Spec == Init /\ [][Next]_vars

----------------------------------------------------------------------------
(* Properties.                                                             *)
TypeOK ==
    /\ ToSet(args) \subseteq Option
    /\ arg \in 1 .. Len(argv) + 1
    /\ \A v \in DOMAIN index : index[v] \in 0 .. Len(argv) + 1
    /\ ret \in -Len(args) .. Len(argv)

(* Up to the option that ends it, every argument is an option or the       *)
(* parameter of the one before it, and never both; a variable is set       *)
(* exactly if one of its options is there, once; and whatever is required  *)
(* is there.                                                               *)
ReadsBack ==
    LET Ends == {i \in DOMAIN args : args[i].end /\ index[args[i].index] # 0}
        stop == IF Ends = {} THEN Len(argv)
                ELSE CHOOSE n \in 1 .. Len(argv) : \E i \in Ends : index[args[i].index] = n + 1
        Parameters == {n \in 2 .. stop : \E i \in DOMAIN args :
                          /\ args[i].type = "default" /\ ~args[i].end
                          /\ args[i].id = argv[n - 1] /\ index[args[i].index] = n}
        Options == 1 .. stop \ Parameters
        Given(v) == {n \in Options : \E i \in DOMAIN args :
                        args[i].id = argv[n] /\ args[i].index = v
                            /\ (args[i].type # "none" \/ args[i].end)}
    IN  /\ \A n \in Parameters : n - 1 \in Options
        /\ \A n \in Options : \E i \in DOMAIN args :
              /\ args[i].id = argv[n]
              /\ args[i].type = "default" /\ ~args[i].end => n + 1 \in Parameters
        /\ \A i \in DOMAIN args :
              /\ Given(args[i].index) = {} <=> index[args[i].index] = 0
              /\ \A m, n \in Given(args[i].index) : m = n
              /\ args[i].required => index[args[i].index] # 0

(* A command line that is accepted (arg_tool.cpp:36-91) can be read back   *)
(* from the variables.                                                     *)
CommandLineIsRead == pc = "done" /\ ret = 0 => ReadsBack
=============================================================================
