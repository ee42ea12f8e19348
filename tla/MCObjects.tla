----------------------------- MODULE MCObjects -----------------------------
(***************************************************************************)
(* The objects a program keeps: device handles, an INI loader, a clean-up  *)
(* stack and matrices.  They share nothing, so that a behaviour is one of  *)
(* one kind of them, the others as they were made.                         *)
(***************************************************************************)
EXTENDS ModbusHandles, Sequences

CONSTANTS b1, b2, h1, h2, h3,
          Calls, Files, Loaders, MaxKeys,
          MaxTasks,
          Names, Contents, Exprs, MaxBlocks, MaxSteps

VARIABLES part,         \* the object that is used
          contents, currentGroup, todo, crashed, call, selected, astray,
          v, running, phase, added, byProgram, called,
          mats, heap, steps, last, copied, wild

Ini      == INSTANCE IniLoader
CleanUp  == INSTANCE Destroyer
Matrices == INSTANCE Matrix

iniVars     == <<contents, currentGroup, todo, crashed, call, selected, astray>>
cleanUpVars == <<v, running, phase, added, byProgram, called>>
matrixVars  == <<mats, heap, steps, last, copied, wild>>

(* Names, keys and values are strings, and so are the lines of a file.     *)
ASSUME TextsAssumption ==
    LET Text == Seq(STRING) IN
    /\ Calls \subseteq [is : {"group", "touch"}, name : Text] \cup [is : {"key"}, name : Text, value : Text]
                       \cup [is : {"in"}, group : Text, name : Text, value : Text] \cup [is : {"clear"}]
    /\ Files \subseteq Seq(Text)
    /\ Loaders \subseteq Seq([name : Text, keys : Seq([name : Text, value : Text])])

(* There is room for a temporary besides the matrices; these start with at *)
(* least one element; and the operands of an expression are matrices, or   *)
(* were constructed before what uses them.                                 *)
ASSUME MatricesAssumption ==
    /\ MaxBlocks \in Nat
    /\ Names \subseteq 1 .. MaxBlocks /\ Cardinality(Names) < MaxBlocks
    /\ \A x \in Contents : Matrices!IsTable(x, Matrices!Rows(x), Matrices!Cols(x))
    /\ \A e \in Exprs : Matrices!IsExpression(e)

ObjectsInit ==
    /\ part \in {"handles", "ini", "cleanup", "matrices"}
    /\ Init /\ Ini!Init /\ CleanUp!Init /\ Matrices!Init
    /\ part # "matrices" => \A m \in Names : heap[m] = CHOOSE x \in Contents : TRUE

ObjectsNext ==
    /\ UNCHANGED part
    /\ \/ part = "handles" /\ Next
          /\ UNCHANGED <<iniVars, cleanUpVars, matrixVars>>
       \/ part = "ini" /\ Ini!Next
          /\ UNCHANGED <<vars, cleanUpVars, matrixVars>>
       \/ part = "cleanup" /\ CleanUp!Next
          /\ UNCHANGED <<vars, iniVars, matrixVars>>
       \/ part = "matrices" /\ Matrices!Next
          /\ UNCHANGED <<vars, iniVars, cleanUpVars>>

ObjectsSpec ==
    ObjectsInit /\ [][ObjectsNext]_<<part, vars, iniVars, cleanUpVars, matrixVars>>

----------------------------------------------------------------------------
(* Two buses, three handles; an unsigned of eight values.                  *)
TwoBuses     == {b1, b2}
ThreeHandles == {h1, h2, h3}

(* Groups and keys whose names need escapes; a file with every kind of     *)
(* line, and one that ends the load; another loader to patch with.         *)
GroupNames == {<<"a">>, <<"[", "\n">>}
KeyNames   == {<<"k">>, <<"\\", "\"">>}
KeyValues  == {<<"=", " ">>}
SomeCalls  == [is : {"group"}, name : GroupNames]
              \cup [is : {"key"}, name : KeyNames, value : KeyValues]
              \cup [is : {"touch"}, name : KeyNames]
              \cup [is : {"in"}, group : GroupNames, name : KeyNames, value : KeyValues]
              \cup {[is |-> "clear"]}
SomeFiles ==
    { << <<" ", "[", "a", "]">>, <<"k", " ", "=", "v">>, <<"=", "v">>, <<"k">>,
         <<"k", "=", " ">>, <<"k", "=", "w">> >>,
      << <<>>, <<" ", "=", "v">>, <<"\"", "k", "=", "x", "\"">> >> }
SomeLoaders ==
    { << [name |-> <<"a">>, keys |-> << [name |-> <<"k">>, value |-> <<"v">>],
                                         [name |-> <<"\\", "\"">>, value |-> <<"v">>] >>] >> }

(* Square matrices, a row and a column; expressions of one and of two      *)
(* matrices, with the target among the operands or not.                    *)
FromRows(s) == [i \in 0 .. Len(s) - 1 |-> [j \in 0 .. Len(s[1]) - 1 |-> s[i + 1][j + 1]]]
SomeContents == {FromRows(<< <<1, 2>>, <<0, 1>> >>), FromRows(<< <<0, 1>>, <<1, 0>> >>),
                 FromRows(<< <<2, 1>>, <<1, 1>> >>), FromRows(<< <<1, 2>> >>),
                 FromRows(<< <<2>>, <<1>> >>)}
A == << [op |-> "matrix", a |-> 1] >>
B == << [op |-> "matrix", a |-> 2] >>
Of(o, x) == Append(x, [op |-> o, a |-> Len(x)])
Moved(x, n) == IF x.op = "matrix" THEN x ELSE [k \in DOMAIN x |-> IF k = "op" THEN x.op ELSE x[k] + n]
Op(o, x, y) == x \o [i \in DOMAIN y |-> Moved(y[i], Len(x))]
                 \o << [op |-> o, a |-> Len(x), b |-> Len(x) + Len(y)] >>
SomeExprs == {Op("mul", A, B), Op("mul", B, A), Op("sub", B, A),
              Of("neg", A), Of("inv", A), Of("tr", A), Of("tr", B),
              Op("mul", Of("inv", A), B), Op("mul", B, Of("inv", A)),
              Op("sub", Of("neg", A), B), Op("mul", B, Op("add", A, A))}

----------------------------------------------------------------------------
(* Properties: those of the modules of the objects, with their types.      *)

(* Until a key goes astray, and but for a clear of a loader that holds     *)
(* something, the loader is a dictionary of dictionaries                   *)
(* (iniloader.cpp:69-270).                                                 *)
IsAStore == Ini!IsAStore

(* A loader that was cleared holds nothing (iniloader.h:56).               *)
ClearEmpties == Ini!ClearEmpties

(* What is saved comes back, in one more layer of quotes                   *)
(* (iniloader.cpp:107-180).                                                *)
SavedComesBack == Ini!TypeOK /\ Ini!SavedComesBack

(* Tasks are called last in first out, whatever they throw or add          *)
(* (destroyer.h:46-74).                                                    *)
LastInFirstOut == CleanUp!TypeOK /\ CleanUp!LastInFirstOut

(* Each block is that of one matrix, as high and as wide as it             *)
(* (matrix.cpp:66-122).                                                    *)
OneOwner == Matrices!OneOwner

(* An assignment gives its target the value the expression had before      *)
(* (matrix.cpp:109-146).                                                   *)
AssignmentIsRight == Matrices!AssignmentIsRight
=============================================================================
