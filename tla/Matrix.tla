------------------------------- MODULE Matrix -------------------------------
(***************************************************************************)
(* Matrices and their lazy expressions (matrix.h, matrix.cpp).  An         *)
(* expression holds pointers to its operands and computes an element when  *)
(* it is asked for; assigning it writes the target element by element, so  *)
(* that a target which is an operand needs a copy.                         *)
(*                                                                         *)
(* Elements are integers modulo 3, a field in place of double.  Rows and   *)
(* columns count from 0.                                                   *)
(***************************************************************************)
EXTENDS Integers, FiniteSets, SequencesExt

CONSTANTS Names,        \* the matrices of the program, 1 .. n
          Contents,     \* what a matrix holds at first
          Exprs,        \* the expressions that are assigned
          MaxBlocks,    \* bound: the blocks of memory
          MaxSteps      \* bound: the operations of the program

VARIABLES mats,         \* mats[m]: w, h and data, a block, 0 for none
          heap,         \* heap[b]: the rows of each block that is allocated
          steps,        \* the operations so far
          last,         \* history: the last assignment, and whether it was done
          copied,       \* history: matrices share a block, or an exception lost one
          wild          \* memory outside of a block was read, the stack overran, or
                        \* a function ended without the return it needs

vars == <<mats, heap, steps, last, copied, wild>>

Mod3(n) == n % 3
Rows(x) == Cardinality(DOMAIN x)
Cols(x) == Cardinality(DOMAIN x[0])
Table(h, w, f(_, _)) == [i \in 0 .. h - 1 |-> [j \in 0 .. w - 1 |-> f(i, j)]]
IsTable(x, h, w) == h \in Nat \ {0} /\ w \in Nat \ {0} /\ x \in [0 .. h - 1 -> [0 .. w - 1 -> Int]]
Sum(f) == Mod3(FoldFunction(+, 0, f))

(* matrix(rows, cols) and the elements that are set then.                  *)
Init ==
    \E has \in [Names -> Contents] :
        /\ mats = [m \in Names |-> [w |-> Cols(has[m]), h |-> Rows(has[m]), data |-> m]]
        /\ heap = has
        /\ steps = 0
        /\ last = [to |-> 0, done |-> FALSE]
        /\ copied = FALSE /\ wild = FALSE

----------------------------------------------------------------------------
(* An expression is the sequence of its objects in the order in which they *)
(* are constructed: a and b are the places of the operands, or a is the    *)
(* name of a matrix; the last object is the expression itself.             *)
Binary == {"mul", "add", "sub"}
Root(e) == e[Len(e)]

IsExpression(e) ==
    /\ e \in Seq([op : {"matrix", "neg", "tr", "inv"}, a : Nat] \cup [op : Binary, a : Nat, b : Nat])
    /\ e # <<>>
    /\ \A i \in DOMAIN e :
          IF e[i].op = "matrix" THEN e[i].a \in Names
          ELSE e[i].a \in 1 .. i - 1 /\ (e[i].op \in Binary => e[i].b \in 1 .. i - 1)

(* negated_matrix gives its base class height and width in the order in    *)
(* which it takes width and height.                                        *)
Sizes(e) ==
    LET size[i \in DOMAIN e] ==
            IF e[i].op = "matrix" THEN [w |-> mats[e[i].a].w, h |-> mats[e[i].a].h]
            ELSE IF e[i].op \in Binary THEN [w |-> size[e[i].b].w, h |-> size[e[i].a].h]
            ELSE IF e[i].op \in {"neg", "tr"} THEN [w |-> size[e[i].a].h, h |-> size[e[i].a].w]
            ELSE size[e[i].a]
    IN  size

(* The constructors throw for sizes that do not fit.                       *)
Fits(e) ==
    LET size == Sizes(e) IN
    \A i \in DOMAIN e :
        CASE e[i].op = "mul"             -> size[e[i].a].w = size[e[i].b].h
          [] e[i].op \in {"add", "sub"}  -> size[e[i].a] = size[e[i].b]
          [] e[i].op = "inv"             -> size[e[i].a].w = size[e[i].a].h
          [] OTHER                       -> TRUE

needs(e, m) ==
    LET uses[i \in DOMAIN e] ==
            CASE e[i].op = "matrix" -> e[i].a = m
              [] e[i].op \in Binary -> uses[e[i].a] \/ uses[e[i].b]
              [] OTHER              -> uses[e[i].a]
    IN  uses[Len(e)]

(* The elements that at(r, c) reads are all there.                         *)
InRange(e, row, col) ==
    LET size == Sizes(e)
        reads[i \in DOMAIN e, r \in Nat, c \in Nat] ==
            CASE e[i].op = "matrix" -> r < size[i].h /\ c < size[i].w
              [] e[i].op = "mul" -> \A k \in 0 .. size[e[i].a].w - 1 :
                                        reads[e[i].a, r, k] /\ reads[e[i].b, k, c]
              [] e[i].op \in {"add", "sub"} -> reads[e[i].a, r, c] /\ reads[e[i].b, r, c]
              [] e[i].op = "neg" -> reads[e[i].a, r, c]
              [] e[i].op = "tr"  -> reads[e[i].a, c, r]
              [] e[i].op = "inv" -> /\ r < size[i].h /\ c < size[i].w
                                    /\ \A j, k \in 0 .. size[i].w - 1 : reads[e[i].a, j, k]
    IN  reads[Len(e), row, col]

(* Gauss-Jordan elimination without pivoting: one column; x and its        *)
(* inverse in the making, until a pivot is 0.                              *)
Identity(n) == Table(n, n, LAMBDA i, j : IF i = j THEN 1 ELSE 0)

Column(s, k) ==
    LET n == Rows(s.x)
        inverse == s.x[k][k]            \* 1 and 2 are their own inverses
        Scaled(y) == [y EXCEPT ![k] = [j \in 0 .. n - 1 |-> Mod3(y[k][j] * inverse)]]
        Cleared(y, z) == [i \in 0 .. n - 1 |-> IF i = k THEN z[k] ELSE
                            [j \in 0 .. n - 1 |-> Mod3(y[i][j] - s.x[i][k] * z[k][j])]]
    IN  IF s.threw \/ s.x[k][k] = 0 THEN [s EXCEPT !.threw = TRUE]
        ELSE [x |-> Cleared(s.x, Scaled(s.x)), r |-> Cleared(s.r, Scaled(s.r)), threw |-> FALSE]

Eliminated(x) ==
    LET after[k \in 0 .. Rows(x)] ==
            IF k = 0 THEN [x |-> x, r |-> Identity(Rows(x)), threw |-> FALSE]
            ELSE Column(after[k - 1], k - 1)
    IN  after[Rows(x)]

(* The elements of the objects of an expression, with memory h.  An        *)
(* inverse is computed when its first element is asked for.                *)
Elements(h, e) ==
    LET size == Sizes(e)
        element[i \in DOMAIN e, r \in Nat, c \in Nat] ==
            LET x(j, k) == element[e[i].a, j, k]
                y(j, k) == element[e[i].b, j, k]
            IN  CASE e[i].op = "matrix" -> h[mats[e[i].a].data][r][c]
                  [] e[i].op = "mul" -> Sum([k \in 0 .. size[e[i].a].w - 1 |-> x(r, k) * y(k, c)])
                  [] e[i].op = "add" -> Mod3(x(r, c) + y(r, c))
                  [] e[i].op = "sub" -> Mod3(x(r, c) - y(r, c))
                  [] e[i].op = "neg" -> Mod3(-x(r, c))
                  [] e[i].op = "tr"  -> x(c, r)
                  [] e[i].op = "inv" -> Eliminated(Table(size[i].h, size[i].w, x)).r[r][c]
    IN  element

at(h, e, r, c) == Elements(h, e)[Len(e), r, c]

Throws(e) ==
    \E i \in DOMAIN e :
        LET x(j, k) == Elements(heap, e)[e[i].a, j, k] IN
        /\ e[i].op = "inv"
        /\ Eliminated(Table(Sizes(e)[i].h, Sizes(e)[i].w, x)).threw

----------------------------------------------------------------------------
(* Memory.                                                                 *)
FreeBlocks == 1 .. MaxBlocks \ DOMAIN heap
NewBlock == CHOOSE b \in FreeBlocks : \A c \in FreeBlocks : b <= c
Put(h, b, x) == [c \in DOMAIN h \cup {b} |-> IF c = b THEN x ELSE h[c]]
Freed(h, b) == [c \in DOMAIN h \ {b} |-> h[c]]

(* Mutant: the old block is not given back.                                *)
ResizedLeaking(m, rows, cols) ==
    IF mats[m].h = rows /\ mats[m].w = cols THEN <<mats[m], heap>>
    ELSE <<[w |-> cols, h |-> rows, data |-> NewBlock],
           Put(heap, NewBlock, Table(rows, cols, LAMBDA i, j : 0))>>

(* resize: what the old and the new matrix have in common is kept, though  *)
(* matrix.cpp:65 says that all is lost.                                    *)
Resized(m, rows, cols) ==
    IF mats[m].h = rows /\ mats[m].w = cols THEN <<mats[m], heap>>
    ELSE LET old == heap[mats[m].data]
             new == Table(rows, cols, LAMBDA i, j :
                        IF i < mats[m].h /\ j < mats[m].w THEN old[i][j] ELSE 0)
         IN  <<[w |-> cols, h |-> rows, data |-> NewBlock],
               Freed(Put(heap, NewBlock, new), mats[m].data)>>

Done(m, e) == last' = [to |-> m, expr |-> e, done |-> TRUE]
NotDone == last' = [to |-> 0, done |-> FALSE]

(* Mutant: rows and columns are exchanged.                                 *)
WrittenTurned(h, b, e, rows, cols) ==
    LET after[n \in 0 .. rows * cols] ==
            IF n = 0 THEN h
            ELSE LET g == after[n - 1]  r == (n - 1) \div cols  c == (n - 1) % cols
                 IN  [g EXCEPT ![b][r][c] = at(g, e, c, r)]
    IN  after[rows * cols]

(* The elements are written one after the other, into block b.             *)
Written(h, b, e, rows, cols) ==
    LET after[n \in 0 .. rows * cols] ==
            IF n = 0 THEN h
            ELSE LET g == after[n - 1]  r == (n - 1) \div cols  c == (n - 1) % cols
                 IN  [g EXCEPT ![b][r][c] = at(g, e, r, c)]
    IN  after[rows * cols]

(* operator=(const matrix_base &), which takes width for rows.             *)
Assign(m, e) ==
    LET rows == Sizes(e)[Len(e)].w
        cols == Sizes(e)[Len(e)].h
        fresh == Put(heap, NewBlock, Table(rows, cols, LAMBDA i, j : 0))
    IN
    \/ /\ \E i \in 0 .. rows - 1, j \in 0 .. cols - 1 : ~InRange(e, i, j)
       /\ wild' = TRUE /\ NotDone
       /\ UNCHANGED <<mats, heap, copied>>
    \/ /\ \A i \in 0 .. rows - 1, j \in 0 .. cols - 1 : InRange(e, i, j)
       /\ IF Throws(e)
          THEN /\ copied' = TRUE /\ NotDone                 \* the copy p is lost
               /\ UNCHANGED <<mats, heap>>
          ELSE /\ Done(m, e) /\ UNCHANGED copied
               /\ IF needs(e, m)
                  THEN /\ heap' = Freed(Written(fresh, NewBlock, e, rows, cols), mats[m].data)
                       /\ mats' = [mats EXCEPT ![m] = [w |-> cols, h |-> rows, data |-> NewBlock]]
                  ELSE LET to == Resized(m, rows, cols) IN
                       /\ mats' = [mats EXCEPT ![m] = to[1]]
                       /\ heap' = Written(to[2], to[1].data, e, rows, cols)
       /\ UNCHANGED wild

(* operator= of a negated and of an inverted matrix: in place, or by a     *)
(* conversion that negates and calls the first of the two for ever.        *)
(* Neither has a return statement (matrix.cpp:125-146): its caller may go  *)
(* on, with what was done, or the program runs wild.                       *)
Own(m, e) == e[Root(e).a] = [op |-> "matrix", a |-> m]
RunsWild == wild' = TRUE /\ NotDone /\ UNCHANGED <<mats, heap, copied>>

AssignNegated(m, e) ==
    \/ /\ Own(m, e)
       /\ heap' = [heap EXCEPT ![mats[m].data] =
                      [i \in DOMAIN @ |-> [j \in DOMAIN @[i] |-> Mod3(-@[i][j])]]]
       /\ Done(m, e) /\ UNCHANGED <<mats, copied, wild>>
    \/ RunsWild

AssignInverted(m, e) ==
    LET g == Eliminated(heap[mats[m].data]) IN
    \/ /\ Own(m, e) /\ ~g.threw
       /\ heap' = Put(Freed(heap, mats[m].data), mats[m].data, g.r)
       /\ Done(m, e) /\ UNCHANGED <<mats, copied, wild>>
    \/ /\ Own(m, e) /\ g.threw        \* left half eliminated
       /\ heap' = [heap EXCEPT ![mats[m].data] = g.x]
       /\ NotDone /\ UNCHANGED <<mats, copied, wild>>
    \/ /\ Own(m, e) => ~g.threw
       /\ RunsWild

(* m = e, for an expression that is not a matrix by itself.                *)
Evaluate(m, e) ==
    /\ Fits(e) /\ Root(e).op # "matrix"
    /\ CASE Root(e).op = "neg" -> AssignNegated(m, e)
         [] Root(e).op = "inv" -> AssignInverted(m, e)
         [] OTHER -> Assign(m, e)

(* m = n: the assignment that the compiler supplies copies the pointer.    *)
Copy(m, n) ==
    /\ m # n
    /\ mats' = [mats EXCEPT ![m] = mats[n]]
    /\ copied' = TRUE /\ NotDone
    /\ UNCHANGED <<heap, wild>>

resize(m, rows, cols) ==
    /\ mats' = [mats EXCEPT ![m] = Resized(m, rows, cols)[1]]
    /\ heap' = Resized(m, rows, cols)[2]
    /\ NotDone /\ UNCHANGED <<copied, wild>>

(* What comes after memory was shared, lost or misused is not followed.    *)
Next ==
    /\ ~copied /\ ~wild /\ steps < MaxSteps
    /\ steps' = steps + 1
    /\ \/ \E m \in Names, e \in Exprs : Evaluate(m, e)
       \/ \E m, n \in Names : Copy(m, n)
       \/ \E m \in Names, rows, cols \in 1 .. 2 : resize(m, rows, cols)

Spec == Init /\ [][Next]_vars

----------------------------------------------------------------------------
(* Properties.                                                             *)

(* Each block is that of one matrix, which is as high and as wide as it:   *)
(* through resizes, temporaries and swaps (matrix.cpp:66-122) none is lost *)
(* and none is shared, unless the assignment the compiler supplies is used *)
(* or an inverse throws.                                                   *)
OneOwner ==
    ~copied =>
        /\ IsInjective([m \in Names |-> mats[m].data])
        /\ DOMAIN heap = {mats[m].data : m \in Names}
        /\ \A m \in Names : /\ Rows(heap[mats[m].data]) = mats[m].h
                             /\ Cols(heap[mats[m].data]) = mats[m].w

(* The value of an expression, by the definitions of algebra.              *)
Product(x, y) == Table(Rows(x), Cols(y), LAMBDA i, j :
                        Sum([k \in DOMAIN y |-> x[i][k] * y[k][j]]))
Value(e) ==
    LET value[n \in DOMAIN e] ==
            LET x == value[e[n].a]
                y == value[e[n].b]
            IN  CASE e[n].op = "matrix" -> heap[mats[e[n].a].data]
                  [] e[n].op = "mul" -> Product(x, y)
                  [] e[n].op = "add" -> Table(Rows(x), Cols(x), LAMBDA i, j : Mod3(x[i][j] + y[i][j]))
                  [] e[n].op = "sub" -> Table(Rows(x), Cols(x), LAMBDA i, j : Mod3(x[i][j] - y[i][j]))
                  [] e[n].op = "neg" -> Table(Rows(x), Cols(x), LAMBDA i, j : Mod3(-x[i][j]))
                  [] e[n].op = "tr"  -> Table(Cols(x), Rows(x), LAMBDA i, j : x[j][i])
                  [] e[n].op = "inv" -> CHOOSE z \in [DOMAIN x -> [DOMAIN x -> 0 .. 2]] :
                                            Product(x, z) = Identity(Rows(x))
    IN  value[Len(e)]

(* An assignment that neither throws nor runs wild (matrix.cpp:109-146)    *)
(* gives its target the value the expression had before, even if the       *)
(* target is an operand, anywhere in the expression.                       *)
AssignmentIsRight ==
    [][last'.done => heap'[mats'[last'.to].data] = Value(last'.expr)]_vars
=============================================================================
