---------------------------- MODULE ObjectsProof ----------------------------
(***************************************************************************)
(* What holds of the objects a program keeps for all values of the         *)
(* constants: for any buses and handles, any calls of an INI loader, any   *)
(* number of clean-up tasks, and any matrices and expressions.  A          *)
(* behaviour of ObjectsSpec is one of one kind of object, the others as    *)
(* they were made.                                                         *)
(***************************************************************************)
EXTENDS MCObjects, SequenceTheorems, FiniteSetTheorems, WellFoundedInduction, TLAPS

----------------------------------------------------------------------------
(* A bus whose count starts at zero counts its handles for ever: for any   *)
(* set of buses, any finite set of handles, and any unsigned with more     *)
(* values than there are handles.                                          *)

HandlesInv == TypeOK /\ CountsHolders

(* Holders are handles, so there are fewer of them than the count can say. *)
LEMMA HoldersAreFew ==
    ASSUME TypeOK, NEW b \in Buses
    PROVE  /\ Holders(b) \subseteq Handles
           /\ IsFiniteSet(Holders(b))
           /\ Cardinality(Holders(b)) \in Nat
           /\ Cardinality(Holders(b)) < Width
<1>1. Holders(b) \in SUBSET Handles
    BY DEF Holders, TypeOK
<1>2. /\ IsFiniteSet(Holders(b))
      /\ Cardinality(Holders(b)) <= Cardinality(Handles)
    BY <1>1, FS_Subset, HandlesAssumption DEF HandlesAssumption
<1>3. Cardinality(Holders(b)) \in Nat /\ Cardinality(Handles) \in Nat
    BY <1>2, FS_CardinalityType, HandlesAssumption DEF HandlesAssumption
<1>4. QED
    BY <1>1, <1>2, <1>3, HandlesAssumption DEF HandlesAssumption

(* A step that takes a lock on the bus c for the handle h.                 *)
Gains(h, c) ==
    /\ refcount' = Locked(c)
    /\ \A b \in Buses :
          /\ h \notin Holders(b)
          /\ Holders(b)' = IF b = c THEN Holders(b) \cup {h} ELSE Holders(b)

LEMMA GainCounts ==
    ASSUME TypeOK, CountsHolders, NEW h \in Handles,
           NEW c \in Buses \cup {None}, Gains(h, c)
    PROVE  CountsHolders'
<1>1. CASE c = None
    <2>1. refcount' = refcount
        BY <1>1 DEF Gains, Locked
    <2>2. \A b \in Buses : Holders(b)' = Holders(b)
        BY <1>1, HandlesAssumption DEF Gains, HandlesAssumption
    <2>3. QED
        BY <2>1, <2>2 DEF CountsHolders, TypeOK
<1>2. CASE c # None
    <2>1. c \in Buses
        BY <1>2
    <2>2. refcount' = [refcount EXCEPT ![c] = (@ + 1) % Width]
        BY <1>2 DEF Gains, Locked
    <2>3. /\ refcount[c] = Cardinality(Holders(c))
          /\ Holders(c)' = Holders(c) \cup {h} /\ h \notin Holders(c)
        BY <2>1 DEF CountsHolders, Gains
    <2>4. Holders(c) \cup {h} \in SUBSET Handles
        BY <2>1, HoldersAreFew
    <2>5. /\ Cardinality(Holders(c) \cup {h}) <= Cardinality(Handles)
          /\ Cardinality(Handles) \in Nat
        BY <2>4, FS_Subset, FS_CardinalityType, HandlesAssumption
        DEF HandlesAssumption
    <2>6. Cardinality(Holders(c) \cup {h}) = Cardinality(Holders(c)) + 1
        BY <2>1, <2>3, HoldersAreFew, FS_AddElement
    <2>7. /\ refcount[c] + 1 < Width
          /\ refcount[c] \in Nat
        BY <2>1, <2>3, <2>5, <2>6, HoldersAreFew, HandlesAssumption
        DEF HandlesAssumption
    <2>8. (refcount[c] + 1) % Width = refcount[c] + 1
        BY <2>7, HandlesAssumption DEF HandlesAssumption
    <2>9. ASSUME NEW b \in Buses
          PROVE  refcount'[b] = Cardinality(Holders(b)')
        <3>1. CASE b = c
            BY <3>1, <2>1, <2>2, <2>3, <2>6, <2>8 DEF TypeOK
        <3>2. CASE b # c
            BY <3>2, <2>2 DEF TypeOK, Gains, CountsHolders
        <3>3. QED
            BY <3>1, <3>2
    <2>10. QED
        BY <2>9 DEF CountsHolders
<1>3. QED
    BY <1>1, <1>2

(* A step that gives up the lock of the handle h on its bus c.             *)
Loses(h, c) ==
    /\ refcount' = Released(c)
    /\ \A b \in Buses :
          /\ h \in Holders(b) <=> b = c
          /\ Holders(b)' = Holders(b) \ {h}

LEMMA LossCounts ==
    ASSUME TypeOK, CountsHolders, NEW h \in Handles,
           NEW c \in Buses \cup {None}, Loses(h, c)
    PROVE  CountsHolders'
<1>1. CASE c = None
    <2>1. refcount' = refcount
        BY <1>1 DEF Loses, Released
    <2>2. \A b \in Buses : Holders(b)' = Holders(b)
        BY <1>1, HandlesAssumption DEF Loses, HandlesAssumption
    <2>3. QED
        BY <2>1, <2>2 DEF CountsHolders, TypeOK
<1>2. CASE c # None
    <2>1. c \in Buses
        BY <1>2
    <2>2. /\ refcount[c] = Cardinality(Holders(c))
          /\ Holders(c)' = Holders(c) \ {h} /\ h \in Holders(c)
        BY <2>1 DEF CountsHolders, Loses
    <2>3. Cardinality(Holders(c) \ {h}) = Cardinality(Holders(c)) - 1
        BY <2>1, <2>2, HoldersAreFew, FS_RemoveElement
    <2>4. Cardinality(Holders(c)) # 0
        BY <2>1, <2>2, HoldersAreFew, FS_EmptySet
    <2>5. refcount[c] # 0 /\ refcount[c] \in 0 .. Width - 1
        BY <2>1, <2>2, <2>4 DEF TypeOK
    <2>6. refcount' = [refcount EXCEPT ![c] = @ - 1]
        BY <1>2, <2>5 DEF Loses, Released
    <2>7. ASSUME NEW b \in Buses
          PROVE  refcount'[b] = Cardinality(Holders(b)')
        <3>1. CASE b = c
            BY <3>1, <2>1, <2>2, <2>3, <2>6 DEF TypeOK
        <3>2. CASE b # c
            <4>1. Holders(b)' = Holders(b)
                BY <3>2 DEF Loses
            <4>2. QED
                BY <3>2, <4>1, <2>6 DEF TypeOK, CountsHolders
        <3>3. QED
            BY <3>1, <3>2
    <2>8. QED
        BY <2>7 DEF CountsHolders
<1>3. QED
    BY <1>1, <1>2

(* The count stays in the range of an unsigned whatever it started from.   *)
LEMMA CountInRange ==
    ASSUME TypeOK, NEW c \in Buses \cup {None}
    PROVE  /\ Locked(c) \in [Buses -> 0 .. Width - 1]
           /\ Released(c) \in [Buses -> 0 .. Width - 1]
<1>1. CASE c = None
    BY <1>1 DEF Locked, Released, TypeOK
<1>2. CASE c # None
    <2>1. c \in Buses /\ refcount[c] \in 0 .. Width - 1
        BY <1>2 DEF TypeOK
    <2>2. (refcount[c] + 1) % Width \in 0 .. Width - 1
        BY <2>1, HandlesAssumption DEF HandlesAssumption
    <2>3. refcount[c] # 0 => refcount[c] - 1 \in 0 .. Width - 1
        BY <2>1, HandlesAssumption DEF HandlesAssumption
    <2>4. QED
        BY <2>1, <2>2, <2>3 DEF Locked, Released, TypeOK
<1>3. QED
    BY <1>1, <1>2

LEMMA InitTypeOK == Init => TypeOK
BY HandlesAssumption DEF Init, TypeOK, HandlesAssumption, NotAssigning

LEMMA NextTypeOK ==
    ASSUME TypeOK, [Next]_vars
    PROVE  TypeOK'
<1>1. \A h \in Handles : bus[h] \in Buses \cup {None}
    BY DEF TypeOK
<1>2. ASSUME NEW h \in Handles, Default(h)
      PROVE  TypeOK'
    BY <1>2, HandlesAssumption
    DEF Default, Point, Between, TypeOK, HandlesAssumption
<1>3. ASSUME NEW h \in Handles, NEW b \in Buses, NEW d \in Addrs,
             Construct(h, b, d)
      PROVE  TypeOK'
    BY <1>3, CountInRange DEF Construct, Point, Between, TypeOK
<1>4. ASSUME NEW h \in Handles, NEW src \in Handles, Copy(h, src)
      PROVE  TypeOK'
    BY <1>1, <1>4, CountInRange DEF Copy, Point, Between, TypeOK
<1>5. ASSUME NEW h \in Handles, NEW src \in Handles, AssignRelease(h, src)
      PROVE  TypeOK'
    BY <1>1, <1>5, CountInRange DEF AssignRelease, Between, TypeOK
<1>6. ASSUME AssignLock
      PROVE  TypeOK'
    <2>1. assigning \in [to : live, bus : Buses \cup {None}, addr : Addrs]
        BY <1>6 DEF AssignLock, Between, TypeOK
    <2>2. QED
        BY <1>6, <2>1, CountInRange DEF AssignLock, Point, TypeOK
<1>7. ASSUME NEW h \in Handles, Release(h)
      PROVE  TypeOK'
    BY <1>1, <1>7, CountInRange, HandlesAssumption
    DEF Release, Point, Between, TypeOK, HandlesAssumption
<1>8. ASSUME NEW h \in Handles, Destroy(h)
      PROVE  TypeOK'
    BY <1>1, <1>8, CountInRange, HandlesAssumption
    DEF Destroy, Point, Between, TypeOK, HandlesAssumption
<1>9. CASE UNCHANGED vars
    BY <1>9 DEF vars, TypeOK
<1>10. QED
    BY <1>2, <1>3, <1>4, <1>5, <1>6, <1>7, <1>8, <1>9 DEF Next

LEMMA InitHandlesInv ==
    ASSUME Start = {0}, Init
    PROVE  HandlesInv
<1>1. \A b \in Buses : Holders(b) = {}
    BY DEF Init, Holders
<1>2. CountsHolders
    BY <1>1, FS_EmptySet DEF Init, CountsHolders
<1>3. TypeOK
    BY InitTypeOK
<1>4. QED
    BY <1>2, <1>3 DEF HandlesInv

LEMMA NextHandlesInv ==
    ASSUME HandlesInv, [Next]_vars
    PROVE  HandlesInv'
<1> USE DEF HandlesInv
<1>1. TypeOK'
    BY NextTypeOK
<1>2. ASSUME NEW h \in Handles, Default(h)
      PROVE  Gains(h, None)
    BY <1>2, HandlesAssumption
    DEF Default, Point, Between, Gains, Locked, Holders, TypeOK,
        NotAssigning, HandlesAssumption
<1>3. ASSUME NEW h \in Handles, NEW b \in Buses, NEW d \in Addrs,
             Construct(h, b, d)
      PROVE  Gains(h, b)
    BY <1>3, HandlesAssumption
    DEF Construct, Point, Between, Gains, Holders, TypeOK,
        NotAssigning, HandlesAssumption
<1>4. ASSUME NEW h \in Handles, NEW src \in Handles, Copy(h, src)
      PROVE  Gains(h, bus[src])
    BY <1>4, HandlesAssumption
    DEF Copy, Point, Between, Gains, Holders, TypeOK,
        NotAssigning, HandlesAssumption
<1>5. ASSUME NEW h \in Handles, NEW src \in Handles, AssignRelease(h, src)
      PROVE  Loses(h, bus[h])
    BY <1>5, HandlesAssumption
    DEF AssignRelease, Between, Loses, Holders, TypeOK,
        NotAssigning, HandlesAssumption
<1>6. ASSUME AssignLock
      PROVE  /\ assigning.to \in Handles
             /\ assigning.bus \in Buses \cup {None}
             /\ Gains(assigning.to, assigning.bus)
    <2>1. /\ assigning \in [to : live, bus : Buses \cup {None}, addr : Addrs]
          /\ assigning.to \in Handles
        BY <1>6 DEF AssignLock, Between, TypeOK
    <2>2. Gains(assigning.to, assigning.bus)
        BY <1>6, <2>1, HandlesAssumption
        DEF AssignLock, Point, Gains, Holders, TypeOK, NotAssigning,
            HandlesAssumption
    <2>3. QED
        BY <2>1, <2>2
<1>7. ASSUME NEW h \in Handles, Release(h)
      PROVE  Loses(h, bus[h])
    BY <1>7, HandlesAssumption
    DEF Release, Point, Between, Loses, Holders, TypeOK,
        NotAssigning, HandlesAssumption
<1>8. ASSUME NEW h \in Handles, Destroy(h)
      PROVE  Loses(h, bus[h])
    BY <1>8, HandlesAssumption
    DEF Destroy, Point, Between, Loses, Holders, TypeOK,
        NotAssigning, HandlesAssumption
<1>9. CASE UNCHANGED vars
    BY <1>1, <1>9 DEF vars, CountsHolders, Holders
<1>10. \A h \in Handles : bus[h] \in Buses \cup {None}
    BY DEF TypeOK
<1>11. QED
    BY <1>1, <1>2, <1>3, <1>4, <1>5, <1>6, <1>7, <1>8, <1>9, <1>10,
       GainCounts, LossCounts DEF Next

(* The count of a bus stays an unsigned and every handle points to a bus   *)
(* or to none (modbus.h:117-155), whatever the counts started from.        *)
THEOREM TypeInvariant == Spec => []TypeOK
<1>1. Init => TypeOK
    BY InitTypeOK
<1>2. TypeOK /\ [Next]_vars => TypeOK'
    BY NextTypeOK
<1>3. QED
    BY <1>1, <1>2, PTL DEF Spec

(* Through every copy, assignment, release and destruction the count of a  *)
(* bus is the number of handles that hold it (modbus.h:57), provided that  *)
(* it was zero when the bus was made.                                      *)
THEOREM CountIsOfHolders == Start = {0} => (Spec => []CountsHolders)
<1> SUFFICES ASSUME Start = {0}
             PROVE  Spec => []CountsHolders
    OBVIOUS
<1>1. Init => HandlesInv
    BY InitHandlesInv
<1>2. HandlesInv /\ [Next]_vars => HandlesInv'
    BY NextHandlesInv
<1>3. HandlesInv => CountsHolders
    BY DEF HandlesInv
<1>4. QED
    BY <1>1, <1>2, <1>3, PTL DEF Spec

----------------------------------------------------------------------------
(* The clean-up stack.                                                     *)

(* Tasks are called while the stack is cleared, and what lies above the    *)
(* one that is called was added by a task.                                 *)
InOrder ==
    /\ v \in Seq(Nat) /\ added \in Nat
    /\ LastInFirstOut
    /\ running # 0 => phase \in {"clear", "exit"}
    /\ \A i \in DOMAIN v : v[i] > running => running = 0 \/ v[i] \notin byProgram

LEMMA StackTypes ==
    ASSUME InOrder
    PROVE  /\ v \in Seq(Nat) /\ Len(v) \in Nat /\ DOMAIN v = 1 .. Len(v) /\ added \in Nat
           /\ \A i \in DOMAIN v : v[i] \in 1 .. added
           /\ byProgram \subseteq 1 .. added /\ called \subseteq 1 .. added
           /\ \A i, j \in DOMAIN v : i < j => v[i] < v[j]
           /\ byProgram \ called \subseteq CleanUp!ToSet(v)
           /\ running # 0 => running \in CleanUp!ToSet(v) /\ running \in called
           /\ phase \in {"use", "clear", "exit", "gone"}
<1>1. v \in Seq(Nat) /\ Len(v) \in Nat /\ DOMAIN v = 1 .. Len(v) /\ added \in Nat
  BY LenProperties DEF InOrder
<1>2. CleanUp!ToSet(v) \subseteq 1 .. added /\ byProgram \subseteq 1 .. added /\ called \subseteq 1 .. added
  BY DEF InOrder, LastInFirstOut, CleanUp!TypeOK
<1>3. \A i \in DOMAIN v : v[i] \in CleanUp!ToSet(v)
  BY DEF CleanUp!ToSet
<1> QED
  BY <1>1, <1>2, <1>3 DEF InOrder, LastInFirstOut, CleanUp!TypeOK, CleanUp!LastInFirstOut

LEMMA StartInOrder == CleanUp!Init => InOrder
<1> SUFFICES ASSUME CleanUp!Init PROVE InOrder
  OBVIOUS
<1>1. v = <<>> /\ running = 0 /\ phase = "use" /\ added = 0 /\ byProgram = {} /\ called = {}
  BY DEF CleanUp!Init
<1>2. CleanUp!ToSet(v) = {} /\ v \in Seq(Nat) /\ DOMAIN v = {}
  BY <1>1 DEF CleanUp!ToSet
<1> QED
  BY <1>1, <1>2 DEF InOrder, LastInFirstOut, CleanUp!TypeOK, CleanUp!LastInFirstOut

(* A task is pushed.                                                       *)
LEMMA PushKeeps ==
    ASSUME InOrder, CleanUp!Push,
           byProgram' = byProgram \/ (byProgram' = byProgram \cup {added + 1} /\ running = 0)
    PROVE  InOrder'
<1>1. /\ v' = Append(v, added + 1) /\ added' = added + 1
      /\ running' = running /\ phase' = phase /\ called' = called
  BY DEF CleanUp!Push
<1>2. v' \in Seq(Nat) /\ Len(v') = Len(v) + 1 /\ DOMAIN v' = 1 .. Len(v) + 1
  BY <1>1, StackTypes, AppendProperties, LenProperties
<1>3. /\ \A i \in DOMAIN v : i \in DOMAIN v' /\ i <= Len(v) /\ v'[i] = v[i]
      /\ v'[Len(v) + 1] = added + 1 /\ Len(v) + 1 \in DOMAIN v'
      /\ \A i \in DOMAIN v' : i \in DOMAIN v \/ i = Len(v) + 1
  BY <1>1, <1>2, StackTypes, AppendProperties
<1>4. \A i, j \in DOMAIN v' : i < j => v'[i] < v'[j]
  <2>1. SUFFICES ASSUME NEW i \in DOMAIN v', NEW j \in DOMAIN v', i < j PROVE v'[i] < v'[j]
    OBVIOUS
  <2>2. i \in DOMAIN v
    BY <1>2, <1>3, <2>1, StackTypes
  <2>3. v'[i] = v[i] /\ v[i] \in 1 .. added
    BY <1>3, <2>2, StackTypes
  <2>4. CASE j \in DOMAIN v
    BY <1>3, <2>1, <2>2, <2>4, StackTypes
  <2>5. CASE j = Len(v) + 1
    BY <1>3, <2>3, <2>5, StackTypes
  <2> QED
    BY <1>3, <2>4, <2>5
<1>5. CleanUp!ToSet(v)' = CleanUp!ToSet(v) \cup {added + 1}
  BY <1>3 DEF CleanUp!ToSet
<1>6. /\ added' \in Nat
      /\ byProgram' \subseteq 1 .. added' /\ called' \subseteq 1 .. added'
      /\ CleanUp!ToSet(v)' \subseteq 1 .. added'
  <2>1. CleanUp!ToSet(v) \subseteq 1 .. added
    BY DEF InOrder, LastInFirstOut, CleanUp!TypeOK
  <2> QED
    BY <1>1, <1>5, <2>1, StackTypes
<1>7. byProgram' \ called' \subseteq CleanUp!ToSet(v)'
  BY <1>1, <1>5, StackTypes
<1>8. running' # 0 => /\ running' \in CleanUp!ToSet(v)' /\ running' \in called'
                      /\ phase' \in {"clear", "exit"}
  BY <1>1, <1>5, StackTypes DEF InOrder
<1>9. running' \in byProgram' => \A t \in byProgram' : t > running' => t \in called'
  <2>1. running \notin byProgram' \/ byProgram' = byProgram
    BY <1>6, StackTypes
  <2> QED
    BY <1>1, <2>1 DEF InOrder, LastInFirstOut, CleanUp!LastInFirstOut
<1>10. \A i \in DOMAIN v' : v'[i] > running' => running' = 0 \/ v'[i] \notin byProgram'
  <2>1. SUFFICES ASSUME NEW i \in DOMAIN v', v'[i] > running', running' # 0 PROVE v'[i] \notin byProgram'
    OBVIOUS
  <2>2. byProgram' = byProgram
    BY <1>1, <2>1
  <2>3. CASE i \in DOMAIN v
    BY <1>1, <1>3, <2>1, <2>2, <2>3 DEF InOrder
  <2>4. CASE i = Len(v) + 1
    BY <1>3, <2>2, <2>4, StackTypes
  <2> QED
    BY <1>3, <2>3, <2>4
<1> QED
  BY <1>1, <1>2, <1>4, <1>6, <1>7, <1>8, <1>9, <1>10, StackTypes
  DEF InOrder, LastInFirstOut, CleanUp!TypeOK, CleanUp!LastInFirstOut

(* The last task is called: it is the latest of all that wait.             *)
LEMMA CallKeeps ==
    ASSUME InOrder, CleanUp!Call
    PROVE  InOrder'
<1>1. /\ phase \in {"clear", "exit"} /\ running = 0 /\ v # <<>>
      /\ running' = v[Len(v)] /\ called' = called \cup {running'}
      /\ v' = v /\ phase' = phase /\ added' = added /\ byProgram' = byProgram
  BY DEF CleanUp!Call, CleanUp!Last
<1>2. Len(v) \in DOMAIN v /\ Len(v) \in Nat
  BY <1>1, StackTypes, EmptySeq
<1>3. running' \in CleanUp!ToSet(v) /\ running' \in 1 .. added
  BY <1>1, <1>2, StackTypes DEF CleanUp!ToSet
<1>4. \A i \in DOMAIN v : v[i] <= running'
  <2>1. TAKE i \in DOMAIN v
  <2>2. i = Len(v) \/ i < Len(v)
    BY <1>2, StackTypes
  <2> QED
    BY <1>1, <1>2, <1>3, <2>2, StackTypes, SMTT(30)
<1>5. \A t \in CleanUp!ToSet(v) : t <= running'
  BY <1>4 DEF CleanUp!ToSet
<1>6. \A t \in byProgram' : t > running' => t \in called'
  <2>1. SUFFICES ASSUME NEW t \in byProgram, t > running', t \notin called PROVE FALSE
    BY <1>1
  <2>2. t \in CleanUp!ToSet(v) /\ t \in Nat
    BY <2>1, StackTypes
  <2> QED
    BY <1>3, <1>5, <2>1, <2>2
<1>7. \A i \in DOMAIN v : ~(v[i] > running')
  BY <1>3, <1>4, StackTypes
<1>8. called' \subseteq 1 .. added /\ byProgram' \ called' \subseteq CleanUp!ToSet(v)
  BY <1>1, <1>3, StackTypes
<1>9. CleanUp!ToSet(v)' = CleanUp!ToSet(v)
  BY <1>1 DEF CleanUp!ToSet
<1>10. CleanUp!TypeOK'
  BY <1>1, <1>3, <1>8, <1>9 DEF InOrder, LastInFirstOut, CleanUp!TypeOK
<1> QED
  BY <1>1, <1>6, <1>7, <1>8, <1>9, <1>10 DEF InOrder, LastInFirstOut, CleanUp!LastInFirstOut

(* What is taken off has been called, or was added by a task.              *)
LEMMA ReturnKeeps ==
    ASSUME InOrder, CleanUp!Return
    PROVE  InOrder'
<1>1. /\ running # 0 /\ running' = 0 /\ v' = SubSeq(v, 1, Len(v) - 1)
      /\ phase' = phase /\ added' = added /\ byProgram' = byProgram /\ called' = called
  BY DEF CleanUp!Return, CleanUp!Front
<1>2. PICK n \in DOMAIN v : v[n] = running
  BY <1>1, StackTypes DEF CleanUp!ToSet
<1>3. Len(v) \in DOMAIN v /\ Len(v) \in Nat /\ Len(v) - 1 \in 0 .. Len(v)
  BY <1>2, StackTypes
<1>4. /\ v' \in Seq(Nat) /\ DOMAIN v' = 1 .. Len(v) - 1
      /\ \A i \in 1 .. Len(v) - 1 : v'[i] = v[i]
  <2>1. \A i \in 1 .. Len(v) - 1 : v[i] \in Nat
    BY <1>3, StackTypes
  <2>2. v' = [i \in 1 .. Len(v) - 1 |-> v[i]]
    BY <1>1, <1>3, StackTypes
  <2>3. Len(v) - 1 \in Nat
    BY <1>3
  <2> QED
    BY <2>1, <2>2, <2>3
<1>5. \A i \in DOMAIN v' : i \in DOMAIN v /\ v'[i] = v[i]
  <2>1. DOMAIN v = 1 .. Len(v)
    BY StackTypes
  <2>2. DOMAIN v' \subseteq DOMAIN v
    BY <1>3, <1>4, <2>1
  <2> QED
    BY <1>4, <2>2
<1>6. v[Len(v)] \notin byProgram \ called
  <2>1. CASE n = Len(v)
    BY <1>1, <1>2, <2>1, StackTypes
  <2>2. CASE n # Len(v)
    <3>1. n < Len(v)
      BY <1>2, <2>2, StackTypes
    <3>2. v[Len(v)] > running
      BY <1>2, <1>3, <3>1, StackTypes
    <3> QED
      BY <1>1, <1>3, <3>2 DEF InOrder
  <2> QED
    BY <2>1, <2>2
<1>7. CleanUp!ToSet(v) \subseteq CleanUp!ToSet(v)' \cup {v[Len(v)]}
  <2>1. \A i \in DOMAIN v : i = Len(v) \/ i \in DOMAIN v'
    BY <1>3, <1>4, StackTypes
  <2> QED
    BY <1>5, <2>1 DEF CleanUp!ToSet
<1>8. byProgram' \ called' \subseteq CleanUp!ToSet(v)'
  BY <1>1, <1>6, <1>7, StackTypes
<1>9. CleanUp!ToSet(v)' \subseteq 1 .. added
  BY <1>5, StackTypes DEF CleanUp!ToSet
<1>10. \A i, j \in DOMAIN v' : i < j => v'[i] < v'[j]
  BY <1>5, StackTypes
<1>11. running' \notin byProgram'
  BY <1>1, StackTypes
<1> QED
  BY <1>1, <1>4, <1>8, <1>9, <1>10, <1>11, StackTypes
  DEF InOrder, LastInFirstOut, CleanUp!TypeOK, CleanUp!LastInFirstOut

LEMMA StepInOrder ==
    ASSUME InOrder, [CleanUp!Next]_cleanUpVars
    PROVE  InOrder'
<1>1. CASE CleanUp!Add
  <2>1. running = 0
    BY <1>1 DEF CleanUp!Add, InOrder
  <2> QED
    BY <1>1, <2>1, PushKeeps DEF CleanUp!Add
<1>2. CASE CleanUp!AddInside
  BY <1>2, PushKeeps DEF CleanUp!AddInside
<1>3. ASSUME UNCHANGED <<v, added, byProgram, called>>, phase' \in {"use", "clear", "exit", "gone"},
             running' = 0 \/ (running' = running /\ phase' = phase)
      PROVE  InOrder'
  <2>1. CleanUp!ToSet(v)' = CleanUp!ToSet(v)
    BY <1>3 DEF CleanUp!ToSet
  <2>2. 0 \notin byProgram
    BY StackTypes
  <2>3. CleanUp!TypeOK'
    BY <1>3, <2>1 DEF InOrder, LastInFirstOut, CleanUp!TypeOK
  <2>4. CleanUp!LastInFirstOut'
    BY <1>3, <2>1, <2>2 DEF InOrder, LastInFirstOut, CleanUp!LastInFirstOut
  <2> QED
    BY <1>3, <2>3, <2>4 DEF InOrder, LastInFirstOut
<1>4. CASE CleanUp!Clear("clear") \/ CleanUp!Clear("exit")
  <2>1. running = 0
    BY <1>4 DEF CleanUp!Clear, InOrder
  <2> QED
    BY <1>3, <1>4, <2>1 DEF CleanUp!Clear
<1>5. CASE CleanUp!Throw \/ CleanUp!Cleared
  BY <1>3, <1>5 DEF CleanUp!Throw, CleanUp!Cleared
<1>6. CASE UNCHANGED cleanUpVars
  <2>1. phase \in {"use", "clear", "exit", "gone"}
    BY StackTypes
  <2> QED
    BY <1>3, <1>6, <2>1 DEF cleanUpVars
<1> QED
  BY <1>1, <1>2, <1>4, <1>5, <1>6, CallKeeps, ReturnKeeps DEF CleanUp!Next

LEMMA WorkOnStack ==
    [ObjectsNext]_<<part, vars, iniVars, cleanUpVars, matrixVars>> => [CleanUp!Next]_cleanUpVars
BY DEF ObjectsNext

(* "free all resources in last-in-first-out order" (destroyer.h:46-48):    *)
(* whatever tasks throw or add, and however often the stack is cleared, a  *)
(* task the program added is called for the first time when all the later  *)
(* ones have been, and is kept until then.                                 *)
THEOREM TasksKeepTheirOrder == ObjectsSpec => []LastInFirstOut
<1>1. ObjectsInit => InOrder
  BY StartInOrder DEF ObjectsInit
<1>2. InOrder /\ [ObjectsNext]_<<part, vars, iniVars, cleanUpVars, matrixVars>> => InOrder'
  BY StepInOrder, WorkOnStack
<1>3. InOrder => LastInFirstOut
  BY DEF InOrder
<1> QED
  BY <1>1, <1>2, <1>3, PTL DEF ObjectsSpec

----------------------------------------------------------------------------
(* The INI loader is a dictionary of dictionaries.                         *)

(* Every set of natural numbers has a least one.                           *)
LEMMA LeastExists ==
    ASSUME NEW S \in SUBSET Nat, S # {}
    PROVE  \E n \in S : \A m \in S : n <= m
  <1> DEFINE T == {0 .. u : u \in S}
  <1>1. T \subseteq FiniteSubsetsOf(Nat) /\ T # {}
    <2>1. ASSUME NEW u \in S PROVE 0 .. u \in FiniteSubsetsOf(Nat)
      <3>1. IsFiniteSet(0 .. u) 
        BY FS_Interval
      <3>2. 0 .. u \in SUBSET Nat
        OBVIOUS
      <3> QED
        BY <3>1, <3>2, Zenon DEF FiniteSubsetsOf
    <2> QED
      BY <2>1
  <1>2. PICK X \in T : \A Y \in T : ~(<<Y, X>> \in StrictSubsetOrdering(Nat))
    <2> HIDE DEF T
    <2> QED
      BY <1>1, FS_StrictSubsetOrderingWellFounded, WFMin, Zenon
  <1>3. PICK u \in S : X = 0 .. u
    OBVIOUS
  <1>4. ASSUME NEW y \in S, y < u PROVE FALSE
    <2>1. 0 .. y \in T /\ 0 .. y \in SUBSET Nat /\ 0 .. u \in SUBSET Nat
      OBVIOUS
    <2>2. 0 .. y \subseteq 0 .. u /\ u \in 0 .. u /\ u \notin 0 .. y
      <3>1. y \in Nat /\ u \in Nat
        OBVIOUS
      <3> QED
        BY <1>4, <3>1
    <2>3. <<0 .. y, 0 .. u>> \in StrictSubsetOrdering(Nat)
      BY <2>1, <2>2 DEF StrictSubsetOrdering
    <2> QED
      BY <1>2, <1>3, <2>1, <2>3
  <1>5. ASSUME NEW y \in S PROVE u <= y
    <2>1. y \in Nat /\ u \in Nat
      OBVIOUS
    <2> QED
      BY <1>4, <2>1
  <1> QED
    BY <1>5

(* What a search of a sequence selects.                                    *)
LEMMA SelectsTheFirst ==
    ASSUME NEW n \in Nat, NEW S \in SUBSET (1 .. n)
    PROVE  LET r == IF S # {} THEN Ini!Min(S) ELSE 0
           IN  r \in 0 .. n /\ (r = 0 <=> S = {}) /\ (r # 0 => r \in S)
<1>1. CASE S = {}
  BY <1>1
<1>2. CASE S # {}
  <2>1. S \in SUBSET Nat
    OBVIOUS
  <2>2. PICK r : r = Ini!Min(S)
    OBVIOUS
  <2>3. r \in S
    BY <1>2, <2>1, <2>2, LeastExists DEF Ini!Min
  <2>4. r \in 0 .. n /\ r # 0
    BY <2>3
  <2> QED
    BY <1>2, <2>2, <2>3, <2>4
<1> QED
  BY <1>1, <1>2

IsSeq(s) == \E S : s \in Seq(S)

LEMMA SeqFacts ==
    ASSUME NEW s, IsSeq(s)
    PROVE  /\ Len(s) \in Nat /\ DOMAIN s = 1 .. Len(s) /\ s = [i \in 1 .. Len(s) |-> s[i]]
           /\ \A e : /\ IsSeq(Append(s, e)) /\ DOMAIN Append(s, e) = 1 .. Len(s) + 1
                    /\ Append(s, e)[Len(s) + 1] = e
                    /\ \A i \in DOMAIN s : Append(s, e)[i] = s[i]
<1>1. PICK S : s \in Seq(S)
  BY DEF IsSeq
<1>2. Len(s) \in Nat /\ DOMAIN s = 1 .. Len(s)
  BY <1>1, LenProperties
<1>3. s = [i \in 1 .. Len(s) |-> s[i]]
  BY <1>1
<1>4. ASSUME NEW e
      PROVE  /\ IsSeq(Append(s, e)) /\ DOMAIN Append(s, e) = 1 .. Len(s) + 1
             /\ Append(s, e)[Len(s) + 1] = e
             /\ \A i \in DOMAIN s : Append(s, e)[i] = s[i]
  <2>1. s \in Seq(S \cup {e})
    BY <1>1
  <2>2. Append(s, e) \in Seq(S \cup {e})
    BY <2>1
  <2>3. Len(Append(s, e)) = Len(s) + 1
    BY <2>1
  <2>4. DOMAIN Append(s, e) = 1 .. Len(s) + 1
    BY <2>2, <2>3, LenProperties
  <2>5. Append(s, e)[Len(s) + 1] = e /\ \A i \in 1 .. Len(s) : Append(s, e)[i] = s[i]
    BY <2>1, AppendProperties
  <2> QED
    BY <1>2, <2>2, <2>4, <2>5 DEF IsSeq
<1> QED
  BY <1>2, <1>3, <1>4

(* A sequence of records with names, and what its names stand for when the *)
(* record at i stands for f[i].                                            *)
NamesOf(s)  == {s[i].name : i \in DOMAIN s}
Distinct(s) == \A i, j \in DOMAIN s : s[i].name = s[j].name => i = j
Found(s, n) == Ini!SelectInSeq(s, LAMBDA e : e.name = n)
MapOf(s, f) == [n \in NamesOf(s) |-> f[Found(s, n)]]

LEMMA FoundIs ==
    ASSUME NEW s, IsSeq(s), NEW n
    PROVE  /\ Found(s, n) \in 0 .. Len(s)
           /\ Found(s, n) = 0 <=> n \notin NamesOf(s)
           /\ Found(s, n) # 0 => Found(s, n) \in DOMAIN s /\ s[Found(s, n)].name = n
<1> DEFINE S == {i \in 1 .. Len(s) : s[i].name = n}
<1>1. Found(s, n) = IF S # {} THEN Ini!Min(S) ELSE 0
  BY DEF Found, Ini!SelectInSeq
<1>2. Len(s) \in Nat /\ DOMAIN s = 1 .. Len(s) /\ S \in SUBSET (1 .. Len(s))
  BY SeqFacts
<1>3. Found(s, n) \in 0 .. Len(s) /\ (Found(s, n) = 0 <=> S = {}) /\ (Found(s, n) # 0 => Found(s, n) \in S)
  <2> HIDE DEF S
  <2> QED
    BY <1>1, <1>2, SelectsTheFirst
<1>4. S = {} <=> n \notin NamesOf(s)
  BY <1>2 DEF NamesOf
<1> QED
  BY <1>2, <1>3, <1>4

LEMMA FoundOfDistinct ==
    ASSUME NEW s, IsSeq(s), Distinct(s), NEW i \in DOMAIN s
    PROVE  Found(s, s[i].name) = i /\ s[i].name \in NamesOf(s)
<1>1. s[i].name \in NamesOf(s)
  BY DEF NamesOf
<1> QED
  BY <1>1, FoundIs DEF Distinct

(* A record is put at the end.                                             *)
LEMMA MapOfLonger ==
    ASSUME NEW s, IsSeq(s), Distinct(s), NEW e, e.name \notin NamesOf(s),
           NEW f, NEW g, \A i \in DOMAIN s : g[i] = f[i]
    PROVE  /\ Distinct(Append(s, e))
           /\ MapOf(Append(s, e), g) = Ini!Store!Updated(MapOf(s, f), e.name, g[Len(s) + 1])
<1> DEFINE t == Append(s, e)
<1>1. /\ Len(s) \in Nat /\ DOMAIN s = 1 .. Len(s)
      /\ IsSeq(t) /\ DOMAIN t = 1 .. Len(s) + 1 /\ t[Len(s) + 1] = e
      /\ \A i \in DOMAIN s : t[i] = s[i]
  BY SeqFacts
<1> HIDE DEF t
<1>2. \A i \in DOMAIN t : i \in DOMAIN s \/ i = Len(s) + 1
  BY <1>1
<1>3. \A i \in DOMAIN s : s[i].name # e.name
  BY DEF NamesOf
<1>4. Distinct(t)
  BY <1>1, <1>2, <1>3 DEF Distinct
<1>5. NamesOf(t) = NamesOf(s) \cup {e.name}
  <2>1. Len(s) + 1 \in DOMAIN t /\ \A i \in DOMAIN s : i \in DOMAIN t
    BY <1>1
  <2> QED
    BY <1>1, <1>2, <2>1 DEF NamesOf
<1>6. ASSUME NEW n \in NamesOf(s) PROVE Found(t, n) = Found(s, n) /\ Found(s, n) \in DOMAIN s
  <2>1. Found(s, n) \in DOMAIN s /\ s[Found(s, n)].name = n
    BY FoundIs
  <2>2. Found(s, n) \in DOMAIN t /\ t[Found(s, n)].name = n
    BY <1>1, <2>1
  <2> QED
    BY <1>1, <1>4, <2>1, <2>2, FoundOfDistinct
<1>7. Found(t, e.name) = Len(s) + 1
  <2>1. Len(s) + 1 \in DOMAIN t
    BY <1>1
  <2> QED
    BY <1>1, <1>4, <2>1, FoundOfDistinct
<1>8. DOMAIN MapOf(s, f) = NamesOf(s) /\ \A n \in NamesOf(s) : MapOf(s, f)[n] = f[Found(s, n)]
  BY DEF MapOf
<1>9. ASSUME NEW n \in NamesOf(t)
      PROVE  g[Found(t, n)] = IF n = e.name THEN g[Len(s) + 1] ELSE MapOf(s, f)[n]
  BY <1>5, <1>6, <1>7, <1>8
<1>10. MapOf(t, g) = [n \in NamesOf(s) \cup {e.name} |->
                        IF n = e.name THEN g[Len(s) + 1] ELSE MapOf(s, f)[n]]
  BY <1>5, <1>9, ZenonT(30) DEF MapOf
<1> QED
  BY <1>4, <1>8, <1>10 DEF t, Ini!Store!Updated

(* The record at i is changed, not its name.                               *)
LEMMA MapOfChanged ==
    ASSUME NEW s, IsSeq(s), Distinct(s), NEW i \in DOMAIN s,
           NEW t, IsSeq(t), DOMAIN t = DOMAIN s, \A j \in DOMAIN s : t[j].name = s[j].name,
           NEW f, NEW g, \A j \in DOMAIN s : j # i => g[j] = f[j]
    PROVE  /\ Distinct(t)
           /\ MapOf(t, g) = Ini!Store!Updated(MapOf(s, f), s[i].name, g[i])
<1>1. Distinct(t) /\ NamesOf(t) = NamesOf(s)
  BY DEF Distinct, NamesOf
<1>2. ASSUME NEW n \in NamesOf(s) PROVE Found(t, n) = Found(s, n) /\ Found(s, n) \in DOMAIN s
  <2>1. Found(s, n) \in DOMAIN s /\ s[Found(s, n)].name = n
    BY FoundIs
  <2>2. Found(t, t[Found(s, n)].name) = Found(s, n)
    BY <1>1, <2>1, FoundOfDistinct
  <2> QED
    BY <2>1, <2>2
<1>3. Found(s, s[i].name) = i /\ s[i].name \in NamesOf(s)
  BY FoundOfDistinct
<1>4. \A n \in NamesOf(s) : n # s[i].name => Found(s, n) # i
  BY FoundIs
<1>5. DOMAIN MapOf(s, f) = NamesOf(s) /\ \A n \in NamesOf(s) : MapOf(s, f)[n] = f[Found(s, n)]
  BY DEF MapOf
<1>6. ASSUME NEW n \in NamesOf(s)
      PROVE  g[Found(t, n)] = IF n = s[i].name THEN g[i] ELSE MapOf(s, f)[n]
  BY <1>2, <1>3, <1>4, <1>5
<1>7. MapOf(t, g) = [n \in NamesOf(s) |-> IF n = s[i].name THEN g[i] ELSE MapOf(s, f)[n]]
  BY <1>1, <1>6 DEF MapOf
<1>8. NamesOf(s) \cup {s[i].name} = NamesOf(s)
  BY <1>3
<1> QED
  BY <1>1, <1>5, <1>7, <1>8 DEF Ini!Store!Updated

(* The keys of a group, and the groups of the loader.                      *)
Keyed(s)   == IsSeq(s) /\ \A i \in DOMAIN s : s[i] = [name |-> s[i].name, value |-> s[i].value]
Grouped(c) == IsSeq(c) /\ \A i \in DOMAIN c : /\ c[i] = [name |-> c[i].name, keys |-> c[i].keys]
                                             /\ Keyed(c[i].keys)
KeysOf(s)   == MapOf(s, [i \in DOMAIN s |-> s[i].value])
GroupsOf(c) == MapOf(c, [i \in DOMAIN c |-> KeysOf(c[i].keys)])

WithKey(s, k, y) == Append(s, [name |-> k, value |-> y])

LEMMA KeyPushed ==
    ASSUME NEW s, Keyed(s), NEW k, NEW y, NEW t, t = WithKey(s, k, y)
    PROVE  /\ Keyed(t)
           /\ Distinct(s) /\ Found(s, k) = 0 => /\ Distinct(t)
                                               /\ KeysOf(t) = Ini!Store!Updated(KeysOf(s), k, y)
<1> DEFINE e == [name |-> k, value |-> y]
<1>1. e.name = k /\ e.value = y /\ IsSeq(s)
  BY DEF Keyed
<1>2. /\ Len(s) \in Nat /\ DOMAIN s = 1 .. Len(s)
      /\ IsSeq(t) /\ DOMAIN t = 1 .. Len(s) + 1 /\ t[Len(s) + 1] = e
      /\ \A i \in DOMAIN s : t[i] = s[i]
  BY <1>1, SeqFacts DEF WithKey
<1>3. Keyed(t)
  <2>1. \A i \in DOMAIN t : i \in DOMAIN s \/ i = Len(s) + 1
    BY <1>2
  <2>2. \A i \in DOMAIN s : t[i] = [name |-> t[i].name, value |-> t[i].value]
    BY <1>2 DEF Keyed
  <2>3. t[Len(s) + 1] = [name |-> t[Len(s) + 1].name, value |-> t[Len(s) + 1].value]
    BY <1>2
  <2> QED
    BY <1>2, <2>1, <2>2, <2>3, Zenon DEF Keyed
<1>4. ASSUME Distinct(s), Found(s, k) = 0
      PROVE  Distinct(t) /\ KeysOf(t) = Ini!Store!Updated(KeysOf(s), k, y)
  <2> DEFINE f == [i \in DOMAIN s |-> s[i].value]
             g == [i \in DOMAIN t |-> t[i].value]
  <2>1. e.name \notin NamesOf(s)
    BY <1>1, <1>4, FoundIs
  <2>2. \A i \in DOMAIN s : g[i] = f[i]
    BY <1>2
  <2>3. g[Len(s) + 1] = y
    BY <1>1, <1>2
  <2> HIDE DEF e, f, g
  <2>4. Distinct(Append(s, e)) /\ MapOf(Append(s, e), g) = Ini!Store!Updated(MapOf(s, f), e.name, g[Len(s) + 1])
    BY <1>1, <1>4, <2>1, <2>2, MapOfLonger
  <2>5. t = Append(s, e)
    BY DEF e, WithKey
  <2>6. Distinct(t) /\ MapOf(t, g) = Ini!Store!Updated(MapOf(s, f), k, y)
    BY <1>1, <2>3, <2>4, <2>5
  <2> QED
    BY <2>6 DEF KeysOf, f, g
<1> QED
  BY <1>3, <1>4

(* A member of a sequence is replaced, or a field of it.                   *)
Replaced(s, i, e)  == [s EXCEPT ![i] = e]
WithValue(s, i, y) == [s EXCEPT ![i].value = y]
WithKeys(c, i, s)  == [c EXCEPT ![i].keys = s]

LEMMA SeqChanged ==
    ASSUME NEW s, IsSeq(s), NEW i \in DOMAIN s, NEW e, NEW t, t = Replaced(s, i, e)
    PROVE  IsSeq(t) /\ DOMAIN t = DOMAIN s /\ t[i] = e /\ \A j \in DOMAIN s : j # i => t[j] = s[j]
<1>1. PICK S : s \in Seq(S)
  BY DEF IsSeq
<1>2. i \in 1 .. Len(s)
  BY SeqFacts
<1>3. PICK T : T = S \cup {e}
  OBVIOUS
<1>4. s \in Seq(T) /\ e \in T
  BY <1>1, <1>3
<1>5. [s EXCEPT ![i] = e] \in Seq(T)
  BY <1>2, <1>4, ExceptSeq
<1>6. t = [s EXCEPT ![i] = e]
  BY DEF Replaced
<1>7. IsSeq(t)
  BY <1>5, <1>6, Zenon DEF IsSeq
<1> QED
  BY <1>6, <1>7

LEMMA KeyChanged ==
    ASSUME NEW s, Keyed(s), NEW i \in DOMAIN s, NEW y,
           NEW t, IsSeq(t), DOMAIN t = DOMAIN s, t[i] = [name |-> s[i].name, value |-> y],
           \A j \in DOMAIN s : j # i => t[j] = s[j]
    PROVE  /\ Keyed(t)
           /\ Distinct(s) => /\ Distinct(t)
                            /\ KeysOf(t) = Ini!Store!Updated(KeysOf(s), s[i].name, y)
<1>1. \A j \in DOMAIN t : t[j] = [name |-> t[j].name, value |-> t[j].value]
  <2>1. t[i] = [name |-> t[i].name, value |-> t[i].value]
    OBVIOUS
  <2>2. \A j \in DOMAIN s : j # i => t[j] = [name |-> t[j].name, value |-> t[j].value]
    BY DEF Keyed
  <2> QED
    BY <2>1, <2>2, Zenon
<1>2. Keyed(t) /\ IsSeq(s)
  BY <1>1 DEF Keyed
<1> DEFINE f == [j \in DOMAIN s |-> s[j].value]
           g == [j \in DOMAIN t |-> t[j].value]
<1>3. \A j \in DOMAIN s : j # i => g[j] = f[j]
  OBVIOUS
<1>4. g[i] = y
  OBVIOUS
<1>5. \A j \in DOMAIN s : t[j].name = s[j].name
  OBVIOUS
<1> HIDE DEF f, g
<1>6. Distinct(s) => Distinct(t) /\ MapOf(t, g) = Ini!Store!Updated(MapOf(s, f), s[i].name, g[i])
  BY <1>2, <1>3, <1>5, MapOfChanged
<1> QED
  BY <1>2, <1>4, <1>6 DEF KeysOf, f, g

LEMMA KeySet ==
    ASSUME NEW s, Keyed(s), NEW k, NEW y, Found(s, k) # 0,
           NEW t, t = WithValue(s, Found(s, k), y)
    PROVE  /\ Keyed(t)
           /\ Distinct(s) => /\ Distinct(t)
                            /\ KeysOf(t) = Ini!Store!Updated(KeysOf(s), k, y)
<1>1. PICK i : i = Found(s, k)
  OBVIOUS
<1>2. IsSeq(s)
  BY DEF Keyed
<1>3. i \in DOMAIN s /\ s[i].name = k
  BY <1>1, <1>2, FoundIs
<1>4. t = [s EXCEPT ![i] = [s[i] EXCEPT !.value = y]]
  BY <1>1 DEF WithValue
<1>5. [s[i] EXCEPT !.value = y] = [name |-> s[i].name, value |-> y]
  BY <1>3 DEF Keyed
<1>6. PICK e : e = [name |-> s[i].name, value |-> y]
  OBVIOUS
<1>7. t = Replaced(s, i, e)
  BY <1>4, <1>5, <1>6 DEF Replaced
<1>8. IsSeq(t) /\ DOMAIN t = DOMAIN s /\ t[i] = e /\ \A j \in DOMAIN s : j # i => t[j] = s[j]
  BY <1>2, <1>3, <1>7, SeqChanged
<1>9. /\ Keyed(t)
      /\ Distinct(s) => /\ Distinct(t)
                       /\ KeysOf(t) = Ini!Store!Updated(KeysOf(s), s[i].name, y)
  BY <1>3, <1>6, <1>8, KeyChanged
<1> QED
  BY <1>3, <1>9

WithGroup(c, n, s) == Append(c, [name |-> n, keys |-> s])

LEMMA GroupPushed ==
    ASSUME NEW c, Grouped(c), Distinct(c), NEW n, Found(c, n) = 0, NEW s, Keyed(s),
           NEW d, d = WithGroup(c, n, s)
    PROVE  /\ Grouped(d) /\ Distinct(d) /\ DOMAIN d = 1 .. Len(c) + 1
           /\ d[Len(c) + 1] = [name |-> n, keys |-> s] /\ \A i \in DOMAIN c : d[i] = c[i]
           /\ GroupsOf(d) = Ini!Store!Updated(GroupsOf(c), n, KeysOf(s))
<1> DEFINE e == [name |-> n, keys |-> s]
<1>1. e.name = n /\ e.keys = s /\ IsSeq(c)
  BY DEF Grouped
<1>2. /\ Len(c) \in Nat /\ DOMAIN c = 1 .. Len(c)
      /\ IsSeq(d) /\ DOMAIN d = 1 .. Len(c) + 1 /\ d[Len(c) + 1] = e
      /\ \A i \in DOMAIN c : d[i] = c[i]
  BY <1>1, SeqFacts DEF WithGroup
<1>3. Grouped(d)
  <2>1. \A i \in DOMAIN d : i \in DOMAIN c \/ i = Len(c) + 1
    BY <1>2
  <2>2. \A i \in DOMAIN c : d[i] = [name |-> d[i].name, keys |-> d[i].keys] /\ Keyed(d[i].keys)
    BY <1>2 DEF Grouped
  <2>3. /\ d[Len(c) + 1] = [name |-> d[Len(c) + 1].name, keys |-> d[Len(c) + 1].keys]
        /\ Keyed(d[Len(c) + 1].keys)
    BY <1>1, <1>2
  <2> QED
    BY <1>2, <2>1, <2>2, <2>3, Zenon DEF Grouped
<1> DEFINE f == [i \in DOMAIN c |-> KeysOf(c[i].keys)]
           g == [i \in DOMAIN d |-> KeysOf(d[i].keys)]
<1>4. e.name \notin NamesOf(c)
  BY <1>1, FoundIs
<1>5. \A i \in DOMAIN c : i \in DOMAIN d
  BY <1>2
<1>6. \A i \in DOMAIN c : g[i] = f[i]
  BY <1>2, <1>5
<1>7. Len(c) + 1 \in DOMAIN d
  BY <1>2
<1>8. g[Len(c) + 1] = KeysOf(s)
  BY <1>1, <1>2, <1>7
<1> HIDE DEF e, f, g
<1>9. Distinct(Append(c, e)) /\ MapOf(Append(c, e), g) = Ini!Store!Updated(MapOf(c, f), e.name, g[Len(c) + 1])
  BY <1>1, <1>4, <1>6, MapOfLonger
<1>10. d = Append(c, e)
  BY DEF e, WithGroup
<1>11. Distinct(d) /\ MapOf(d, g) = Ini!Store!Updated(MapOf(c, f), n, KeysOf(s))
  BY <1>1, <1>8, <1>9, <1>10
<1> QED
  BY <1>2, <1>3, <1>11 DEF GroupsOf, e, f, g

LEMMA GroupRenewed ==
    ASSUME NEW c, Grouped(c), Distinct(c), NEW i \in DOMAIN c, NEW s, Keyed(s),
           NEW d, IsSeq(d), DOMAIN d = DOMAIN c, d[i] = [name |-> c[i].name, keys |-> s],
           \A j \in DOMAIN c : j # i => d[j] = c[j]
    PROVE  /\ Grouped(d) /\ Distinct(d)
           /\ GroupsOf(d) = Ini!Store!Updated(GroupsOf(c), c[i].name, KeysOf(s))
<1>1. Grouped(d)
  <2>1. d[i] = [name |-> d[i].name, keys |-> d[i].keys] /\ Keyed(d[i].keys)
    OBVIOUS
  <2>2. \A j \in DOMAIN c : j # i => d[j] = [name |-> d[j].name, keys |-> d[j].keys] /\ Keyed(d[j].keys)
    BY DEF Grouped
  <2> QED
    BY <2>1, <2>2, Zenon DEF Grouped
<1>2. IsSeq(c)
  BY DEF Grouped
<1> DEFINE f == [j \in DOMAIN c |-> KeysOf(c[j].keys)]
           g == [j \in DOMAIN d |-> KeysOf(d[j].keys)]
<1>3. \A j \in DOMAIN c : j # i => g[j] = f[j]
  OBVIOUS
<1>4. g[i] = KeysOf(s)
  OBVIOUS
<1>5. \A j \in DOMAIN c : d[j].name = c[j].name
  OBVIOUS
<1> HIDE DEF f, g
<1>6. Distinct(d) /\ MapOf(d, g) = Ini!Store!Updated(MapOf(c, f), c[i].name, g[i])
  BY <1>2, <1>3, <1>5, MapOfChanged
<1> QED
  BY <1>1, <1>4, <1>6 DEF GroupsOf, f, g

LEMMA GroupChanged ==
    ASSUME NEW c, Grouped(c), Distinct(c), NEW i \in DOMAIN c, NEW s, Keyed(s),
           NEW d, d = WithKeys(c, i, s)
    PROVE  /\ Grouped(d) /\ Distinct(d) /\ DOMAIN d = DOMAIN c
           /\ d[i] = [name |-> c[i].name, keys |-> s] /\ \A j \in DOMAIN c : j # i => d[j] = c[j]
           /\ GroupsOf(d) = Ini!Store!Updated(GroupsOf(c), c[i].name, KeysOf(s))
<1>0. IsSeq(c)
  BY DEF Grouped
<1>1. d = [c EXCEPT ![i] = [c[i] EXCEPT !.keys = s]]
  BY DEF WithKeys
<1>2. [c[i] EXCEPT !.keys = s] = [name |-> c[i].name, keys |-> s]
  BY DEF Grouped
<1>3. PICK e : e = [name |-> c[i].name, keys |-> s]
  OBVIOUS
<1>4. d = Replaced(c, i, e)
  BY <1>1, <1>2, <1>3 DEF Replaced
<1>5. IsSeq(d) /\ DOMAIN d = DOMAIN c /\ d[i] = e /\ \A j \in DOMAIN c : j # i => d[j] = c[j]
  BY <1>0, <1>4, SeqChanged
<1>6. /\ Grouped(d) /\ Distinct(d)
      /\ GroupsOf(d) = Ini!Store!Updated(GroupsOf(c), c[i].name, KeysOf(s))
  BY <1>3, <1>5, GroupRenewed
<1> QED
  BY <1>3, <1>5, <1>6

(* What the user is shown of a group, and of one that is not there.        *)
LEMMA GroupIn ==
    ASSUME NEW c, Grouped(c), Distinct(c)
    PROVE  /\ DOMAIN GroupsOf(c) = NamesOf(c)
           /\ \A i \in DOMAIN c : /\ c[i].name \in DOMAIN GroupsOf(c)
                                  /\ GroupsOf(c)[c[i].name] = KeysOf(c[i].keys)
<1>1. IsSeq(c)
  BY DEF Grouped
<1> DEFINE f == [i \in DOMAIN c |-> KeysOf(c[i].keys)]
<1>2. DOMAIN MapOf(c, f) = NamesOf(c) /\ \A n \in NamesOf(c) : MapOf(c, f)[n] = f[Found(c, n)]
  BY DEF MapOf
<1>3. \A i \in DOMAIN c : Found(c, c[i].name) = i /\ c[i].name \in NamesOf(c)
  BY <1>1, FoundOfDistinct
<1>4. \A i \in DOMAIN c : f[i] = KeysOf(c[i].keys)
  OBVIOUS
<1> HIDE DEF f
<1>5. \A i \in DOMAIN c : MapOf(c, f)[c[i].name] = KeysOf(c[i].keys)
  BY <1>2, <1>3, <1>4
<1> QED
  BY <1>2, <1>3, <1>5 DEF GroupsOf, f

LEMMA NoKeys == Keyed(<<>>) /\ Distinct(<<>>) /\ KeysOf(<<>>) = Ini!Store!Nothing
<1>1. <<>> \in Seq({}) /\ DOMAIN <<>> = {}
  OBVIOUS
<1>2. Keyed(<<>>) /\ Distinct(<<>>)
  BY <1>1 DEF Keyed, IsSeq, Distinct
<1>3. NamesOf(<<>>) = {}
  BY <1>1 DEF NamesOf
<1> QED
  BY <1>2, <1>3 DEF KeysOf, MapOf, Ini!Store!Nothing

LEMMA NoGroups == Grouped(<<>>) /\ Distinct(<<>>) /\ GroupsOf(<<>>) = Ini!Store!Nothing
<1>1. <<>> \in Seq({}) /\ DOMAIN <<>> = {}
  OBVIOUS
<1>2. Grouped(<<>>) /\ Distinct(<<>>)
  BY <1>1 DEF Grouped, IsSeq, Distinct
<1>3. NamesOf(<<>>) = {}
  BY <1>1 DEF NamesOf
<1> QED
  BY <1>2, <1>3 DEF GroupsOf, MapOf, Ini!Store!Nothing

(* The dictionary of the specification, of the groups c.                   *)
DictionaryOf(c) ==
    [g \in {c[n].name : n \in DOMAIN c} |->
        [k \in {key.name : key \in {c[Found(c, g)].keys[i] : i \in DOMAIN c[Found(c, g)].keys}} |->
            c[Found(c, g)].keys[Found(c[Found(c, g)].keys, k)].value]]

LEMMA DictionaryIs ==
    ASSUME NEW c, Grouped(c)
    PROVE  DictionaryOf(c) = GroupsOf(c)
<1>1. ASSUME NEW s, Keyed(s)
      PROVE  KeysOf(s) = [k \in {key.name : key \in {s[i] : i \in DOMAIN s}} |-> s[Found(s, k)].value]
  <2>1. IsSeq(s)
    BY <1>1 DEF Keyed
  <2>2. NamesOf(s) = {key.name : key \in {s[i] : i \in DOMAIN s}}
    BY DEF NamesOf
  <2> DEFINE f == [i \in DOMAIN s |-> s[i].value]
  <2>3. \A k \in NamesOf(s) : Found(s, k) \in DOMAIN s
    BY <2>1, FoundIs
  <2>4. \A k \in NamesOf(s) : f[Found(s, k)] = s[Found(s, k)].value
    BY <2>3
  <2> HIDE DEF f
  <2>5. MapOf(s, f) = [k \in NamesOf(s) |-> s[Found(s, k)].value]
    BY <2>4 DEF MapOf
  <2> QED
    BY <2>2, <2>5 DEF KeysOf, f
<1>2. IsSeq(c)
  BY DEF Grouped
<1>3. \A g \in NamesOf(c) : Found(c, g) \in DOMAIN c
  BY <1>2, FoundIs
<1>4. \A g \in NamesOf(c) : Keyed(c[Found(c, g)].keys)
  BY <1>3 DEF Grouped
<1> DEFINE f == [i \in DOMAIN c |-> KeysOf(c[i].keys)]
           Shown(s) == [k \in {key.name : key \in {s[i] : i \in DOMAIN s}} |-> s[Found(s, k)].value]
<1>5. \A g \in NamesOf(c) : f[Found(c, g)] = KeysOf(c[Found(c, g)].keys)
  BY <1>3
<1>6. \A g \in NamesOf(c) : KeysOf(c[Found(c, g)].keys) = Shown(c[Found(c, g)].keys)
  BY <1>1, <1>4
<1>7. DictionaryOf(c) = [g \in NamesOf(c) |-> Shown(c[Found(c, g)].keys)]
  BY DEF DictionaryOf, NamesOf
<1> HIDE DEF f, Shown
<1>8. MapOf(c, f) = [g \in NamesOf(c) |-> Shown(c[Found(c, g)].keys)]
  BY <1>5, <1>6 DEF MapOf
<1> QED
  BY <1>7, <1>8 DEF GroupsOf, f

LEMMA DictionaryNow == Ini!Dictionary = DictionaryOf(contents)
BY DEF Ini!Dictionary, DictionaryOf, Ini!findGroup, Ini!findKey, Ini!getKey, Ini!ToSet, Found

LEMMA DictionaryNext == (Ini!Dictionary = DictionaryOf(contents))'
BY DictionaryNow, PTL

(* A key of a group is set, and pushed if it is not there.                 *)
KeyPut(c, i, k, y) ==
    IF Found(c[i].keys, k) = 0
    THEN WithKeys(c, i, WithKey(c[i].keys, k, y))
    ELSE WithKeys(c, i, WithValue(c[i].keys, Found(c[i].keys, k), y))

LEMMA KeyIsPut ==
    ASSUME NEW c, Grouped(c), Distinct(c), NEW i \in DOMAIN c, Distinct(c[i].keys),
           NEW k, NEW y, NEW d, d = KeyPut(c, i, k, y)
    PROVE  /\ Grouped(d) /\ Distinct(d) /\ DOMAIN d = DOMAIN c
           /\ d[i].name = c[i].name /\ Distinct(d[i].keys)
           /\ \A j \in DOMAIN c : j # i => d[j] = c[j]
           /\ GroupsOf(d) = Ini!Store!Updated(GroupsOf(c), c[i].name,
                                              Ini!Store!Updated(KeysOf(c[i].keys), k, y))
<1>1. PICK s : s = c[i].keys
  OBVIOUS
<1>2. Keyed(s) /\ Distinct(s)
  BY <1>1 DEF Grouped
<1>3. PICK t : t = IF Found(s, k) = 0 THEN WithKey(s, k, y)
                                      ELSE WithValue(s, Found(s, k), y)
  OBVIOUS
<1>4. Keyed(t) /\ Distinct(t) /\ KeysOf(t) = Ini!Store!Updated(KeysOf(s), k, y)
  <2>1. CASE Found(s, k) = 0
    <3>1. t = WithKey(s, k, y)
      BY <1>3, <2>1
    <3>2. /\ Keyed(t)
          /\ Distinct(s) /\ Found(s, k) = 0 => /\ Distinct(t)
                                              /\ KeysOf(t) = Ini!Store!Updated(KeysOf(s), k, y)
      BY <1>2, <3>1, KeyPushed
    <3> QED
      BY <1>2, <2>1, <3>2
  <2>2. CASE Found(s, k) # 0
    BY <1>2, <1>3, <2>2, KeySet
  <2> QED
    BY <2>1, <2>2
<1>5. d = WithKeys(c, i, t)
  BY <1>1, <1>3 DEF KeyPut
<1>6. /\ Grouped(d) /\ Distinct(d) /\ DOMAIN d = DOMAIN c
      /\ d[i] = [name |-> c[i].name, keys |-> t] /\ \A j \in DOMAIN c : j # i => d[j] = c[j]
      /\ GroupsOf(d) = Ini!Store!Updated(GroupsOf(c), c[i].name, KeysOf(t))
  BY <1>2, <1>4, <1>5, GroupChanged
<1> QED
  BY <1>1, <1>4, <1>6

----------------------------------------------------------------------------
(* The loader implements the store.  Its groups have different names, the  *)
(* selected group is the one the pointer points to, if it points to one,   *)
(* and the keys of a group have different names until one went astray.     *)
LoadsOf(c, cg, sel, lost) ==
    /\ Grouped(c) /\ Distinct(c)
    /\ cg \in DOMAIN c \cup {0, -1}
    /\ sel = {} <=> cg = 0
    /\ cg \in DOMAIN c => sel = {c[cg].name}
    /\ ~lost => \A i \in DOMAIN c : Distinct(c[i].keys)

Loads == LoadsOf(contents, currentGroup, selected, astray)

In(D, g) == IF g \in DOMAIN D THEN D[g] ELSE Ini!Store!Nothing

(* The user sees d where it saw c, with the value y of the key k of g.     *)
KeyGiven(c, d, g, k, y) ==
    GroupsOf(d) = Ini!Store!Updated(GroupsOf(c), g, Ini!Store!Updated(In(GroupsOf(c), g), k, y))

(* A group that is there, and what it holds.                               *)
LEMMA InGroup ==
    ASSUME NEW c, Grouped(c), Distinct(c)
    PROVE  /\ \A i \in DOMAIN c : In(GroupsOf(c), c[i].name) = KeysOf(c[i].keys)
           /\ \A g : Found(c, g) = 0 => In(GroupsOf(c), g) = Ini!Store!Nothing
           /\ \A i \in DOMAIN c : GroupsOf(c) =
                Ini!Store!Updated(GroupsOf(c), c[i].name, In(GroupsOf(c), c[i].name))
<1>1. IsSeq(c)
  BY DEF Grouped
<1>2. \A i \in DOMAIN c : In(GroupsOf(c), c[i].name) = KeysOf(c[i].keys)
  BY GroupIn DEF In
<1>3. \A g : Found(c, g) = 0 => In(GroupsOf(c), g) = Ini!Store!Nothing
  BY <1>1, FoundIs, GroupIn DEF In
<1>4. ASSUME NEW i \in DOMAIN c
      PROVE  GroupsOf(c) = Ini!Store!Updated(GroupsOf(c), c[i].name, In(GroupsOf(c), c[i].name))
  <2>1. PICK D : D = GroupsOf(c)
    OBVIOUS
  <2>2. D = [n \in DOMAIN D |-> D[n]]
    BY <2>1 DEF GroupsOf, MapOf
  <2>3. c[i].name \in DOMAIN D
    BY <2>1, GroupIn
  <2>4. PICK g : g = c[i].name
    OBVIOUS
  <2>5. DOMAIN D \cup {g} = DOMAIN D
    BY <2>3, <2>4
  <2>6. [n \in DOMAIN D |-> IF n = g THEN D[g] ELSE D[n]] = D
    BY <2>2
  <2>7. Ini!Store!Updated(D, g, D[g]) = D
    BY <2>5, <2>6 DEF Ini!Store!Updated
  <2> QED
    BY <2>1, <2>3, <2>4, <2>7 DEF In
<1> QED
  BY <1>2, <1>3, <1>4

LEMMA GroupIsSet ==
    ASSUME NEW c, NEW cg, NEW sel, LoadsOf(c, cg, sel, FALSE), NEW g, NEW d, NEW p,
           IF Found(c, g) = 0 THEN d = WithGroup(c, g, <<>>) /\ p = Len(c) + 1
                              ELSE d = c /\ p = Found(c, g)
    PROVE  /\ LoadsOf(d, p, {g}, FALSE)
           /\ GroupsOf(d) = Ini!Store!Updated(GroupsOf(c), g, In(GroupsOf(c), g))
<1>1. /\ Grouped(c) /\ Distinct(c) /\ IsSeq(c) /\ \A i \in DOMAIN c : Distinct(c[i].keys)
      /\ Len(c) \in Nat /\ DOMAIN c = 1 .. Len(c)
  BY SeqFacts DEF LoadsOf, Grouped
<1>2. CASE Found(c, g) = 0
  <2>1. d = WithGroup(c, g, <<>>) /\ p = Len(c) + 1
    BY <1>2
  <2>2. /\ Grouped(d) /\ Distinct(d) /\ DOMAIN d = 1 .. Len(c) + 1
        /\ d[Len(c) + 1] = [name |-> g, keys |-> <<>>] /\ \A i \in DOMAIN c : d[i] = c[i]
        /\ GroupsOf(d) = Ini!Store!Updated(GroupsOf(c), g, KeysOf(<<>>))
    BY <1>1, <1>2, <2>1, NoKeys, GroupPushed
  <2>3. p \in DOMAIN d /\ p # 0 /\ d[p].name = g
    BY <1>1, <2>1, <2>2
  <2>4. \A i \in DOMAIN d : i \in DOMAIN c \/ i = Len(c) + 1
    BY <1>1, <2>2
  <2>5. \A i \in DOMAIN d : Distinct(d[i].keys)
    BY <1>1, <2>2, <2>4, NoKeys
  <2>6. LoadsOf(d, p, {g}, FALSE)
    BY <2>2, <2>3, <2>5 DEF LoadsOf
  <2> QED
    BY <1>1, <1>2, <2>2, <2>6, NoKeys, InGroup
<1>3. CASE Found(c, g) # 0
  <2>1. d = c /\ p \in DOMAIN c /\ p # 0 /\ c[p].name = g
    BY <1>1, <1>3, FoundIs
  <2>2. LoadsOf(d, p, {g}, FALSE)
    BY <1>1, <2>1 DEF LoadsOf
  <2> QED
    BY <1>1, <2>1, <2>2, InGroup
<1> QED
  BY <1>2, <1>3

LEMMA KeyIsSet ==
    ASSUME NEW c, NEW cg, NEW sel, LoadsOf(c, cg, sel, FALSE), NEW i \in DOMAIN c,
           NEW k, NEW y, NEW d, d = KeyPut(c, i, k, y)
    PROVE  /\ LoadsOf(d, cg, sel, FALSE)
           /\ KeyGiven(c, d, c[i].name, k, y)
<1>1. Grouped(c) /\ Distinct(c) /\ \A j \in DOMAIN c : Distinct(c[j].keys)
  BY DEF LoadsOf
<1>2. /\ Grouped(d) /\ Distinct(d) /\ DOMAIN d = DOMAIN c
      /\ d[i].name = c[i].name /\ Distinct(d[i].keys)
      /\ \A j \in DOMAIN c : j # i => d[j] = c[j]
      /\ GroupsOf(d) = Ini!Store!Updated(GroupsOf(c), c[i].name,
                                         Ini!Store!Updated(KeysOf(c[i].keys), k, y))
  BY <1>1, KeyIsPut
<1>3. \A j \in DOMAIN c : d[j].name = c[j].name /\ Distinct(d[j].keys)
  BY <1>1, <1>2
<1>4. LoadsOf(d, cg, sel, FALSE)
  BY <1>2, <1>3 DEF LoadsOf
<1> QED
  BY <1>1, <1>2, <1>4, InGroup DEF KeyGiven

LEMMA KeyOfNewGroupIsSet ==
    ASSUME NEW c, NEW cg, NEW sel, LoadsOf(c, cg, sel, FALSE), NEW g, Found(c, g) = 0,
           NEW k, NEW y, NEW s, s = WithKey(<<>>, k, y), NEW d, d = WithGroup(c, g, s),
           NEW p \in {cg} \cup (IF cg = 0 THEN {} ELSE {-1})
    PROVE  /\ LoadsOf(d, p, sel, FALSE)
           /\ KeyGiven(c, d, g, k, y)
<1>1. /\ Grouped(c) /\ Distinct(c) /\ IsSeq(c) /\ \A i \in DOMAIN c : Distinct(c[i].keys)
      /\ Len(c) \in Nat /\ DOMAIN c = 1 .. Len(c)
  BY SeqFacts DEF LoadsOf, Grouped
<1>2. Keyed(<<>>) /\ Distinct(<<>>) /\ Found(<<>>, k) = 0
  <2>1. NamesOf(<<>>) = {}
    BY DEF NamesOf
  <2> QED
    BY <2>1, NoKeys, FoundIs DEF Keyed
<1>3. /\ Keyed(s)
      /\ Distinct(<<>>) /\ Found(<<>>, k) = 0 =>
            Distinct(s) /\ KeysOf(s) = Ini!Store!Updated(KeysOf(<<>>), k, y)
  BY <1>2, KeyPushed
<1>4. /\ Grouped(d) /\ Distinct(d) /\ DOMAIN d = 1 .. Len(c) + 1
      /\ d[Len(c) + 1] = [name |-> g, keys |-> s] /\ \A i \in DOMAIN c : d[i] = c[i]
      /\ GroupsOf(d) = Ini!Store!Updated(GroupsOf(c), g, KeysOf(s))
  BY <1>1, <1>3, GroupPushed
<1>5. \A i \in DOMAIN d : i \in DOMAIN c \/ i = Len(c) + 1
  BY <1>1, <1>4
<1>6. \A i \in DOMAIN d : Distinct(d[i].keys)
  BY <1>1, <1>2, <1>3, <1>4, <1>5
<1>7. p \in DOMAIN d \cup {0, -1} /\ (sel = {} <=> p = 0)
  BY <1>1, <1>4 DEF LoadsOf
<1>8. p \in DOMAIN d => p \in DOMAIN c /\ p = cg
  BY <1>1, <1>4 DEF LoadsOf
<1>9. p \in DOMAIN d => sel = {d[p].name}
  BY <1>4, <1>8 DEF LoadsOf
<1>10. LoadsOf(d, p, sel, FALSE)
  BY <1>4, <1>6, <1>7, <1>9 DEF LoadsOf
<1> QED
  BY <1>1, <1>2, <1>3, <1>4, <1>10, NoKeys, InGroup DEF KeyGiven

(* A key goes to the group the pointer points to, which has one more.      *)
LEMMA KeyGoesAstray ==
    ASSUME NEW c, NEW cg, NEW sel, LoadsOf(c, cg, sel, FALSE), cg \in DOMAIN c,
           NEW k, NEW y, NEW s, s = WithKey(c[cg].keys, k, y), NEW d, d = WithKeys(c, cg, s)
    PROVE  LoadsOf(d, cg, sel, TRUE)
<1>1. Grouped(c) /\ Distinct(c) /\ Keyed(c[cg].keys)
  BY DEF LoadsOf, Grouped
<1>2. Keyed(s)
  BY <1>1, KeyPushed
<1>3. /\ Grouped(d) /\ Distinct(d) /\ DOMAIN d = DOMAIN c
      /\ d[cg] = [name |-> c[cg].name, keys |-> s]
  BY <1>1, <1>2, GroupChanged
<1> QED
  BY <1>3 DEF LoadsOf

(* The searches and the changes of the loader, as operators of its groups. *)
LEMMA FindsGroup == \A g : Ini!findGroup(g) = Found(contents, g)
BY DEF Ini!findGroup, Found

LEMMA FindsKey == \A n, k : Ini!findKey(n, k) = Found(contents[n].keys, k)
BY DEF Ini!findKey, Found

LEMMA PutsKey ==
    ASSUME NEW n, NEW k, NEW y,
           IF Ini!findKey(n, k) = 0 THEN Ini!PushKey(n, k, y) ELSE Ini!SetValue(n, k, y)
    PROVE  contents' = KeyPut(contents, n, k, y)
<1>1. Ini!PushKey(n, k, y) =>
         contents' = WithKeys(contents, n, WithKey(contents[n].keys, k, y))
  BY DEF Ini!PushKey, WithKeys, WithKey
<1>2. Ini!SetValue(n, k, y) =>
         contents' = WithKeys(contents, n, WithValue(contents[n].keys, Ini!findKey(n, k), y))
  BY DEF Ini!SetValue, WithKeys, WithValue
<1>3. Ini!findKey(n, k) = Found(contents[n].keys, k)
  BY FindsKey
<1> QED
  BY <1>1, <1>2, <1>3 DEF KeyPut

(* What a step does to the dictionary that the user is shown.              *)
LEMMA Shown ==
    ASSUME Grouped(contents), Grouped(contents')
    PROVE  /\ Ini!Dictionary = GroupsOf(contents) /\ Ini!Dictionary' = GroupsOf(contents')
           /\ \A g : Ini!Store!Keys(g) = In(GroupsOf(contents), g)
           /\ \A g, keys : GroupsOf(contents') = Ini!Store!Updated(GroupsOf(contents), g, keys)
                             => Ini!Store!With(g, keys)
<1>1. Ini!Dictionary = GroupsOf(contents)
  BY DictionaryNow, DictionaryIs
<1>2. Ini!Dictionary' = GroupsOf(contents')
  BY DictionaryNext, DictionaryIs
<1> QED
  BY <1>1, <1>2 DEF Ini!Store!Keys, Ini!Store!With, In

LEMMA SetGroupLoads ==
    ASSUME Loads, ~astray, NEW g, Ini!setGroup(g)
    PROVE  Loads' /\ Ini!Store!With(g, Ini!Store!Keys(g)) /\ selected' = {g}
<1>1. LoadsOf(contents, currentGroup, selected, FALSE)
  BY DEF Loads, LoadsOf
<1>2. /\ IF Found(contents, g) = 0
         THEN contents' = WithGroup(contents, g, <<>>) /\ currentGroup' = Len(contents) + 1
         ELSE contents' = contents /\ currentGroup' = Found(contents, g)
      /\ selected' = {g}
  BY FindsGroup DEF Ini!setGroup, Ini!PushGroup, WithGroup
<1>3. /\ LoadsOf(contents', currentGroup', {g}, FALSE)
      /\ GroupsOf(contents') = Ini!Store!Updated(GroupsOf(contents), g, In(GroupsOf(contents), g))
  BY <1>1, <1>2, GroupIsSet
<1>4. Loads'
  BY <1>2, <1>3 DEF Loads, LoadsOf
<1>5. Grouped(contents) /\ Grouped(contents')
  BY <1>1, <1>3 DEF LoadsOf
<1>6. Ini!Store!Keys(g) = In(GroupsOf(contents), g)
  BY <1>5, Shown
<1>7. Ini!Store!With(g, In(GroupsOf(contents), g))
  BY <1>3, <1>5, Shown
<1> QED
  BY <1>2, <1>4, <1>6, <1>7

(* A key is put into the group that the pointer points to, or another.     *)
LEMMA PutLoads ==
    ASSUME Loads, ~astray, NEW i \in DOMAIN contents, NEW k, NEW y,
           contents' = KeyPut(contents, i, k, y), UNCHANGED <<currentGroup, selected>>
    PROVE  Loads' /\ Ini!Store!Put(contents[i].name, k, y)
<1>1. LoadsOf(contents, currentGroup, selected, FALSE)
  BY DEF Loads, LoadsOf
<1>2. PICK g : g = contents[i].name
  OBVIOUS
<1>3. /\ LoadsOf(contents', currentGroup, selected, FALSE)
      /\ KeyGiven(contents, contents', g, k, y)
  <2>1. PICK d : d = contents'
    OBVIOUS
  <2>2. d = KeyPut(contents, i, k, y)
    BY <2>1
  <2>3. /\ LoadsOf(d, currentGroup, selected, FALSE)
        /\ KeyGiven(contents, d, contents[i].name, k, y)
    BY <1>1, <2>2, KeyIsSet
  <2> QED
    BY <1>2, <2>1, <2>3
<1>4. Loads'
  BY <1>3 DEF Loads, LoadsOf
<1>5. Grouped(contents) /\ Grouped(contents')
  BY <1>1, <1>3 DEF LoadsOf
<1>6. Ini!Store!Keys(g) = In(GroupsOf(contents), g)
  BY <1>5, Shown
<1>7. Ini!Store!With(g, Ini!Store!Updated(In(GroupsOf(contents), g), k, y))
  BY <1>3, <1>5, Shown DEF KeyGiven
<1> QED
  BY <1>2, <1>4, <1>6, <1>7 DEF Ini!Store!Put

(* Nothing that the user sees is changed.                                  *)
LEMMA StillLoads ==
    ASSUME Loads, UNCHANGED <<contents, currentGroup, selected>>, astray' = astray \/ astray'
    PROVE  Loads' /\ UNCHANGED Ini!Dictionary
<1>1. Loads'
  BY DEF Loads, LoadsOf
<1>2. Grouped(contents) /\ Grouped(contents')
  BY <1>1 DEF Loads, LoadsOf
<1> QED
  BY <1>1, <1>2, Shown

(* setKey: the key goes to the selected group, if there is one.            *)
LEMMA SetKeyLoads ==
    ASSUME Loads, ~astray, NEW k, NEW y, Ini!setKey(k, y)
    PROVE  /\ Loads'
           /\ \/ astray'
              \/ /\ UNCHANGED selected
                 /\ \A g \in selected : Ini!Store!Put(g, k, y)
                 /\ selected = {} => UNCHANGED Ini!Dictionary
<1>1. CASE /\ currentGroup = Ini!NoGroup
           /\ Ini!Sound /\ UNCHANGED <<contents, currentGroup, selected>>
  <2>1. selected = {}
    BY <1>1 DEF Ini!NoGroup, Loads, LoadsOf
  <2>2. astray' = astray
    BY <1>1 DEF Ini!Sound
  <2> QED
    BY <1>1, <2>1, <2>2, StillLoads
<1>2. CASE currentGroup = Ini!Moved /\ Ini!Wild
  <2>1. astray' /\ UNCHANGED <<contents, currentGroup, selected>>
    BY <1>2 DEF Ini!Wild
  <2> QED
    BY <2>1, StillLoads
<1>3. CASE /\ currentGroup \in DOMAIN contents
           /\ IF Ini!findKey(currentGroup, k) = 0 THEN Ini!PushKey(currentGroup, k, y)
                                                  ELSE Ini!SetValue(currentGroup, k, y)
           /\ Ini!Sound /\ UNCHANGED <<currentGroup, selected>>
  <2>1. contents' = KeyPut(contents, currentGroup, k, y)
    BY <1>3, PutsKey
  <2>2. selected = {contents[currentGroup].name}
    BY <1>3 DEF Loads, LoadsOf
  <2>3. Loads' /\ Ini!Store!Put(contents[currentGroup].name, k, y)
    BY <1>3, <2>1, PutLoads
  <2> QED
    BY <1>3, <2>2, <2>3
<1> QED
  BY <1>1, <1>2, <1>3 DEF Ini!setKey

LEMMA SubscriptLoads ==
    ASSUME Loads, ~astray, NEW k, Ini!Subscript(k)
    PROVE  /\ Loads'
           /\ \/ astray'
              \/ /\ UNCHANGED selected
                 /\ \A g \in selected : Ini!Store!Touch(g, k)
                 /\ selected = {} => UNCHANGED Ini!Dictionary
<1>1. /\ Grouped(contents) /\ Distinct(contents)
      /\ currentGroup \in DOMAIN contents => selected = {contents[currentGroup].name}
      /\ selected = {} <=> currentGroup = 0
      /\ currentGroup \in DOMAIN contents \cup {0, -1}
  BY DEF Loads, LoadsOf
<1>2. ASSUME currentGroup \in DOMAIN contents
      PROVE  LET g == contents[currentGroup].name
             IN  /\ IsSeq(contents[currentGroup].keys)
                 /\ Ini!Store!Keys(g) = KeysOf(contents[currentGroup].keys)
                 /\ DOMAIN Ini!Store!Keys(g) = NamesOf(contents[currentGroup].keys)
  <2>1. IsSeq(contents[currentGroup].keys)
    BY <1>1, <1>2 DEF Grouped, Keyed
  <2>2. Ini!Store!Keys(contents[currentGroup].name) = In(GroupsOf(contents), contents[currentGroup].name)
    <3>1. Ini!Dictionary = GroupsOf(contents)
      BY <1>1, DictionaryNow, DictionaryIs
    <3> QED
      BY <3>1 DEF Ini!Store!Keys, In
  <2>3. In(GroupsOf(contents), contents[currentGroup].name) = KeysOf(contents[currentGroup].keys)
    BY <1>1, <1>2, InGroup
  <2>4. DOMAIN KeysOf(contents[currentGroup].keys) = NamesOf(contents[currentGroup].keys)
    BY DEF KeysOf, MapOf
  <2> QED
    BY <2>1, <2>2, <2>3, <2>4
<1>3. CASE /\ currentGroup \in DOMAIN contents /\ Ini!findKey(currentGroup, k) # 0
           /\ Ini!Sound /\ UNCHANGED <<contents, currentGroup, selected>>
  <2>1. PICK g : g = contents[currentGroup].name
    OBVIOUS
  <2>2. k \in DOMAIN Ini!Store!Keys(g)
    BY <1>2, <1>3, <2>1, FindsKey, FoundIs
  <2>3. Loads' /\ UNCHANGED Ini!Dictionary
    BY <1>3, StillLoads DEF Ini!Sound
  <2>4. Grouped(contents) /\ Grouped(contents')
    BY <2>3 DEF Loads, LoadsOf
  <2>5. Ini!Store!Keys(g) = In(GroupsOf(contents), g)
    BY <2>4, Shown
  <2>6. GroupsOf(contents') = Ini!Store!Updated(GroupsOf(contents), g, In(GroupsOf(contents), g))
    BY <1>1, <1>3, <2>1, InGroup
  <2>7. Ini!Store!With(g, In(GroupsOf(contents), g))
    BY <2>4, <2>6, Shown
  <2>8. Ini!Store!Touch(g, k)
    BY <2>2, <2>5, <2>7 DEF Ini!Store!Touch
  <2>9. selected = {g}
    BY <1>1, <1>3, <2>1
  <2> QED
    BY <1>3, <2>3, <2>8, <2>9
<1>4. CASE /\ currentGroup \in DOMAIN contents => Ini!findKey(currentGroup, k) = 0
           /\ Ini!setKey(k, <<>>)
  <2>1. /\ Loads'
        /\ \/ astray'
           \/ /\ UNCHANGED selected
              /\ \A g \in selected : Ini!Store!Put(g, k, <<>>)
              /\ selected = {} => UNCHANGED Ini!Dictionary
    BY <1>4, SetKeyLoads
  <2>2. CASE currentGroup \in DOMAIN contents
    <3>1. PICK g : g = contents[currentGroup].name
      OBVIOUS
    <3>2. k \notin DOMAIN Ini!Store!Keys(g)
      BY <1>2, <1>4, <2>2, <3>1, FindsKey, FoundIs
    <3>3. selected = {g}
      BY <1>1, <2>2, <3>1
    <3>4. Ini!Store!Put(g, k, <<>>) => Ini!Store!Touch(g, k)
      BY <3>2 DEF Ini!Store!Put, Ini!Store!Touch
    <3> QED
      BY <2>1, <3>3, <3>4
  <2>3. CASE currentGroup = 0
    BY <1>1, <2>1, <2>3
  <2>4. CASE currentGroup = -1 /\ currentGroup \notin DOMAIN contents
    <3>1. astray'
      BY <1>4, <2>4 DEF Ini!setKey, Ini!NoGroup, Ini!Wild
    <3> QED
      BY <2>1, <3>1
  <2> QED
    BY <1>1, <2>2, <2>3, <2>4
<1> QED
  BY <1>3, <1>4 DEF Ini!Subscript

(* setKey of a group that is named.                                        *)
LEMMA SetKeyInLoads ==
    ASSUME Loads, ~astray, NEW g, NEW k, NEW y,
           Ini!setKeyOfNewGroup(g, k, y) \/ Ini!setKeyOfGroup(g, k, y)
    PROVE  Loads' /\ (astray' \/ (Ini!Store!Put(g, k, y) /\ UNCHANGED selected))
<1>1. /\ LoadsOf(contents, currentGroup, selected, FALSE)
      /\ Grouped(contents) /\ IsSeq(contents)
  BY DEF Loads, LoadsOf, Grouped
<1>2. CASE Ini!setKeyOfNewGroup(g, k, y)
  <2>1. PICK d, s, p : d = contents' /\ s = WithKey(<<>>, k, y) /\ p = currentGroup'
    OBVIOUS
  <2>2. s = <<[name |-> k, value |-> y]>>
    BY <2>1 DEF WithKey
  <2>3. d = WithGroup(contents, g, s)
    BY <1>2, <2>1, <2>2 DEF Ini!setKeyOfNewGroup, Ini!PushGroup, WithGroup
  <2>4. Found(contents, g) = 0 /\ p \in {currentGroup} \cup (IF currentGroup = 0 THEN {} ELSE {-1})
    BY <1>2, <2>1, FindsGroup DEF Ini!setKeyOfNewGroup, Ini!NoGroup, Ini!Moved
  <2>5. /\ LoadsOf(d, p, selected, FALSE)
        /\ KeyGiven(contents, d, g, k, y)
    <3>1. LoadsOf(contents, currentGroup, selected, FALSE) /\ s = WithKey(<<>>, k, y)
      BY <1>1, <2>1
    <3> QED
      BY <3>1, <2>3, <2>4, KeyOfNewGroupIsSet
  <2>6. UNCHANGED <<selected, astray>>
    BY <1>2 DEF Ini!setKeyOfNewGroup, Ini!Sound
  <2>7. Loads'
    BY <2>1, <2>5, <2>6 DEF Loads, LoadsOf
  <2>8. Grouped(contents') /\ d = contents'
    BY <2>1, <2>5 DEF LoadsOf
  <2>9. Ini!Store!Keys(g) = In(GroupsOf(contents), g)
    BY <1>1, <2>8, Shown
  <2>10. Ini!Store!With(g, Ini!Store!Updated(In(GroupsOf(contents), g), k, y))
    BY <1>1, <2>5, <2>8, Shown DEF KeyGiven
  <2> QED
    BY <2>6, <2>7, <2>9, <2>10 DEF Ini!Store!Put
<1>3. CASE Ini!setKeyOfGroup(g, k, y)
  <2>1. PICK n : n = Ini!findGroup(g)
    OBVIOUS
  <2>2. n \in DOMAIN contents /\ contents[n].name = g
    <3>1. n # 0
      BY <1>3, <2>1 DEF Ini!setKeyOfGroup
    <3> QED
      BY <1>1, <2>1, <3>1, FindsGroup, FoundIs
  <2>3. CASE /\ Ini!findKey(n, k) # 0 /\ Ini!SetValue(n, k, y)
             /\ Ini!Sound /\ UNCHANGED <<currentGroup, selected>>
    <3>1. contents' = KeyPut(contents, n, k, y)
      BY <2>3, PutsKey
    <3> QED
      BY <2>2, <2>3, <3>1, PutLoads
  <2>4. CASE /\ Ini!findKey(n, k) = 0 /\ currentGroup \in DOMAIN contents
             /\ Ini!PushKey(currentGroup, k, y)
             /\ astray' = (astray \/ currentGroup # n)
             /\ UNCHANGED <<crashed, currentGroup, selected>>
    <3>1. CASE currentGroup = n
      <4>1. contents' = KeyPut(contents, n, k, y)
        BY <2>4, <3>1, PutsKey
      <4> QED
        BY <2>2, <2>4, <4>1, PutLoads
    <3>2. CASE currentGroup # n
      <4>1. PICK d, s : d = contents' /\ s = WithKey(contents[currentGroup].keys, k, y)
        OBVIOUS
      <4>2. d = WithKeys(contents, currentGroup, s)
        BY <2>4, <4>1 DEF Ini!PushKey, WithKeys, WithKey
      <4>3. LoadsOf(d, currentGroup, selected, TRUE)
        BY <1>1, <2>4, <4>1, <4>2, KeyGoesAstray
      <4> QED
        BY <2>4, <3>2, <4>1, <4>3 DEF Loads, LoadsOf
    <3> QED
      BY <3>1, <3>2
  <2>5. CASE Ini!findKey(n, k) = 0 /\ currentGroup \notin DOMAIN contents /\ Ini!Wild
    <3>1. astray' /\ UNCHANGED <<contents, currentGroup, selected>>
      BY <2>5 DEF Ini!Wild
    <3> QED
      BY <3>1, StillLoads
  <2> QED
    BY <1>3, <2>1, <2>3, <2>4, <2>5 DEF Ini!setKeyOfGroup
<1> QED
  BY <1>2, <1>3

(* Every call is one of the store, leads a key astray, or clears less than *)
(* the store does.                                                         *)
LEMMA CallIsOfStore ==
    ASSUME Loads, ~astray, NEW c, Ini!Do(c)
    PROVE  Loads' /\ (astray' \/ Ini!ClearOfSomething \/ Ini!Store!Next)
<1>1. call' = c
  BY DEF Ini!Do
<1>2. CASE c.is = "group" /\ Ini!setGroup(c.name)
  BY <1>1, <1>2, SetGroupLoads DEF Ini!Store!Next
<1>3. CASE c.is = "key" /\ Ini!setKey(c.name, c.value)
  BY <1>1, <1>3, SetKeyLoads DEF Ini!Store!Next
<1>4. CASE c.is = "touch" /\ Ini!Subscript(c.name)
  BY <1>1, <1>4, SubscriptLoads DEF Ini!Store!Next
<1>5. CASE c.is = "in" /\ (Ini!setKeyOfNewGroup(c.group, c.name, c.value)
                             \/ Ini!setKeyOfGroup(c.group, c.name, c.value))
  BY <1>1, <1>5, SetKeyInLoads DEF Ini!Store!Next
<1>6. CASE c.is = "clear" /\ Ini!clear
  <2>1. currentGroup' = 0 /\ selected' = {} /\ UNCHANGED <<contents, astray>>
    BY <1>6 DEF Ini!clear, Ini!Sound, Ini!NoGroup
  <2>2. LoadsOf(contents, 0, {}, FALSE)
    <3>1. /\ Grouped(contents) /\ Distinct(contents) /\ \A i \in DOMAIN contents : Distinct(contents[i].keys)
      BY DEF Loads, LoadsOf
    <3>2. 0 \notin DOMAIN contents
      BY <3>1, SeqFacts DEF Grouped
    <3> QED
      BY <3>1, <3>2 DEF LoadsOf
  <2>3. Loads'
    BY <2>1, <2>2 DEF Loads, LoadsOf
  <2>4. CASE contents # <<>>
    BY <1>1, <1>6, <2>1, <2>3, <2>4 DEF Ini!ClearOfSomething
  <2>5. CASE contents = <<>>
    <3>1. Ini!Dictionary = Ini!Store!Nothing
      BY <2>5, NoGroups, DictionaryNow, DictionaryIs
    <3>2. UNCHANGED Ini!Dictionary
      BY <2>1, <2>3, Shown DEF Loads, LoadsOf
    <3> QED
      BY <1>1, <1>6, <2>1, <2>3, <3>1, <3>2 DEF Ini!Store!Next
  <2> QED
    BY <2>4, <2>5
<1>7. CASE c.is \in {"blank", "throws"} /\ Ini!Sound /\ UNCHANGED <<contents, currentGroup, selected>>
  <2>1. Loads' /\ UNCHANGED Ini!Dictionary
    BY <1>7, StillLoads DEF Ini!Sound
  <2> QED
    BY <1>1, <1>7, <2>1 DEF Ini!Store!Next
<1> QED
  BY <1>2, <1>3, <1>4, <1>5, <1>6, <1>7 DEF Ini!Do

LEMMA BlankLoads == Ini!Init => Loads /\ Ini!Store!Init
<1> SUFFICES ASSUME Ini!Init PROVE Loads /\ Ini!Store!Init
  OBVIOUS
<1>1. contents = <<>> /\ currentGroup = 0 /\ selected = {}
  BY DEF Ini!Init, Ini!NoGroup
<1>2. Grouped(contents) /\ Distinct(contents) /\ GroupsOf(contents) = Ini!Store!Nothing /\ DOMAIN contents = {}
  BY <1>1, NoGroups
<1>3. Loads
  BY <1>1, <1>2 DEF Loads, LoadsOf
<1>4. Ini!Dictionary = Ini!Store!Nothing
  BY <1>2, DictionaryNow, DictionaryIs
<1> QED
  BY <1>1, <1>3, <1>4 DEF Ini!Store!Init

LEMMA StepLoads ==
    Loads /\ [ObjectsNext]_<<part, vars, iniVars, cleanUpVars, matrixVars>> =>
        /\ Loads'
        /\ [astray' \/ Ini!ClearOfSomething \/ Ini!Store!Next]_<<call, Ini!Dictionary, selected>>
<1> SUFFICES ASSUME Loads, [ObjectsNext]_<<part, vars, iniVars, cleanUpVars, matrixVars>>
             PROVE  Loads' /\ (\/ astray' \/ Ini!ClearOfSomething \/ Ini!Store!Next
                               \/ UNCHANGED <<call, Ini!Dictionary, selected>>)
  OBVIOUS
<1>1. CASE UNCHANGED <<contents, currentGroup, selected, astray, call>>
  BY <1>1, StillLoads
<1>2. CASE Ini!Next
  <2>1. ~astray
    BY <1>2 DEF Ini!Next, Ini!Room
  <2>2. ASSUME NEW c \in Calls, Ini!Use(c)
        PROVE  Loads' /\ (astray' \/ Ini!ClearOfSomething \/ Ini!Store!Next)
    BY <2>1, <2>2, CallIsOfStore DEF Ini!Use
  <2>3. ASSUME NEW lines \in Files, Ini!loadFromStream(lines)
        PROVE  UNCHANGED <<contents, currentGroup, selected, astray, call>>
    BY <2>3 DEF Ini!loadFromStream
  <2>4. ASSUME NEW other \in Loaders, Ini!patch(other)
        PROVE  UNCHANGED <<contents, currentGroup, selected, astray, call>>
    BY <2>4 DEF Ini!patch
  <2>5. ASSUME Ini!Continue PROVE Loads' /\ (astray' \/ Ini!ClearOfSomething \/ Ini!Store!Next)
    BY <2>1, <2>5, CallIsOfStore DEF Ini!Continue
  <2> QED
    BY <1>1, <1>2, <2>2, <2>3, <2>4, <2>5 DEF Ini!Next
<1> QED
  BY <1>1, <1>2 DEF ObjectsNext, iniVars

(* Refinement: whatever calls, loads and patches a program makes, and in   *)
(* whatever files and loaders they are, the loader changes what its user   *)
(* sees as the store does, until a key of a group that is not the current  *)
(* one is pushed into the current one or nowhere, and but for clear, which *)
(* keeps what the loader holds (iniloader.cpp:69-270).                     *)
THEOREM LoaderIsAStore == ObjectsSpec => IsAStore
<1>1. ObjectsInit => Loads /\ Ini!Store!Init
  BY BlankLoads DEF ObjectsInit
<1>2. Loads /\ [ObjectsNext]_<<part, vars, iniVars, cleanUpVars, matrixVars>> =>
        /\ Loads'
        /\ [astray' \/ Ini!ClearOfSomething \/ Ini!Store!Next]_<<call, Ini!Dictionary, selected>>
  BY StepLoads
<1> QED
  BY <1>1, <1>2, PTL DEF ObjectsSpec, IsAStore, Ini!IsAStore

----------------------------------------------------------------------------
(* What is saved comes back.  Joining pieces and reading a text are        *)
(* recursions over a sequence: they are followed along its places, the     *)
(* least place at which they would go wrong being none.                    *)

(* A recursion over the places of a sequence has a solution, if every step *)
(* stays among the values V.                                               *)
Solves(f, V, base, n, step) ==
    /\ f \in [0 .. n -> V] /\ f[0] = base
    /\ \A i \in 1 .. n : f[i] = step[<<f[i - 1], i>>]

LEMMA RecursionExists ==
    ASSUME NEW V, NEW base \in V, NEW n \in Nat, NEW step \in [V \X (1 .. n) -> V]
    PROVE  \E f : Solves(f, V, base, n, step)
<1> DEFINE Upto(m, f) == /\ f \in [0 .. m -> V] /\ f[0] = base
                         /\ \A i \in 1 .. m : f[i] = step[<<f[i - 1], i>>]
           Good(m) == \E f : Upto(m, f)
           Bad == {m \in 0 .. n : ~Good(m)}
<1>1. Good(0)
  <2>1. Upto(0, [i \in 0 .. 0 |-> base])
    OBVIOUS
  <2> QED
    BY <2>1
<1>2. ASSUME NEW m \in 1 .. n, NEW f, Upto(m - 1, f) PROVE Good(m)
  <2> DEFINE g == [i \in 0 .. m |-> IF i < m THEN f[i] ELSE step[<<f[m - 1], m>>]]
  <2>1. m - 1 \in Nat /\ f[m - 1] \in V /\ step[<<f[m - 1], m>>] \in V
    BY <1>2
  <2>2. g \in [0 .. m -> V] /\ g[0] = base
    BY <1>2, <2>1
  <2>3. ASSUME NEW i \in 1 .. m PROVE g[i] = step[<<g[i - 1], i>>]
    <3>1. g[i - 1] = f[i - 1]
      OBVIOUS
    <3>2. CASE i = m
      <4>1. g[m] = step[<<f[m - 1], m>>]
        OBVIOUS
      <4> QED
        BY <3>1, <3>2, <4>1, Zenon
    <3>3. CASE i # m
      <4>1. g[i] = f[i] /\ i \in 1 .. m - 1
        BY <3>3
      <4>2. f[i] = step[<<f[i - 1], i>>]
        BY <1>2, <4>1
      <4> QED
        BY <3>1, <4>1, <4>2, Zenon
    <3> QED
      BY <3>2, <3>3
  <2> HIDE DEF g
  <2> QED
    BY <2>2, <2>3
<1>3. Bad = {}
  <2> SUFFICES ASSUME Bad # {} PROVE FALSE
    OBVIOUS
  <2> HIDE DEF Good
  <2>1. PICK m \in Bad : \A k \in Bad : m <= k
    <3>1. Bad \in SUBSET Nat
      OBVIOUS
    <3> HIDE DEF Bad
    <3> QED
      BY <3>1, LeastExists
  <2>2. m \in 1 .. n /\ m - 1 \in 0 .. n /\ ~(m <= m - 1) /\ ~Good(m)
    BY <1>1
  <2>3. Good(m - 1)
    BY <2>1, <2>2
  <2> HIDE DEF Upto
  <2> QED
    BY <1>2, <2>2, <2>3 DEF Good
<1>4. Good(n)
  BY <1>3
<1> QED
  BY <1>4 DEF Solves

(* Two sequences of values that start and go on alike are equal.           *)
GoOnAlike(f, g, n) ==
    f[0] = g[0] /\ \A i \in 1 .. n : f[i - 1] = g[i - 1] => f[i] = g[i]

LEMMA RecursionIsUnique ==
    ASSUME NEW n \in Nat, NEW f, NEW g, GoOnAlike(f, g, n)
    PROVE  \A i \in 0 .. n : f[i] = g[i]
<1> DEFINE Differ == {i \in 0 .. n : f[i] # g[i]}
<1> SUFFICES ASSUME Differ # {} PROVE FALSE
  OBVIOUS
<1>1. PICK i \in Differ : \A j \in Differ : i <= j
  <2>1. Differ \in SUBSET Nat
    OBVIOUS
  <2> HIDE DEF Differ
  <2> QED
    BY <2>1, LeastExists
<1>2. i \in 1 .. n /\ i - 1 \in 0 .. n /\ ~(i <= i - 1)
  BY DEF GoOnAlike
<1>3. f[i - 1] = g[i - 1]
  BY <1>1, <1>2
<1> QED
  BY <1>1, <1>2, <1>3 DEF GoOnAlike

----------------------------------------------------------------------------
(* Joining pieces.                                                         *)
Joins(p, f) == f = [i \in 1 .. Len(p) |-> IF i = 1 THEN p[i] ELSE f[i - 1] \o p[i]]

LEMMA JoinsAt ==
    ASSUME NEW p, NEW f, Joins(p, f)
    PROVE  /\ DOMAIN f = 1 .. Len(p) /\ f = [i \in 1 .. Len(p) |-> f[i]]
           /\ \A i \in 1 .. Len(p) : f[i] = IF i = 1 THEN p[i] ELSE f[i - 1] \o p[i]
<1> DEFINE body(i) == IF i = 1 THEN p[i] ELSE f[i - 1] \o p[i]
<1>1. f = [i \in 1 .. Len(p) |-> body(i)]
  BY DEF Joins
<1> HIDE DEF body
<1>2. DOMAIN f = 1 .. Len(p) /\ \A i \in 1 .. Len(p) : f[i] = body(i)
  BY <1>1
<1>3. f = [i \in 1 .. Len(p) |-> f[i]]
  BY <1>1, <1>2
<1> QED
  BY <1>2, <1>3 DEF body

LEMMA JoinExists ==
    ASSUME NEW U, NEW p \in Seq(Seq(U))
    PROVE  \E f \in [1 .. Len(p) -> Seq(U)] : Joins(p, f)
<1>1. Len(p) \in Nat /\ \A i \in 1 .. Len(p) : p[i] \in Seq(U)
  OBVIOUS
<1> DEFINE n == Len(p)
           step == [e \in Seq(U) \X (1 .. n) |-> IF e[2] = 1 THEN p[1] ELSE e[1] \o p[e[2]]]
<1>2. step \in [Seq(U) \X (1 .. n) -> Seq(U)]
  <2>1. ASSUME NEW e \in Seq(U) \X (1 .. n)
        PROVE  (IF e[2] = 1 THEN p[1] ELSE e[1] \o p[e[2]]) \in Seq(U)
    <3>1. e[1] \in Seq(U) /\ e[2] \in 1 .. n /\ p[e[2]] \in Seq(U)
      BY <1>1
    <3>2. e[1] \o p[e[2]] \in Seq(U)
      BY <3>1, ConcatProperties
    <3> QED
      BY <1>1, <3>1, <3>2
  <2> QED
    BY <2>1
<1>3. <<>> \in Seq(U)
  OBVIOUS
<1>4. \A t \in Seq(U), i \in 1 .. n : step[<<t, i>>] = IF i = 1 THEN p[1] ELSE t \o p[i]
  OBVIOUS
<1> HIDE DEF step, n
<1>5. PICK f : Solves(f, Seq(U), <<>>, n, step)
  <2>1. n \in Nat
    BY <1>1 DEF n
  <2> QED
    BY <1>2, <1>3, <2>1, RecursionExists
<1> DEFINE g == [i \in 1 .. n |-> f[i]]
<1>6. g \in [1 .. n -> Seq(U)]
  BY <1>1, <1>5 DEF n, Solves
<1>7. ASSUME NEW i \in 1 .. n PROVE g[i] = IF i = 1 THEN p[i] ELSE g[i - 1] \o p[i]
  <2>1. f[i] = IF i = 1 THEN p[1] ELSE f[i - 1] \o p[i]
    <3>1. i - 1 \in 0 .. n /\ f[i - 1] \in Seq(U)
      <4>1. n \in Nat
        BY <1>1 DEF n
      <4>2. i - 1 \in 0 .. n
        BY <4>1
      <4>3. f \in [0 .. n -> Seq(U)]
        BY <1>5 DEF Solves
      <4> QED
        BY <4>2, <4>3
    <3>2. f[i] = step[<<f[i - 1], i>>]
      BY <1>5 DEF Solves
    <3> QED
      BY <1>4, <3>1, <3>2, Zenon
  <2>2. i # 1 => i - 1 \in 1 .. n
    BY <1>1 DEF n
  <2> QED
    BY <2>1, <2>2
<1>8. Joins(p, g)
  <2>1. g = [i \in 1 .. n |-> g[i]]
    BY <1>6
  <2> HIDE DEF g
  <2> QED
    BY <1>7, <2>1 DEF Joins, n
<1> QED
  BY <1>6, <1>8 DEF n

Agree(p, q, n) == \A i \in 1 .. n : p[i] = q[i]

LEMMA JoinIsUnique ==
    ASSUME NEW p, Len(p) \in Nat, NEW q, Len(q) \in Nat, NEW f, Joins(p, f), NEW g, Joins(q, g),
           NEW n \in Nat, n <= Len(p), n <= Len(q), Agree(p, q, n)
    PROVE  Agree(f, g, n)
<1> DEFINE F == [i \in 0 .. n |-> IF i = 0 THEN <<>> ELSE f[i]]
           G == [i \in 0 .. n |-> IF i = 0 THEN <<>> ELSE g[i]]
<1>1. F[0] = G[0] /\ \A i \in 1 .. n : F[i] = f[i] /\ G[i] = g[i]
  OBVIOUS
<1>2. ASSUME NEW i \in 1 .. n, F[i - 1] = G[i - 1] PROVE F[i] = G[i]
  <2>1. f[i] = (IF i = 1 THEN p[i] ELSE f[i - 1] \o p[i]) /\ g[i] = (IF i = 1 THEN q[i] ELSE g[i - 1] \o q[i])
    <3>1. i \in 1 .. Len(p) /\ i \in 1 .. Len(q)
      OBVIOUS
    <3> QED
      BY <3>1, JoinsAt
  <2>2. CASE i = 1
    BY <1>1, <2>1, <2>2 DEF Agree
  <2>3. CASE i # 1
    <3>1. i - 1 \in 1 .. n /\ F[i - 1] = f[i - 1] /\ G[i - 1] = g[i - 1]
      BY <2>3
    <3> HIDE DEF F, G
    <3>2. f[i - 1] = g[i - 1] /\ p[i] = q[i]
      BY <1>2, <3>1 DEF Agree
    <3>3. f[i] = f[i - 1] \o p[i] /\ g[i] = g[i - 1] \o q[i]
      BY <2>1, <2>3
    <3>4. f[i] = g[i]
      BY <3>2, <3>3, Zenon
    <3> QED
      BY <1>1, <3>4
  <2> QED
    BY <2>2, <2>3
<1> HIDE DEF F, G
<1>3. GoOnAlike(F, G, n)
  BY <1>1, <1>2 DEF GoOnAlike
<1>4. \A i \in 0 .. n : F[i] = G[i]
  BY <1>3, RecursionIsUnique
<1> QED
  BY <1>1, <1>4 DEF Agree

LEMMA FlattenIs ==
    ASSUME NEW U, NEW p \in Seq(Seq(U))
    PROVE  /\ Ini!FlattenSeq(p) \in Seq(U)
           /\ p = <<>> => Ini!FlattenSeq(p) = <<>>
           /\ \E f \in [1 .. Len(p) -> Seq(U)] :
                 Joins(p, f) /\ (p # <<>> => Ini!FlattenSeq(p) = f[Len(p)])
<1> DEFINE f == CHOOSE f : Joins(p, f)
<1>1. PICK g \in [1 .. Len(p) -> Seq(U)] : Joins(p, g)
  BY JoinExists
<1>2. Joins(p, f)
  BY <1>1
<1>3. Ini!FlattenSeq(p) = IF Len(p) = 0 THEN p ELSE f[Len(p)]
  BY DEF Ini!FlattenSeq, Joins
<1> HIDE DEF f
<1>4. Len(p) \in Nat /\ DOMAIN p = 1 .. Len(p)
  OBVIOUS
<1>5. \A i \in 1 .. Len(p) : f[i] = g[i]
  <2>1. Agree(p, p, Len(p))
    BY DEF Agree
  <2>2. Agree(f, g, Len(p))
    BY <1>1, <1>2, <1>4, <2>1, JoinIsUnique
  <2> QED
    BY <2>2 DEF Agree
<1>6. f \in [1 .. Len(p) -> Seq(U)]
  <2>1. f = [i \in 1 .. Len(p) |-> f[i]]
    BY <1>2, JoinsAt
  <2> QED
    BY <1>1, <1>5, <2>1
<1>7. Len(p) = 0 => p = <<>> /\ Ini!FlattenSeq(p) = <<>>
  BY <1>3
<1>8. Len(p) # 0 => Ini!FlattenSeq(p) = f[Len(p)] /\ f[Len(p)] \in Seq(U)
  <2>1. Len(p) # 0 => Len(p) \in 1 .. Len(p)
    BY <1>4
  <2> QED
    BY <1>3, <1>6, <2>1
<1>9. p = <<>> => Len(p) = 0
  OBVIOUS
<1>10. Ini!FlattenSeq(p) \in Seq(U)
  BY <1>7, <1>8
<1> QED
  BY <1>2, <1>6, <1>7, <1>8, <1>9, <1>10

(* One piece more.                                                         *)
LEMMA FlattenMore ==
    ASSUME NEW U, NEW p \in Seq(Seq(U)), NEW x \in Seq(U)
    PROVE  Ini!FlattenSeq(Append(p, x)) = Ini!FlattenSeq(p) \o x
<1> DEFINE q == Append(p, x)
<1>1. /\ q \in Seq(Seq(U)) /\ Len(q) = Len(p) + 1 /\ q[Len(p) + 1] = x
      /\ \A i \in 1 .. Len(p) : q[i] = p[i]
      /\ Len(p) \in Nat
  OBVIOUS
<1>2. PICK f \in [1 .. Len(p) -> Seq(U)] :
         Joins(p, f) /\ (p # <<>> => Ini!FlattenSeq(p) = f[Len(p)])
  BY FlattenIs
<1> HIDE DEF q
<1>3. q # <<>>
  BY <1>1
<1>4. PICK g \in [1 .. Len(q) -> Seq(U)] : Joins(q, g) /\ Ini!FlattenSeq(q) = g[Len(q)]
  BY <1>1, <1>3, FlattenIs
<1>5. g[Len(q)] = IF Len(q) = 1 THEN x ELSE g[Len(p)] \o x
  <2>1. Len(q) \in 1 .. Len(q) /\ Len(q) - 1 = Len(p)
    BY <1>1
  <2>2. g[Len(q)] = IF Len(q) = 1 THEN q[Len(q)] ELSE g[Len(q) - 1] \o q[Len(q)]
    BY <1>4, <2>1, JoinsAt
  <2>3. q[Len(q)] = x
    BY <1>1
  <2> QED
    BY <2>1, <2>2, <2>3
<1>6. CASE p = <<>>
  <2>1. Ini!FlattenSeq(p) = <<>> /\ Len(p) = 0
    BY <1>6, FlattenIs
  <2>2. <<>> \o x = x
    OBVIOUS
  <2> QED
    BY <1>1, <1>4, <1>5, <2>1, <2>2 DEF q
<1>7. CASE p # <<>>
  <2>1. Len(p) # 0 /\ Len(p) \in 1 .. Len(p)
    BY <1>1, <1>7
  <2>2. Agree(p, q, Len(p)) /\ Len(p) <= Len(q) /\ Len(q) \in Nat
    BY <1>1 DEF Agree
  <2>3. Agree(f, g, Len(p))
    BY <1>1, <1>2, <1>4, <2>2, JoinIsUnique
  <2>4. f[Len(p)] = g[Len(p)]
    BY <2>1, <2>3 DEF Agree
  <2>5. Len(q) # 1
    BY <1>1, <2>1
  <2> QED
    BY <1>2, <1>4, <1>5, <1>7, <2>4, <2>5, Zenon DEF q
<1> QED
  BY <1>6, <1>7

(* Two lists of pieces that are as long as each other: what is at a place  *)
(* of the one joined is in the same place of a piece as in the other.      *)
SameShape(p, q) == Len(p) = Len(q) /\ \A n \in DOMAIN p : Len(p[n]) = Len(q[n])

FromPieces(p, q, s, t) ==
    /\ DOMAIN s = DOMAIN t
    /\ \A i \in DOMAIN s : \E n \in DOMAIN p : \E m \in DOMAIN p[n] : s[i] = p[n][m] /\ t[i] = q[n][m]

LEMMA PairsOfPieces ==
    ASSUME NEW U, NEW W, NEW p \in Seq(Seq(U)), NEW q \in Seq(Seq(W)), SameShape(p, q)
    PROVE  FromPieces(p, q, Ini!FlattenSeq(p), Ini!FlattenSeq(q))
<1> DEFINE Paired(s, t, i) == \E n \in DOMAIN p : \E m \in DOMAIN p[n] : s[i] = p[n][m] /\ t[i] = q[n][m]
           Alike(s, t) == /\ s \in Seq(U) /\ t \in Seq(W) /\ Len(s) = Len(t)
                          /\ \A i \in 1 .. Len(s) : Paired(s, t, i)
<1>1. /\ Len(p) \in Nat /\ DOMAIN p = 1 .. Len(p) /\ DOMAIN q = 1 .. Len(p)
      /\ \A n \in 1 .. Len(p) : p[n] \in Seq(U) /\ q[n] \in Seq(W)
      /\ Len(p) = Len(q)
  BY DEF SameShape
<1>2. ASSUME NEW n \in 1 .. Len(p) PROVE Alike(p[n], q[n])
  <2>1. n \in DOMAIN p /\ p[n] \in Seq(U) /\ q[n] \in Seq(W)
    BY <1>1
  <2>2. Len(p[n]) = Len(q[n]) /\ DOMAIN p[n] = 1 .. Len(p[n])
    BY <2>1, LenProperties DEF SameShape
  <2> QED
    BY <2>1, <2>2
<1>3. ASSUME NEW s, NEW t, Alike(s, t), NEW a, NEW b, Alike(a, b) PROVE Alike(s \o a, t \o b)
  <2>1. /\ s \in Seq(U) /\ t \in Seq(W) /\ Len(s) = Len(t) /\ a \in Seq(U) /\ b \in Seq(W)
        /\ Len(a) = Len(b) /\ Len(s) \in Nat /\ Len(a) \in Nat
    BY <1>3
  <2>2. /\ s \o a \in Seq(U) /\ Len(s \o a) = Len(s) + Len(a)
        /\ \A i \in 1 .. Len(s) + Len(a) :
              (s \o a)[i] = IF i <= Len(s) THEN s[i] ELSE a[i - Len(s)]
    BY <2>1, ConcatProperties
  <2>3. /\ t \o b \in Seq(W) /\ Len(t \o b) = Len(s) + Len(a)
        /\ \A i \in 1 .. Len(s) + Len(a) :
              (t \o b)[i] = IF i <= Len(s) THEN t[i] ELSE b[i - Len(s)]
    BY <2>1, ConcatProperties
  <2>4. ASSUME NEW i \in 1 .. Len(s) + Len(a) PROVE Paired(s \o a, t \o b, i)
    <3>1. CASE i <= Len(s)
      <4>1. i \in 1 .. Len(s)
        BY <3>1
      <4>2. (s \o a)[i] = s[i] /\ (t \o b)[i] = t[i]
        BY <2>2, <2>3, <3>1
      <4>3. Paired(s, t, i)
        BY <1>3, <4>1
      <4> QED
        BY <4>2, <4>3
    <3>2. CASE ~(i <= Len(s))
      <4>1. i - Len(s) \in 1 .. Len(a)
        BY <2>1, <3>2
      <4>2. (s \o a)[i] = a[i - Len(s)] /\ (t \o b)[i] = b[i - Len(s)]
        BY <2>2, <2>3, <3>2
      <4>3. Paired(a, b, i - Len(s))
        BY <1>3, <4>1
      <4> QED
        BY <4>2, <4>3
    <3> QED
      BY <3>1, <3>2
  <2> QED
    BY <2>2, <2>3, <2>4
<1> HIDE DEF Alike
<1>4. PICK f \in [1 .. Len(p) -> Seq(U)] :
         Joins(p, f) /\ (p # <<>> => Ini!FlattenSeq(p) = f[Len(p)])
  BY FlattenIs
<1>5. PICK g \in [1 .. Len(q) -> Seq(W)] :
         Joins(q, g) /\ (q # <<>> => Ini!FlattenSeq(q) = g[Len(q)])
  BY FlattenIs
<1> DEFINE Bad == {n \in 1 .. Len(p) : ~Alike(f[n], g[n])}
<1>6. Bad = {}
  <2> SUFFICES ASSUME Bad # {} PROVE FALSE
    OBVIOUS
  <2>1. PICK n \in Bad : \A k \in Bad : n <= k
    <3>1. Bad \in SUBSET Nat
      OBVIOUS
    <3> HIDE DEF Bad
    <3> QED
      BY <3>1, LeastExists
  <2>2. n \in 1 .. Len(p) /\ n \in 1 .. Len(q) /\ ~Alike(f[n], g[n])
    BY <1>1
  <2>3. /\ f[n] = IF n = 1 THEN p[n] ELSE f[n - 1] \o p[n]
        /\ g[n] = IF n = 1 THEN q[n] ELSE g[n - 1] \o q[n]
    BY <1>4, <1>5, <2>2, JoinsAt
  <2>4. n # 1
    BY <1>2, <2>2, <2>3
  <2>5. n - 1 \in 1 .. Len(p) /\ ~(n <= n - 1)
    BY <2>2, <2>4
  <2>6. Alike(f[n - 1], g[n - 1])
    BY <2>1, <2>5
  <2>7. Alike(f[n - 1] \o p[n], g[n - 1] \o q[n])
    BY <1>2, <1>3, <2>2, <2>6
  <2> QED
    BY <2>2, <2>3, <2>4, <2>7
<1>7. CASE p = <<>>
  <2>1. q = <<>>
    BY <1>1, <1>7
  <2>2. Ini!FlattenSeq(p) = <<>> /\ Ini!FlattenSeq(q) = <<>>
    BY <1>7, <2>1, FlattenIs
  <2>3. \A i : i \notin DOMAIN <<>>
    OBVIOUS
  <2> QED
    BY <2>2, <2>3, Zenon DEF FromPieces
<1>8. CASE p # <<>>
  <2>1. Len(p) \in 1 .. Len(p) /\ q # <<>>
    BY <1>1, <1>8
  <2>2. Alike(f[Len(p)], g[Len(p)])
    BY <1>6, <2>1
  <2>3. Alike(Ini!FlattenSeq(p), Ini!FlattenSeq(q))
    BY <1>1, <1>4, <1>5, <1>8, <2>1, <2>2
  <2> DEFINE s == Ini!FlattenSeq(p)
             t == Ini!FlattenSeq(q)
  <2>4. Alike(s, t)
    BY <2>3
  <2> HIDE DEF s, t
  <2>5. DOMAIN s = 1 .. Len(s) /\ DOMAIN t = 1 .. Len(s) /\ \A i \in 1 .. Len(s) : Paired(s, t, i)
    BY <2>4 DEF Alike
  <2> QED
    BY <2>5 DEF s, t, FromPieces
<1> QED
  BY <1>7, <1>8

----------------------------------------------------------------------------
(* Escapes.                                                                *)
Reads(s, f) == f = [n \in 0 .. Len(s) |-> IF n = 0 THEN [text |-> <<>>, escaped |-> FALSE]
                                          ELSE Ini!Read(f[n - 1], s[n])]

Readings(U) == [text : Seq(U), escaped : BOOLEAN]

LEMMA LettersAre ==
    /\ DOMAIN Ini!Letter = {"\n", "\r", "\t", "\f", "BS", "BEL"}
    /\ Ini!Letter["\n"] = "n" /\ Ini!Letter["\r"] = "r" /\ Ini!Letter["\t"] = "t"
    /\ Ini!Letter["\f"] = "f" /\ Ini!Letter["BS"] = "b" /\ Ini!Letter["BEL"] = "a"
BY DEF Ini!Letter

(* The characters of texts: those of strings, and those that the loader    *)
(* writes or looks for.                                                    *)
Chars ==
    STRING \cup {"\n", "\r", "\t", "\f", "BS", "BEL", "n", "r", "t", "f", "b", "a",
                 "[", "]", "\\", "'", "\"", " ", "="}

FreshReading == [text |-> <<>>, escaped |-> FALSE]

LEMMA ControlsAre ==
    /\ Ini!Letters = {"n", "r", "t", "f", "b", "a"}
    /\ \A c \in DOMAIN Ini!Letter : Ini!Control(Ini!Letter[c]) = c
    /\ \A l \in Ini!Letters : Ini!Control(l) \in DOMAIN Ini!Letter
<1>1. Ini!Letters = {"n", "r", "t", "f", "b", "a"}
  BY LettersAre DEF Ini!Letters
<1>2. ASSUME NEW c \in DOMAIN Ini!Letter, NEW d \in DOMAIN Ini!Letter, Ini!Letter[c] = Ini!Letter[d]
      PROVE  c = d
  BY <1>2, LettersAre
<1>3. ASSUME NEW l, l \in Ini!Letters
      PROVE  Ini!Control(l) \in DOMAIN Ini!Letter /\ Ini!Letter[Ini!Control(l)] = l
  BY <1>3 DEF Ini!Letters, Ini!Control
<1>4. ASSUME NEW c \in DOMAIN Ini!Letter PROVE Ini!Control(Ini!Letter[c]) = c
  <2>1. Ini!Letter[c] \in Ini!Letters
    BY DEF Ini!Letters
  <2>2. PICK d : d = Ini!Control(Ini!Letter[c])
    OBVIOUS
  <2>3. d \in DOMAIN Ini!Letter /\ Ini!Letter[d] = Ini!Letter[c]
    BY <1>3, <2>1, <2>2
  <2> QED
    BY <1>2, <2>2, <2>3
<1> QED
  BY <1>1, <1>3, <1>4

LEMMA ReadTyped ==
    ASSUME NEW U, DOMAIN Ini!Letter \subseteq U, NEW r \in Readings(U), NEW c \in U
    PROVE  Ini!Read(r, c) \in Readings(U)
<1>1. r.text \in Seq(U) /\ r.escaped \in BOOLEAN /\ r = [text |-> r.text, escaped |-> r.escaped]
  BY DEF Readings
<1>2. \A e \in U : Append(r.text, e) \in Seq(U)
  BY <1>1
<1>3. CASE r.escaped /\ c \in Ini!Letters
  <2>1. Ini!Control(c) \in U
    BY <1>3, ControlsAre
  <2>2. Ini!Read(r, c) = [text |-> Append(r.text, Ini!Control(c)), escaped |-> FALSE]
    BY <1>3 DEF Ini!Read
  <2> QED
    BY <1>2, <2>1, <2>2 DEF Readings
<1>4. CASE ~r.escaped /\ c = "\\"
  <2>1. Ini!Read(r, c) = [r EXCEPT !.escaped = TRUE]
    BY <1>4 DEF Ini!Read
  <2> QED
    BY <1>1, <2>1 DEF Readings
<1>5. CASE ~(r.escaped /\ c \in Ini!Letters) /\ ~(~r.escaped /\ c = "\\")
  <2>1. Ini!Read(r, c) = [text |-> Append(r.text, c), escaped |-> FALSE]
    BY <1>5 DEF Ini!Read
  <2> QED
    BY <1>2, <2>1 DEF Readings
<1> QED
  BY <1>3, <1>4, <1>5

(* What is written for a character is read as that character.              *)
LEMMA WrittenIsRead ==
    ASSUME NEW U, NEW t \in Seq(U), NEW c
    PROVE  \/ /\ Ini!Written(c) = <<c>> /\ c # "\\"
              /\ Ini!Read([text |-> t, escaped |-> FALSE], c) = [text |-> Append(t, c), escaped |-> FALSE]
           \/ \E d : /\ Ini!Written(c) = <<"\\", d>> /\ d \in {c} \cup Ini!Letters
                     /\ Ini!Read(Ini!Read([text |-> t, escaped |-> FALSE], "\\"), d)
                           = [text |-> Append(t, c), escaped |-> FALSE]
<1> DEFINE r == [text |-> t, escaped |-> FALSE]
           q == [text |-> t, escaped |-> TRUE]
<1>1. r.text = t /\ ~r.escaped /\ q.text = t /\ q.escaped /\ [r EXCEPT !.escaped = TRUE] = q
  <2>1. r.text = t /\ q.text = t
    OBVIOUS
  <2>2. r.escaped = FALSE /\ q.escaped = TRUE
    OBVIOUS
  <2>3. [r EXCEPT !.escaped = TRUE] = q
    <3>1. r \in Readings(U) /\ q \in Readings(U)
      BY DEF Readings
    <3> DEFINE e == [r EXCEPT !.escaped = TRUE]
    <3> HIDE DEF r
    <3>2. e \in Readings(U) /\ e.text = r.text /\ e.escaped = TRUE
      BY <3>1 DEF Readings
    <3> HIDE DEF e, q
    <3>3. e = q
      BY <2>1, <2>2, <3>1, <3>2 DEF Readings
    <3> QED
      BY <3>3 DEF e
  <2> QED
    BY <2>1, <2>2, <2>3
<1> HIDE DEF r, q
<1>2. Ini!Read(r, "\\") = q
  BY <1>1 DEF Ini!Read
<1>3. CASE c \in DOMAIN Ini!Letter
  <2>1. Ini!Letter[c] \in Ini!Letters
    BY <1>3 DEF Ini!Letters
  <2>2. Ini!Written(c) = <<"\\", Ini!Letter[c]>>
    <3>1. c \notin {"[", "]", "\\", "'", Ini!Quote}
      BY <1>3, LettersAre DEF Ini!Quote
    <3> QED
      BY <1>3, <3>1 DEF Ini!Written
  <2>3. Ini!Read(q, Ini!Letter[c]) = [text |-> Append(t, c), escaped |-> FALSE]
    BY <1>1, <1>3, <2>1, ControlsAre DEF Ini!Read
  <2> QED
    BY <1>2, <2>1, <2>2, <2>3 DEF r
<1>4. CASE c \notin DOMAIN Ini!Letter /\ c \in {"[", "]", "\\", "'", Ini!Quote}
  <2>1. Ini!Written(c) = <<"\\", c>>
    BY <1>4 DEF Ini!Written
  <2>2. c \notin Ini!Letters
    BY <1>4, ControlsAre DEF Ini!Quote
  <2>3. Ini!Read(q, c) = [text |-> Append(t, c), escaped |-> FALSE]
    BY <1>1, <2>2 DEF Ini!Read
  <2> QED
    BY <1>2, <2>1, <2>3 DEF r
<1>5. CASE c \notin DOMAIN Ini!Letter /\ c \notin {"[", "]", "\\", "'", Ini!Quote}
  <2>1. Ini!Written(c) = <<c>>
    BY <1>5 DEF Ini!Written
  <2>2. c # "\\"
    BY <1>5
  <2>3. Ini!Read(r, c) = [text |-> Append(t, c), escaped |-> FALSE]
    BY <1>1, <2>2 DEF Ini!Read
  <2> QED
    BY <2>1, <2>2, <2>3 DEF r
<1> QED
  BY <1>3, <1>4, <1>5

(* What has been read after all of a text.                                 *)
After(s) == (CHOOSE f : Reads(s, f))[Len(s)]

LEMMA UnescapeIs == ASSUME NEW s PROVE Ini!unescape(s) = After(s).text
BY DEF Ini!unescape, After, Reads

LEMMA ReadsAt ==
    ASSUME NEW s, NEW f, Reads(s, f)
    PROVE  /\ f = [n \in 0 .. Len(s) |-> f[n]]
           /\ \A n \in 0 .. Len(s) : f[n] = IF n = 0 THEN FreshReading ELSE Ini!Read(f[n - 1], s[n])
<1> DEFINE body(n) == IF n = 0 THEN [text |-> <<>>, escaped |-> FALSE] ELSE Ini!Read(f[n - 1], s[n])
<1>1. f = [n \in 0 .. Len(s) |-> body(n)]
  BY DEF Reads
<1> HIDE DEF body
<1>2. \A n \in 0 .. Len(s) : f[n] = body(n)
  BY <1>1
<1>3. f = [n \in 0 .. Len(s) |-> f[n]]
  BY <1>1, <1>2
<1> QED
  BY <1>2, <1>3 DEF body, FreshReading

LEMMA ReadsExist ==
    ASSUME NEW U, DOMAIN Ini!Letter \subseteq U, NEW s \in Seq(U)
    PROVE  \E f \in [0 .. Len(s) -> Readings(U)] : Reads(s, f)
<1>1. Len(s) \in Nat /\ \A i \in 1 .. Len(s) : s[i] \in U
  OBVIOUS
<1> DEFINE n == Len(s)
           step == [e \in Readings(U) \X (1 .. n) |-> Ini!Read(e[1], s[e[2]])]
<1>2. step \in [Readings(U) \X (1 .. n) -> Readings(U)]
  <2>1. ASSUME NEW e \in Readings(U) \X (1 .. n) PROVE Ini!Read(e[1], s[e[2]]) \in Readings(U)
    <3>1. e[1] \in Readings(U) /\ s[e[2]] \in U
      BY <1>1
    <3> QED
      BY <3>1, ReadTyped
  <2> QED
    BY <2>1
<1>3. FreshReading \in Readings(U)
  BY DEF FreshReading, Readings
<1>4. \A r \in Readings(U), i \in 1 .. n : step[<<r, i>>] = Ini!Read(r, s[i])
  OBVIOUS
<1>5. n \in Nat
  BY <1>1
<1> HIDE DEF step
<1>6. PICK f : Solves(f, Readings(U), FreshReading, n, step)
  BY <1>2, <1>3, <1>5, RecursionExists
<1>7. f \in [0 .. n -> Readings(U)] /\ f[0] = FreshReading
  BY <1>6 DEF Solves
<1>8. ASSUME NEW i \in 0 .. n PROVE f[i] = IF i = 0 THEN FreshReading ELSE Ini!Read(f[i - 1], s[i])
  <2>1. CASE i = 0
    BY <1>7, <2>1
  <2>2. CASE i # 0
    <3>1. i \in 1 .. n /\ i - 1 \in 0 .. n
      BY <1>5, <2>2
    <3>2. f[i] = step[<<f[i - 1], i>>] /\ f[i - 1] \in Readings(U)
      BY <1>6, <1>7, <3>1 DEF Solves
    <3>3. step[<<f[i - 1], i>>] = Ini!Read(f[i - 1], s[i])
      BY <1>4, <3>1, <3>2, Zenon
    <3> QED
      BY <2>2, <3>2, <3>3
  <2> QED
    BY <2>1, <2>2
<1>9. f = [i \in 0 .. n |-> f[i]]
  BY <1>7
<1>10. Reads(s, f)
  BY <1>8, <1>9 DEF Reads, FreshReading
<1> QED
  BY <1>7, <1>10

LEMMA ReadingMore ==
    ASSUME NEW U, DOMAIN Ini!Letter \subseteq U, NEW s \in Seq(U), NEW c \in U
    PROVE  /\ After(s) \in Readings(U)
           /\ After(Append(s, c)) = Ini!Read(After(s), c)
<1> DEFINE q == Append(s, c)
<1>1. /\ q \in Seq(U) /\ Len(q) = Len(s) + 1 /\ q[Len(s) + 1] = c
      /\ \A i \in 1 .. Len(s) : q[i] = s[i]
      /\ Len(s) \in Nat
  OBVIOUS
<1> HIDE DEF q
<1> DEFINE f == CHOOSE f : Reads(s, f)
           g == CHOOSE g : Reads(q, g)
<1>2. Reads(s, f) /\ Reads(q, g)
  BY <1>1, ReadsExist
<1>3. After(s) = f[Len(s)] /\ After(q) = g[Len(q)]
  BY DEF After
<1> HIDE DEF f, g
<1>4. PICK h \in [0 .. Len(s) -> Readings(U)] : Reads(s, h)
  BY ReadsExist
<1>5. ASSUME NEW i \in 1 .. Len(s)
      PROVE  /\ f[i] = Ini!Read(f[i - 1], s[i]) /\ g[i] = Ini!Read(g[i - 1], s[i])
             /\ h[i] = Ini!Read(h[i - 1], s[i])
  <2>1. i \in 0 .. Len(s) /\ i \in 0 .. Len(q) /\ i # 0
    BY <1>1
  <2>2. q[i] = s[i]
    BY <1>1
  <2> QED
    BY <1>2, <1>4, <2>1, <2>2, ReadsAt
<1>6. f[0] = FreshReading /\ g[0] = FreshReading /\ h[0] = FreshReading
  <2>1. 0 \in 0 .. Len(s) /\ 0 \in 0 .. Len(q)
    BY <1>1
  <2> QED
    BY <1>2, <1>4, <2>1, ReadsAt
<1>7. GoOnAlike(f, g, Len(s)) /\ GoOnAlike(f, h, Len(s))
  BY <1>5, <1>6 DEF GoOnAlike
<1>8. f[Len(s)] = g[Len(s)] /\ f[Len(s)] = h[Len(s)]
  <2>1. Len(s) \in 0 .. Len(s)
    BY <1>1
  <2> QED
    BY <1>1, <1>7, <2>1, RecursionIsUnique
<1>9. g[Len(q)] = Ini!Read(g[Len(s)], c)
  <2>1. Len(q) \in 0 .. Len(q) /\ Len(q) # 0 /\ Len(q) - 1 = Len(s) /\ q[Len(q)] = c
    BY <1>1
  <2>2. g[Len(q)] = Ini!Read(g[Len(q) - 1], q[Len(q)])
    BY <1>2, <2>1, ReadsAt
  <2> QED
    BY <2>1, <2>2
<1>10. h[Len(s)] \in Readings(U)
  BY <1>1, <1>4
<1> QED
  BY <1>3, <1>8, <1>9, <1>10 DEF q

LEMMA NothingRead == After(<<>>) = FreshReading
<1>1. <<>> \in Seq(DOMAIN Ini!Letter) /\ Len(<<>>) = 0
  OBVIOUS
<1> DEFINE f == CHOOSE f : Reads(<<>>, f)
<1>2. Reads(<<>>, f)
  BY <1>1, ReadsExist
<1> HIDE DEF f
<1>3. 0 \in 0 .. Len(<<>>)
  BY <1>1
<1>4. f[0] = FreshReading
  BY <1>2, <1>3, ReadsAt
<1> QED
  BY <1>1, <1>4 DEF After, f

LEMMA MarksAreChars ==
    /\ DOMAIN Ini!Letter \subseteq Chars /\ Ini!Letters \subseteq Chars
    /\ Ini!Quote \in Chars
    /\ "[" \in Chars /\ "]" \in Chars /\ " " \in Chars /\ "=" \in Chars /\ "\\" \in Chars
BY LettersAre, ControlsAre DEF Chars, Ini!Quote

LEMMA WrittenTyped == \A c \in Chars : Ini!Written(c) \in Seq(Chars)
<1> SUFFICES ASSUME NEW c \in Chars PROVE Ini!Written(c) \in Seq(Chars)
  OBVIOUS
<1>1. <<>> \in Seq(Chars)
  OBVIOUS
<1>2. \/ Ini!Written(c) = <<c>>
      \/ \E d : Ini!Written(c) = <<"\\", d>> /\ d \in {c} \cup Ini!Letters
  BY <1>1, WrittenIsRead
<1>3. "\\" \in Chars /\ \A d \in {c} \cup Ini!Letters : d \in Chars
  BY MarksAreChars
<1> HIDE DEF Chars
<1>4. CASE Ini!Written(c) = <<c>>
  <2>1. <<c>> \in Seq(Chars)
    OBVIOUS
  <2> QED
    BY <1>4, <2>1, Zenon
<1>5. ASSUME NEW d \in Chars, Ini!Written(c) = <<"\\", d>> PROVE Ini!Written(c) \in Seq(Chars)
  <2> DEFINE b == "\\"
  <2>1. b \in Chars
    BY <1>3
  <2> HIDE DEF b
  <2>2. <<b, d>> \in Seq(Chars)
    BY <2>1
  <2> QED
    BY <1>5, <2>2 DEF b
<1> QED
  BY <1>2, <1>3, <1>4, <1>5

Regroups(s, t, u) == s \o (t \o u) = (s \o t) \o u

LEMMA ConcatRegroups ==
    ASSUME NEW U, NEW s \in Seq(U), NEW t \in Seq(U), NEW u \in Seq(U)
    PROVE  Regroups(s, t, u)
BY ConcatAssociative DEF Regroups

LEMMA OneMore ==
    ASSUME NEW U, NEW s \in Seq(U), NEW a \in U, NEW b \in U
    PROVE  s \o <<a>> = Append(s, a) /\ s \o <<a, b>> = Append(Append(s, a), b)
<1>1. s \o <<a>> = Append(s, a)
  OBVIOUS
<1>2. <<a>> \in Seq(U) /\ <<b>> \in Seq(U) /\ <<a, b>> = <<a>> \o <<b>>
  <2>1. <<a>> \in Seq(U) /\ <<b>> \in Seq(U) /\ <<a, b>> \in Seq(U)
    OBVIOUS
  <2>2. Len(<<a>>) = 1 /\ Len(<<b>>) = 1 /\ <<a>>[1] = a /\ <<b>>[1] = b
    OBVIOUS
  <2> DEFINE p == <<a>>
             q == <<b>>
             r == p \o q
             t == <<a, b>>
  <2>3. Len(t) = 2 /\ t[1] = a /\ t[2] = b /\ t \in Seq(U)
    BY <2>1
  <2>4. p \in Seq(U) /\ q \in Seq(U) /\ Len(p) = 1 /\ Len(q) = 1 /\ p[1] = a /\ q[1] = b
    BY <2>1, <2>2
  <2> HIDE DEF p, q, t
  <2>5. r \in Seq(U) /\ Len(r) = 2 /\ r[1] = a /\ r[2] = b
    BY <2>4, ConcatProperties
  <2> HIDE DEF r
  <2>6. \A i \in 1 .. 2 : r[i] = t[i]
    <3>1. \A i \in 1 .. 2 : i = 1 \/ i = 2
      OBVIOUS
    <3> QED
      BY <2>3, <2>5, <3>1
  <2>7. r = t
    BY <2>3, <2>5, <2>6, SeqEqual
  <2> QED
    BY <2>1, <2>7 DEF r, t, p, q
<1>3. s \o (<<a>> \o <<b>>) = (s \o <<a>>) \o <<b>>
  <2>1. Regroups(s, <<a>>, <<b>>)
    BY <1>2, ConcatRegroups
  <2> QED
    BY <2>1 DEF Regroups
<1>4. (s \o <<a>>) \in Seq(U)
  OBVIOUS
<1>5. (s \o <<a>>) \o <<b>> = Append(s \o <<a>>, b)
  BY <1>4
<1> QED
  BY <1>1, <1>2, <1>3, <1>5, Zenon

LEMMA EscapeMore ==
    ASSUME NEW s \in Seq(Chars), NEW c \in Chars
    PROVE  /\ Ini!escape(s) \in Seq(Chars)
           /\ Ini!escape(Append(s, c)) = Ini!escape(s) \o Ini!Written(c)
<1> HIDE DEF Chars
<1> DEFINE q == Append(s, c)
           p == [i \in DOMAIN s |-> Ini!Written(s[i])]
           x == Ini!Written(c)
<1>1. /\ q \in Seq(Chars) /\ Len(q) = Len(s) + 1 /\ q[Len(s) + 1] = c
      /\ \A i \in 1 .. Len(s) : q[i] = s[i]
      /\ Len(s) \in Nat /\ DOMAIN s = 1 .. Len(s) /\ DOMAIN q = 1 .. Len(s) + 1
      /\ \A i \in 1 .. Len(s) : s[i] \in Chars
  OBVIOUS
<1>2. p \in Seq(Seq(Chars)) /\ Len(p) = Len(s) /\ DOMAIN p = 1 .. Len(s) /\ x \in Seq(Chars)
  <2>1. \A i \in 1 .. Len(s) : Ini!Written(s[i]) \in Seq(Chars)
    BY <1>1, WrittenTyped
  <2>2. p \in [1 .. Len(s) -> Seq(Chars)]
    BY <1>1, <2>1
  <2>3. p \in Seq(Seq(Chars))
    BY <1>1, <2>2
  <2>4. DOMAIN p = 1 .. Len(s)
    BY <1>1
  <2> HIDE DEF p
  <2> QED
    BY <1>1, <2>3, <2>4, WrittenTyped, LenProperties
<1> HIDE DEF q
<1>3. [i \in DOMAIN q |-> Ini!Written(q[i])] = Append(p, x)
  <2> DEFINE r == [i \in DOMAIN q |-> Ini!Written(q[i])]
  <2>1. \A i \in 1 .. Len(s) + 1 : r[i] = IF i = Len(s) + 1 THEN x ELSE p[i]
    <3> SUFFICES ASSUME NEW i \in 1 .. Len(s) + 1 PROVE r[i] = IF i = Len(s) + 1 THEN x ELSE p[i]
      OBVIOUS
    <3>1. r[i] = Ini!Written(q[i])
      BY <1>1
    <3>2. CASE i = Len(s) + 1
      BY <1>1, <3>1, <3>2
    <3>3. CASE i # Len(s) + 1
      <4>1. i \in 1 .. Len(s)
        BY <1>1, <3>3
      <4>2. q[i] = s[i] /\ p[i] = Ini!Written(s[i])
        BY <1>1, <4>1
      <4> QED
        BY <3>1, <3>3, <4>2
    <3> QED
      BY <3>2, <3>3
  <2>2. DOMAIN r = 1 .. Len(s) + 1 /\ r = [i \in 1 .. Len(s) + 1 |-> r[i]]
    BY <1>1
  <2> DEFINE a == Append(p, x)
  <2>3. /\ DOMAIN a = 1 .. Len(s) + 1 /\ a = [i \in 1 .. Len(s) + 1 |-> a[i]]
        /\ \A i \in 1 .. Len(s) + 1 : a[i] = IF i = Len(s) + 1 THEN x ELSE p[i]
    <3> HIDE DEF p, x
    <3>1. IsSeq(p)
      BY <1>2 DEF IsSeq
    <3>2. IsSeq(a) /\ DOMAIN a = 1 .. Len(s) + 1 /\ a[Len(s) + 1] = x /\ \A i \in 1 .. Len(s) : a[i] = p[i]
      <4>1. \A e : /\ IsSeq(Append(p, e)) /\ DOMAIN Append(p, e) = 1 .. Len(p) + 1
                   /\ Append(p, e)[Len(p) + 1] = e
                   /\ \A i \in DOMAIN p : Append(p, e)[i] = p[i]
        BY <3>1, SeqFacts
      <4>2. /\ IsSeq(a) /\ DOMAIN a = 1 .. Len(p) + 1 /\ a[Len(p) + 1] = x
            /\ \A i \in DOMAIN p : a[i] = p[i]
        BY <4>1
      <4> HIDE DEF a
      <4> QED
        BY <1>2, <4>2
    <3>3. a = [i \in 1 .. Len(a) |-> a[i]] /\ DOMAIN a = 1 .. Len(a)
      BY <3>2, SeqFacts
    <3>4. a = [i \in 1 .. Len(s) + 1 |-> a[i]]
      <4> HIDE DEF a
      <4> QED
        BY <3>2, <3>3
    <3>5. \A i \in 1 .. Len(s) + 1 : i = Len(s) + 1 \/ i \in 1 .. Len(s)
      BY <1>1
    <3> HIDE DEF a
    <3> QED
      BY <3>2, <3>4, <3>5
  <2> HIDE DEF r, a, x, p
  <2>4. r = a
    BY <2>1, <2>2, <2>3
  <2> QED
    BY <2>4 DEF r, a
<1>4. Ini!escape(s) = Ini!FlattenSeq(p) /\ Ini!escape(q) = Ini!FlattenSeq(Append(p, x))
  BY <1>3 DEF Ini!escape
<1> HIDE DEF p, x
<1>5. Ini!FlattenSeq(p) \in Seq(Chars)
  BY <1>2, FlattenIs
<1>6. Ini!FlattenSeq(Append(p, x)) = Ini!FlattenSeq(p) \o x
  BY <1>2, FlattenMore
<1> QED
  BY <1>4, <1>5, <1>6 DEF q, x

LEMMA NothingEscaped == Ini!escape(<<>>) = <<>>
<1>1. [i \in DOMAIN <<>> |-> Ini!Written(<<>>[i])] = <<>>
  OBVIOUS
<1>2. <<>> \in Seq(Seq({}))
  OBVIOUS
<1> QED
  BY <1>1, <1>2, FlattenIs DEF Ini!escape

LEMMA PrefixIs ==
    ASSUME NEW U, NEW t \in Seq(U), NEW n \in 1 .. Len(t)
    PROVE  /\ SubSeq(t, 1, n - 1) \in Seq(U) /\ t[n] \in U
           /\ SubSeq(t, 1, n) = Append(SubSeq(t, 1, n - 1), t[n])
<1>1. Len(t) \in Nat /\ t[n] \in U
  OBVIOUS
<1> DEFINE a == SubSeq(t, 1, n)
           b == SubSeq(t, 1, n - 1)
<1>2. a \in Seq(U) /\ Len(a) = n /\ \A i \in 1 .. n : a[i] = t[i]
  BY <1>1
<1>3. b \in Seq(U) /\ Len(b) = n - 1 /\ \A i \in 1 .. n - 1 : b[i] = t[i]
  BY <1>1
<1> HIDE DEF a, b
<1>4. /\ Append(b, t[n]) \in Seq(U) /\ Len(Append(b, t[n])) = n
      /\ \A i \in 1 .. n - 1 : Append(b, t[n])[i] = b[i]
      /\ Append(b, t[n])[n] = t[n]
  BY <1>1, <1>3, AppendProperties
<1>5. \A i \in 1 .. n : Append(b, t[n])[i] = a[i]
  BY <1>2, <1>3, <1>4
<1> DEFINE d == Append(b, t[n])
<1> HIDE DEF d
<1>6. a = d
  BY <1>2, <1>4, <1>5, SeqEqual DEF d
<1> QED
  BY <1>1, <1>3, <1>6 DEF a, b, d

(* What is written for a text is read as the text, after what was read.    *)
LEMMA EscapedIsRead ==
    ASSUME NEW s \in Seq(Chars), NEW p \in Seq(Chars), After(s) = [text |-> p, escaped |-> FALSE],
           NEW t \in Seq(Chars)
    PROVE  /\ Ini!escape(t) \in Seq(Chars)
           /\ After(s \o Ini!escape(t)) = [text |-> p \o t, escaped |-> FALSE]
<1> HIDE DEF Chars
<1> DEFINE Up(n) == SubSeq(t, 1, n)
           Right(u) == After(s \o Ini!escape(u)) = [text |-> p \o u, escaped |-> FALSE]
<1>1. Len(t) \in Nat /\ Up(Len(t)) = t /\ Up(0) = <<>>
  OBVIOUS
<1>2. Right(<<>>)
  <2>1. s \o <<>> = s /\ p \o <<>> = p
    OBVIOUS
  <2> QED
    BY <2>1, NothingEscaped
<1>3. ASSUME NEW u \in Seq(Chars), NEW c \in Chars, Right(u) PROVE Right(Append(u, c))
  <2> DEFINE x == s \o Ini!escape(u)
             y == p \o u
             r == [text |-> y, escaped |-> FALSE]
  <2>1. /\ Ini!escape(u) \in Seq(Chars)
        /\ Ini!escape(Append(u, c)) = Ini!escape(u) \o Ini!Written(c)
    BY EscapeMore
  <2>2. x \in Seq(Chars) /\ y \in Seq(Chars) /\ Ini!Written(c) \in Seq(Chars)
    BY <2>1, WrittenTyped, ConcatProperties
  <2>3. s \o Ini!escape(Append(u, c)) = x \o Ini!Written(c)
    <3> DEFINE e == Ini!escape(u)
               w == Ini!Written(c)
    <3>1. e \in Seq(Chars) /\ w \in Seq(Chars) /\ Ini!escape(Append(u, c)) = e \o w
      BY <2>1, <2>2
    <3>2. e \in Seq(Chars) /\ w \in Seq(Chars) /\ s \in Seq(Chars)
      BY <3>1
    <3> HIDE DEF e, w, x, y, r, Right, Up
    <3>3. Regroups(s, e, w)
      BY <3>2, ConcatRegroups
    <3> QED
      BY <3>1, <3>3 DEF Regroups, e, w, x
  <2>4. p \o Append(u, c) = Append(y, c)
    <3>1. Append(u, c) = u \o <<c>> /\ <<c>> \in Seq(Chars)
      OBVIOUS
    <3>2. p \o (u \o <<c>>) = (p \o u) \o <<c>>
      <4>1. Regroups(p, u, <<c>>)
        BY <3>1, ConcatRegroups
      <4> QED
        BY <4>1 DEF Regroups
    <3>3. y \o <<c>> = Append(y, c)
      <4> HIDE DEF y
      <4> QED
        BY <2>2
    <3> QED
      BY <3>1, <3>2, <3>3
  <2>5. After(x) = r
    BY <1>3
  <2>6. DOMAIN Ini!Letter \subseteq Chars /\ Ini!Letters \subseteq Chars /\ "\\" \in Chars
    BY MarksAreChars
  <2> HIDE DEF x, y, r
  <2>7. CASE /\ Ini!Written(c) = <<c>>
             /\ Ini!Read(r, c) = [text |-> Append(y, c), escaped |-> FALSE]
    <3>1. x \o <<c>> = Append(x, c)
      BY <2>2
    <3>2. After(Append(x, c)) = Ini!Read(After(x), c)
      BY <2>2, <2>6, ReadingMore
    <3>3. After(s \o Ini!escape(Append(u, c))) = [text |-> p \o Append(u, c), escaped |-> FALSE]
      BY <2>3, <2>4, <2>5, <2>7, <3>1, <3>2
    <3> QED
      BY <3>3
  <2>8. ASSUME NEW d, Ini!Written(c) = <<"\\", d>>, d \in {c} \cup Ini!Letters,
               Ini!Read(Ini!Read(r, "\\"), d) = [text |-> Append(y, c), escaped |-> FALSE]
        PROVE  Right(Append(u, c))
    <3>1. d \in Chars /\ Append(x, "\\") \in Seq(Chars)
      BY <2>2, <2>6, <2>8
    <3>2. x \o <<"\\", d>> = Append(Append(x, "\\"), d)
      BY <2>2, <2>6, <3>1, OneMore
    <3>3. After(Append(x, "\\")) = Ini!Read(r, "\\")
      BY <2>2, <2>5, <2>6, ReadingMore
    <3>4. After(Append(Append(x, "\\"), d)) = Ini!Read(After(Append(x, "\\")), d)
      BY <2>6, <3>1, ReadingMore
    <3>5. After(s \o Ini!escape(Append(u, c))) = [text |-> p \o Append(u, c), escaped |-> FALSE]
      BY <2>3, <2>4, <2>8, <3>2, <3>3, <3>4
    <3> QED
      BY <3>5
  <2> QED
    BY <2>2, <2>7, <2>8, WrittenIsRead DEF r
<1> HIDE DEF Right
<1> DEFINE Bad == {n \in 0 .. Len(t) : ~Right(Up(n))}
<1>4. Bad = {}
  <2> SUFFICES ASSUME Bad # {} PROVE FALSE
    OBVIOUS
  <2>1. PICK n \in Bad : \A k \in Bad : n <= k
    <3>1. Bad \in SUBSET Nat
      OBVIOUS
    <3> HIDE DEF Bad
    <3> QED
      BY <3>1, LeastExists
  <2>2. n \in 0 .. Len(t) /\ ~Right(Up(n)) /\ n # 0
    BY <1>1, <1>2
  <2>3. n \in 1 .. Len(t) /\ n - 1 \in 0 .. Len(t) /\ ~(n <= n - 1)
    BY <1>1, <2>2
  <2>4. Right(Up(n - 1))
    BY <2>1, <2>3
  <2>5. Up(n - 1) \in Seq(Chars) /\ t[n] \in Chars /\ Up(n) = Append(Up(n - 1), t[n])
    BY <2>3, PrefixIs
  <2> HIDE DEF Up
  <2> QED
    BY <1>3, <2>2, <2>4, <2>5
<1>5. Right(t)
  <2>1. Len(t) \in 0 .. Len(t)
    BY <1>1
  <2>2. Right(Up(Len(t)))
    BY <1>4, <2>1
  <2> QED
    BY <1>1, <2>2
<1>6. Ini!escape(t) \in Seq(Chars)
  <2>1. "\\" \in Chars
    BY MarksAreChars
  <2> QED
    BY <2>1, EscapeMore
<1> QED
  BY <1>5, <1>6 DEF Right

LEMMA EscapedComesBack ==
    ASSUME NEW t \in Seq(Chars)
    PROVE  /\ Ini!escape(t) \in Seq(Chars)
           /\ Ini!unescape(Ini!escape(t)) = t
           /\ Ini!Quoted(Ini!escape(t)) \in Seq(Chars)
           /\ Ini!unescape(Ini!Quoted(Ini!escape(t))) = Ini!Quoted(t)
<1> HIDE DEF Chars
<1> DEFINE e == Ini!escape(t)
           q == Ini!Quote
<1>1. DOMAIN Ini!Letter \subseteq Chars /\ q \in Chars
  BY MarksAreChars
<1>2. <<>> \in Seq(Chars) /\ After(<<>>) = [text |-> <<>>, escaped |-> FALSE]
  BY NothingRead DEF FreshReading
<1>3. e \in Seq(Chars) /\ After(<<>> \o e) = [text |-> <<>> \o t, escaped |-> FALSE]
  BY <1>2, EscapedIsRead
<1>4. <<>> \o e = e /\ <<>> \o t = t
  <2> HIDE DEF e
  <2> QED
    BY <1>3
<1>5. \A r : Ini!Read([text |-> r, escaped |-> FALSE], q) = [text |-> Append(r, q), escaped |-> FALSE]
  BY DEF Ini!Read, Ini!Quote
<1> HIDE DEF e, q
<1>6. After(<<q>>) = [text |-> <<q>>, escaped |-> FALSE] /\ <<q>> \in Seq(Chars)
  <2>1. After(Append(<<>>, q)) = Ini!Read(After(<<>>), q)
    BY <1>1, <1>2, ReadingMore
  <2>2. Append(<<>>, q) = <<q>>
    OBVIOUS
  <2>3. Ini!Read([text |-> <<>>, escaped |-> FALSE], q) = [text |-> Append(<<>>, q), escaped |-> FALSE]
    BY <1>5
  <2>4. After(<<q>>) = [text |-> <<q>>, escaped |-> FALSE]
    BY <1>2, <2>1, <2>2, <2>3
  <2>5. <<q>> \in Seq(Chars)
    BY <1>1
  <2> QED
    BY <2>4, <2>5
<1>7. After(<<q>> \o e) = [text |-> <<q>> \o t, escaped |-> FALSE]
  BY <1>6, EscapedIsRead DEF e
<1>8. <<q>> \o e \in Seq(Chars) /\ <<q>> \o t \in Seq(Chars)
  BY <1>3, <1>6, ConcatProperties
<1>9. After(Append(<<q>> \o e, q)) = [text |-> Append(<<q>> \o t, q), escaped |-> FALSE]
  <2>1. After(Append(<<q>> \o e, q)) = Ini!Read(After(<<q>> \o e), q)
    BY <1>1, <1>8, ReadingMore
  <2> QED
    BY <1>5, <1>7, <2>1
<1>10. (<<q>> \o e) \o <<q>> = Append(<<q>> \o e, q) /\ (<<q>> \o t) \o <<q>> = Append(<<q>> \o t, q)
  BY <1>1, <1>8, OneMore
<1>11. Ini!Quoted(e) = (<<q>> \o e) \o <<q>> /\ Ini!Quoted(t) = (<<q>> \o t) \o <<q>>
  BY DEF Ini!Quoted, q
<1>12. Append(<<q>> \o e, q) \in Seq(Chars)
  BY <1>1, <1>8
<1>13. Ini!unescape(e) = t
  <2>1. Ini!unescape(e) = [text |-> t, escaped |-> FALSE].text
    BY <1>3, <1>4, UnescapeIs
  <2> QED
    BY <2>1
<1>14. Ini!unescape(Ini!Quoted(e)) = Ini!Quoted(t)
  <2>1. Ini!unescape(Ini!Quoted(e)) = [text |-> Ini!Quoted(t), escaped |-> FALSE].text
    BY <1>9, <1>10, <1>11, UnescapeIs
  <2> QED
    BY <2>1
<1>15. Ini!Quoted(e) \in Seq(Chars)
  BY <1>10, <1>11, <1>12
<1> QED
  BY <1>3, <1>13, <1>14, <1>15 DEF e

(* Least and greatest.                                                     *)
LEMMA LeastIs ==
    ASSUME NEW S \in SUBSET Nat, NEW x \in S, \A y \in S : x <= y
    PROVE  S # {} /\ Ini!Min(S) = x
<1>1. \A y \in S : (\A z \in S : y <= z) => y = x
  OBVIOUS
<1> QED
  BY <1>1 DEF Ini!Min

LEMMA GreatestIs ==
    ASSUME NEW S \in SUBSET Nat, NEW x \in S, \A y \in S : y <= x
    PROVE  S # {} /\ Ini!Max(S) = x
<1>1. \A y \in S : (\A z \in S : y >= z) => y = x
  OBVIOUS
<1>2. \A y \in S : x >= y
  OBVIOUS
<1> QED
  BY <1>1, <1>2 DEF Ini!Max

LEMMA SelectsTheLast ==
    ASSUME NEW n \in Nat, NEW S \in SUBSET (1 .. n)
    PROVE  LET r == IF S # {} THEN Ini!Max(S) ELSE 0
           IN  r \in 0 .. n /\ (r = 0 <=> S = {}) /\ (r # 0 => r \in S /\ \A y \in S : y <= r)
<1>1. CASE S = {}
  BY <1>1
<1>2. CASE S # {}
  <2> DEFINE T == {n - y : y \in S}
  <2>1. T \in SUBSET Nat /\ T # {}
    <3>1. \A y \in S : n - y \in Nat
      OBVIOUS
    <3>2. PICK y \in S : TRUE
      BY <1>2
    <3>3. n - y \in T
      OBVIOUS
    <3> QED
      BY <3>1, <3>3
  <2>2. PICK u \in T : \A z \in T : u <= z
    <3> HIDE DEF T
    <3> QED
      BY <2>1, LeastExists
  <2>3. PICK y \in S : u = n - y
    OBVIOUS
  <2>4. \A z \in S : z <= y
    <3> SUFFICES ASSUME NEW z \in S PROVE z <= y
      OBVIOUS
    <3>1. n - y <= n - z
      BY <2>2, <2>3
    <3>2. y \in Int /\ z \in Int
      OBVIOUS
    <3> QED
      BY <3>1, <3>2
  <2>5. S \in SUBSET Nat
    OBVIOUS
  <2>6. Ini!Max(S) = y
    BY <2>4, <2>5, GreatestIs
  <2>7. y \in 0 .. n /\ y # 0
    OBVIOUS
  <2> QED
    BY <1>2, <2>4, <2>6, <2>7
<1> QED
  BY <1>1, <1>2

(* A part of a text.                                                       *)
LEMMA PieceIs ==
    ASSUME NEW U, NEW s \in Seq(U), NEW y \in Seq(U), NEW a \in Nat, a + Len(y) <= Len(s),
           \A i \in 1 .. Len(y) : s[a + i] = y[i]
    PROVE  SubSeq(s, a + 1, a + Len(y)) = y
<1> DEFINE n == Len(y)
           p == SubSeq(s, a + 1, a + n)
<1>1. n \in Nat /\ Len(s) \in Nat
  OBVIOUS
<1>2. \A i \in a + 1 .. a + n : s[i] \in U
  BY <1>1
<1>3. /\ p \in Seq(U) /\ Len(p) = IF a + 1 <= a + n THEN (a + n) - (a + 1) + 1 ELSE 0
      /\ \A i \in 1 .. (a + n) - (a + 1) + 1 : p[i] = s[a + 1 + i - 1]
  BY <1>1, <1>2, SubSeqProperties
<1> HIDE DEF p
<1>4. Len(p) = n
  BY <1>1, <1>3
<1>5. ASSUME NEW i \in 1 .. n PROVE p[i] = y[i]
  <2>1. p[i] = s[a + 1 + i - 1] /\ a + 1 + i - 1 = a + i
    BY <1>1, <1>3
  <2> QED
    BY <2>1
<1>6. p = y
  <2> HIDE DEF n
  <2> QED
    BY <1>3, <1>4, <1>5, SeqEqual DEF n
<1> QED
  BY <1>6 DEF p

LEMMA Enclosed ==
    ASSUME NEW U, NEW b \in U, NEW c \in U, NEW e \in Seq(U)
    PROVE  LET s == (<<b>> \o e) \o <<c>>
           IN  /\ s \in Seq(U) /\ Len(s) = Len(e) + 2 /\ s[1] = b /\ s[Len(e) + 2] = c
               /\ \A i \in 1 .. Len(e) : s[1 + i] = e[i]
<1> DEFINE n == Len(e)
           p == <<b>>
           q == <<c>>
           x == p \o e
           s == x \o q
<1>1. /\ p \in Seq(U) /\ q \in Seq(U) /\ Len(p) = 1 /\ Len(q) = 1 /\ p[1] = b /\ q[1] = c
      /\ n \in Nat
  OBVIOUS
<1> HIDE DEF p, q
<1>2. /\ x \in Seq(U) /\ Len(x) = Len(p) + Len(e)
      /\ \A i \in 1 .. Len(p) + Len(e) : x[i] = IF i <= Len(p) THEN p[i] ELSE e[i - Len(p)]
  BY <1>1, ConcatProperties
<1> HIDE DEF x
<1>3. /\ s \in Seq(U) /\ Len(s) = Len(x) + Len(q)
      /\ \A i \in 1 .. Len(x) + Len(q) : s[i] = IF i <= Len(x) THEN x[i] ELSE q[i - Len(x)]
  <2>1. x \in Seq(U) /\ q \in Seq(U)
    BY <1>1, <1>2
  <2> QED
    BY ONLY <2>1, ConcatProperties
<1> HIDE DEF s
<1>4. Len(x) = n + 1 /\ Len(s) = n + 2
  BY <1>1, <1>2, <1>3
<1>5. s[1] = b /\ s[n + 2] = c
  <2>1. 1 <= n + 1 /\ 1 \in 1 .. n + 2 /\ 1 \in 1 .. n + 1 /\ n + 2 \in 1 .. n + 2 /\ ~(n + 2 <= n + 1)
        /\ (n + 2) - (n + 1) = 1
    BY <1>1
  <2>2. s[1] = x[1] /\ s[n + 2] = q[1]
    BY <1>1, <1>3, <1>4, <2>1
  <2>3. x[1] = p[1]
    BY <1>1, <1>2, <2>1
  <2> QED
    BY <1>1, <2>2, <2>3
<1>6. ASSUME NEW i \in 1 .. n PROVE s[1 + i] = e[i]
  <2>1. 1 + i \in 1 .. n + 2 /\ 1 + i <= n + 1 /\ 1 + i \in 1 .. n + 1 /\ ~(1 + i <= 1) /\ (1 + i) - 1 = i
    BY <1>1
  <2>2. s[1 + i] = x[1 + i]
    BY <1>1, <1>3, <1>4, <2>1
  <2>3. x[1 + i] = e[i]
    BY <1>1, <1>2, <2>1
  <2> QED
    BY <2>2, <2>3
<1> QED
  BY <1>3, <1>4, <1>5, <1>6 DEF s, x, p, q

(* An equals sign is written for nothing else.                             *)
LEMMA SignIsKept ==
    ASSUME NEW t \in Seq(Chars), ~Ini!Contains(t, "=")
    PROVE  ~Ini!Contains(Ini!escape(t), "=")
<1> HIDE DEF Chars
<1> DEFINE p == [i \in DOMAIN t |-> Ini!Written(t[i])]
           e == Ini!escape(t)
<1>1. e = Ini!FlattenSeq(p)
  BY DEF Ini!escape
<1>2. p \in Seq(Seq(Chars)) /\ DOMAIN p = DOMAIN t /\ DOMAIN t = 1 .. Len(t) /\ Len(t) \in Nat
  <2>1. \A i \in 1 .. Len(t) : t[i] \in Chars /\ Ini!Written(t[i]) \in Seq(Chars)
    BY WrittenTyped
  <2>2. DOMAIN t = 1 .. Len(t) /\ Len(t) \in Nat
    OBVIOUS
  <2>3. p \in [1 .. Len(t) -> Seq(Chars)]
    BY <2>1, <2>2
  <2> QED
    BY <2>2, <2>3
<1>3. e \in Seq(Chars)
  BY EscapedComesBack
<1>4. ASSUME NEW i \in 1 .. Len(e) PROVE e[i] # "="
  <2>1. i \in DOMAIN Ini!FlattenSeq(p)
    BY <1>1, <1>3, LenProperties
  <2>2. PICK n \in DOMAIN p : \E m \in DOMAIN p[n] : e[i] = p[n][m]
    <3> HIDE DEF p, e
    <3>1. \E n \in DOMAIN p : \E m \in DOMAIN p[n] : Ini!FlattenSeq(p)[i] = p[n][m]
      <4>1. SameShape(p, p)
        BY DEF SameShape
      <4>2. FromPieces(p, p, Ini!FlattenSeq(p), Ini!FlattenSeq(p))
        BY <1>2, <4>1, PairsOfPieces
      <4> QED
        BY <2>1, <4>2 DEF FromPieces
    <3> QED
      BY <1>1, <3>1
  <2>3. PICK m \in DOMAIN p[n] : e[i] = p[n][m]
    BY <2>2
  <2>4. n \in 1 .. Len(t) /\ p[n] = Ini!Written(t[n]) /\ t[n] # "="
    BY <1>2 DEF Ini!Contains
  <2>5. "=" \notin Ini!Letters
    BY ControlsAre
  <2> DEFINE w == Ini!Written(t[n])
  <2>6. m \in DOMAIN w /\ e[i] = w[m]
    BY <2>3, <2>4
  <2>7. CASE w = <<t[n]>>
    <3>1. DOMAIN <<t[n]>> = {1} /\ <<t[n]>>[1] = t[n]
      OBVIOUS
    <3> HIDE DEF w, e
    <3>2. m = 1
      BY <2>6, <2>7, <3>1
    <3> QED
      BY <2>4, <2>6, <2>7, <3>1, <3>2
  <2>8. ASSUME NEW d, d \in {t[n]} \cup Ini!Letters, w = <<"\\", d>> PROVE e[i] # "="
    <3>1. DOMAIN <<"\\", d>> = {1, 2} /\ <<"\\", d>>[1] = "\\" /\ <<"\\", d>>[2] = d
      OBVIOUS
    <3>2. d # "="
      BY <2>4, <2>5, <2>8
    <3> HIDE DEF w, e
    <3>3. m = 1 \/ m = 2
      BY <2>6, <2>8, <3>1
    <3> QED
      BY <2>6, <2>8, <3>1, <3>2, <3>3
  <2>9. <<>> \in Seq(Chars)
    OBVIOUS
  <2> QED
    BY <2>7, <2>8, <2>9, WrittenIsRead
<1> QED
  BY <1>4 DEF Ini!Contains

(* The line of a group.                                                    *)
LEMMA GroupIsParsed ==
    ASSUME NEW t \in Seq(Chars)
    PROVE  Ini!Parse((<<"[">> \o Ini!escape(t)) \o <<"]">>) = [is |-> "group", name |-> t]
<1> HIDE DEF Chars
<1> DEFINE e == Ini!escape(t)
           n == Len(e)
           s == (<<"[">> \o e) \o <<"]">>
<1>1. e \in Seq(Chars) /\ Ini!unescape(e) = t /\ n \in Nat
  BY EscapedComesBack
<1>2. /\ s \in Seq(Chars) /\ Len(s) = n + 2 /\ s[1] = "[" /\ s[n + 2] = "]"
      /\ \A i \in 1 .. n : s[1 + i] = e[i]
  <2> DEFINE b == "["
             c == "]"
  <2>1. b \in Chars /\ c \in Chars
    BY MarksAreChars
  <2> HIDE DEF b, c, e
  <2> DEFINE x == (<<b>> \o e) \o <<c>>
  <2>2. /\ x \in Seq(Chars) /\ Len(x) = n + 2 /\ x[1] = b /\ x[n + 2] = c
        /\ \A i \in 1 .. n : x[1 + i] = e[i]
    BY <1>1, <2>1, Enclosed
  <2> QED
    BY <2>2 DEF b, c
<1> HIDE DEF e, s
<1>3. Ini!NonBlank("[") /\ Ini!NonBlank("]")
  BY DEF Ini!NonBlank
<1> DEFINE S == {i \in 1 .. Len(s) : Ini!NonBlank(s[i])}
<1>4. S \in SUBSET Nat /\ 1 \in S /\ n + 2 \in S /\ \A i \in S : 1 <= i /\ i <= n + 2
  BY <1>1, <1>2, <1>3
<1>5. Ini!SelectInSeq(s, Ini!NonBlank) = 1 /\ Ini!SelectLastInSeq(s, Ini!NonBlank) = n + 2
  <2>1. /\ Ini!SelectInSeq(s, Ini!NonBlank) = IF S # {} THEN Ini!Min(S) ELSE 0
        /\ Ini!SelectLastInSeq(s, Ini!NonBlank) = IF S # {} THEN Ini!Max(S) ELSE 0
    BY DEF Ini!SelectInSeq, Ini!SelectLastInSeq
  <2> HIDE DEF S
  <2>2. S # {} /\ Ini!Min(S) = 1
    BY <1>4, LeastIs
  <2>3. Ini!Max(S) = n + 2
    BY <1>4, GreatestIs
  <2> QED
    BY <2>1, <2>2, <2>3
<1>6. SubSeq(s, 1 + 1, (n + 2) - 1) = e
  <2>1. SubSeq(s, 1 + 1, 1 + n) = e
    BY <1>1, <1>2, PieceIs
  <2>2. (n + 2) - 1 = 1 + n
    BY <1>1
  <2> QED
    BY <2>1, <2>2
<1>7. Ini!Parse(s) = [is |-> "group", name |-> Ini!unescape(SubSeq(s, 1 + 1, (n + 2) - 1))]
  BY <1>2, <1>5 DEF Ini!Parse
<1>8. Ini!Parse(s) = [is |-> "group", name |-> t]
  BY <1>1, <1>6, <1>7
<1> QED
  BY <1>8 DEF s, e

(* A text in quotes.                                                       *)
LEMMA QuotedIs ==
    ASSUME NEW e \in Seq(Chars)
    PROVE  /\ Ini!Quoted(e) \in Seq(Chars) /\ Len(Ini!Quoted(e)) = Len(e) + 2 /\ Len(e) \in Nat
           /\ Ini!Quoted(e)[1] = Ini!Quote /\ Ini!Quoted(e)[Len(e) + 2] = Ini!Quote
           /\ \A i \in 1 .. Len(e) : Ini!Quoted(e)[1 + i] = e[i]
           /\ Ini!Unquoted(Ini!Quoted(e)) = Ini!unescape(Ini!Quoted(e))
           /\ Ini!Contains(Ini!Quoted(e), "=") <=> Ini!Contains(e, "=")
<1> HIDE DEF Chars
<1> DEFINE q == Ini!Quote
           s == Ini!Quoted(e)
<1>1. q \in Chars
  BY MarksAreChars
<1>2. s = (<<q>> \o e) \o <<q>>
  BY DEF Ini!Quoted
<1>3. Len(e) \in Nat
  OBVIOUS
<1>4. q # "="
  BY DEF Ini!Quote
<1> HIDE DEF q, s
<1>5. /\ s \in Seq(Chars) /\ Len(s) = Len(e) + 2 /\ s[1] = q /\ s[Len(e) + 2] = q
      /\ \A i \in 1 .. Len(e) : s[1 + i] = e[i]
  BY <1>1, <1>2, Enclosed
<1>6. Ini!Unquoted(s) = Ini!unescape(s)
  BY <1>5 DEF Ini!Unquoted, q
<1>7. Ini!Contains(s, "=") <=> Ini!Contains(e, "=")
  <2>1. ASSUME NEW i \in 1 .. Len(e), e[i] = "=" PROVE Ini!Contains(s, "=")
    <3>1. 1 + i \in 1 .. Len(s) /\ s[1 + i] = "="
      BY <1>3, <1>5, <2>1
    <3> QED
      BY <3>1 DEF Ini!Contains
  <2>2. ASSUME NEW i \in 1 .. Len(s), s[i] = "=" PROVE Ini!Contains(e, "=")
    <3>1. i # 1 /\ i # Len(e) + 2
      BY <1>4, <1>5, <2>2
    <3>2. i - 1 \in 1 .. Len(e) /\ 1 + (i - 1) = i
      BY <1>3, <1>5, <3>1
    <3>3. e[i - 1] = "="
      BY <1>5, <2>2, <3>2
    <3> QED
      BY <3>2, <3>3 DEF Ini!Contains
  <2> QED
    BY <2>1, <2>2 DEF Ini!Contains
<1> QED
  BY <1>3, <1>5, <1>6, <1>7 DEF s, q

(* Two texts with a sign between them.                                     *)
Signed(s, a, b) ==
    /\ s \in Seq(Chars) /\ Len(s) = Len(a) + 3 + Len(b)
    /\ s[Len(a) + 1] = " " /\ s[Len(a) + 2] = "=" /\ s[Len(a) + 3] = " "
    /\ \A i \in 1 .. Len(a) : s[i] = a[i]
    /\ \A i \in 1 .. Len(b) : s[(Len(a) + 3) + i] = b[i]

LEMMA WithASign ==
    ASSUME NEW a \in Seq(Chars), NEW b \in Seq(Chars)
    PROVE  Signed((a \o <<" ", "=", " ">>) \o b, a, b)
<1> HIDE DEF Chars
<1> DEFINE n == Len(a)
           m == <<" ", "=", " ">>
           x == a \o m
           s == x \o b
<1>1. n \in Nat /\ Len(b) \in Nat /\ Len(a) = n
  OBVIOUS
<1> HIDE DEF n
<1>2. m \in Seq(Chars) /\ Len(m) = 3 /\ m[1] = " " /\ m[2] = "=" /\ m[3] = " "
  <2> DEFINE c == " "
             d == "="
  <2>1. c \in Chars /\ d \in Chars
    BY MarksAreChars
  <2> HIDE DEF c, d
  <2>2. <<c, d, c>> \in Seq(Chars) /\ Len(<<c, d, c>>) = 3
    BY <2>1
  <2> QED
    BY <2>2 DEF c, d
<1> HIDE DEF m
<1>3. /\ x \in Seq(Chars) /\ Len(x) = Len(a) + Len(m)
      /\ \A i \in 1 .. Len(a) + Len(m) : x[i] = IF i <= Len(a) THEN a[i] ELSE m[i - Len(a)]
  BY <1>2, ConcatProperties
<1> HIDE DEF x
<1>4. /\ s \in Seq(Chars) /\ Len(s) = Len(x) + Len(b)
      /\ \A i \in 1 .. Len(x) + Len(b) : s[i] = IF i <= Len(x) THEN x[i] ELSE b[i - Len(x)]
  <2>1. x \in Seq(Chars) /\ b \in Seq(Chars)
    BY <1>3
  <2> QED
    BY ONLY <2>1, ConcatProperties
<1> HIDE DEF s
<1>5. Len(x) = n + 3 /\ Len(s) = n + 3 + Len(b) /\ Len(m) = 3 /\ Len(a) = n
  BY <1>1, <1>2, <1>3, <1>4
<1>6. ASSUME NEW i \in 1 .. n PROVE s[i] = a[i]
  <2>1. i \in 1 .. Len(x) + Len(b) /\ i <= Len(x) /\ i \in 1 .. Len(a) + Len(m) /\ i <= Len(a)
    BY <1>1, <1>5
  <2>2. s[i] = x[i]
    BY <1>4, <2>1
  <2>3. x[i] = a[i]
    BY <1>3, <2>1
  <2> QED
    BY <2>2, <2>3
<1>7. ASSUME NEW i \in 1 .. 3 PROVE s[n + i] = m[i]
  <2>1. n + i \in 1 .. Len(x) + Len(b) /\ n + i <= Len(x) /\ n + i \in 1 .. Len(a) + Len(m)
        /\ ~(n + i <= Len(a)) /\ (n + i) - Len(a) = i
    BY <1>1, <1>5
  <2>2. s[n + i] = x[n + i]
    BY <1>4, <2>1
  <2>3. x[n + i] = m[i]
    BY <1>3, <2>1
  <2> QED
    BY <2>2, <2>3
<1>8. ASSUME NEW i \in 1 .. Len(b) PROVE s[(n + 3) + i] = b[i]
  <2>1. (n + 3) + i \in 1 .. Len(x) + Len(b) /\ ~((n + 3) + i <= Len(x)) /\ ((n + 3) + i) - Len(x) = i
    BY <1>1, <1>5
  <2> QED
    BY <1>4, <2>1
<1>9. s[n + 1] = " " /\ s[n + 2] = "=" /\ s[n + 3] = " "
  <2>1. 1 \in 1 .. 3 /\ 2 \in 1 .. 3 /\ 3 \in 1 .. 3
    OBVIOUS
  <2> QED
    BY <1>2, <1>7, <2>1
<1> QED
  BY <1>4, <1>5, <1>6, <1>8, <1>9 DEF s, x, m, n, Signed

LEMMA SavedKeyTyped ==
    ASSUME NEW k, k.name \in Seq(Chars), k.value \in Seq(Chars)
    PROVE  Ini!SavedKey(k) \in Seq(Chars)
<1> HIDE DEF Chars
<1> DEFINE a == Ini!Quoted(Ini!escape(k.name))
           b == Ini!Quoted(Ini!escape(k.value))
<1>1. a \in Seq(Chars) /\ b \in Seq(Chars)
  BY EscapedComesBack
<1> HIDE DEF a, b
<1>2. (a \o <<" ", "=", " ">>) \o b \in Seq(Chars)
  BY <1>1, WithASign DEF Signed
<1> QED
  BY <1>2 DEF Ini!SavedKey, a, b

(* The line of a key.                                                      *)
LEMMA KeyIsParsed ==
    ASSUME NEW k, k.name \in Seq(Chars), k.value \in Seq(Chars),
           ~Ini!Contains(Ini!Quoted(k.name), "=")
    PROVE  Ini!Parse(Ini!SavedKey(k))
              = [is |-> "key", name |-> Ini!Quoted(k.name), value |-> Ini!Quoted(k.value)]
<1> HIDE DEF Chars
<1> DEFINE a == Ini!Quoted(Ini!escape(k.name))
           b == Ini!Quoted(Ini!escape(k.value))
           s == (a \o <<" ", "=", " ">>) \o b
           n == Len(a)
           m == Len(b)
           Q == Ini!Quote
<1>1. /\ a \in Seq(Chars) /\ Ini!Unquoted(a) = Ini!Quoted(k.name)
      /\ b \in Seq(Chars) /\ Ini!Unquoted(b) = Ini!Quoted(k.value)
      /\ ~Ini!Contains(a, "=")
      /\ n \in Nat /\ n >= 2 /\ a[1] = Q /\ a[n] = Q
      /\ m \in Nat /\ m >= 2 /\ b[1] = Q /\ b[m] = Q
  <2>1. ASSUME NEW t \in Seq(Chars)
        PROVE  LET c == Ini!Quoted(Ini!escape(t))
               IN  /\ c \in Seq(Chars) /\ Ini!Unquoted(c) = Ini!Quoted(t)
                   /\ Len(c) \in Nat /\ Len(c) >= 2 /\ c[1] = Q /\ c[Len(c)] = Q
    <3>1. /\ Ini!escape(t) \in Seq(Chars)
          /\ Ini!unescape(Ini!Quoted(Ini!escape(t))) = Ini!Quoted(t)
      BY EscapedComesBack
    <3> DEFINE e == Ini!escape(t)
    <3> HIDE DEF e, Q
    <3>2. /\ Ini!Quoted(e) \in Seq(Chars) /\ Len(Ini!Quoted(e)) = Len(e) + 2 /\ Len(e) \in Nat
          /\ Ini!Quoted(e)[1] = Q /\ Ini!Quoted(e)[Len(e) + 2] = Q
          /\ Ini!Unquoted(Ini!Quoted(e)) = Ini!unescape(Ini!Quoted(e))
      BY <3>1, QuotedIs DEF e, Q
    <3> QED
      BY <3>1, <3>2 DEF e
  <2>2. ~Ini!Contains(k.name, "=")
    BY QuotedIs
  <2>3. ~Ini!Contains(a, "=")
    <3>1. Ini!escape(k.name) \in Seq(Chars)
      BY EscapedComesBack
    <3>2. ~Ini!Contains(Ini!escape(k.name), "=")
      BY <2>2, SignIsKept
    <3> QED
      BY <3>1, <3>2, QuotedIs
  <2> HIDE DEF Q
  <2> QED
    BY <2>1, <2>3
<1>2. Ini!SavedKey(k) = s
  BY DEF Ini!SavedKey
<1>3. Q # "=" /\ Q # "[" /\ Ini!NonBlank(Q) /\ ~Ini!NonBlank(" ")
  BY DEF Ini!NonBlank, Ini!Quote
<1> HIDE DEF a, b, Q
<1>4. /\ s \in Seq(Chars) /\ Len(s) = n + 3 + m
      /\ s[n + 1] = " " /\ s[n + 2] = "=" /\ s[n + 3] = " "
      /\ \A i \in 1 .. n : s[i] = a[i]
      /\ \A i \in 1 .. m : s[(n + 3) + i] = b[i]
  <2>1. Signed(s, a, b)
    BY <1>1, WithASign
  <2> QED
    BY <2>1 DEF Signed
<1> HIDE DEF s
<1>14. Len(a) = n /\ Len(b) = m
  OBVIOUS
<1> HIDE DEF n, m
<1>15. n \in Nat /\ m \in Nat /\ n >= 2 /\ m >= 2 /\ Len(s) = n + 3 + m
  BY <1>1, <1>4
<1>5. s[1] = Q /\ s[n] = Q /\ s[n + 4] = Q /\ s[n + 3 + m] = Q
  <2>1. 1 \in 1 .. n /\ n \in 1 .. n /\ 1 \in 1 .. m /\ m \in 1 .. m
    BY <1>1
  <2>2. s[(n + 3) + 1] = Q /\ s[(n + 3) + m] = Q
    BY <1>1, <1>4, <2>1
  <2>3. (n + 3) + 1 = n + 4 /\ (n + 3) + m = n + 3 + m
    BY <1>1
  <2> QED
    BY <1>1, <1>4, <2>1, <2>2, <2>3
<1> DEFINE first == Ini!SelectInSeq(s, Ini!NonBlank)
           lst == Ini!SelectLastInSeq(s, Ini!NonBlank)
           eq == Ini!SelectInSeq(s, LAMBDA c : c = "=")
<1>6. first = 1 /\ lst = n + 3 + m
  <2> DEFINE S == {i \in 1 .. Len(s) : Ini!NonBlank(s[i])}
  <2>1. S \in SUBSET Nat /\ 1 \in S /\ n + 3 + m \in S /\ \A i \in S : 1 <= i /\ i <= n + 3 + m
    <3>1. 1 \in 1 .. n + 3 + m /\ n + 3 + m \in 1 .. n + 3 + m
      BY <1>1
    <3>2. S = {i \in 1 .. n + 3 + m : Ini!NonBlank(s[i])}
      BY <1>4
    <3>3. 1 .. n + 3 + m \subseteq Nat
      OBVIOUS
    <3>4. S \in SUBSET Nat /\ 1 \in S /\ n + 3 + m \in S
      BY <1>3, <1>5, <3>1, <3>2, <3>3
    <3>5. \A i \in 1 .. n + 3 + m : 1 <= i /\ i <= n + 3 + m
      BY <1>15
    <3> QED
      BY <3>2, <3>4, <3>5
  <2>2. first = (IF S # {} THEN Ini!Min(S) ELSE 0) /\ lst = (IF S # {} THEN Ini!Max(S) ELSE 0)
    BY DEF Ini!SelectInSeq, Ini!SelectLastInSeq
  <2> HIDE DEF S, first, lst
  <2>3. S # {} /\ Ini!Min(S) = 1
    BY <2>1, LeastIs
  <2>4. Ini!Max(S) = n + 3 + m
    BY <2>1, GreatestIs
  <2> QED
    BY <2>2, <2>3, <2>4
<1>7. eq = n + 2
  <2> DEFINE S == {i \in 1 .. Len(s) : s[i] = "="}
  <2>1. \A i \in 1 .. n : a[i] # "="
    BY <1>1, <1>14 DEF Ini!Contains
  <2>2. ASSUME NEW i \in S PROVE n + 2 <= i
    <3>1. i \notin 1 .. n /\ i # n + 1
      BY <1>4, <2>1
    <3>2. i \in 1 .. n + 3 + m
      BY <1>4
    <3> QED
      BY <1>1, <3>1, <3>2
  <2>3. S \in SUBSET Nat /\ n + 2 \in S
    <3>1. n + 2 \in 1 .. Len(s) /\ 1 .. Len(s) \subseteq Nat
      BY <1>15
    <3> QED
      BY <1>4, <3>1
  <2>4. eq = IF S # {} THEN Ini!Min(S) ELSE 0
    BY DEF Ini!SelectInSeq
  <2> HIDE DEF S, eq
  <2>5. S # {} /\ Ini!Min(S) = n + 2
    BY <2>2, <2>3, LeastIs
  <2> QED
    BY <2>4, <2>5
<1>8. Ini!SelectInSubSeq(s, eq + 1, Len(s), Ini!NonBlank) = n + 4
  <2> DEFINE S == {i \in eq + 1 .. Len(s) : Ini!NonBlank(s[i])}
             f == Ini!SelectInSubSeq(s, eq + 1, Len(s), Ini!NonBlank)
  <2>1. f = IF S # {} THEN Ini!Min(S) ELSE 0
    BY DEF Ini!SelectInSubSeq
  <2> HIDE DEF f, first, lst, eq
  <2>2. S \in SUBSET Nat /\ n + 4 \in S
    <3>1. n + 4 \in eq + 1 .. Len(s) /\ eq + 1 .. Len(s) \subseteq Nat
      BY <1>15, <1>7
    <3> QED
      BY <1>3, <1>5, <3>1
  <2>3. ASSUME NEW i \in S PROVE n + 4 <= i
    <3>1. i # n + 3
      BY <1>3, <1>4
    <3>2. i \in n + 3 .. n + 3 + m
      <4>1. i \in eq + 1 .. Len(s) /\ eq + 1 = n + 3 /\ Len(s) = n + 3 + m
        BY <1>15, <1>7
      <4> QED
        BY <4>1
    <3> QED
      BY <1>1, <3>1, <3>2
  <2> HIDE DEF S
  <2>4. S # {} /\ Ini!Min(S) = n + 4
    BY <2>2, <2>3, LeastIs
  <2> QED
    BY <2>1, <2>4 DEF f
<1>9. Ini!SelectLastInSubSeq(s, 1, eq - 1, Ini!NonBlank) = n
  <2> DEFINE S == {i \in 1 .. eq - 1 : Ini!NonBlank(s[i])}
             l == Ini!SelectLastInSubSeq(s, 1, eq - 1, Ini!NonBlank)
  <2>1. l = IF S # {} THEN Ini!Max(S) ELSE 0
    BY DEF Ini!SelectLastInSubSeq
  <2> HIDE DEF l, first, lst, eq
  <2>2. S \in SUBSET Nat /\ n \in S
    <3>1. n \in 1 .. eq - 1 /\ 1 .. eq - 1 \subseteq Nat
      BY <1>1, <1>7
    <3> QED
      BY <1>3, <1>5, <3>1
  <2>3. ASSUME NEW i \in S PROVE i <= n
    <3>1. i # n + 1
      BY <1>3, <1>4
    <3>2. i \in 1 .. n + 1
      BY <1>1, <1>7
    <3> QED
      BY <1>1, <3>1, <3>2
  <2> HIDE DEF S
  <2>4. S # {} /\ Ini!Max(S) = n
    BY <2>2, <2>3, GreatestIs
  <2> QED
    BY <2>1, <2>4 DEF l
<1>10. SubSeq(s, 1, n) = a
  <2>1. SubSeq(s, 0 + 1, 0 + n) = a
    <3>1. ASSUME NEW i \in 1 .. Len(a) PROVE s[0 + i] = a[i]
      <4>1. 0 + i = i /\ i \in 1 .. n
        BY <1>1, <1>14
      <4> QED
        BY <1>4, <4>1
    <3>2. 0 + Len(a) <= Len(s) /\ 0 \in Nat
      BY <1>15, <1>14
    <3>3. SubSeq(s, 0 + 1, 0 + Len(a)) = a
      BY <1>1, <1>4, <3>1, <3>2, PieceIs
    <3> QED
      BY <1>14, <3>3
  <2>2. 0 + 1 = 1 /\ 0 + n = n
    BY <1>1
  <2> QED
    BY <2>1, <2>2
<1>11. SubSeq(s, n + 4, n + 3 + m) = b
  <2>1. SubSeq(s, (n + 3) + 1, (n + 3) + m) = b
    <3> DEFINE o == n + 3
    <3>1. o \in Nat /\ o + Len(b) <= Len(s) /\ \A i \in 1 .. Len(b) : s[o + i] = b[i]
      <4>1. o \in Nat /\ o + Len(b) <= Len(s)
        BY <1>14, <1>15
      <4> QED
        BY <1>4, <1>14, <4>1
    <3> HIDE DEF o
    <3>2. SubSeq(s, o + 1, o + Len(b)) = b
      BY <1>1, <1>4, <3>1, PieceIs
    <3> QED
      BY <1>14, <3>2 DEF o
  <2>2. (n + 3) + 1 = n + 4 /\ (n + 3) + m = n + 3 + m
    BY <1>1
  <2> QED
    BY <2>1, <2>2
<1>12. ~(eq <= 1) /\ n # 0 /\ n + 4 # 0
  BY <1>1, <1>7
<1>13. Ini!Parse(s) = [is |-> "key", name |-> Ini!Unquoted(SubSeq(s, 1, n)),
                       value |-> Ini!Unquoted(SubSeq(s, n + 4, n + 3 + m))]
  <2>1. s[first] # "["
    BY <1>3, <1>5, <1>6
  <2>2. first = 1 /\ lst = n + 3 + m /\ first # 0
    BY <1>6
  <2> QED
    BY <1>8, <1>9, <1>12, <2>1, <2>2 DEF Ini!Parse
<1> QED
  BY <1>1, <1>2, <1>4, <1>10, <1>11, <1>13

Text         == Seq(Chars)
KeyRecords   == [name : Text, value : Text]
GroupRecords == [name : Text, keys : Seq(KeyRecords)]
Asked ==
    [is : {"group", "touch"}, name : Text] \cup [is : {"key"}, name : Text, value : Text]
    \cup [is : {"in"}, group : Text, name : Text, value : Text] \cup [is : {"clear", "blank", "throws"}]

(* What the loader holds and is asked for is text.                         *)
IniTexts == contents \in Seq(GroupRecords) /\ todo \in Seq(Asked)

(* What the code writes is text.                                           *)
LEMMA UnescapeTyped ==
    ASSUME NEW s \in Text
    PROVE  Ini!unescape(s) \in Text /\ Ini!Unquoted(s) \in Text
<1> HIDE DEF Chars
<1>1. DOMAIN Ini!Letter \subseteq Chars /\ "\\" \in Chars
  BY MarksAreChars
<1>2. After(s) \in Readings(Chars)
  BY <1>1, ReadingMore DEF Text
<1>3. Ini!unescape(s) \in Text
  BY <1>2, UnescapeIs DEF Readings, Text
<1> QED
  BY <1>3 DEF Ini!Unquoted

LEMMA PartTyped ==
    ASSUME NEW s \in Text, NEW a \in Nat \ {0}, NEW b \in Int, b <= Len(s)
    PROVE  SubSeq(s, a, b) \in Text
<1> HIDE DEF Chars
<1>1. \A i \in a .. b : s[i] \in Chars
  BY DEF Text
<1> QED
  BY <1>1, SubSeqProperties DEF Text

LEMMA LineIsAsked ==
    ASSUME NEW s \in Text
    PROVE  Ini!Parse(s) \in Asked
<1> HIDE DEF Chars
<1> DEFINE a == Ini!SelectInSeq(s, Ini!NonBlank)
           b == Ini!SelectLastInSeq(s, Ini!NonBlank)
           e == Ini!SelectInSeq(s, LAMBDA c : c = "=")
           f == Ini!SelectInSubSeq(s, e + 1, Len(s), Ini!NonBlank)
           l == Ini!SelectLastInSubSeq(s, 1, e - 1, Ini!NonBlank)
<1>1. Len(s) \in Nat
  BY DEF Text
<1>2. a \in 0 .. Len(s)
  <2> DEFINE S == {i \in 1 .. Len(s) : Ini!NonBlank(s[i])}
  <2>1. a = IF S # {} THEN Ini!Min(S) ELSE 0
    BY DEF Ini!SelectInSeq
  <2>2. S \in SUBSET (1 .. Len(s))
    OBVIOUS
  <2> HIDE DEF S, a
  <2> QED
    BY <1>1, <2>1, <2>2, SelectsTheFirst
<1>3. b \in 0 .. Len(s)
  <2> DEFINE S == {i \in 1 .. Len(s) : Ini!NonBlank(s[i])}
  <2>1. b = IF S # {} THEN Ini!Max(S) ELSE 0
    BY DEF Ini!SelectLastInSeq
  <2>2. S \in SUBSET (1 .. Len(s))
    OBVIOUS
  <2> HIDE DEF S, b
  <2> QED
    BY <1>1, <2>1, <2>2, SelectsTheLast
<1>4. e \in 0 .. Len(s)
  <2> DEFINE S == {i \in 1 .. Len(s) : s[i] = "="}
  <2>1. e = IF S # {} THEN Ini!Min(S) ELSE 0
    BY DEF Ini!SelectInSeq
  <2>2. S \in SUBSET (1 .. Len(s))
    OBVIOUS
  <2> HIDE DEF S, e
  <2> QED
    BY <1>1, <2>1, <2>2, SelectsTheFirst
<1> HIDE DEF a, b, e
<1>5. f \in 0 .. Len(s)
  <2> DEFINE S == {i \in e + 1 .. Len(s) : Ini!NonBlank(s[i])}
  <2>1. f = IF S # {} THEN Ini!Min(S) ELSE 0
    BY DEF Ini!SelectInSubSeq
  <2>2. S \in SUBSET (1 .. Len(s))
    <3>1. e + 1 .. Len(s) \subseteq 1 .. Len(s)
      BY <1>1, <1>4
    <3> QED
      BY <3>1
  <2> HIDE DEF S, f
  <2> QED
    BY <1>1, <2>1, <2>2, SelectsTheFirst
<1>6. l \in 0 .. Len(s)
  <2> DEFINE S == {i \in 1 .. e - 1 : Ini!NonBlank(s[i])}
  <2>1. l = IF S # {} THEN Ini!Max(S) ELSE 0
    BY DEF Ini!SelectLastInSubSeq
  <2>2. S \in SUBSET (1 .. Len(s))
    <3>1. 1 .. e - 1 \subseteq 1 .. Len(s)
      BY <1>1, <1>4
    <3> QED
      BY <3>1
  <2> HIDE DEF S, l
  <2> QED
    BY <1>1, <2>1, <2>2, SelectsTheLast
<1> DEFINE o == IF e <= 1 THEN b ELSE l
<1>7. o \in 0 .. Len(s)
  BY <1>3, <1>6
<1> HIDE DEF f, o
<1>8. CASE a = 0
  <2>1. Ini!Parse(s) = [is |-> "blank"]
    BY <1>8 DEF Ini!Parse, a
  <2> QED
    BY <2>1 DEF Asked
<1>9. CASE a # 0 /\ s[a] = "[" /\ s[b] = "]"
  <2>1. Ini!Parse(s) = [is |-> "group", name |-> Ini!unescape(SubSeq(s, a + 1, b - 1))]
    BY <1>9 DEF Ini!Parse, a, b
  <2>2. a + 1 \in Nat \ {0} /\ b - 1 \in Int /\ b - 1 <= Len(s)
    BY <1>1, <1>2, <1>3
  <2>3. Ini!unescape(SubSeq(s, a + 1, b - 1)) \in Text
    BY <2>2, PartTyped, UnescapeTyped
  <2> QED
    BY <2>1, <2>3 DEF Asked
<1>10. CASE a # 0 /\ ~(s[a] = "[" /\ s[b] = "]")
  <2> DEFINE n == IF o = 0 THEN SubSeq(s, a, Len(s)) ELSE Ini!Unquoted(SubSeq(s, a, o))
             y == Ini!Unquoted(SubSeq(s, f, b))
  <2>1. Ini!Parse(s) = IF f = 0 THEN [is |-> "throws"]
                       ELSE [is |-> "key", name |-> n, value |-> y]
    BY <1>10 DEF Ini!Parse, a, b, e, f, l, o
  <2>2. a \in Nat \ {0} /\ o \in Int /\ b \in Int /\ Len(s) \in Int /\ o <= Len(s) /\ b <= Len(s)
        /\ Len(s) <= Len(s)
    BY <1>1, <1>2, <1>3, <1>7, <1>10
  <2>3. n \in Text
    BY <2>2, PartTyped, UnescapeTyped
  <2>4. f # 0 => y \in Text
    <3>1. f # 0 => f \in Nat \ {0}
      BY <1>1, <1>5
    <3> QED
      BY <2>2, <3>1, PartTyped, UnescapeTyped
  <2> HIDE DEF n, y
  <2> QED
    BY <2>1, <2>3, <2>4 DEF Asked
<1> QED
  BY <1>8, <1>9, <1>10

(* What is asked for stays text.                                           *)
LEMMA StringsAreTexts ==
    /\ Seq(STRING) \subseteq Text
    /\ \A c \in Calls : c \in Asked
    /\ \A lines \in Files : lines \in Seq(Text)
    /\ \A other \in Loaders : other \in Seq(GroupRecords)
<1>1. \A S, T : S \subseteq T => Seq(S) \subseteq Seq(T)
  OBVIOUS
<1>2. STRING \subseteq Chars
  BY DEF Chars
<1> HIDE DEF Chars
<1> DEFINE Old == Seq(STRING)
<1>3. Old \subseteq Text
  BY <1>1, <1>2 DEF Text
<1>4. /\ Calls \subseteq [is : {"group", "touch"}, name : Old] \cup [is : {"key"}, name : Old, value : Old]
                         \cup [is : {"in"}, group : Old, name : Old, value : Old] \cup [is : {"clear"}]
      /\ Files \subseteq Seq(Old)
      /\ Loaders \subseteq Seq([name : Old, keys : Seq([name : Old, value : Old])])
  BY TextsAssumption DEF TextsAssumption
<1> HIDE DEF Old
<1>5. ASSUME NEW c \in Calls PROVE c \in Asked
  <2>1. CASE c \in [is : {"group", "touch"}, name : Old]
    BY <1>3, <2>1 DEF Asked
  <2>2. CASE c \in [is : {"key"}, name : Old, value : Old]
    BY <1>3, <2>2 DEF Asked
  <2>3. CASE c \in [is : {"in"}, group : Old, name : Old, value : Old]
    BY <1>3, <2>3 DEF Asked
  <2>4. CASE c \in [is : {"clear"}]
    BY <2>4 DEF Asked
  <2> QED
    BY <1>4, <2>1, <2>2, <2>3, <2>4
<1>6. Seq(Old) \subseteq Seq(Text)
  BY <1>1, <1>3
<1>7. Seq([name : Old, keys : Seq([name : Old, value : Old])]) \subseteq Seq(GroupRecords)
  <2>1. [name : Old, value : Old] \subseteq KeyRecords
    BY <1>3 DEF KeyRecords
  <2>2. Seq([name : Old, value : Old]) \subseteq Seq(KeyRecords)
    BY <1>1, <2>1
  <2>3. [name : Old, keys : Seq([name : Old, value : Old])] \subseteq GroupRecords
    BY <1>3, <2>2 DEF GroupRecords
  <2> QED
    BY <1>1, <2>3
<1> QED
  BY <1>3, <1>4, <1>5, <1>6, <1>7 DEF Old

KeyAdded(c, i, k, y) == WithKeys(c, i, WithKey(c[i].keys, k, y))

LEMMA KeyPutTyped ==
    ASSUME NEW c \in Seq(GroupRecords), NEW i \in DOMAIN c, NEW k \in Text, NEW y \in Text
    PROVE  KeyPut(c, i, k, y) \in Seq(GroupRecords) /\ KeyAdded(c, i, k, y) \in Seq(GroupRecords)
<1> HIDE DEF Chars
<1>1. c[i] \in GroupRecords /\ i \in 1 .. Len(c)
  BY LenProperties, ElementOfSeq
<1> DEFINE s == c[i].keys
<1>2. s \in Seq(KeyRecords) /\ c[i].name \in Text
  BY <1>1 DEF GroupRecords
<1>3. ASSUME NEW t \in Seq(KeyRecords) PROVE WithKeys(c, i, t) \in Seq(GroupRecords)
  <2>1. [c[i] EXCEPT !.keys = t] \in GroupRecords
    BY <1>1 DEF GroupRecords
  <2> DEFINE g == [c[i] EXCEPT !.keys = t]
  <2>2. WithKeys(c, i, t) = [c EXCEPT ![i] = g]
    BY DEF WithKeys
  <2>3. g \in GroupRecords
    BY <2>1
  <2> HIDE DEF g
  <2> QED
    BY <1>1, <2>2, <2>3, ExceptSeq
<1>4. WithKey(s, k, y) \in Seq(KeyRecords)
  <2> DEFINE r == [name |-> k, value |-> y]
  <2>1. r \in KeyRecords
    BY DEF KeyRecords
  <2> HIDE DEF r, s
  <2>2. Append(s, r) \in Seq(KeyRecords)
    BY <1>2, <2>1
  <2> QED
    BY <2>2 DEF WithKey, r
<1>5. ASSUME Found(s, k) # 0 PROVE WithValue(s, Found(s, k), y) \in Seq(KeyRecords)
  <2>1. IsSeq(s)
    BY <1>2 DEF IsSeq
  <2> HIDE DEF s
  <2> DEFINE n == Found(s, k)
  <2>2. n \in DOMAIN s
    BY <1>5, <2>1, FoundIs
  <2> HIDE DEF n
  <2>3. n \in 1 .. Len(s) /\ s[n] \in KeyRecords
    BY <1>2, <2>2, LenProperties, ElementOfSeq
  <2> DEFINE r == [s[n] EXCEPT !.value = y]
  <2>4. r \in KeyRecords
    BY <2>3 DEF KeyRecords
  <2>5. WithValue(s, n, y) = [s EXCEPT ![n] = r]
    BY DEF WithValue
  <2> HIDE DEF r
  <2> QED
    BY <1>2, <2>3, <2>4, <2>5, ExceptSeq DEF n
<1> QED
  BY <1>3, <1>4, <1>5 DEF KeyPut, KeyAdded

(* How a call changes the groups.                                          *)
LEMMA CallChanges ==
    ASSUME IsSeq(contents), NEW c, Ini!Do(c)
    PROVE  \/ contents' = contents
           \/ c.is = "group" /\ contents' = WithGroup(contents, c.name, <<>>)
           \/ /\ c.is = "in"
              /\ contents' = WithGroup(contents, c.group, <<[name |-> c.name, value |-> c.value]>>)
           \/ /\ c.is = "touch"
              /\ \E i \in DOMAIN contents : contents' = KeyPut(contents, i, c.name, <<>>)
           \/ /\ c.is \in {"key", "in"}
              /\ \E i \in DOMAIN contents : contents' = KeyPut(contents, i, c.name, c.value)
           \/ /\ c.is = "in"
              /\ \E i \in DOMAIN contents : contents' = KeyAdded(contents, i, c.name, c.value)
<1>1. ASSUME NEW k, NEW y, Ini!setKey(k, y)
      PROVE  contents' = contents \/ \E i \in DOMAIN contents : contents' = KeyPut(contents, i, k, y)
  <2>1. CASE UNCHANGED contents
    BY <2>1
  <2>2. CASE /\ currentGroup \in DOMAIN contents
             /\ IF Ini!findKey(currentGroup, k) = 0 THEN Ini!PushKey(currentGroup, k, y)
                                                    ELSE Ini!SetValue(currentGroup, k, y)
    <3>1. contents' = KeyPut(contents, currentGroup, k, y)
      BY <2>2, PutsKey
    <3> QED
      BY <2>2, <3>1
  <2> QED
    BY <1>1, <2>1, <2>2 DEF Ini!setKey, Ini!Wild
<1>2. CASE c.is = "group" /\ Ini!setGroup(c.name)
  BY <1>2 DEF Ini!setGroup, Ini!PushGroup, WithGroup
<1>3. CASE c.is = "key" /\ Ini!setKey(c.name, c.value)
  BY <1>1, <1>3
<1>4. CASE c.is = "touch" /\ Ini!Subscript(c.name)
  <2>1. UNCHANGED contents \/ Ini!setKey(c.name, <<>>)
    BY <1>4 DEF Ini!Subscript
  <2> QED
    BY <1>1, <1>4, <2>1
<1>5. CASE c.is = "in" /\ Ini!setKeyOfNewGroup(c.group, c.name, c.value)
  BY <1>5 DEF Ini!setKeyOfNewGroup, Ini!PushGroup, WithGroup
<1>6. CASE c.is = "in" /\ Ini!setKeyOfGroup(c.group, c.name, c.value)
  <2> DEFINE n == Ini!findGroup(c.group)
             k == c.name
             y == c.value
  <2>1. CASE /\ n # 0 /\ Ini!findKey(n, k) # 0 /\ Ini!SetValue(n, k, y)
    <3>1. contents' = KeyPut(contents, n, k, y)
      BY <2>1, PutsKey
    <3>2. n \in DOMAIN contents
      BY <2>1, FindsGroup, FoundIs
    <3> QED
      BY <1>6, <3>1, <3>2
  <2>2. CASE /\ Ini!findKey(n, k) = 0 /\ currentGroup \in DOMAIN contents
             /\ Ini!PushKey(currentGroup, k, y)
    <3>1. contents' = KeyAdded(contents, currentGroup, k, y)
      BY <2>2 DEF Ini!PushKey, WithKeys, WithKey, KeyAdded
    <3> QED
      BY <1>6, <2>2, <3>1
  <2>3. CASE Ini!Wild
    BY <2>3 DEF Ini!Wild
  <2> QED
    BY <1>6, <2>1, <2>2, <2>3 DEF Ini!setKeyOfGroup
<1>7. CASE UNCHANGED contents
  BY <1>7
<1> QED
  BY <1>2, <1>3, <1>4, <1>5, <1>6, <1>7 DEF Ini!Do, Ini!clear

LEMMA CallTyped ==
    ASSUME contents \in Seq(GroupRecords), NEW c \in Asked, Ini!Do(c)
    PROVE  contents' \in Seq(GroupRecords)
<1> HIDE DEF Chars
<1>1. IsSeq(contents)
  BY DEF IsSeq
<1>2. ASSUME NEW n \in Text, NEW s \in Seq(KeyRecords) PROVE WithGroup(contents, n, s) \in Seq(GroupRecords)
  <2> DEFINE r == [name |-> n, keys |-> s]
  <2>1. r \in GroupRecords
    BY DEF GroupRecords
  <2> HIDE DEF r
  <2>2. Append(contents, r) \in Seq(GroupRecords)
    BY <2>1
  <2> QED
    BY <2>2 DEF WithGroup, r
<1>3. <<>> \in Text /\ <<>> \in Seq(KeyRecords)
  BY DEF Text
<1>4. ASSUME c.is \in {"group", "touch", "key", "in"} PROVE c.name \in Text
  BY <1>4 DEF Asked
<1>5. ASSUME c.is \in {"key", "in"} PROVE c.name \in Text /\ c.value \in Text
  BY <1>5 DEF Asked
<1>6. ASSUME c.is = "in" PROVE c.group \in Text /\ <<[name |-> c.name, value |-> c.value]>> \in Seq(KeyRecords)
  <2> DEFINE r == [name |-> c.name, value |-> c.value]
  <2>1. r \in KeyRecords
    BY <1>5, <1>6 DEF KeyRecords
  <2> HIDE DEF r
  <2>2. <<r>> \in Seq(KeyRecords)
    BY <2>1
  <2>3. c.group \in Text
    BY <1>6 DEF Asked
  <2> QED
    BY <2>2, <2>3 DEF r
<1>7. CASE contents' = contents
  BY <1>7
<1>8. CASE c.is = "group" /\ contents' = WithGroup(contents, c.name, <<>>)
  BY <1>2, <1>3, <1>4, <1>8
<1>9. CASE c.is = "in" /\ contents' = WithGroup(contents, c.group, <<[name |-> c.name, value |-> c.value]>>)
  BY <1>2, <1>6, <1>9
<1>10. CASE c.is = "touch" /\ \E i \in DOMAIN contents : contents' = KeyPut(contents, i, c.name, <<>>)
  BY <1>3, <1>4, <1>10, KeyPutTyped
<1>11. CASE c.is \in {"key", "in"} /\ \E i \in DOMAIN contents : contents' = KeyPut(contents, i, c.name, c.value)
  BY <1>5, <1>11, KeyPutTyped
<1>12. CASE c.is = "in" /\ \E i \in DOMAIN contents : contents' = KeyAdded(contents, i, c.name, c.value)
  BY <1>5, <1>12, KeyPutTyped
<1> QED
  BY <1>1, <1>7, <1>8, <1>9, <1>10, <1>11, <1>12, CallChanges

LEMMA PatchIsAsked ==
    ASSUME NEW other \in Seq(GroupRecords)
    PROVE  Ini!FlattenSeq([n \in DOMAIN other |->
              [m \in DOMAIN other[n].keys |->
                 [is |-> "in", group |-> other[n].name,
                  name |-> other[n].keys[m].name, value |-> other[n].keys[m].value]]]) \in Seq(Asked)
<1> HIDE DEF Chars
<1> DEFINE asked(n, m) == [is |-> "in", group |-> other[n].name,
                           name |-> other[n].keys[m].name, value |-> other[n].keys[m].value]
           row(n) == [m \in DOMAIN other[n].keys |-> asked(n, m)]
           p == [n \in DOMAIN other |-> row(n)]
<1>1. ASSUME NEW n \in DOMAIN other PROVE row(n) \in Seq(Asked)
  <2>1. other[n].name \in Text /\ other[n].keys \in Seq(KeyRecords)
    <3>1. other[n] \in GroupRecords
      BY LenProperties, ElementOfSeq
    <3> QED
      BY <3>1 DEF GroupRecords
  <2> DEFINE s == other[n].keys
  <2>2. DOMAIN s = 1 .. Len(s) /\ Len(s) \in Nat
    BY <2>1, LenProperties
  <2>3. ASSUME NEW m \in DOMAIN s PROVE asked(n, m) \in Asked
    <3>1. s[m] \in KeyRecords
      BY <2>1, <2>2, <2>3, ElementOfSeq
    <3> QED
      BY <2>1, <3>1 DEF KeyRecords, Asked
  <2> HIDE DEF asked
  <2>4. row(n) \in [1 .. Len(s) -> Asked]
    BY <2>2, <2>3
  <2> HIDE DEF row
  <2> QED
    BY <2>2, <2>4
<1> HIDE DEF row
<1>2. DOMAIN other = 1 .. Len(other) /\ Len(other) \in Nat
  BY LenProperties
<1>3. p \in [1 .. Len(other) -> Seq(Asked)]
  BY <1>1, <1>2
<1> HIDE DEF p
<1>4. p \in Seq(Seq(Asked))
  BY <1>2, <1>3
<1>5. Ini!FlattenSeq(p) \in Seq(Asked)
  BY <1>4, FlattenIs
<1> QED
  BY <1>5 DEF p, row, asked

LEMMA TextsStep ==
    IniTexts /\ [ObjectsNext]_<<part, vars, iniVars, cleanUpVars, matrixVars>> => IniTexts'
<1> SUFFICES ASSUME IniTexts, [ObjectsNext]_<<part, vars, iniVars, cleanUpVars, matrixVars>>
             PROVE  IniTexts'
  OBVIOUS
<1> HIDE DEF Chars
<1>1. contents \in Seq(GroupRecords) /\ todo \in Seq(Asked)
  BY DEF IniTexts
<1>2. CASE UNCHANGED <<contents, todo>>
  BY <1>1, <1>2 DEF IniTexts
<1>3. ASSUME NEW c \in Calls, Ini!Use(c) PROVE IniTexts'
  <2>1. c \in Asked
    BY StringsAreTexts
  <2>2. contents' \in Seq(GroupRecords)
    BY <1>1, <1>3, <2>1, CallTyped DEF Ini!Use
  <2> QED
    BY <1>1, <1>3, <2>2 DEF IniTexts, Ini!Use
<1>4. ASSUME NEW lines \in Files, Ini!loadFromStream(lines) PROVE IniTexts'
  <2>1. lines \in Seq(Text)
    BY StringsAreTexts
  <2>2. DOMAIN lines = 1 .. Len(lines) /\ Len(lines) \in Nat /\ \A i \in 1 .. Len(lines) : lines[i] \in Text
    BY <2>1, LenProperties, ElementOfSeq
  <2>3. \A i \in 1 .. Len(lines) : Ini!Parse(lines[i]) \in Asked
    BY <2>2, LineIsAsked
  <2>4. [i \in DOMAIN lines |-> Ini!Parse(lines[i])] \in [1 .. Len(lines) -> Asked]
    BY <2>2, <2>3
  <2>5. todo' \in Seq(Asked)
    <3>1. todo' \in [1 .. Len(lines) -> Asked]
      BY <1>4, <2>4 DEF Ini!loadFromStream
    <3> QED
      BY <2>2, <3>1
  <2> QED
    BY <1>1, <1>4, <2>5 DEF IniTexts, Ini!loadFromStream
<1>5. ASSUME NEW other \in Loaders, Ini!patch(other) PROVE IniTexts'
  <2>1. other \in Seq(GroupRecords)
    BY StringsAreTexts
  <2>2. todo' \in Seq(Asked)
    BY <1>5, <2>1, PatchIsAsked DEF Ini!patch
  <2> QED
    BY <1>1, <1>5, <2>2 DEF IniTexts, Ini!patch
<1>6. ASSUME Ini!Continue PROVE IniTexts'
  <2>1. Head(todo) \in Asked /\ Tail(todo) \in Seq(Asked) /\ <<>> \in Seq(Asked)
    BY <1>1, <1>6 DEF Ini!Continue
  <2>2. contents' \in Seq(GroupRecords)
    BY <1>1, <1>6, <2>1, CallTyped DEF Ini!Continue
  <2>3. todo' \in Seq(Asked)
    BY <1>6, <2>1 DEF Ini!Continue
  <2> QED
    BY <2>2, <2>3 DEF IniTexts
<1>7. CASE Ini!Next
  BY <1>3, <1>4, <1>5, <1>6, <1>7 DEF Ini!Next
<1> QED
  BY <1>2, <1>7 DEF ObjectsNext, iniVars

----------------------------------------------------------------------------
(* Each line that is written is read as what it was written for.           *)
LEMMA LinesComeBack ==
    ASSUME contents \in Seq(GroupRecords)
    PROVE  Ini!SavedComesBack
<1> HIDE DEF Chars
<1> DEFINE group(n) == [is |-> "group", name |-> contents[n].name]
           key(n, m) == [is |-> "key", name |-> Ini!Quoted(contents[n].keys[m].name),
                         value |-> Ini!Quoted(contents[n].keys[m].value)]
           header(n) == (<<"[">> \o Ini!escape(contents[n].name)) \o <<"]">>
           line(n, m) == Ini!SavedKey(contents[n].keys[m])
           lines(n) == [m \in DOMAIN contents[n].keys |-> line(n, m)]
           calls(n) == [m \in DOMAIN contents[n].keys |-> key(n, m)]
           p == [n \in DOMAIN contents |-> <<header(n)>> \o lines(n)]
           q == [n \in DOMAIN contents |-> <<group(n)>> \o calls(n)]
           Right(s, c) == ~Ini!Contains(c.name, "=") => Ini!Parse(s) = c
           Saved == {<<header(n)>> \o lines(n) : n \in DOMAIN contents}
           U == Text
           W == {group(n) : n \in DOMAIN contents} \cup
                UNION {{key(n, m) : m \in DOMAIN contents[n].keys} : n \in DOMAIN contents}
<1>1. ASSUME NEW n \in DOMAIN contents
      PROVE  /\ contents[n].name \in Text /\ contents[n].keys \in Seq(KeyRecords)
             /\ \A m \in DOMAIN contents[n].keys :
                   contents[n].keys[m].name \in Text /\ contents[n].keys[m].value \in Text
  <2>1. contents[n] \in GroupRecords
    BY LenProperties, ElementOfSeq
  <2> DEFINE s == contents[n].keys
  <2>2. contents[n].name \in Text /\ s \in Seq(KeyRecords)
    BY <2>1 DEF GroupRecords
  <2> HIDE DEF s
  <2>3. \A m \in DOMAIN s : s[m] \in KeyRecords
    BY <2>2, LenProperties, ElementOfSeq
  <2>4. \A m \in DOMAIN s : s[m].name \in Text /\ s[m].value \in Text
    BY <2>3 DEF KeyRecords
  <2> QED
    BY <2>2, <2>4 DEF s
<1>2. ASSUME NEW n \in DOMAIN contents
      PROVE  header(n) \in Text /\ Right(header(n), group(n))
  <2>1. contents[n].name \in Seq(Chars)
    BY <1>1 DEF Text
  <2>2. Ini!Parse(header(n)) = group(n)
    BY <2>1, GroupIsParsed
  <2>3. header(n) \in Text
    <3> DEFINE e == Ini!escape(contents[n].name)
               b == "["
               c == "]"
    <3>1. e \in Seq(Chars)
      BY <2>1, EscapedComesBack
    <3>2. b \in Chars /\ c \in Chars
      BY MarksAreChars
    <3> HIDE DEF e, b, c
    <3>3. (<<b>> \o e) \o <<c>> \in Seq(Chars)
      BY <3>1, <3>2, Enclosed
    <3> QED
      BY <3>3 DEF e, b, c, Text
  <2> HIDE DEF header, group
  <2> QED
    BY <2>2, <2>3
<1>3. ASSUME NEW n \in DOMAIN contents, NEW m \in DOMAIN contents[n].keys
      PROVE  line(n, m) \in Text /\ Right(line(n, m), key(n, m))
  <2> DEFINE k == contents[n].keys[m]
  <2>1. k.name \in Seq(Chars) /\ k.value \in Seq(Chars)
    BY <1>1 DEF Text
  <2> HIDE DEF k
  <2>2. Ini!SavedKey(k) \in Seq(Chars)
    BY <2>1, SavedKeyTyped
  <2>3. ~Ini!Contains(Ini!Quoted(k.name), "=") =>
           Ini!Parse(Ini!SavedKey(k)) = [is |-> "key", name |-> Ini!Quoted(k.name), value |-> Ini!Quoted(k.value)]
    BY <2>1, KeyIsParsed
  <2>4. key(n, m).name = Ini!Quoted(k.name)
        /\ key(n, m) = [is |-> "key", name |-> Ini!Quoted(k.name), value |-> Ini!Quoted(k.value)]
    BY DEF k
  <2>5. line(n, m) = Ini!SavedKey(k)
    BY DEF k
  <2> HIDE DEF key, line
  <2> QED
    BY <2>2, <2>3, <2>4, <2>5 DEF Text
<1> HIDE DEF header, group, line, key, Right
<1>4. ASSUME NEW n \in DOMAIN contents
      PROVE  LET s == contents[n].keys
                 a == <<header(n)>> \o lines(n)
                 b == <<group(n)>> \o calls(n)
             IN  /\ a \in Seq(U) /\ b \in Seq(W) /\ Len(a) = Len(b)
                 /\ \A m \in DOMAIN a : Right(a[m], b[m])
  <2> DEFINE s == contents[n].keys
             x == <<header(n)>>
             y == <<group(n)>>
             a == x \o lines(n)
             b == y \o calls(n)
  <2>1. DOMAIN s = 1 .. Len(s) /\ Len(s) \in Nat
    BY <1>1, LenProperties
  <2>2. lines(n) \in Seq(U) /\ Len(lines(n)) = Len(s) /\ \A m \in 1 .. Len(s) : lines(n)[m] = line(n, m)
    <3>1. lines(n) \in [1 .. Len(s) -> U]
      BY <1>3, <2>1
    <3>2. DOMAIN lines(n) = 1 .. Len(s) /\ \A m \in 1 .. Len(s) : lines(n)[m] = line(n, m)
      BY <2>1
    <3> HIDE DEF lines, s
    <3>3. lines(n) \in Seq(U)
      BY <2>1, <3>1
    <3> QED
      BY <2>1, <3>2, <3>3, LenProperties
  <2>3. calls(n) \in Seq(W) /\ Len(calls(n)) = Len(s) /\ \A m \in 1 .. Len(s) : calls(n)[m] = key(n, m)
    <3>1. \A m \in 1 .. Len(s) : key(n, m) \in W
      BY <2>1
    <3>2. calls(n) \in [1 .. Len(s) -> W]
      BY <2>1, <3>1
    <3>3. DOMAIN calls(n) = 1 .. Len(s) /\ \A m \in 1 .. Len(s) : calls(n)[m] = key(n, m)
      BY <2>1
    <3> HIDE DEF calls, s, W
    <3>4. calls(n) \in Seq(W)
      BY <2>1, <3>2
    <3> QED
      BY <2>1, <3>3, <3>4, LenProperties
  <2>4. x \in Seq(U) /\ Len(x) = 1 /\ x[1] = header(n)
    BY <1>2
  <2>5. y \in Seq(W) /\ Len(y) = 1 /\ y[1] = group(n)
    <3>1. group(n) \in W
      OBVIOUS
    <3> HIDE DEF W
    <3> QED
      BY <3>1
  <2>6. \A m \in 1 .. Len(s) : Right(line(n, m), key(n, m))
    BY <1>3, <2>1
  <2> HIDE DEF x, y, s, lines, calls, W
  <2>7. /\ a \in Seq(U) /\ Len(a) = Len(x) + Len(lines(n))
        /\ \A m \in 1 .. Len(x) + Len(lines(n)) : a[m] = IF m <= Len(x) THEN x[m] ELSE lines(n)[m - Len(x)]
    <3>1. x \in Seq(U) /\ lines(n) \in Seq(U)
      BY <2>2, <2>4
    <3> QED
      BY ONLY <3>1, ConcatProperties
  <2>8. /\ b \in Seq(W) /\ Len(b) = Len(y) + Len(calls(n))
        /\ \A m \in 1 .. Len(y) + Len(calls(n)) : b[m] = IF m <= Len(y) THEN y[m] ELSE calls(n)[m - Len(y)]
    <3>1. y \in Seq(W) /\ calls(n) \in Seq(W)
      BY <2>3, <2>5
    <3> QED
      BY ONLY <3>1, ConcatProperties
  <2> HIDE DEF a, b
  <2>9. ASSUME NEW m \in 1 .. Len(s) + 1 PROVE Right(a[m], b[m])
    <3>1. m \in 1 .. Len(x) + Len(lines(n)) /\ m \in 1 .. Len(y) + Len(calls(n))
      BY <2>1, <2>2, <2>3, <2>4, <2>5
    <3>2. CASE m = 1
      <4>1. a[m] = header(n) /\ b[m] = group(n)
        BY <2>4, <2>5, <2>7, <2>8, <3>1, <3>2
      <4> QED
        BY <1>2, <4>1
    <3>3. CASE m # 1
      <4>1. m - 1 \in 1 .. Len(s) /\ ~(m <= 1)
        BY <2>1, <3>3
      <4>2. a[m] = line(n, m - 1)
        BY <2>2, <2>4, <2>7, <3>1, <4>1
      <4>3. b[m] = key(n, m - 1)
        BY <2>3, <2>5, <2>8, <3>1, <4>1
      <4> QED
        BY <2>6, <4>1, <4>2, <4>3
    <3> QED
      BY <3>2, <3>3
  <2>10. DOMAIN a = 1 .. Len(s) + 1 /\ Len(a) = Len(b)
    <3>1. Len(a) = Len(s) + 1 /\ Len(b) = Len(s) + 1
      BY <2>1, <2>2, <2>3, <2>4, <2>5, <2>7, <2>8
    <3> QED
      BY <2>7, <3>1, LenProperties
  <2> QED
    BY <2>7, <2>8, <2>9, <2>10 DEF a, b, x, y
<1> HIDE DEF lines, calls, W, U
<1>5. /\ p \in Seq(Seq(U)) /\ q \in Seq(Seq(W)) /\ Len(p) = Len(q)
      /\ DOMAIN p = DOMAIN contents
      /\ \A n \in DOMAIN p : Len(p[n]) = Len(q[n]) /\ \A m \in DOMAIN p[n] : Right(p[n][m], q[n][m])
  <2>1. DOMAIN contents = 1 .. Len(contents) /\ Len(contents) \in Nat
    BY LenProperties
  <2>2. p \in [1 .. Len(contents) -> Seq(U)] /\ q \in [1 .. Len(contents) -> Seq(W)]
    BY <1>4, <2>1
  <2>3. DOMAIN p = DOMAIN contents /\ DOMAIN q = DOMAIN contents
    OBVIOUS
  <2>4. \A n \in DOMAIN p : Len(p[n]) = Len(q[n]) /\ \A m \in DOMAIN p[n] : Right(p[n][m], q[n][m])
    BY <1>4
  <2> HIDE DEF p, q
  <2>5. p \in Seq(Seq(U)) /\ q \in Seq(Seq(W))
    BY <2>1, <2>2, SMTT(30)
  <2> QED
    BY <2>1, <2>3, <2>4, <2>5, LenProperties
<1>6. Ini!saveToStream(contents) = Ini!FlattenSeq(p) /\ Ini!Rewritten = Ini!FlattenSeq(q)
  BY DEF Ini!saveToStream, Ini!Rewritten, lines, calls, line, key, header, group
<1> HIDE DEF p, q
<1>7. ASSUME NEW i \in DOMAIN Ini!FlattenSeq(p)
      PROVE  Right(Ini!FlattenSeq(p)[i], Ini!FlattenSeq(q)[i])
  <2>1. \E n \in DOMAIN p : \E m \in DOMAIN p[n] :
           Ini!FlattenSeq(p)[i] = p[n][m] /\ Ini!FlattenSeq(q)[i] = q[n][m]
    <3>1. SameShape(p, q)
      BY <1>5 DEF SameShape
    <3>2. FromPieces(p, q, Ini!FlattenSeq(p), Ini!FlattenSeq(q))
      BY <1>5, <3>1, PairsOfPieces
    <3> QED
      BY <3>2 DEF FromPieces
  <2> QED
    BY <1>5, <2>1
<1> QED
  BY <1>6, <1>7 DEF Ini!SavedComesBack, Right

(* Whatever a program calls, and whatever files it loads and loaders it    *)
(* patches with: each line that save would write now is read back as the   *)
(* group or the key it was written for (iniloader.cpp:69-270).             *)
THEOREM WhatIsSavedComesBack == ObjectsSpec => []SavedComesBack
<1>1. ObjectsInit => Loads /\ IniTexts
  <2> SUFFICES ASSUME ObjectsInit PROVE Loads /\ IniTexts
    OBVIOUS
  <2>1. Loads
    BY BlankLoads DEF ObjectsInit
  <2>2. contents = <<>> /\ todo = <<>>
    BY DEF ObjectsInit, Ini!Init
  <2> QED
    BY <2>1, <2>2 DEF IniTexts
<1>2. Loads /\ IniTexts /\ [ObjectsNext]_<<part, vars, iniVars, cleanUpVars, matrixVars>>
         => Loads' /\ IniTexts'
  BY StepLoads, TextsStep
<1>3. Loads /\ IniTexts => SavedComesBack
  <2> SUFFICES ASSUME Loads, IniTexts PROVE Ini!TypeOK /\ Ini!SavedComesBack
    BY DEF SavedComesBack
  <2>1. Ini!SavedComesBack
    BY LinesComeBack DEF IniTexts
  <2>2. Ini!TypeOK
    BY DEF Loads, LoadsOf, Distinct, Ini!TypeOK, Ini!NoGroup, Ini!Moved, Ini!IsInjective
  <2> QED
    BY <2>1, <2>2
<1> QED
  BY <1>1, <1>2, <1>3, PTL DEF ObjectsSpec

----------------------------------------------------------------------------
(* Matrices own their memory.                                              *)

Positive == [w : Nat \ {0}, h : Nat \ {0}]

(* The matrices that an expression uses have at least one element.         *)
MatrixRecords ==
    mats \in [Names -> [w : Nat \ {0}, h : Nat \ {0}, data : 1 .. MaxBlocks]]

(* What an object of an expression is made of comes before it.             *)
LEMMA OperandsBefore ==
    ASSUME NEW e, Matrices!IsExpression(e)
    PROVE  /\ Len(e) \in Nat /\ Len(e) >= 1 /\ DOMAIN e = 1 .. Len(e)
           /\ \A i \in 1 .. Len(e) :
                 IF e[i].op = "matrix" THEN e[i].a \in Names
                 ELSE e[i].a \in 1 .. i - 1 /\ (e[i].op \in Matrices!Binary => e[i].b \in 1 .. i - 1)
<1> DEFINE T == [op : {"matrix", "neg", "tr", "inv"}, a : Nat]
                \cup [op : Matrices!Binary, a : Nat, b : Nat]
<1>1. e \in Seq(T) /\ e # <<>>
  BY DEF Matrices!IsExpression
<1> HIDE DEF T
<1>2. Len(e) \in Nat /\ DOMAIN e = 1 .. Len(e) /\ Len(e) # 0
  BY <1>1, EmptySeq, LenProperties
<1>3. Len(e) >= 1
  BY <1>2
<1> QED
  BY <1>2, <1>3 DEF Matrices!IsExpression

(* The size of an object, from those of its operands.                      *)
SizeOf(e, s, i) ==
    IF e[i].op = "matrix" THEN [w |-> mats[e[i].a].w, h |-> mats[e[i].a].h]
    ELSE IF e[i].op \in Matrices!Binary THEN [w |-> s[e[i].b].w, h |-> s[e[i].a].h]
    ELSE IF e[i].op \in {"neg", "tr"} THEN [w |-> s[e[i].a].h, h |-> s[e[i].a].w]
    ELSE s[e[i].a]

(* The sizes of the objects of an expression are well defined.             *)
LEMMA SizesExist ==
    ASSUME NEW e, Matrices!IsExpression(e)
    PROVE  \E s : s = [i \in DOMAIN e |-> SizeOf(e, s, i)]
<1> DEFINE Good(n) == \E s : s = [i \in 1 .. n |-> SizeOf(e, s, i)]
           Bad == {n \in 0 .. Len(e) : ~Good(n)}
<1>1. Good(0)
  <2> DEFINE s == [i \in 1 .. 0 |-> 0]
  <2>1. s = [i \in 1 .. 0 |-> SizeOf(e, s, i)]
    OBVIOUS
  <2> QED
    BY <2>1
<1>2. ASSUME NEW n \in 1 .. Len(e), Good(n - 1)
      PROVE  Good(n)
  <2>1. PICK s : s = [i \in 1 .. n - 1 |-> SizeOf(e, s, i)]
    BY <1>2
  <2> DEFINE g == [i \in 1 .. n |-> IF i < n THEN s[i] ELSE SizeOf(e, s, n)]
  <2>2. n \in Nat /\ n - 1 \in Nat
    BY OperandsBefore
  <2>3. ASSUME NEW i \in 1 .. n
        PROVE  SizeOf(e, g, i) = SizeOf(e, s, i)
    <3>1. i \in 1 .. Len(e) /\ 1 .. i - 1 \subseteq 1 .. n - 1 /\ i \in Nat
      BY <2>2, OperandsBefore
    <3>2. \A j \in 1 .. n - 1 : g[j] = s[j]
      BY <2>2
    <3> HIDE DEF g
    <3>3. \A j \in 1 .. i - 1 : g[j] = s[j]
      BY <3>1, <3>2
    <3> QED
      BY <3>1, <3>3, OperandsBefore DEF SizeOf
  <2>4. ASSUME NEW i \in 1 .. n
        PROVE  g[i] = SizeOf(e, g, i)
    <3>1. CASE i < n
      <4>1. i \in 1 .. n - 1
        BY <2>2, <3>1
      <4>2. g[i] = s[i] /\ s[i] = SizeOf(e, s, i)
        BY <2>1, <3>1, <4>1
      <4> QED
        BY <2>3, <4>2
    <3>2. CASE i = n
      <4>1. g[i] = SizeOf(e, s, i)
        BY <2>2, <3>2
      <4> QED
        BY <2>3, <4>1
    <3> QED
      BY <2>2, <3>1, <3>2
  <2>5. g = [i \in 1 .. n |-> SizeOf(e, g, i)]
    <3> DEFINE f == [i \in 1 .. n |-> SizeOf(e, g, i)]
    <3>1. DOMAIN g = 1 .. n /\ DOMAIN f = 1 .. n /\ g = [i \in DOMAIN g |-> g[i]]
      OBVIOUS
    <3>2. \A i \in 1 .. n : f[i] = SizeOf(e, g, i)
      OBVIOUS
    <3> HIDE DEF g
    <3> QED
      BY <2>4, <3>1
  <2> QED
    BY <2>5
<1> HIDE DEF Good
<1>3. Bad = {}
  <2> SUFFICES ASSUME Bad # {} PROVE FALSE
    OBVIOUS
  <2>0. Len(e) \in Nat
    BY OperandsBefore
  <2>1. Bad \in SUBSET Nat
    BY <2>0
  <2>2. PICK n \in Bad : \A m \in Bad : n <= m
    <3> HIDE DEF Bad
    <3> QED
      BY <2>1, LeastExists
  <2>3. n \in 0 .. Len(e) /\ ~Good(n)
    OBVIOUS
  <2>4. n # 0
    BY <1>1, <2>3
  <2>5. n \in 1 .. Len(e) /\ n - 1 \in 0 .. Len(e) /\ ~(n <= n - 1)
    BY <2>0, <2>3, <2>4
  <2>6. Good(n - 1)
    BY <2>2, <2>5
  <2> QED
    BY <1>2, <2>3, <2>5, <2>6
<1>4. Good(Len(e))
  <2>1. Len(e) \in 0 .. Len(e)
    BY OperandsBefore
  <2> QED
    BY <1>3, <2>1
<1> QED
  BY <1>4, OperandsBefore DEF Good

LEMMA SizesAre ==
    ASSUME NEW e, Matrices!IsExpression(e)
    PROVE  Matrices!Sizes(e) = [i \in DOMAIN e |-> SizeOf(e, Matrices!Sizes(e), i)]
<1> DEFINE s == CHOOSE f : f = [i \in DOMAIN e |-> SizeOf(e, f, i)]
<1>1. Matrices!Sizes(e) = s
  BY DEF Matrices!Sizes, SizeOf
<1>2. s = [i \in DOMAIN e |-> SizeOf(e, s, i)]
  BY SizesExist
<1> HIDE DEF s
<1> QED
  BY <1>1, <1>2

(* Whatever an expression is made of, it has at least one element.         *)
LEMMA SizesArePositive ==
    ASSUME NEW e, Matrices!IsExpression(e), MatrixRecords
    PROVE  \A i \in DOMAIN e : Matrices!Sizes(e)[i] \in Positive
<1> DEFINE s == Matrices!Sizes(e)
           Bad == {i \in 1 .. Len(e) : s[i] \notin Positive}
<1>1. /\ DOMAIN e = 1 .. Len(e) /\ Len(e) \in Nat
      /\ \A i \in 1 .. Len(e) : s[i] = SizeOf(e, s, i)
  BY OperandsBefore, SizesAre
<1> HIDE DEF s
<1>2. Bad = {}
  <2> SUFFICES ASSUME Bad # {} PROVE FALSE
    OBVIOUS
  <2>1. Bad \in SUBSET Nat
    BY <1>1
  <2>2. PICK n \in Bad : \A m \in Bad : n <= m
    <3> HIDE DEF Bad
    <3> QED
      BY <2>1, LeastExists
  <2>3. \A j \in 1 .. n - 1 : s[j] \in Positive
    <3>1. ASSUME NEW j \in 1 .. n - 1 PROVE j \in 1 .. Len(e) /\ ~(n <= j)
      BY <1>1
    <3> QED
      BY <2>2, <3>1
  <2>4. n \in 1 .. Len(e) /\ s[n] \notin Positive
    OBVIOUS
  <2> HIDE DEF Bad
  <2>5. \A p \in Positive : p.w \in Nat \ {0} /\ p.h \in Nat \ {0}
    BY DEF Positive
  <2>6. SizeOf(e, s, n) \in Positive
    <3>1. CASE e[n].op = "matrix"
      <4>1. e[n].a \in Names
        BY <2>4, <3>1, OperandsBefore
      <4> QED
        BY <3>1, <4>1 DEF SizeOf, MatrixRecords, Positive
    <3>2. CASE e[n].op # "matrix"
      <4>1. s[e[n].a] \in Positive /\ (e[n].op \in Matrices!Binary => s[e[n].b] \in Positive)
        BY <2>3, <2>4, <3>2, OperandsBefore
      <4> QED
        BY <2>5, <3>2, <4>1 DEF SizeOf, Positive
    <3> QED
      BY <3>1, <3>2
  <2> QED
    BY <1>1, <2>4, <2>6
<1> QED
  BY <1>1, <1>2 DEF s

(* A block of h rows and w columns.                                        *)
Shaped(x, h, w) == DOMAIN x = 0 .. h - 1 /\ \A i \in 0 .. h - 1 : DOMAIN x[i] = 0 .. w - 1

(* Memory with the same blocks, of the same rows and columns.              *)
SameShapes(g, h) ==
    /\ DOMAIN g = DOMAIN h
    /\ \A b \in DOMAIN h : /\ DOMAIN g[b] = DOMAIN h[b]
                            /\ \A i \in DOMAIN h[b] : DOMAIN g[b][i] = DOMAIN h[b][i]

(* One element is written.                                                 *)
WriteOne(g, b, e, cols, n) ==
    [g EXCEPT ![b][(n - 1) \div cols][(n - 1) % cols] =
        Matrices!at(g, e, (n - 1) \div cols, (n - 1) % cols)]

LEMMA WriteOneKeepsShapes ==
    ASSUME NEW g, NEW h, NEW b, NEW e, NEW cols, NEW n, SameShapes(g, h)
    PROVE  SameShapes(WriteOne(g, b, e, cols, n), h)
<1> DEFINE r == (n - 1) \div cols
           c == (n - 1) % cols
           x == Matrices!at(g, e, r, c)
           k == [g EXCEPT ![b][r][c] = x]
<1> HIDE DEF r, c, x
<1>1. DOMAIN k = DOMAIN g
  OBVIOUS
<1>2. \A d \in DOMAIN g : d # b => k[d] = g[d]
  OBVIOUS
<1>3. b \in DOMAIN g => k[b] = [g[b] EXCEPT ![r][c] = x]
  OBVIOUS
<1>4. b \in DOMAIN g => DOMAIN k[b] = DOMAIN g[b]
  BY <1>3
<1>5. b \in DOMAIN g => \A i \in DOMAIN g[b] : DOMAIN k[b][i] = DOMAIN g[b][i]
  BY <1>3
<1> HIDE DEF k
<1>6. SameShapes(k, h)
  BY <1>1, <1>2, <1>4, <1>5 DEF SameShapes
<1> QED
  BY <1>6 DEF WriteOne, k, r, c, x

(* The memories during a writing are well defined.                         *)
LEMMA WritingEnds ==
    ASSUME NEW h, NEW b, NEW e, NEW cols, NEW count \in Nat
    PROVE  \E f : f = [n \in 0 .. count |-> IF n = 0 THEN h ELSE WriteOne(f[n - 1], b, e, cols, n)]
<1> DEFINE Good(m) == \E f : f = [n \in 0 .. m |-> IF n = 0 THEN h ELSE WriteOne(f[n - 1], b, e, cols, n)]
           Bad == {m \in Nat : ~Good(m)}
<1>1. Good(0)
  <2> DEFINE f == [n \in 0 .. 0 |-> h]
  <2>1. f = [n \in 0 .. 0 |-> IF n = 0 THEN h ELSE WriteOne(f[n - 1], b, e, cols, n)]
    OBVIOUS
  <2> QED
    BY <2>1
<1>2. ASSUME NEW m \in Nat, m # 0, Good(m - 1)
      PROVE  Good(m)
  <2>1. PICK f : f = [n \in 0 .. m - 1 |-> IF n = 0 THEN h ELSE WriteOne(f[n - 1], b, e, cols, n)]
    BY <1>2
  <2> DEFINE g == [n \in 0 .. m |-> IF n < m THEN f[n] ELSE WriteOne(f[m - 1], b, e, cols, m)]
  <2>2. ASSUME NEW n \in 0 .. m
        PROVE  g[n] = IF n = 0 THEN h ELSE WriteOne(g[n - 1], b, e, cols, n)
    <3>1. n # 0 => g[n - 1] = f[n - 1]
      BY <1>2
    <3>2. CASE n < m
      <4>1. n \in 0 .. m - 1 /\ g[n] = f[n]
        BY <1>2, <3>2
      <4> HIDE DEF g
      <4> QED
        BY <2>1, <3>1, <4>1
    <3>3. CASE n = m
      <4>1. g[n] = WriteOne(f[m - 1], b, e, cols, m)
        BY <1>2, <3>3
      <4> HIDE DEF g
      <4> QED
        BY <1>2, <3>1, <3>3, <4>1
    <3> QED
      BY <1>2, <3>2, <3>3
  <2>3. g = [n \in 0 .. m |-> IF n = 0 THEN h ELSE WriteOne(g[n - 1], b, e, cols, n)]
    <3>1. DOMAIN g = 0 .. m /\ g = [n \in DOMAIN g |-> g[n]]
      OBVIOUS
    <3> HIDE DEF g
    <3> QED
      BY <2>2, <3>1
  <2> QED
    BY <2>3
<1> HIDE DEF Good
<1>3. Bad = {}
  <2> SUFFICES ASSUME Bad # {} PROVE FALSE
    OBVIOUS
  <2>1. PICK m \in Bad : \A k \in Bad : m <= k
    <3>1. Bad \in SUBSET Nat
      OBVIOUS
    <3> HIDE DEF Bad
    <3> QED
      BY <3>1, LeastExists
  <2>2. m \in Nat /\ ~Good(m) /\ m # 0
    BY <1>1
  <2>3. m - 1 \in Nat /\ ~(m <= m - 1)
    BY <2>2
  <2>4. Good(m - 1)
    BY <2>1, <2>3
  <2> QED
    BY <1>2, <2>2, <2>4
<1> QED
  BY <1>3 DEF Good

(* Writing elements changes none of the shapes.                            *)
LEMMA WrittenKeepsShapes ==
    ASSUME NEW h, NEW b, NEW e, NEW rows \in Nat, NEW cols \in Nat
    PROVE  SameShapes(Matrices!Written(h, b, e, rows, cols), h)
<1> DEFINE all == rows * cols
           f == CHOOSE k : k = [n \in 0 .. all |-> IF n = 0 THEN h ELSE WriteOne(k[n - 1], b, e, cols, n)]
           Bad == {n \in 0 .. all : ~SameShapes(f[n], h)}
<1>1. all \in Nat
  OBVIOUS
<1>2. Matrices!Written(h, b, e, rows, cols) = f[all]
  BY DEF Matrices!Written, WriteOne
<1> HIDE DEF all
<1>3. f = [n \in 0 .. all |-> IF n = 0 THEN h ELSE WriteOne(f[n - 1], b, e, cols, n)]
  BY <1>1, WritingEnds, SMTT(30)
<1> HIDE DEF f
<1>4. /\ f[0] = h
      /\ \A n \in 0 .. all : n # 0 => f[n] = WriteOne(f[n - 1], b, e, cols, n)
  BY <1>1, <1>3
<1>5. SameShapes(f[0], h)
  BY <1>4 DEF SameShapes
<1>6. Bad = {}
  <2> SUFFICES ASSUME Bad # {} PROVE FALSE
    OBVIOUS
  <2>1. PICK n \in Bad : \A k \in Bad : n <= k
    <3>1. Bad \in SUBSET Nat
      BY <1>1
    <3> HIDE DEF Bad
    <3> QED
      BY <3>1, LeastExists
  <2>2. n \in 0 .. all /\ ~SameShapes(f[n], h) /\ n # 0
    BY <1>5
  <2>3. n - 1 \in 0 .. all /\ ~(n <= n - 1)
    BY <1>1, <2>2
  <2>4. SameShapes(f[n - 1], h)
    BY <2>1, <2>3
  <2> QED
    BY <1>4, <2>2, <2>4, WriteOneKeepsShapes
<1> QED
  BY <1>1, <1>2, <1>6

(* What a matrix and its inverse in the making are during an elimination.  *)
Square(s, n) ==
    DOMAIN s = {"x", "r", "threw"} /\ Shaped(s.x, n, n) /\ Shaped(s.r, n, n)

LEMMA SameCardinality ==
    ASSUME NEW S
    PROVE  Matrices!Cardinality(S) = Cardinality(S)
  BY Zenon DEF Matrices!Cardinality, Cardinality

LEMMA RowsOf ==
    ASSUME NEW x, NEW h \in Nat \ {0}, NEW w \in Nat \ {0}, Shaped(x, h, w)
    PROVE  Matrices!Rows(x) = h /\ Matrices!Cols(x) = w
<1>1. Matrices!Cardinality(0 .. h - 1) = h /\ Matrices!Cardinality(0 .. w - 1) = w
  BY FS_Interval, SameCardinality
<1>2. 0 \in 0 .. h - 1
  OBVIOUS
<1>3. DOMAIN x = 0 .. h - 1 /\ DOMAIN x[0] = 0 .. w - 1
  BY <1>2 DEF Shaped
<1>4. Matrices!Rows(x) = h
  BY <1>1, <1>3, Zenon DEF Matrices!Rows
<1>5. Matrices!Cols(x) = w
  BY <1>1, <1>3, Zenon DEF Matrices!Cols
<1> QED
  BY <1>4, <1>5

LEMMA ColumnKeepsSquares ==
    ASSUME NEW s, NEW n \in Nat \ {0}, NEW k \in 0 .. n - 1, Square(s, n)
    PROVE  Square(Matrices!Column(s, k), n)
<1>1. Matrices!Rows(s.x) = n
  BY RowsOf DEF Square
<1>2. CASE s.threw \/ s.x[k][k] = 0
  <2>1. Matrices!Column(s, k) = [s EXCEPT !.threw = TRUE]
    BY <1>2 DEF Matrices!Column
  <2> QED
    BY <2>1 DEF Square
<1>3. CASE ~(s.threw \/ s.x[k][k] = 0)
  <2> DEFINE Scaled(y) == [y EXCEPT ![k] = [j \in 0 .. n - 1 |-> Matrices!Mod3(y[k][j] * s.x[k][k])]]
             Cleared(y, z) == [i \in 0 .. n - 1 |-> IF i = k THEN z[k] ELSE
                            [j \in 0 .. n - 1 |-> Matrices!Mod3(y[i][j] - s.x[i][k] * z[k][j])]]
  <2>1. Matrices!Column(s, k)
           = [x |-> Cleared(s.x, Scaled(s.x)), r |-> Cleared(s.r, Scaled(s.r)), threw |-> FALSE]
    BY <1>1, <1>3 DEF Matrices!Column
  <2>2. ASSUME NEW y, Shaped(y, n, n)
        PROVE  Shaped(Cleared(y, Scaled(y)), n, n)
    <3>1. k \in DOMAIN y
      BY <2>2 DEF Shaped
    <3>2. DOMAIN Scaled(y)[k] = 0 .. n - 1
      BY <3>1
    <3> HIDE DEF Scaled
    <3> QED
      BY <3>2 DEF Shaped
  <2>3. Shaped(Cleared(s.x, Scaled(s.x)), n, n) /\ Shaped(Cleared(s.r, Scaled(s.r)), n, n)
    <3>1. Shaped(s.x, n, n) /\ Shaped(s.r, n, n)
      BY DEF Square
    <3> HIDE DEF Cleared, Scaled
    <3> QED
      BY <2>2, <3>1
  <2> HIDE DEF Cleared, Scaled
  <2> QED
    BY <2>1, <2>3 DEF Square
<1> QED
  BY <1>2, <1>3

(* So are the stages of an elimination.                                    *)
LEMMA EliminationEnds ==
    ASSUME NEW x, NEW count \in Nat
    PROVE  \E f : f = [k \in 0 .. count |-> IF k = 0 THEN x ELSE Matrices!Column(f[k - 1], k - 1)]
<1> DEFINE Good(m) == \E f : f = [k \in 0 .. m |-> IF k = 0 THEN x ELSE Matrices!Column(f[k - 1], k - 1)]
           Bad == {m \in Nat : ~Good(m)}
<1>1. Good(0)
  <2> DEFINE f == [k \in 0 .. 0 |-> x]
  <2>1. f = [k \in 0 .. 0 |-> IF k = 0 THEN x ELSE Matrices!Column(f[k - 1], k - 1)]
    OBVIOUS
  <2> QED
    BY <2>1
<1>2. ASSUME NEW m \in Nat, m # 0, Good(m - 1)
      PROVE  Good(m)
  <2>1. PICK f : f = [k \in 0 .. m - 1 |-> IF k = 0 THEN x ELSE Matrices!Column(f[k - 1], k - 1)]
    BY <1>2
  <2> DEFINE g == [k \in 0 .. m |-> IF k < m THEN f[k] ELSE Matrices!Column(f[m - 1], m - 1)]
  <2>2. ASSUME NEW k \in 0 .. m
        PROVE  g[k] = IF k = 0 THEN x ELSE Matrices!Column(g[k - 1], k - 1)
    <3>1. k # 0 => g[k - 1] = f[k - 1]
      BY <1>2
    <3>2. CASE k < m
      <4>1. k \in 0 .. m - 1 /\ g[k] = f[k]
        BY <1>2, <3>2
      <4> HIDE DEF g
      <4> QED
        BY <2>1, <3>1, <4>1
    <3>3. CASE k = m
      <4>1. g[k] = Matrices!Column(f[m - 1], m - 1)
        BY <1>2, <3>3
      <4> HIDE DEF g
      <4> QED
        BY <1>2, <3>1, <3>3, <4>1
    <3> QED
      BY <1>2, <3>2, <3>3
  <2>3. g = [k \in 0 .. m |-> IF k = 0 THEN x ELSE Matrices!Column(g[k - 1], k - 1)]
    <3>1. DOMAIN g = 0 .. m /\ g = [k \in DOMAIN g |-> g[k]]
      OBVIOUS
    <3> HIDE DEF g
    <3> QED
      BY <2>2, <3>1
  <2> QED
    BY <2>3
<1> HIDE DEF Good
<1>3. Bad = {}
  <2> SUFFICES ASSUME Bad # {} PROVE FALSE
    OBVIOUS
  <2>1. PICK m \in Bad : \A k \in Bad : m <= k
    <3>1. Bad \in SUBSET Nat
      OBVIOUS
    <3> HIDE DEF Bad
    <3> QED
      BY <3>1, LeastExists
  <2>2. m \in Nat /\ ~Good(m) /\ m # 0
    BY <1>1
  <2>3. m - 1 \in Nat /\ ~(m <= m - 1)
    BY <2>2
  <2>4. Good(m - 1)
    BY <2>1, <2>3
  <2> QED
    BY <1>2, <2>2, <2>4
<1> QED
  BY <1>3 DEF Good

(* The inverse and what is left of the matrix are as large as it is.       *)
LEMMA EliminationKeepsSquares ==
    ASSUME NEW x, NEW n \in Nat \ {0}, Shaped(x, n, n)
    PROVE  Square(Matrices!Eliminated(x), n)
<1> DEFINE start == [x |-> x, r |-> Matrices!Identity(n), threw |-> FALSE]
           f == CHOOSE a : a = [k \in 0 .. n |-> IF k = 0 THEN start ELSE Matrices!Column(a[k - 1], k - 1)]
           Bad == {k \in 0 .. n : ~Square(f[k], n)}
<1>1. Matrices!Rows(x) = n
  BY RowsOf
<1>2. Square(start, n)
  <2>1. Shaped(Matrices!Identity(n), n, n)
    BY DEF Shaped, Matrices!Identity, Matrices!Table
  <2> QED
    BY <2>1 DEF Square
<1>3. Matrices!Eliminated(x) = f[n]
  BY <1>1 DEF Matrices!Eliminated
<1> HIDE DEF start
<1>4. f = [k \in 0 .. n |-> IF k = 0 THEN start ELSE Matrices!Column(f[k - 1], k - 1)]
  BY EliminationEnds, SMTT(30)
<1> HIDE DEF f
<1>5. f[0] = start /\ \A k \in 0 .. n : k # 0 => f[k] = Matrices!Column(f[k - 1], k - 1)
  BY <1>4
<1>6. Bad = {}
  <2> SUFFICES ASSUME Bad # {} PROVE FALSE
    OBVIOUS
  <2>1. PICK k \in Bad : \A m \in Bad : k <= m
    <3>1. Bad \in SUBSET Nat
      OBVIOUS
    <3> HIDE DEF Bad
    <3> QED
      BY <3>1, LeastExists
  <2>2. k \in 0 .. n /\ ~Square(f[k], n) /\ k # 0
    BY <1>2, <1>5
  <2>3. k - 1 \in 0 .. n /\ ~(k <= k - 1) /\ k - 1 \in 0 .. n - 1
    BY <2>2
  <2>4. Square(f[k - 1], n)
    BY <2>1, <2>3
  <2> QED
    BY <1>5, <2>2, <2>3, <2>4, ColumnKeepsSquares
<1> QED
  BY <1>3, <1>6

(* Matrices ms own the blocks of memory h.                                 *)
Owned(ms, h) ==
    /\ ms \in [Names -> [w : Nat \ {0}, h : Nat \ {0}, data : 1 .. MaxBlocks]]
    /\ \A m, n \in Names : ms[m].data = ms[n].data => m = n
    /\ DOMAIN h = {ms[m].data : m \in Names}
    /\ \A m \in Names : Shaped(h[ms[m].data], ms[m].h, ms[m].w)

LEMMA StillOwned ==
    ASSUME NEW ms, NEW g, NEW h, Owned(ms, h), SameShapes(g, h)
    PROVE  Owned(ms, g)
<1>1. \A m \in Names : ms[m].data \in DOMAIN h
  BY DEF Owned
<1>2. ASSUME NEW m \in Names
      PROVE  Shaped(g[ms[m].data], ms[m].h, ms[m].w)
  BY <1>1, ZenonT(30) DEF Owned, SameShapes, Shaped
<1> QED
  BY <1>2 DEF Owned, SameShapes

(* There is room for one block more than the matrices have.                *)
LEMMA NewBlockIsFree ==
    ASSUME Owned(mats, heap)
    PROVE  Matrices!NewBlock \in 1 .. MaxBlocks \ DOMAIN heap
<1> DEFINE F == Matrices!FreeBlocks
<1>1. F = 1 .. MaxBlocks \ DOMAIN heap
  BY DEF Matrices!FreeBlocks
<1>2. F # {}
  <2> SUFFICES ASSUME F = {} PROVE FALSE
    OBVIOUS
  <2> DEFINE f == [m \in Names |-> mats[m].data]
  <2>1. f \in [Names -> 1 .. MaxBlocks]
    BY DEF Owned
  <2>2. \A b \in 1 .. MaxBlocks : \E m \in Names : f[m] = b
    BY <1>1 DEF Owned
  <2>3. f \in Surjection(Names, 1 .. MaxBlocks)
    <3> HIDE DEF f
    <3> QED
      BY <2>1, <2>2 DEF Surjection
  <2>4. IsFiniteSet(1 .. MaxBlocks) /\ Cardinality(1 .. MaxBlocks) = MaxBlocks
    BY MatricesAssumption, FS_Interval DEF MatricesAssumption
  <2>5. IsFiniteSet(Names) /\ Cardinality(Names) \in Nat
    BY <2>4, MatricesAssumption, FS_Subset, FS_CardinalityType DEF MatricesAssumption
  <2>6. Cardinality(1 .. MaxBlocks) <= Cardinality(Names)
    <3> HIDE DEF f
    <3> QED
      BY <2>3, <2>5, FS_Surjection
  <2> QED
    BY <2>4, <2>5, <2>6, MatricesAssumption DEF MatricesAssumption
<1>3. F \in SUBSET Nat
  BY <1>1, MatricesAssumption DEF MatricesAssumption
<1> HIDE DEF F
<1>4. \E b \in F : \A c \in F : b <= c
  BY <1>2, <1>3, LeastExists
<1>5. Matrices!NewBlock \in F
  BY <1>4 DEF Matrices!NewBlock, F
<1> QED
  BY <1>1, <1>5

(* A matrix gives its block back for a new one.                            *)
LEMMA Exchanged ==
    ASSUME Owned(mats, heap), NEW m \in Names, NEW h \in Nat \ {0}, NEW w \in Nat \ {0},
           NEW b, b = Matrices!NewBlock, NEW g,
           DOMAIN g = (DOMAIN heap \cup {b}) \ {mats[m].data},
           Shaped(g[b], h, w),
           \A c \in DOMAIN heap : c # mats[m].data => g[c] = heap[c]
    PROVE  Owned([mats EXCEPT ![m] = [w |-> w, h |-> h, data |-> b]], g)
<1> DEFINE ms == [mats EXCEPT ![m] = [w |-> w, h |-> h, data |-> b]]
<1>1. b \in 1 .. MaxBlocks /\ b \notin DOMAIN heap
  BY NewBlockIsFree
<1>2. /\ ms \in [Names -> [w : Nat \ {0}, h : Nat \ {0}, data : 1 .. MaxBlocks]]
      /\ ms[m] = [w |-> w, h |-> h, data |-> b]
      /\ \A n \in Names : n # m => ms[n] = mats[n]
  BY <1>1 DEF Owned
<1>3. /\ \A n \in Names : mats[n].data \in DOMAIN heap /\ mats[n].data # b
      /\ \A n \in Names : n # m => mats[n].data # mats[m].data
      /\ \A c \in DOMAIN heap : \E n \in Names : c = mats[n].data
  BY <1>1 DEF Owned
<1> HIDE DEF ms
<1>4. ASSUME NEW n \in Names, NEW k \in Names, ms[n].data = ms[k].data
      PROVE  n = k
  BY <1>2, <1>3, <1>4, SMTT(30) DEF Owned
<1>5. DOMAIN g = {ms[n].data : n \in Names}
  <2>1. ASSUME NEW c \in DOMAIN g
        PROVE  \E n \in Names : c = ms[n].data
    BY <1>2, <1>3
  <2>2. ASSUME NEW n \in Names
        PROVE  ms[n].data \in DOMAIN g
    BY <1>2, <1>3
  <2> QED
    BY <2>1, <2>2
<1>6. ASSUME NEW n \in Names
      PROVE  Shaped(g[ms[n].data], ms[n].h, ms[n].w)
  <2>1. CASE n = m
    BY <1>2, <2>1
  <2>2. CASE n # m
    <3>1. ms[n] = mats[n] /\ g[mats[n].data] = heap[mats[n].data]
      BY <1>2, <1>3, <2>2
    <3> QED
      BY <3>1 DEF Owned
  <2> QED
    BY <2>1, <2>2
<1>7. Owned(ms, g)
  BY <1>2, <1>4, <1>5, <1>6 DEF Owned
<1> QED
  BY <1>7 DEF ms

LEMMA TableShaped ==
    ASSUME NEW h \in Nat, NEW w \in Nat
    PROVE  Shaped(Matrices!Table(h, w, LAMBDA i, j : 0), h, w)
BY DEF Shaped, Matrices!Table

LEMMA ResizedOwned ==
    ASSUME Owned(mats, heap), NEW m \in Names, NEW h \in Nat \ {0}, NEW w \in Nat \ {0}
    PROVE  LET to == Matrices!Resized(m, h, w)
           IN  /\ Owned([mats EXCEPT ![m] = to[1]], to[2])
               /\ to[1].h = h /\ to[1].w = w
<1>1. CASE mats[m].h = h /\ mats[m].w = w
  <2>1. Matrices!Resized(m, h, w) = <<mats[m], heap>>
    BY <1>1 DEF Matrices!Resized
  <2>2. [mats EXCEPT ![m] = mats[m]] = mats
    BY DEF Owned
  <2> QED
    BY <1>1, <2>1, <2>2
<1>2. CASE ~(mats[m].h = h /\ mats[m].w = w)
  <2> DEFINE b == Matrices!NewBlock
             new == Matrices!Table(h, w, LAMBDA i, j :
                        IF i < mats[m].h /\ j < mats[m].w THEN heap[mats[m].data][i][j] ELSE 0)
             g == Matrices!Freed(Matrices!Put(heap, b, new), mats[m].data)
  <2>1. Matrices!Resized(m, h, w) = <<[w |-> w, h |-> h, data |-> b], g>>
    BY <1>2 DEF Matrices!Resized
  <2>2. Shaped(new, h, w)
    BY DEF Shaped, Matrices!Table
  <2> HIDE DEF new
  <2>3. /\ DOMAIN g = (DOMAIN heap \cup {b}) \ {mats[m].data}
        /\ \A c \in DOMAIN g : g[c] = IF c = b THEN new ELSE heap[c]
    BY DEF Matrices!Freed, Matrices!Put
  <2>4. b \notin DOMAIN heap /\ mats[m].data \in DOMAIN heap
    BY NewBlockIsFree DEF Owned
  <2> HIDE DEF g, b
  <2>5. Shaped(g[b], h, w) /\ \A c \in DOMAIN heap : c # mats[m].data => g[c] = heap[c]
    BY <2>2, <2>3, <2>4
  <2>6. Owned([mats EXCEPT ![m] = [w |-> w, h |-> h, data |-> b]], g)
    BY <2>3, <2>5, Exchanged DEF b
  <2> QED
    BY <2>1, <2>6
<1> QED
  BY <1>1, <1>2

(* An assignment leaves every block with its matrix, through a temporary   *)
(* or in place.                                                            *)
LEMMA AssignKeepsOwners ==
    ASSUME Owned(mats, heap), NEW m \in Names, NEW e \in Exprs, Matrices!Assign(m, e), ~copied'
    PROVE  Owned(mats', heap')
<1> DEFINE rows == Matrices!Sizes(e)[Len(e)].w
           cols == Matrices!Sizes(e)[Len(e)].h
           fresh == Matrices!Put(heap, Matrices!NewBlock, Matrices!Table(rows, cols, LAMBDA i, j : 0))
           to == Matrices!Resized(m, rows, cols)
<1>1. rows \in Nat \ {0} /\ cols \in Nat \ {0}
  <2>1. Matrices!IsExpression(e)
    BY MatricesAssumption DEF MatricesAssumption
  <2>2. Len(e) \in DOMAIN e
    BY <2>1, OperandsBefore
  <2>3. Matrices!Sizes(e)[Len(e)] \in Positive
    BY <2>1, <2>2, SizesArePositive DEF Owned, MatrixRecords
  <2> QED
    BY <2>3 DEF Positive
<1>2. \/ mats' = mats /\ heap' = heap
      \/ /\ heap' = Matrices!Freed(Matrices!Written(fresh, Matrices!NewBlock, e, rows, cols), mats[m].data)
         /\ mats' = [mats EXCEPT ![m] = [w |-> cols, h |-> rows, data |-> Matrices!NewBlock]]
      \/ /\ mats' = [mats EXCEPT ![m] = to[1]]
         /\ heap' = Matrices!Written(to[2], to[1].data, e, rows, cols)
  <2> HIDE DEF to, fresh
  <2> QED
    BY DEF Matrices!Assign, to, fresh
<1> HIDE DEF rows, cols
<1>3. CASE /\ heap' = Matrices!Freed(Matrices!Written(fresh, Matrices!NewBlock, e, rows, cols), mats[m].data)
           /\ mats' = [mats EXCEPT ![m] = [w |-> cols, h |-> rows, data |-> Matrices!NewBlock]]
  <2> DEFINE b == Matrices!NewBlock
             zero == Matrices!Table(rows, cols, LAMBDA i, j : 0)
             full == Matrices!Written(fresh, b, e, rows, cols)
  <2>1. Shaped(zero, rows, cols)
    BY <1>1, TableShaped
  <2> HIDE DEF zero
  <2>2. /\ DOMAIN fresh = DOMAIN heap \cup {b} /\ fresh[b] = zero
        /\ \A c \in DOMAIN heap : c # b => fresh[c] = heap[c]
    BY DEF Matrices!Put, zero
  <2> HIDE DEF fresh
  <2>3. SameShapes(full, fresh)
    BY <1>1, WrittenKeepsShapes
  <2>4. Shaped(full[b], rows, cols)
    BY <2>1, <2>2, <2>3, ZenonT(30) DEF SameShapes, Shaped
  <2>5. b \in 1 .. MaxBlocks /\ b \notin DOMAIN heap /\ mats[m].data \in DOMAIN heap
    BY NewBlockIsFree DEF Owned
  <2>6. /\ DOMAIN heap' = (DOMAIN heap \cup {b}) \ {mats[m].data}
        /\ \A c \in DOMAIN heap' : heap'[c] = full[c]
    BY <1>3, <2>2, <2>3 DEF Matrices!Freed, SameShapes
  <2> HIDE DEF full, b
  (* A memory with the new block, the others as they are.                  *)
  <2> DEFINE g == [c \in DOMAIN heap' |-> IF c = b THEN full[b] ELSE heap[c]]
             ms == [mats EXCEPT ![m] = [w |-> cols, h |-> rows, data |-> b]]
  <2>7. Owned(ms, g)
    <3>1. DOMAIN g = (DOMAIN heap \cup {b}) \ {mats[m].data}
      BY <2>6
    <3>2. Shaped(g[b], rows, cols)
      BY <2>4, <2>5, <2>6
    <3>3. \A c \in DOMAIN heap : c # mats[m].data => g[c] = heap[c]
      BY <2>5, <2>6
    <3> HIDE DEF g
    <3> QED
      BY <1>1, <3>1, <3>2, <3>3, Exchanged DEF b
  <2>8. SameShapes(heap', g)
    <3>1. ASSUME NEW c \in DOMAIN g
          PROVE  /\ DOMAIN heap'[c] = DOMAIN g[c]
                 /\ \A i \in DOMAIN g[c] : DOMAIN heap'[c][i] = DOMAIN g[c][i]
      <4>1. CASE c = b
        BY <2>6, <4>1
      <4>2. CASE c # b
        BY <2>2, <2>3, <2>6, <4>2 DEF SameShapes
      <4> QED
        BY <4>1, <4>2
    <3> QED
      BY <3>1 DEF SameShapes
  <2> HIDE DEF g
  <2> QED
    BY <1>3, <2>7, <2>8, StillOwned DEF b
<1>4. CASE /\ mats' = [mats EXCEPT ![m] = to[1]]
           /\ heap' = Matrices!Written(to[2], to[1].data, e, rows, cols)
  <2>1. Owned([mats EXCEPT ![m] = to[1]], to[2])
    BY <1>1, ResizedOwned
  <2> HIDE DEF to
  <2>2. SameShapes(heap', to[2])
    BY <1>1, <1>4, WrittenKeepsShapes
  <2> QED
    BY <1>4, <2>1, <2>2, StillOwned
<1> QED
  BY <1>2, <1>3, <1>4

LEMMA NegateKeepsOwners ==
    ASSUME Owned(mats, heap), NEW m \in Names, NEW e, Matrices!AssignNegated(m, e)
    PROVE  Owned(mats', heap')
<1>1. mats' = mats /\ (heap' = heap \/
          heap' = [heap EXCEPT ![mats[m].data] =
                      [i \in DOMAIN @ |-> [j \in DOMAIN @[i] |-> Matrices!Mod3(-@[i][j])]]])
  BY DEF Matrices!AssignNegated, Matrices!RunsWild
<1>2. SameShapes(heap', heap)
  BY <1>1 DEF SameShapes
<1> QED
  BY <1>1, <1>2, StillOwned

LEMMA InvertKeepsOwners ==
    ASSUME Owned(mats, heap), NEW m \in Names, NEW e \in Exprs, Matrices!AssignInverted(m, e),
           Matrices!Fits(e), Matrices!Root(e).op = "inv"
    PROVE  Owned(mats', heap')
<1> DEFINE d == mats[m].data
           g == Matrices!Eliminated(heap[d])
<1>1. CASE Matrices!RunsWild
  BY <1>1 DEF Matrices!RunsWild
<1>2. CASE Matrices!Own(m, e) /\ ~Matrices!RunsWild
  <2>1. Matrices!IsExpression(e)
    BY MatricesAssumption DEF MatricesAssumption
  <2> DEFINE a == e[Len(e)].a
             n == mats[m].h
  <2>2. Len(e) \in DOMAIN e /\ e[Len(e)].op = "inv" /\ a \in DOMAIN e /\ e[a] = [op |-> "matrix", a |-> m]
    <3>1. Len(e) \in DOMAIN e /\ e[Len(e)].op = "inv"
      BY <2>1, OperandsBefore DEF Matrices!Root
    <3>2. a \in 1 .. Len(e) - 1
      BY <2>1, <3>1, OperandsBefore
    <3>3. a \in DOMAIN e
      BY <2>1, <3>2, OperandsBefore
    <3> QED
      BY <1>2, <3>1, <3>3 DEF Matrices!Own, Matrices!Root
  <2> HIDE DEF a
  <2>3. Matrices!Sizes(e)[a] = [w |-> mats[m].w, h |-> mats[m].h]
    BY <2>1, <2>2, SizesAre DEF SizeOf
  <2>4. Matrices!Sizes(e)[a].w = Matrices!Sizes(e)[a].h
    BY <2>2 DEF Matrices!Fits, a
  <2>5. mats[m].w = n /\ n \in Nat \ {0} /\ d \in DOMAIN heap
    BY <2>3, <2>4 DEF Owned
  <2>6. Shaped(heap[d], n, n)
    BY <2>5 DEF Owned
  <2>7. Shaped(g.x, n, n) /\ Shaped(g.r, n, n)
    BY <2>5, <2>6, EliminationKeepsSquares DEF Square
  <2>8. /\ mats' = mats
        /\ \/ heap' = Matrices!Put(Matrices!Freed(heap, d), d, g.r)
           \/ heap' = [heap EXCEPT ![d] = g.x]
    BY <1>2 DEF Matrices!AssignInverted
  <2> HIDE DEF g, d, n
  <2>9. DOMAIN heap' = DOMAIN heap /\ heap'[d] \in {g.x, g.r} /\ \A c \in DOMAIN heap : c # d => heap'[c] = heap[c]
    <3>1. CASE heap' = Matrices!Put(Matrices!Freed(heap, d), d, g.r)
      BY <2>5, <3>1 DEF Matrices!Put, Matrices!Freed
    <3>2. CASE heap' = [heap EXCEPT ![d] = g.x]
      BY <2>5, <3>2
    <3> QED
      BY <2>8, <3>1, <3>2
  <2>10. SameShapes(heap', heap)
    BY <2>6, <2>7, <2>9, ZenonT(30) DEF SameShapes, Shaped
  <2> QED
    BY <2>8, <2>10, StillOwned
<1>3. Matrices!Own(m, e) \/ Matrices!RunsWild
  BY DEF Matrices!AssignInverted
<1> QED
  BY <1>1, <1>2, <1>3

(* Until a pointer is copied or an inverse throws.                         *)
MatricesInv == ~copied => Owned(mats, heap)

LEMMA MatricesStep ==
    ASSUME MatricesInv, [Matrices!Next]_matrixVars
    PROVE  MatricesInv'
<1> SUFFICES ASSUME ~copied' PROVE Owned(mats', heap')
  BY DEF MatricesInv
<1>1. CASE UNCHANGED matrixVars
  BY <1>1 DEF matrixVars, MatricesInv
<1>2. ASSUME Matrices!Next, Owned(mats, heap), NEW m \in Names, NEW e \in Exprs, Matrices!Evaluate(m, e)
      PROVE  Owned(mats', heap')
  BY <1>2, AssignKeepsOwners, NegateKeepsOwners, InvertKeepsOwners DEF Matrices!Evaluate
<1>3. ASSUME NEW m \in Names, NEW n \in Names, Matrices!Copy(m, n)
      PROVE  FALSE
  BY <1>3 DEF Matrices!Copy
<1>4. ASSUME Owned(mats, heap), NEW m \in Names, NEW rows \in 1 .. 2, NEW cols \in 1 .. 2, Matrices!resize(m, rows, cols)
      PROVE  Owned(mats', heap')
  <2>1. rows \in Nat \ {0} /\ cols \in Nat \ {0}
    OBVIOUS
  <2> QED
    BY <1>4, <2>1, ResizedOwned DEF Matrices!resize
<1>5. CASE Matrices!Next
  <2>1. Owned(mats, heap)
    BY <1>5 DEF Matrices!Next, MatricesInv
  <2> QED
    BY <1>2, <1>3, <1>4, <1>5, <2>1 DEF Matrices!Next
<1> QED
  BY <1>1, <1>5

LEMMA MatricesStart == Matrices!Init => MatricesInv
<1> SUFFICES ASSUME Matrices!Init PROVE Owned(mats, heap)
  BY DEF MatricesInv
<1>1. PICK has \in [Names -> Contents] :
         /\ mats = [m \in Names |-> [w |-> Matrices!Cols(has[m]), h |-> Matrices!Rows(has[m]), data |-> m]]
         /\ heap = has
  BY DEF Matrices!Init
<1>2. ASSUME NEW m \in Names
      PROVE  /\ Matrices!Rows(has[m]) \in Nat \ {0} /\ Matrices!Cols(has[m]) \in Nat \ {0}
             /\ Shaped(has[m], Matrices!Rows(has[m]), Matrices!Cols(has[m]))
  <2>1. Matrices!IsTable(has[m], Matrices!Rows(has[m]), Matrices!Cols(has[m]))
    BY <1>1, MatricesAssumption DEF MatricesAssumption
  <2> QED
    BY <2>1 DEF Matrices!IsTable, Shaped
<1>3. Names \subseteq 1 .. MaxBlocks
  BY MatricesAssumption DEF MatricesAssumption
<1> QED
  BY <1>1, <1>2, <1>3 DEF Owned

(* A matrix that is resized, assigned through a temporary or in place, or  *)
(* inverted (matrix.cpp:40-146) gives back the block it leaves and takes   *)
(* one that is free: no block is lost and none is shared, whatever the     *)
(* matrices, their sizes and the expressions.                              *)
THEOREM BlocksHaveOneOwner == ObjectsSpec => []OneOwner
<1>1. ObjectsInit => MatricesInv
  BY MatricesStart DEF ObjectsInit
<1>2. MatricesInv /\ [ObjectsNext]_<<part, vars, iniVars, cleanUpVars, matrixVars>> => MatricesInv'
  <2>1. [ObjectsNext]_<<part, vars, iniVars, cleanUpVars, matrixVars>> => [Matrices!Next]_matrixVars
    BY DEF ObjectsNext
  <2> QED
    BY <2>1, MatricesStep
<1>3. MatricesInv => OneOwner
  <2> SUFFICES ASSUME MatricesInv, ~copied
               PROVE  /\ Matrices!IsInjective([m \in Names |-> mats[m].data])
                      /\ DOMAIN heap = {mats[m].data : m \in Names}
                      /\ \A m \in Names : /\ Matrices!Rows(heap[mats[m].data]) = mats[m].h
                                           /\ Matrices!Cols(heap[mats[m].data]) = mats[m].w
    BY DEF OneOwner, Matrices!OneOwner
  <2>1. Owned(mats, heap)
    BY DEF MatricesInv
  <2>2. ASSUME NEW m \in Names
        PROVE  /\ Matrices!Rows(heap[mats[m].data]) = mats[m].h
               /\ Matrices!Cols(heap[mats[m].data]) = mats[m].w
    <3>1. /\ mats[m].h \in Nat \ {0} /\ mats[m].w \in Nat \ {0}
          /\ Shaped(heap[mats[m].data], mats[m].h, mats[m].w)
      BY <2>1 DEF Owned
    <3> QED
      BY <3>1, RowsOf
  <2>3. Matrices!IsInjective([m \in Names |-> mats[m].data])
    BY <2>1 DEF Owned, Matrices!IsInjective
  <2> QED
    BY <2>1, <2>2, <2>3 DEF Owned
<1> QED
  BY <1>1, <1>2, <1>3, PTL DEF ObjectsSpec
=============================================================================
