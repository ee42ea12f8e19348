--------------------------- MODULE ModbusHandles ---------------------------
(***************************************************************************)
(* The reference counts of modbus.h: bus::lock and bus::release, called by *)
(* the constructors, the assignment and the destructor of the device       *)
(* handles.  release is virtual, so that a bus may close its connection    *)
(* when the count falls to zero; what it would see is what is modelled.    *)
(*                                                                         *)
(* A handle is a variable of the application.  Buses outlive handles.      *)
(***************************************************************************)
EXTENDS Integers, FiniteSets

CONSTANTS Buses, Handles,
          Addrs,        \* device addresses
          Width,        \* the number of values of an unsigned
          Start         \* the values refcount may have before any lock

None == "none"          \* the null bus pointer

ASSUME HandlesAssumption ==
    /\ None \notin Buses \cup Handles
    /\ IsFiniteSet(Handles)
    /\ 0 \in Addrs
    /\ Width \in Nat /\ Width > Cardinality(Handles)
    /\ Start \subseteq 0 .. Width - 1

VARIABLES refcount,     \* refcount[b]
          live,         \* the handles that are constructed and not destroyed
          bus, addr,    \* bus[h], addr[h]: b and d of a handle
          assigning     \* the assignment between its release and its lock

vars == <<refcount, live, bus, addr, assigning>>

NotAssigning == [to |-> None, bus |-> None, addr |-> 0]

Init ==
    /\ refcount \in [Buses -> Start]
    /\ live = {}
    /\ bus  = [h \in Handles |-> None]
    /\ addr = [h \in Handles |-> 0]
    /\ assigning = NotAssigning

(* bus::lock and bus::release, on the pointer b, which may be null.        *)
Locked(b) == IF b = None THEN refcount
             ELSE [refcount EXCEPT ![b] = (@ + 1) % Width]

Released(b) == IF b = None \/ refcount[b] = 0 THEN refcount
               ELSE [refcount EXCEPT ![b] = @ - 1]

Between == assigning = NotAssigning

Point(h, b, d) == /\ bus' = [bus EXCEPT ![h] = b] /\ addr' = [addr EXCEPT ![h] = d]

(* device(), and bus[addr].                                                *)
Default(h) ==
    /\ Between /\ h \notin live
    /\ live' = live \cup {h}
    /\ Point(h, None, 0)
    /\ UNCHANGED <<refcount, assigning>>

Construct(h, b, d) ==
    /\ Between /\ h \notin live
    /\ live' = live \cup {h}
    /\ Point(h, b, d)
    /\ refcount' = Locked(b)
    /\ UNCHANGED assigning

(* Mutant: the copy is made without a lock.                                *)
CopyUnlocked(h, src) ==
    /\ Between /\ h \notin live /\ src \in live
    /\ live' = live \cup {h}
    /\ Point(h, bus[src], addr[src])
    /\ UNCHANGED <<refcount, assigning>>

Copy(h, src) ==
    /\ Between /\ h \notin live /\ src \in live
    /\ live' = live \cup {h}
    /\ Point(h, bus[src], addr[src])
    /\ refcount' = Locked(bus[src])
    /\ UNCHANGED assigning

(* h = src, in the two steps a bus that overrides release can tell apart.  *)
AssignRelease(h, src) ==
    /\ Between /\ h \in live /\ src \in live
    /\ refcount' = Released(bus[h])
    /\ assigning' = [to |-> h, bus |-> bus[src], addr |-> addr[src]]
    /\ UNCHANGED <<live, bus, addr>>

AssignLock ==
    /\ ~Between
    /\ Point(assigning.to, assigning.bus, assigning.addr)
    /\ refcount' = Locked(assigning.bus)
    /\ assigning' = NotAssigning
    /\ UNCHANGED live

Release(h) ==
    /\ Between /\ h \in live
    /\ refcount' = Released(bus[h])
    /\ Point(h, None, 0)
    /\ UNCHANGED <<live, assigning>>

Destroy(h) ==
    /\ Between /\ h \in live
    /\ refcount' = Released(bus[h])
    /\ live' = live \ {h}
    /\ Point(h, None, 0)
    /\ UNCHANGED assigning

Next ==
    \/ \E h \in Handles :
          \/ Default(h) \/ Release(h) \/ Destroy(h)
          \/ \E b \in Buses, d \in Addrs : Construct(h, b, d)
          \/ \E src \in Handles : Copy(h, src) \/ AssignRelease(h, src)
    \/ AssignLock

Spec == Init /\ [][Next]_vars

----------------------------------------------------------------------------
(* Properties.                                                             *)

(* The types of the variables; an assignment that is under way has a live  *)
(* target (modbus.h:141-148).                                              *)
TypeOK ==
    /\ refcount \in [Buses -> 0 .. Width - 1]
    /\ live \subseteq Handles
    /\ bus \in [Handles -> Buses \cup {None}]
    /\ addr \in [Handles -> Addrs]
    /\ assigning = NotAssigning \/
       assigning \in [to : live, bus : Buses \cup {None}, addr : Addrs]

(* The handles that hold a lock on b: in the middle of an assignment its   *)
(* target has given up the old lock and has not taken the new one.         *)
Holders(b) == {h \in live : bus[h] = b /\ h # assigning.to}

(* "Reference counter, for bus locking" (modbus.h:57): the count of a bus  *)
(* is the number of handles that hold it, through every copy, assignment,  *)
(* release and destruction.                                                *)
CountsHolders == \A b \in Buses : refcount[b] = Cardinality(Holders(b))

=============================================================================
