------------------------------ MODULE IniStore ------------------------------
(***************************************************************************)
(* What iniloader is to its user: groups of keys with values, one of the   *)
(* groups selected.  Groups and keys are added; only clear removes them.    *)
(***************************************************************************)
VARIABLES call,         \* the call that was made last
          store,        \* store[g][k], for the groups and keys that exist
          selected      \* the name of the selected group, {} if there is none

Nothing == [n \in {} |-> n]

Keys(g) == IF g \in DOMAIN store THEN store[g] ELSE Nothing

Init == /\ store = Nothing
        /\ selected = {}

Updated(f, n, y) == [m \in DOMAIN f \cup {n} |-> IF m = n THEN y ELSE f[m]]

With(g, keys) == store' = Updated(store, g, keys)

Put(g, k, v) == With(g, Updated(Keys(g), k, v))

Touch(g, k) == With(g, IF k \in DOMAIN Keys(g) THEN Keys(g) ELSE Updated(Keys(g), k, <<>>))

(* What each call does; a key goes to the selected group, if there is one. *)
Next ==
    \/ /\ call'.is = "group"
       /\ With(call'.name, Keys(call'.name))
       /\ selected' = {call'.name}
    \/ /\ call'.is = "key"
       /\ \A g \in selected : Put(g, call'.name, call'.value)
       /\ selected = {} => UNCHANGED store
       /\ UNCHANGED selected
    \/ /\ call'.is = "touch"
       /\ \A g \in selected : Touch(g, call'.name)
       /\ selected = {} => UNCHANGED store
       /\ UNCHANGED selected
    \/ /\ call'.is = "in"
       /\ Put(call'.group, call'.name, call'.value)
       /\ UNCHANGED selected
    \/ /\ call'.is = "clear"
       /\ store' = Nothing
       /\ selected' = {}
    \/ /\ call'.is \in {"blank", "throws"}
       /\ UNCHANGED <<store, selected>>

Spec == Init /\ [][Next]_<<call, store, selected>>
=============================================================================
