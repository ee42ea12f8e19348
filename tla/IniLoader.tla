----------------------------- MODULE IniLoader -----------------------------
(***************************************************************************)
(* The INI loader (iniloader.h, iniloader.cpp): a vector of groups, each a *)
(* vector of keys, and currentGroup, a pointer into the vector.  A program *)
(* calls the loader; a load or a patch makes one such call per line or key.*)
(*                                                                         *)
(* push_back may move the vector.  A pointer that was not renewed then     *)
(* points to memory given back: what is written through it is lost, or the *)
(* program crashes.                                                        *)
(***************************************************************************)
EXTENDS IniText

CONSTANTS Calls,        \* the calls the program makes
          Files,        \* the files it loads
          Loaders,      \* the contents of loaders it patches this one with
          MaxKeys       \* bound: the keys of a group

NoGroup == 0            \* the null pointer
Moved == -1             \* a pointer into memory that was given back

VARIABLES contents, currentGroup,
          todo,         \* the calls that a load or a patch has yet to make
          crashed,      \* the program is gone
          call,         \* history: the last call
          selected,     \* history: the name of the group selected last
          astray        \* history: a key did not go to the group it was for

vars == <<contents, currentGroup, todo, crashed, call, selected, astray>>

Init ==
    /\ contents = <<>> /\ currentGroup = NoGroup
    /\ todo = <<>> /\ crashed = FALSE
    /\ call = [is |-> "blank"] /\ selected = {} /\ astray = FALSE

findGroup(g) == SelectInSeq(contents, LAMBDA x : x.name = g)

findKey(n, k) == SelectInSeq(contents[n].keys, LAMBDA x : x.name = k)

PushKey(n, k, v) ==
    contents' = [contents EXCEPT ![n].keys = Append(@, [name |-> k, value |-> v])]

SetValue(n, k, v) ==
    contents' = [contents EXCEPT ![n].keys[findKey(n, k)].value = v]

PushGroup(g, keys) == contents' = Append(contents, [name |-> g, keys |-> keys])

(* Something is done through a pointer that is not to be used.             *)
Wild == /\ crashed' \in BOOLEAN
        /\ astray' = TRUE
        /\ UNCHANGED <<contents, currentGroup, selected>>

Sound == UNCHANGED <<crashed, astray>>

(* Mutant: a group that exists is not selected.                            *)
setGroupNewOnly(g) ==
    /\ IF findGroup(g) = 0
       THEN PushGroup(g, <<>>) /\ currentGroup' = Len(contents) + 1
       ELSE UNCHANGED <<contents, currentGroup>>
    /\ selected' = {g} /\ Sound

setGroup(g) ==
    /\ IF findGroup(g) = 0
       THEN PushGroup(g, <<>>) /\ currentGroup' = Len(contents) + 1
       ELSE currentGroup' = findGroup(g) /\ UNCHANGED contents
    /\ selected' = {g} /\ Sound

(* setKey(key, value), and operator[](key), which adds an empty value.     *)
setKey(k, v) ==
    \/ /\ currentGroup = NoGroup
       /\ Sound /\ UNCHANGED <<contents, currentGroup, selected>>
    \/ currentGroup = Moved /\ Wild
    \/ /\ currentGroup \in DOMAIN contents
       /\ IF findKey(currentGroup, k) = 0 THEN PushKey(currentGroup, k, v)
                                          ELSE SetValue(currentGroup, k, v)
       /\ Sound /\ UNCHANGED <<currentGroup, selected>>

Subscript(k) ==
    \/ /\ currentGroup \in DOMAIN contents /\ findKey(currentGroup, k) # 0
       /\ Sound /\ UNCHANGED <<contents, currentGroup, selected>>
    \/ /\ currentGroup \in DOMAIN contents => findKey(currentGroup, k) = 0
       /\ setKey(k, <<>>)

(* setKey(group, key, value).  A new group may move the vector; a key that *)
(* its group does not have is pushed into the current group instead.       *)
setKeyOfNewGroup(g, k, v) ==
    /\ findGroup(g) = 0
    /\ PushGroup(g, <<[name |-> k, value |-> v]>>)
    /\ currentGroup' \in {currentGroup} \cup (IF currentGroup = NoGroup THEN {} ELSE {Moved})
    /\ Sound /\ UNCHANGED selected

setKeyOfGroup(g, k, v) ==
    LET n == findGroup(g) IN
    /\ n # 0
    /\ \/ /\ findKey(n, k) # 0
          /\ SetValue(n, k, v)
          /\ Sound /\ UNCHANGED <<currentGroup, selected>>
       \/ /\ findKey(n, k) = 0 /\ currentGroup \in DOMAIN contents
          /\ PushKey(currentGroup, k, v)
          /\ astray' = (astray \/ currentGroup # n)
          /\ UNCHANGED <<crashed, currentGroup, selected>>
       \/ /\ findKey(n, k) = 0 /\ currentGroup \notin DOMAIN contents
          /\ Wild

(* What the groups hold stays.  saveOnQuit, which clear resets too, is     *)
(* never used: no file name is kept.                                       *)
clear ==
    /\ currentGroup' = NoGroup /\ selected' = {}
    /\ Sound /\ UNCHANGED contents

Do(c) ==
    /\ call' = c
    /\ \/ c.is = "group" /\ setGroup(c.name)
       \/ c.is = "key" /\ setKey(c.name, c.value)
       \/ c.is = "touch" /\ Subscript(c.name)
       \/ c.is = "in" /\ (setKeyOfNewGroup(c.group, c.name, c.value)
                            \/ setKeyOfGroup(c.group, c.name, c.value))
       \/ c.is = "clear" /\ clear
       \/ /\ c.is \in {"blank", "throws"}
          /\ Sound /\ UNCHANGED <<contents, currentGroup, selected>>

(* What comes after a key went astray is not followed.                     *)
Room == ~astray /\ \A n \in DOMAIN contents : Len(contents[n].keys) < MaxKeys

Use(c) == todo = <<>> /\ Do(c) /\ UNCHANGED todo

loadFromStream(lines) ==
    /\ todo = <<>>
    /\ todo' = [i \in DOMAIN lines |-> Parse(lines[i])]
    /\ UNCHANGED <<contents, currentGroup, crashed, call, selected, astray>>

patch(other) ==
    /\ todo = <<>>
    /\ todo' = FlattenSeq([n \in DOMAIN other |->
                  [m \in DOMAIN other[n].keys |->
                     [is |-> "in", group |-> other[n].name,
                      name |-> other[n].keys[m].name, value |-> other[n].keys[m].value]]])
    /\ UNCHANGED <<contents, currentGroup, crashed, call, selected, astray>>

(* A line that throws ends the load.                                       *)
Continue ==
    /\ todo # <<>>
    /\ todo' = IF Head(todo).is = "throws" THEN <<>> ELSE Tail(todo)
    /\ Do(Head(todo))

Next ==
    /\ Room
    /\ \/ \E c \in Calls : Use(c)
       \/ \E lines \in Files : loadFromStream(lines)
       \/ \E other \in Loaders : patch(other)
       \/ Continue

Spec == Init /\ [][Next]_vars

----------------------------------------------------------------------------
(* Properties.                                                             *)

(* The pointer, when it is one, points to a group; names of groups, and of *)
(* the keys of a group until one went astray, are different.               *)
TypeOK ==
    /\ currentGroup \in DOMAIN contents \cup {NoGroup, Moved}
    /\ IsInjective([n \in DOMAIN contents |-> contents[n].name])
    /\ ~astray => \A n \in DOMAIN contents :
          IsInjective([m \in DOMAIN contents[n].keys |-> contents[n].keys[m].name])

(* getKey(group, key), the first that is found; a group as a function.     *)
getKey(n, k) == contents[n].keys[findKey(n, k)].value

Dictionary ==
    [g \in {contents[n].name : n \in DOMAIN contents} |->
        [k \in {key.name : key \in ToSet(contents[findGroup(g)].keys)} |->
            getKey(findGroup(g), k)]]

Store == INSTANCE IniStore WITH store <- Dictionary

(* Until a key goes astray (iniloader.cpp:229-250), and but for a clear of *)
(* a loader that holds something, the loader is a dictionary of            *)
(* dictionaries: every call, those of a load or a patch too, changes the   *)
(* keys it names and nothing else.                                         *)
ClearOfSomething == call'.is = "clear" /\ selected' = {} /\ contents # <<>>

IsAStore ==
    /\ Store!Init
    /\ [][astray' \/ ClearOfSomething \/ Store!Next]_<<call, Dictionary, selected>>

(* "Clears all configurations performing full reinitialization."           *)
(* (iniloader.h:56): a loader that was cleared holds nothing.              *)
ClearEmpties == call.is = "clear" => contents = <<>>

(* What is saved comes back (iniloader.cpp:107-180): each line that save   *)
(* writes is read as the group or the key it was written for, with one     *)
(* more layer of quotes, which load does not take off, around keys and     *)
(* values.  Keys with an equals sign do not come back.                     *)
Rewritten ==
    FlattenSeq([n \in DOMAIN contents |->
        <<[is |-> "group", name |-> contents[n].name]>>
            \o [m \in DOMAIN contents[n].keys |->
                  [is |-> "key", name |-> Quoted(contents[n].keys[m].name),
                   value |-> Quoted(contents[n].keys[m].value)]]])

SavedComesBack ==
    LET lines == saveToStream(contents) IN
    \A i \in DOMAIN lines :
        ~Contains(Rewritten[i].name, "=") => Parse(lines[i]) = Rewritten[i]
=============================================================================
