------------------------------- MODULE StdMap --------------------------------
(***************************************************************************)
(* The std::map inside a SafeMap, as include/safemap.hpp uses it: a        *)
(* function from keys to values in which Absent marks the keys that have   *)
(* no entry, and WDItr, the iterator that carries a copy of the map.       *)
(***************************************************************************)
EXTENDS Integers, FiniteSets

CONSTANTS
    Key,      \* the keys, integers: request ids
    Val,      \* the values
    Absent,   \* no entry
    Default   \* V(), the value operator[] makes

ASSUME StdMapAssumption ==
    /\ Key \subseteq Nat
    /\ Key # {}
    /\ IsFiniteSet(Key)
    /\ \A S \in SUBSET Key : S # {} => \E k \in S : \A j \in S : k <= j
    /\ Absent \notin Val
    /\ Default \in Val

StdMap == [Key -> Val \cup {Absent}]
Empty == [k \in Key |-> Absent]
Present(f) == {k \in Key : f[k] # Absent}
Put(f, k, v) == [f EXCEPT ![k] = v]

\* std::map::insert leaves an entry that exists alone.
Insert(f, k, v) == IF f[k] = Absent THEN Put(f, k, v) ELSE f

\* An iterator: not at the end it has a key and the value of an entry.  first
\* and second of an end() iterator are whatever was there; what an uninitialised
\* first holds is chosen when it is used.
Unset == -1
Itr ==
    {it \in [isEnd : BOOLEAN, first : Key \cup {Unset}, second : Val \cup {Absent},
             tempMap : StdMap] : it.isEnd \/ (it.first \in Key /\ it.second \in Val)}
EndOf(f) == [isEnd |-> TRUE, first |-> Unset, second |-> Absent, tempMap |-> f]
ItrAt(f, k, v) == [isEnd |-> FALSE, first |-> k, second |-> v, tempMap |-> f]

\* Mutant: find() does not compare what std::map::find gives with end().
FindInUnchecked(g, f, k) == ItrAt(g, k, f[k])

\* find(k) and begin() on the map f, the copy being g.
FindIn(g, f, k) == IF f[k] = Absent THEN EndOf(g) ELSE ItrAt(g, k, f[k])
Least(S) == CHOOSE k \in S : \A j \in S : k <= j
BeginIn(g, f) ==
    IF Present(f) = {} THEN EndOf(g) ELSE ItrAt(g, Least(Present(f)), f[Least(Present(f))])

\* operator++: the entry behind first in the iterator's own copy, else the end;
\* first and second stay as they were at the end.
Advance(it) ==
    LET later == {k \in Present(it.tempMap) : k > it.first} IN
    IF it.first \notin Present(it.tempMap) \/ later = {}
    THEN [it EXCEPT !.isEnd = TRUE]
    ELSE ItrAt(it.tempMap, Least(later), it.tempMap[Least(later)])

=============================================================================
