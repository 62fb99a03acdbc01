------------------------------ MODULE AtomicMap ------------------------------
(***************************************************************************)
(* What SafeMap<K, V> (include/safemap.hpp) promises its users: every call *)
(* happens in one step.  operator[] hands out a reference, through which a *)
(* thread stores whenever it likes until the entry is gone; a copy of the  *)
(* map may miss the latest such store, so it is exact in its keys and in   *)
(* the values of the entries that were never handed out.                   *)
(***************************************************************************)
EXTENDS StdMap

CONSTANTS Threads, Maps

VARIABLES
    map,   \* the contents of each map
    ret,   \* what a thread's last size() or update() returned, true being 1
    itr,   \* the iterator a thread holds
    refs   \* the entries operator[] has handed out a reference to

vars == <<map, ret, itr, refs>>

Init ==
    /\ map = [m \in Maps |-> Empty]
    /\ ret = [t \in Threads |-> 0]
    /\ itr = [t \in Threads |-> EndOf(Empty)]
    /\ refs = {}

\* What a copy of m may be.
Copies(m) ==
    {g \in StdMap : \A k \in Key :
        g[k] = map[m][k] \/ (g[k] # Absent /\ <<m, k>> \in refs)}

insert(m, k, v) ==
    /\ map' = [map EXCEPT ![m] = Insert(@, k, v)]
    /\ UNCHANGED <<ret, itr, refs>>

update(t, m, k, v) ==
    /\ map' = IF map[m][k] = Absent THEN map ELSE [map EXCEPT ![m] = Put(@, k, v)]
    /\ ret' = [ret EXCEPT ![t] = IF map[m][k] = Absent THEN 0 ELSE 1]
    /\ UNCHANGED <<itr, refs>>

erase(m, k) ==
    /\ map' = [map EXCEPT ![m] = Put(@, k, Absent)]
    /\ refs' = refs \ {<<m, k>>}
    /\ UNCHANGED <<ret, itr>>

index(m, k) ==
    /\ map' = [map EXCEPT ![m] = Insert(@, k, Default)]
    /\ refs' = refs \cup {<<m, k>>}
    /\ UNCHANGED <<ret, itr>>

find(t, m, k) ==
    /\ \E g \in Copies(m) : itr' = [itr EXCEPT ![t] = FindIn(g, map[m], k)]
    /\ UNCHANGED <<map, ret, refs>>

begin(t, m) ==
    /\ \E g \in Copies(m) : itr' = [itr EXCEPT ![t] = BeginIn(g, map[m])]
    /\ UNCHANGED <<map, ret, refs>>

size(t, m) ==
    /\ ret' = [ret EXCEPT ![t] = Cardinality(Present(map[m]))]
    /\ UNCHANGED <<map, itr, refs>>

assign(m, n) ==
    /\ \E g \in Copies(n) : map' = [map EXCEPT ![m] = g]
    /\ refs' = refs \ ({m} \X Key)
    /\ UNCHANGED <<ret, itr>>

increment(t) ==
    /\ itr' = [itr EXCEPT ![t] = Advance(@)]
    /\ UNCHANGED <<map, ret, refs>>

store(m, k, v) ==
    /\ <<m, k>> \in refs
    /\ map' = [map EXCEPT ![m] = Put(@, k, v)]
    /\ UNCHANGED <<ret, itr, refs>>

Next ==
    \E t \in Threads, m \in Maps :
        \/ begin(t, m) \/ size(t, m) \/ increment(t)
        \/ \E n \in Maps : assign(m, n)
        \/ \E k \in Key : erase(m, k) \/ index(m, k) \/ find(t, m, k)
        \/ \E k \in Key, v \in Val : insert(m, k, v) \/ update(t, m, k, v) \/ store(m, k, v)

Spec == Init /\ [][Next]_vars

=============================================================================
