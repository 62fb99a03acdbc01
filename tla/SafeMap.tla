------------------------------- MODULE SafeMap -------------------------------
(***************************************************************************)
(* SafeMap<K, V> of include/safemap.hpp: std::maps, each with a mutex,     *)
(* shared by threads.  A call takes the lock, looks at the map, acts on    *)
(* what it saw and lets go; operator= takes the locks of both maps.        *)
(* Outside the lock are what the calls hand out: an iterator is a private  *)
(* copy of the map, a reference from operator[] points into the map.       *)
(*                                                                         *)
(* Calls says which calls each thread of the program makes, in any order:  *)
(* op is the call, m the map, and k, v, n its arguments.                   *)
(*                                                                         *)
(* crash: a thread used a reference to an entry that was deleted.          *)
(***************************************************************************)
EXTENDS StdMap

CONSTANTS
    Threads, Maps,
    Calls,     \* the calls of each thread
    NoRef,     \* no reference held
    NoOne,     \* the mutex is free
    MaxCalls   \* bound: number of calls each thread makes

Op == {"insert", "update", "updateItr", "erase", "eraseItr", "index", "find",
       "begin", "size", "assign"}
Call == [op : Op, m : Maps, n : Maps, k : Key, v : Val]

ASSUME SafeMapAssumption ==
    /\ Maps # {}
    /\ NoOne \notin Threads
    /\ NoRef \notin Maps \X Key
    /\ MaxCalls \in [Threads -> Nat]
    /\ Calls \in [Threads -> SUBSET Call]

VARIABLES
    wdmap,     \* the std::map of each SafeMap
    myLock,    \* who holds its mutex
    pc, call,  \* threads: program counter, the call at hand
    seen,      \* the map as the call saw it when it first looked
    ret, itr,  \* what calls returned: see AtomicMap
    ref,       \* the entry a thread's reference from operator[] is to
    dangling,  \* threads whose reference is to a deleted entry
    refs,      \* history: the entries a reference was handed out to
    made,      \* number of calls each thread made
    walk,      \* history: the keys there were when begin() was called, those visited
    crash

refvars == <<ref, dangling, refs>>
results == <<ret, itr, refvars, walk>>
vars == <<wdmap, myLock, pc, call, seen, results, made, crash>>

NoCall == CHOOSE c \in Call : TRUE
NoWalk == [on |-> FALSE, all |-> {}, keys |-> {}]

\* The type invariant.
TypeOK ==
    /\ wdmap \in [Maps -> StdMap]
    /\ myLock \in [Maps -> Threads \cup {NoOne}]
    /\ pc \in [Threads -> {"idle", "lock", "lock2", "look", "act", "unlock2", "unlock", "ref"}]
    /\ call \in [Threads -> Call]
    /\ seen \in [Threads -> StdMap]
    /\ ret \in [Threads -> Nat]
    /\ itr \in [Threads -> Itr]
    /\ ref \in [Threads -> (Maps \X Key) \cup {NoRef}]
    /\ dangling \in SUBSET Threads
    /\ refs \in SUBSET (Maps \X Key)
    /\ made \in [Threads -> Nat]
    /\ walk \in [Threads -> [on : BOOLEAN, all : SUBSET Key, keys : SUBSET Key]]
    /\ crash \in BOOLEAN

Init ==
    /\ wdmap = [m \in Maps |-> Empty]
    /\ myLock = [m \in Maps |-> NoOne]
    /\ pc = [t \in Threads |-> "idle"]
    /\ call = [t \in Threads |-> NoCall]
    /\ seen = [t \in Threads |-> Empty]
    /\ ret = [t \in Threads |-> 0]
    /\ itr = [t \in Threads |-> EndOf(Empty)]
    /\ ref = [t \in Threads |-> NoRef]
    /\ dangling = {}
    /\ refs = {}
    /\ made = [t \in Threads |-> 0]
    /\ walk = [t \in Threads |-> NoWalk]
    /\ crash = FALSE

At(t, here, there) ==
    /\ ~crash
    /\ pc[t] = here
    /\ pc' = [pc EXCEPT ![t] = there]

-----------------------------------------------------------------------------
(* The locks *)

\* Mutant: operator= does not look for self-assignment.
EnterAlways(c) == "lock"

\* operator= returns at once when it is given the map itself.
Enter(c) == IF c.op = "assign" /\ c.m = c.n THEN "idle" ELSE "lock"

\* The key an iterator carries; an uninitialised one may be any.
KeyOf(it) == IF it.first = Unset THEN Key ELSE {it.first}

\* A call begins; erase(itr) and update(itr) take the key, and the value, out of
\* the iterator they are given.
Begin(t, c) ==
    /\ At(t, "idle", Enter(c))
    /\ made[t] < MaxCalls[t]
    /\ made' = [made EXCEPT ![t] = @ + 1]
    /\ IF c.op \in {"eraseItr", "updateItr"}
       THEN \E k \in KeyOf(itr[t]) :
              call' = [call EXCEPT ![t] = [c EXCEPT !.k = k,
                         !.v = IF itr[t].second = Absent THEN @ ELSE itr[t].second]]
       ELSE call' = [call EXCEPT ![t] = c]
    /\ UNCHANGED <<wdmap, myLock, seen, results, crash>>

Assigns(t) == call[t].op = "assign"

\* Mutant: the call goes on without the lock.
LockFreeWrong(m) == TRUE

\* pthread_mutex_lock
LockFree(m) == myLock[m] = NoOne

Lock(t) ==
    /\ At(t, "lock", IF Assigns(t) THEN "lock2" ELSE "look")
    /\ LockFree(call[t].m)
    /\ myLock' = [myLock EXCEPT ![call[t].m] = t]
    /\ UNCHANGED <<wdmap, call, seen, results, made, crash>>

\* operator= then locks the map it copies from.
LockOther(t) ==
    /\ At(t, "lock2", "look")
    /\ LockFree(call[t].n)
    /\ myLock' = [myLock EXCEPT ![call[t].n] = t]
    /\ UNCHANGED <<wdmap, call, seen, results, made, crash>>

\* Mutant: operator= forgets to unlock the other map.
UnlockOtherForgotten(t) == myLock

UnlockOtherMap(t) == [myLock EXCEPT ![call[t].n] = NoOne]

UnlockOther(t) ==
    /\ At(t, "unlock2", "unlock")
    /\ myLock' = UnlockOtherMap(t)
    /\ UNCHANGED <<wdmap, call, seen, results, made, crash>>

\* The call returns; its locals are gone.
Unlock(t) ==
    /\ At(t, "unlock", IF call[t].op = "index" THEN "ref" ELSE "idle")
    /\ myLock' = [myLock EXCEPT ![call[t].m] = NoOne]
    /\ call' = [call EXCEPT ![t] = NoCall]
    /\ seen' = [seen EXCEPT ![t] = Empty]
    /\ UNCHANGED <<wdmap, results, made, crash>>

-----------------------------------------------------------------------------
(* Under the lock: a first look, then the act *)

\* The iterator's copy, the std::map iterator of find(key), the other map.
Look(t) ==
    /\ At(t, "look", "act")
    /\ seen' = [seen EXCEPT ![t] = wdmap[IF Assigns(t) THEN call[t].n ELSE call[t].m]]
    /\ UNCHANGED <<wdmap, myLock, call, results, made, crash>>

Acts(t, ops) ==
    /\ call[t].op \in ops
    /\ At(t, "act", IF Assigns(t) THEN "unlock2" ELSE "unlock")
    /\ UNCHANGED <<myLock, call, seen, made, crash>>

Write(t, f) == wdmap' = [wdmap EXCEPT ![call[t].m] = f]

\* References to entries S of the map end up dangling.
Delete(t, S) ==
    LET gone == {u \in Threads : ref[u] \in {call[t].m} \X S} IN
    /\ ref' = [u \in Threads |-> IF u \in gone THEN NoRef ELSE ref[u]]
    /\ dangling' = dangling \cup gone
    /\ refs' = refs \ ({call[t].m} \X S)

insert(t) ==
    /\ Acts(t, {"insert"})
    /\ Write(t, Insert(wdmap[call[t].m], call[t].k, call[t].v))
    /\ UNCHANGED results

\* Mutant: update makes the entry when there is none.
UpdateFindsAlways(t) == TRUE

UpdateFinds(t) == seen[t][call[t].k] # Absent

update(t) ==
    /\ Acts(t, {"update", "updateItr"})
    /\ IF UpdateFinds(t) THEN Write(t, Put(wdmap[call[t].m], call[t].k, call[t].v))
                         ELSE UNCHANGED wdmap
    /\ ret' = [ret EXCEPT ![t] = IF UpdateFinds(t) THEN 1 ELSE 0]
    /\ UNCHANGED <<itr, refvars, walk>>

erase(t) ==
    /\ Acts(t, {"erase", "eraseItr"})
    /\ Write(t, Put(wdmap[call[t].m], call[t].k, Absent))
    /\ Delete(t, {call[t].k})
    /\ UNCHANGED <<ret, itr, walk>>

index(t) ==
    /\ Acts(t, {"index"})
    /\ IF seen[t][call[t].k] = Absent
       THEN Write(t, Insert(wdmap[call[t].m], call[t].k, Default)) ELSE UNCHANGED wdmap
    /\ ref' = [ref EXCEPT ![t] = <<call[t].m, call[t].k>>]
    /\ dangling' = dangling \ {t}
    /\ refs' = refs \cup {<<call[t].m, call[t].k>>}
    /\ UNCHANGED <<ret, itr, walk>>

find(t) ==
    /\ Acts(t, {"find"})
    /\ itr' = [itr EXCEPT ![t] = FindIn(seen[t], wdmap[call[t].m], call[t].k)]
    /\ walk' = [walk EXCEPT ![t] = NoWalk]
    /\ UNCHANGED <<wdmap, ret, refvars>>

begin(t) ==
    /\ Acts(t, {"begin"})
    /\ itr' = [itr EXCEPT ![t] = BeginIn(seen[t], wdmap[call[t].m])]
    /\ walk' = [walk EXCEPT ![t] = [on |-> TRUE, all |-> Present(wdmap[call[t].m]),
                                    keys |-> {itr'[t].first} \ {Unset}]]
    /\ UNCHANGED <<wdmap, ret, refvars>>

size(t) ==
    /\ Acts(t, {"size"})
    /\ ret' = [ret EXCEPT ![t] = Cardinality(Present(wdmap[call[t].m]))]
    /\ UNCHANGED <<wdmap, itr, refvars, walk>>

assign(t) ==
    /\ Acts(t, {"assign"})
    /\ Write(t, seen[t])
    /\ Delete(t, Key)
    /\ UNCHANGED <<ret, itr, walk>>

-----------------------------------------------------------------------------
(* Without a lock *)

\* operator!= end(), then operator++
Increment(t) ==
    /\ At(t, "idle", "idle")
    /\ ~itr[t].isEnd
    /\ itr' = [itr EXCEPT ![t] = Advance(@)]
    /\ walk' = [walk EXCEPT ![t].keys = @ \cup {itr'[t].first}]
    /\ UNCHANGED <<wdmap, myLock, call, seen, ret, refvars, made, crash>>

\* The caller reads through the reference operator[] gave it, or stores.
UseRef(t) ==
    /\ At(t, "ref", "idle")
    /\ \/ UNCHANGED <<wdmap, crash>>
       \/ /\ t \notin dangling
          /\ \E v \in Val : wdmap' = [wdmap EXCEPT ![ref[t][1]] = Put(@, ref[t][2], v)]
          /\ UNCHANGED crash
       \/ /\ t \in dangling
          /\ crash' = TRUE
          /\ UNCHANGED wdmap
    /\ UNCHANGED <<myLock, call, seen, results, made>>

Act(t) ==
    insert(t) \/ update(t) \/ erase(t) \/ index(t) \/ find(t) \/ begin(t) \/ size(t) \/ assign(t)

\* Inside a call.
Proceed(t) ==
    Lock(t) \/ LockOther(t) \/ Look(t) \/ Act(t) \/ UnlockOther(t) \/ Unlock(t) \/ UseRef(t)

Next ==
    \E t \in Threads :
        \/ \E c \in Calls[t] : Begin(t, c)
        \/ Increment(t)
        \/ Proceed(t)

Spec == Init /\ [][Next]_vars

\* Threads inside a call are scheduled, and each makes finitely many calls, so a
\* mutex that is waited for is free for good in the end.
FairSpec == Spec /\ \A t \in Threads : WF_vars(Proceed(t))

-----------------------------------------------------------------------------
(* Properties *)

\* The lock a thread is about to take.
WaitsFor(t, m) ==
    \/ pc[t] = "lock" /\ call[t].m = m
    \/ pc[t] = "lock2" /\ call[t].n = m

\* operator= waits for the second lock while it holds the first, so threads can
\* wait for each other.  Only operator= does that: a thread that keeps others
\* waiting for a map and waits itself is assigning another map to this one, never
\* the map to itself.  A circle of waiting threads is a circle of assignments.
OnlyAssignWaitsHolding ==
    \A t, u \in Threads, m, n \in Maps :
        WaitsFor(t, m) /\ myLock[m] = u /\ WaitsFor(u, n) =>
            /\ \E c \in Calls[u] : c.op = "assign" /\ c.m = m /\ c.n = n
            /\ m # n

\* A loop from begin() to end() visits every key that was in the map when
\* begin() was called and no other, in order, whatever other threads insert,
\* erase, assign or store through references meanwhile.
WalksSnapshot ==
    \A t \in Threads :
        walk[t].on =>
            walk[t].keys = {k \in walk[t].all : itr[t].isEnd \/ k <= itr[t].first}

Atomic == INSTANCE AtomicMap WITH map <- wdmap

\* Linearisability: every call takes effect at once, although it looks first and
\* acts later on what it saw, and stores through references need no lock: copies
\* of a map differ from it in no more than the entries somebody may store into.
ImplementsAtomicMap == Atomic!Spec

\* Threads that assign maps to each other, each with the lock the next one needs.
Crossed ==
    \E t, u \in Threads :
        /\ pc[t] = "lock2" /\ myLock[call[t].n] = u
        /\ pc[u] = "lock2" /\ myLock[call[u].n] = t

\* Every call of two threads returns, unless a stray reference ended the process
\* or the two assign two maps to each other: nothing but crossed assignments makes
\* a thread wait for ever.
CallReturns == \A t \in Threads : pc[t] # "idle" ~> pc[t] = "idle" \/ crash \/ Crossed

=============================================================================
