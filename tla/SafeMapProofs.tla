---------------------------- MODULE SafeMapProofs ----------------------------
(***************************************************************************)
(* Proofs about SafeMap: the type invariant, that assignments along an     *)
(* order of the maps never wait in a circle, that every call takes effect  *)
(* at one instant, and that a loop visits the keys of one state of the map.*)
(***************************************************************************)
EXTENDS SafeMap, TLAPS, FiniteSetTheorems

-----------------------------------------------------------------------------
(* The std::map and its iterator *)

\* begin() and ++ pick a least key, which exists.
LEMMA LeastIsIn ==
  ASSUME NEW S \in SUBSET Key, S # {}
  PROVE  Least(S) \in S
BY StdMapAssumption DEF Least

\* Storing, inserting and deleting an entry give a map.
LEMMA PutType ==
  ASSUME NEW f \in StdMap, NEW k \in Key, NEW v \in Val \cup {Absent}
  PROVE  Put(f, k, v) \in StdMap /\ Insert(f, k, v) \in StdMap
BY DEF StdMap, Put, Insert

\* Storing a value loses no entry.
LEMMA PutKeeps ==
  ASSUME NEW w \in [Maps -> StdMap], NEW m \in Maps, NEW k \in Key, NEW v \in Val,
         NEW w1, w1 = w \/ w1 = [w EXCEPT ![m] = Insert(@, k, v)] \/ w1 = [w EXCEPT ![m] = Put(@, k, v)]
  PROVE  \A n \in Maps, j \in Key : w[n][j] # Absent => w1[n][j] # Absent
<1>1. \A f \in StdMap, j \in Key : f[j] # Absent => Put(f, k, v)[j] # Absent /\ Insert(f, k, v)[j] # Absent
  BY StdMapAssumption DEF StdMap, Put, Insert
<1>2. w1 = w \/ (w1[m] \in {Insert(w[m], k, v), Put(w[m], k, v)} /\ \A n \in Maps \ {m} : w1[n] = w[n])
  OBVIOUS
<1> QED
  BY <1>1, <1>2

\* find(), begin() and ++ give iterators.
LEMMA ItrType ==
  ASSUME NEW g \in StdMap, NEW f \in StdMap, NEW k \in Key, NEW it \in Itr
  PROVE  FindIn(g, f, k) \in Itr /\ BeginIn(g, f) \in Itr /\ Advance(it) \in Itr
<1>1. FindIn(g, f, k) \in Itr
  BY DEF FindIn, EndOf, ItrAt, Itr, StdMap
<1>2. BeginIn(g, f) \in Itr
  <2>1. CASE Present(f) = {}
    BY <2>1 DEF BeginIn, EndOf, Itr
  <2>2. CASE Present(f) # {}
    <3>1. Least(Present(f)) \in Key /\ f[Least(Present(f))] \in Val
      BY <2>2, LeastIsIn DEF Present, StdMap
    <3> QED
      BY <2>2, <3>1 DEF BeginIn, ItrAt, Itr, StdMap
  <2> QED
    BY <2>1, <2>2
<1>3. Advance(it) \in Itr
  <2> DEFINE later == {k1 \in Present(it.tempMap) : k1 > it.first}
  <2>1. CASE it.first \notin Present(it.tempMap) \/ later = {}
    BY <2>1 DEF Advance, Itr
  <2>2. CASE ~(it.first \notin Present(it.tempMap) \/ later = {})
    <3>1. Least(later) \in Key /\ it.tempMap[Least(later)] \in Val
      BY <2>2, LeastIsIn DEF Present, Itr, StdMap
    <3>2. Advance(it) = ItrAt(it.tempMap, Least(later), it.tempMap[Least(later)])
      BY <2>2 DEF Advance
    <3> HIDE DEF later
    <3> QED
      BY <3>1, <3>2 DEF ItrAt, Itr, StdMap
  <2> QED
    BY <2>1, <2>2
<1> QED
  BY <1>1, <1>2, <1>3

\* ++ leaves an iterator that was not at the end with a key.
LEMMA AdvanceKey ==
  ASSUME NEW it \in Itr, ~it.isEnd
  PROVE  Advance(it).first \in Key
<1> DEFINE later == {k \in Present(it.tempMap) : k > it.first}
<1>1. CASE it.first \notin Present(it.tempMap) \/ later = {}
  BY <1>1 DEF Advance, Itr
<1>2. CASE ~(it.first \notin Present(it.tempMap) \/ later = {})
  BY <1>2, LeastIsIn DEF Advance, ItrAt, Present
<1> QED
  BY <1>1, <1>2

\* size() is a number.
LEMMA SizeType ==
  ASSUME NEW f
  PROVE  Cardinality(Present(f)) \in Nat
BY StdMapAssumption, FS_Subset, FS_CardinalityType DEF Present

\* The placeholder for no call is a call.
LEMMA NoCallType == NoCall \in Call
<1>1. PICK m \in Maps, k \in Key : TRUE
  BY StdMapAssumption, SafeMapAssumption
<1>2. [op |-> "size", m |-> m, n |-> m, k |-> k, v |-> Default] \in Call
  BY StdMapAssumption DEF Call, Op
<1> QED
  BY <1>2 DEF NoCall

-----------------------------------------------------------------------------
(* Types *)

\* A call starts with the arguments the program gives it, or an iterator's.
LEMMA BeginCall ==
  ASSUME TypeOK, NEW t \in Threads, NEW c \in Calls[t], Begin(t, c)
  PROVE  /\ call' \in [Threads -> Call]
         /\ \A u \in Threads \ {t} : call'[u] = call[u]
         /\ call'[t].op = c.op /\ call'[t].m = c.m /\ call'[t].n = c.n
<1>1. c \in Call
  BY SafeMapAssumption
<1>2. CASE c.op \in {"eraseItr", "updateItr"}
  <2>1. PICK k \in KeyOf(itr[t]) :
           call' = [call EXCEPT ![t] = [c EXCEPT !.k = k,
                      !.v = IF itr[t].second = Absent THEN @ ELSE itr[t].second]]
    BY <1>2 DEF Begin
  <2>2. k \in Key
    BY DEF TypeOK, Itr, KeyOf
  <2>3. itr[t].second \in Val \cup {Absent}
    BY DEF TypeOK, Itr
  <2> DEFINE d == [c EXCEPT !.k = k, !.v = IF itr[t].second = Absent THEN @ ELSE itr[t].second]
  <2>4. d \in Call /\ d.op = c.op /\ d.m = c.m /\ d.n = c.n
    BY <1>1, <2>2, <2>3 DEF Call
  <2> HIDE DEF d
  <2>5. call' = [call EXCEPT ![t] = d]
    BY <2>1 DEF d
  <2> QED
    BY <2>4, <2>5 DEF TypeOK
<1>3. CASE c.op \notin {"eraseItr", "updateItr"}
  <2>1. call' = [call EXCEPT ![t] = c]
    BY <1>3 DEF Begin
  <2> QED
    BY <1>1, <2>1 DEF TypeOK
<1> QED
  BY <1>2, <1>3

\* The act of a call keeps the types.
LEMMA ActType ==
  ASSUME TypeOK, NEW t \in Threads, Act(t)
  PROVE  TypeOK'
<1> USE DEF TypeOK, Acts, At
<1> DEFINE m == call[t].m
           k == call[t].k
           v == call[t].v
<1>1. m \in Maps /\ k \in Key /\ v \in Val
  BY DEF Call
<1>2. wdmap[m] \in StdMap /\ seen[t] \in StdMap /\ Default \in Val
  BY <1>1, StdMapAssumption
<1> HIDE DEF m, k, v
<1>3. CASE insert(t)
  <2>1. Insert(wdmap[m], k, v) \in StdMap
    BY <1>1, <1>2, PutType
  <2> QED
    BY <1>1, <1>3, <2>1 DEF insert, Write, results, refvars, m, k, v
<1>4. CASE update(t)
  <2>1. Put(wdmap[m], k, v) \in StdMap
    BY <1>1, <1>2, PutType
  <2> QED
    BY <1>1, <1>4, <2>1 DEF update, Write, refvars, m, k, v
<1>5. CASE erase(t)
  <2>1. Put(wdmap[m], k, Absent) \in StdMap
    BY <1>1, <1>2, PutType
  <2> QED
    BY <1>1, <1>5, <2>1 DEF erase, Write, Delete, m, k, v
<1>6. CASE index(t)
  <2>1. Insert(wdmap[m], k, Default) \in StdMap
    BY <1>1, <1>2, PutType
  <2>2. wdmap' \in [Maps -> StdMap]
    BY <1>1, <1>6, <2>1 DEF index, Write, m, k
  <2>3. <<m, k>> \in Maps \X Key
    BY <1>1
  <2>4. ref' \in [Threads -> (Maps \X Key) \cup {NoRef}] /\ refs' \in SUBSET (Maps \X Key)
    BY <1>6, <2>3 DEF index, m, k
  <2> QED
    BY <1>6, <2>2, <2>4 DEF index
<1>7. CASE find(t)
  <2>1. FindIn(seen[t], wdmap[m], k) \in Itr
    BY <1>1, <1>2, ItrType
  <2>2. NoWalk \in [on : BOOLEAN, all : SUBSET Key, keys : SUBSET Key]
    BY DEF NoWalk
  <2> QED
    BY <1>7, <2>1, <2>2 DEF find, refvars, m, k, v
<1>8. CASE begin(t)
  <2>1. BeginIn(seen[t], wdmap[m]) \in Itr
    BY <1>1, <1>2, ItrType
  <2>2. itr' \in [Threads -> Itr]
    BY <1>8, <2>1 DEF begin, m
  <2>3. {itr'[t].first} \ {Unset} \in SUBSET Key /\ Present(wdmap[m]) \in SUBSET Key
    BY <2>2 DEF Itr, Present
  <2> QED
    BY <1>8, <2>2, <2>3 DEF begin, refvars, m
<1>9. CASE size(t)
  BY <1>9, SizeType DEF size, refvars
<1>10. CASE assign(t)
  BY <1>1, <1>2, <1>10 DEF assign, Write, Delete, m
<1> QED
  BY <1>3, <1>4, <1>5, <1>6, <1>7, <1>8, <1>9, <1>10 DEF Act

-----------------------------------------------------------------------------
(* The inductive invariant *)

Inside == {"lock2", "look", "act", "unlock2", "unlock"}
InBoth == {"look", "act", "unlock2"}

\* The map a call looks at.
Source(t) == IF Assigns(t) THEN call[t].n ELSE call[t].m

\* A thread holds exactly the locks its place in the code says.
LockOK ==
    \A t \in Threads :
        /\ pc[t] \in Inside => myLock[call[t].m] = t
        /\ pc[t] \in InBoth /\ Assigns(t) => myLock[call[t].n] = t
        /\ \A m \in Maps : myLock[m] = t =>
              \/ pc[t] \in Inside /\ call[t].m = m
              \/ pc[t] \in InBoth /\ Assigns(t) /\ call[t].n = m
        /\ pc[t] \in {"lock2", "unlock2"} => Assigns(t)
        /\ pc[t] \notin {"idle", "ref"} /\ Assigns(t) => call[t].m # call[t].n

\* An assignment under way is one of those the program makes.
AssignOK ==
    \A t \in Threads : pc[t] \notin {"idle", "ref"} /\ Assigns(t) =>
        \E c \in Calls[t] : c.op = "assign" /\ c.m = call[t].m /\ c.n = call[t].n

\* operator[] has been through, and its caller is yet to use the reference.
HasRef(t) == pc[t] = "ref" \/ (pc[t] = "unlock" /\ call[t].op = "index")

\* A reference that does not dangle is to an entry that is there.
RefOK ==
    /\ \A t \in Threads : HasRef(t) => t \in dangling \/ ref[t] # NoRef
    /\ \A t \in Threads : ref[t] # NoRef => ref[t] \in refs
    /\ \A m \in Maps, k \in Key : <<m, k>> \in refs => wdmap[m][k] # Absent

\* What a call saw is still true but for stores through references.
SeenOK ==
    \A t \in Threads : pc[t] = "act" =>
        \A k \in Key :
            \/ seen[t][k] = wdmap[Source(t)][k]
            \/ seen[t][k] # Absent /\ <<Source(t), k>> \in refs

Inv == TypeOK /\ LockOK /\ AssignOK /\ RefOK /\ SeenOK

-----------------------------------------------------------------------------
(* Every step keeps the invariant *)

\* Every step keeps the types: a store through a live reference hits an entry.
LEMMA StepType == TypeOK /\ RefOK /\ [Next]_vars => TypeOK'
<1> SUFFICES ASSUME TypeOK, RefOK, [Next]_vars PROVE TypeOK'
  OBVIOUS
<1>1. CASE UNCHANGED vars
  BY <1>1 DEF vars, results, refvars, TypeOK
<1>2. ASSUME NEW t \in Threads, NEW c \in Calls[t], Begin(t, c) PROVE TypeOK'
  <2>1. call' \in [Threads -> Call]
    BY <1>2, BeginCall
  <2>2. made' = [made EXCEPT ![t] = @ + 1] /\ UNCHANGED <<wdmap, myLock, seen, results, crash>>
    BY <1>2 DEF Begin
  <2>3. pc' = [pc EXCEPT ![t] = Enter(c)] /\ Enter(c) \in {"idle", "lock"}
    BY <1>2 DEF Begin, At, Enter
  <2> QED
    BY <2>1, <2>2, <2>3 DEF TypeOK, results, refvars
<1>3. ASSUME NEW t \in Threads, Increment(t) PROVE TypeOK'
  <2>1. itr[t] \in Itr /\ \E f \in StdMap, k \in Key : TRUE
    BY StdMapAssumption DEF TypeOK, StdMap, Itr
  <2>2. Advance(itr[t]) \in Itr
    BY <2>1, ItrType
  <2>3. itr'[t] = Advance(itr[t]) /\ itr' \in [Threads -> Itr]
    BY <1>3, <2>2 DEF Increment, TypeOK
  <2>4. itr'[t].first \in Key
    BY <1>3, <2>1, <2>2, <2>3, AdvanceKey DEF Increment
  <2>5. walk' \in [Threads -> [on : BOOLEAN, all : SUBSET Key, keys : SUBSET Key]]
    BY <1>3, <2>4, SMTT(30) DEF Increment, TypeOK
  <2> QED
    BY <1>3, <2>3, <2>5 DEF Increment, At, TypeOK, refvars
<1>4. ASSUME NEW t \in Threads, Proceed(t) PROVE TypeOK'
  <2>1. call[t].m \in Maps /\ call[t].n \in Maps
    BY DEF TypeOK, Call
  <2>2. CASE Lock(t) \/ LockOther(t) \/ UnlockOther(t)
    <3>1. /\ myLock' \in [Maps -> Threads \cup {NoOne}]
          /\ UNCHANGED <<wdmap, call, seen, results, made, crash>>
          /\ \E there \in {"lock2", "look", "unlock"} : pc' = [pc EXCEPT ![t] = there]
      BY <2>1, <2>2 DEF Lock, LockOther, UnlockOther, UnlockOtherMap, At, TypeOK
    <3> QED
      BY <3>1 DEF TypeOK, results, refvars
  <2>3. CASE Unlock(t)
    BY <2>1, <2>3, NoCallType DEF Unlock, At, TypeOK, results, refvars, Empty, StdMap
  <2>4. CASE Look(t)
    BY <2>1, <2>4 DEF Look, At, TypeOK, results, refvars
  <2>5. CASE UseRef(t)
    <3>1. CASE UNCHANGED wdmap
      BY <2>5, <3>1 DEF UseRef, At, TypeOK, results, refvars
    <3>2. CASE ~UNCHANGED wdmap
      <4>1. PICK v \in Val : /\ t \notin dangling
                            /\ wdmap' = [wdmap EXCEPT ![ref[t][1]] = Put(@, ref[t][2], v)]
                            /\ UNCHANGED crash
        BY <2>5, <3>2 DEF UseRef
      <4>2. ref[t] \in Maps \X Key
        BY <2>5, <4>1 DEF RefOK, HasRef, UseRef, At, TypeOK
      <4>3. wdmap[ref[t][1]] \in StdMap /\ ref[t][1] \in Maps /\ ref[t][2] \in Key
        BY <4>2 DEF TypeOK
      <4>4. Put(wdmap[ref[t][1]], ref[t][2], v) \in StdMap
        BY <4>3, PutType
      <4>5. wdmap' \in [Maps -> StdMap]
        BY <4>1, <4>3, <4>4 DEF TypeOK
      <4> QED
        BY <2>5, <4>1, <4>5 DEF UseRef, At, TypeOK, results, refvars
    <3> QED
      BY <3>1, <3>2
  <2> QED
    BY <1>4, <2>2, <2>3, <2>4, <2>5, ActType DEF Proceed
<1> QED
  BY <1>1, <1>2, <1>3, <1>4 DEF Next

\* A thread goes through the assignment it began.
LEMMA StepAssign == Inv /\ [Next]_vars => AssignOK'
<1> SUFFICES ASSUME Inv, [Next]_vars, NEW u \in Threads,
                    pc'[u] \notin {"idle", "ref"}, Assigns(u)'
             PROVE  \E c \in Calls[u] : c.op = "assign" /\ c.m = call'[u].m /\ c.n = call'[u].n
  BY DEF AssignOK
<1>1. CASE pc[u] \notin {"idle", "ref"} /\ call'[u] = call[u]
  BY <1>1 DEF Inv, AssignOK, Assigns
<1>2. CASE UNCHANGED vars
  BY <1>1, <1>2 DEF vars
<1>3. ASSUME NEW t \in Threads, NEW c \in Calls[t], Begin(t, c) PROVE \E d \in Calls[u] : d.op = "assign" /\ d.m = call'[u].m /\ d.n = call'[u].n
  <2>1. CASE t = u
    BY <1>3, <2>1, BeginCall DEF Inv, Assigns
  <2>2. CASE t # u
    BY <1>1, <1>3, <2>2, BeginCall DEF Inv, Begin, At, TypeOK
  <2> QED
    BY <2>1, <2>2
<1>4. ASSUME NEW t \in Threads, Increment(t) PROVE \E d \in Calls[u] : d.op = "assign" /\ d.m = call'[u].m /\ d.n = call'[u].n
  BY <1>1, <1>4 DEF Inv, Increment, At, TypeOK
<1>5. ASSUME NEW t \in Threads, Proceed(t) PROVE \E d \in Calls[u] : d.op = "assign" /\ d.m = call'[u].m /\ d.n = call'[u].n
  <2>1. CASE Unlock(t)
    BY <1>1, <2>1 DEF Inv, Unlock, At, TypeOK
  <2>2. CASE UseRef(t)
    BY <1>1, <2>2 DEF Inv, UseRef, At, TypeOK
  <2>3. CASE Lock(t) \/ LockOther(t) \/ Look(t) \/ UnlockOther(t) \/ Act(t)
    <3>1. pc[t] \notin {"idle", "ref"} /\ call' = call /\ \A x \in Threads \ {t} : pc'[x] = pc[x]
      BY <2>3 DEF Inv, TypeOK, Lock, LockOther, Look, UnlockOther, Act, insert, update, erase,
                  index, find, begin, size, assign, Acts, At
    <3> QED
      BY <1>1, <3>1
  <2> QED
    BY <1>5, <2>1, <2>2, <2>3 DEF Proceed
<1> QED
  BY <1>2, <1>3, <1>4, <1>5 DEF Next

\* Taking and releasing locks keeps the books.
LEMMA StepLock == Inv /\ [Next]_vars => LockOK'
<1> SUFFICES ASSUME Inv, [Next]_vars PROVE LockOK'
  OBVIOUS
<1> USE DEF Inv, LockOK, Inside, InBoth, Assigns
<1>1. CASE UNCHANGED vars
  BY <1>1 DEF vars
<1>2. ASSUME NEW t \in Threads, NEW c \in Calls[t], Begin(t, c) PROVE LockOK'
  <2>1. pc[t] = "idle" /\ pc' = [pc EXCEPT ![t] = Enter(c)] /\ myLock' = myLock
    BY <1>2 DEF Begin, At
  <2>2. call'[t].op = c.op /\ call'[t].m = c.m /\ call'[t].n = c.n
    BY <1>2, BeginCall
  <2>3. \A u \in Threads \ {t} : call'[u] = call[u] /\ pc'[u] = pc[u]
    BY <1>2, <2>1, BeginCall DEF TypeOK
  <2>4. pc'[t] \in {"idle", "lock"}
    BY <2>1 DEF Enter, TypeOK
  <2>5. pc'[t] = "lock" /\ c.op = "assign" => c.m # c.n
    BY <2>1 DEF Enter, TypeOK
  <2>6. \A m \in Maps : myLock[m] # t
    BY <2>1
  <2> QED
    BY <2>1, <2>2, <2>3, <2>4, <2>5, <2>6
<1>3. ASSUME NEW t \in Threads, Increment(t) PROVE LockOK'
  BY <1>3 DEF Increment, At, TypeOK
<1>4. ASSUME NEW t \in Threads, Proceed(t) PROVE LockOK'
  <2>1. call[t].m \in Maps /\ call[t].n \in Maps /\ NoOne \notin Threads
    BY SafeMapAssumption DEF TypeOK, Call
  <2>2. CASE Lock(t)
    BY <2>1, <2>2 DEF Lock, LockFree, At, TypeOK
  <2>3. CASE LockOther(t)
    BY <2>1, <2>3 DEF LockOther, LockFree, At, TypeOK
  <2>4. CASE UnlockOther(t)
    BY <2>1, <2>4 DEF UnlockOther, UnlockOtherMap, At, TypeOK
  <2>5. CASE Unlock(t)
    BY <2>1, <2>5 DEF Unlock, At, TypeOK
  <2>6. CASE Look(t)
    BY <2>1, <2>6 DEF Look, At, TypeOK
  <2>7. CASE UseRef(t)
    BY <2>1, <2>7 DEF UseRef, At, TypeOK
  <2>8. CASE Act(t)
    <3>1. /\ pc[t] = "act"
          /\ pc' = [pc EXCEPT ![t] = IF Assigns(t) THEN "unlock2" ELSE "unlock"]
          /\ UNCHANGED <<myLock, call>>
      BY <2>8 DEF Act, insert, update, erase, index, find, begin, size, assign, Acts, At
    <3> QED
      BY <2>1, <3>1 DEF TypeOK
  <2> QED
    BY <1>4, <2>2, <2>3, <2>4, <2>5, <2>6, <2>7, <2>8 DEF Proceed
<1> QED
  BY <1>1, <1>2, <1>3, <1>4 DEF Next

\* A call finds an entry when it acts if and only if it saw it.
LEMMA SawEntry ==
  ASSUME Inv, NEW t \in Threads, pc[t] = "act", NEW k \in Key
  PROVE  seen[t][k] = Absent <=> wdmap[Source(t)][k] = Absent
<1>1. Source(t) \in Maps
  BY DEF Inv, TypeOK, Source, Call
<1> QED
  BY <1>1 DEF Inv, SeenOK, RefOK

\* What an act does to the maps and to the references: it touches no map but
\* the one it was called on.
LEMMA ActFrame ==
  ASSUME Inv, NEW t \in Threads, Act(t)
  PROVE  /\ pc[t] = "act"
         /\ pc' = [pc EXCEPT ![t] = IF Assigns(t) THEN "unlock2" ELSE "unlock"]
         /\ UNCHANGED <<myLock, call, seen>>
         /\ \A m \in Maps \ {call[t].m} : wdmap'[m] = wdmap[m]
         /\ \A m \in Maps \ {call[t].m}, k \in Key : <<m, k>> \in refs' <=> <<m, k>> \in refs
<1>1. call[t].m \in Maps
  BY DEF Inv, TypeOK, Call
<1> USE DEF Acts, At, Write, Delete, refvars, results
<1>2. /\ pc[t] = "act"
      /\ pc' = [pc EXCEPT ![t] = IF Assigns(t) THEN "unlock2" ELSE "unlock"]
      /\ UNCHANGED <<myLock, call, seen>>
  BY DEF Act, insert, update, erase, index, find, begin, size, assign
<1>3. \A m \in Maps \ {call[t].m} : wdmap'[m] = wdmap[m]
  BY <1>1 DEF Act, insert, update, erase, index, find, begin, size, assign, Inv, TypeOK
<1>4. \A m \in Maps \ {call[t].m}, k \in Key : <<m, k>> \in refs' <=> <<m, k>> \in refs
  BY <1>1 DEF Act, insert, update, erase, index, find, begin, size, assign
<1> QED
  BY <1>2, <1>3, <1>4

\* A store through a reference changes the value of an entry that was handed out.
LEMMA StoreFrame ==
  ASSUME Inv, NEW t \in Threads, UseRef(t)
  PROVE  /\ pc[t] = "ref" /\ pc' = [pc EXCEPT ![t] = "idle"]
         /\ UNCHANGED <<myLock, call, seen, ret, itr, refvars>>
         /\ \/ wdmap' = wdmap
            \/ \E m \in Maps, k \in Key, v \in Val :
                  <<m, k>> \in refs /\ wdmap' = [wdmap EXCEPT ![m] = Put(@, k, v)]
<1>1. CASE wdmap' = wdmap
  BY <1>1 DEF UseRef, At, results, refvars
<1>2. CASE wdmap' # wdmap
  <2>1. PICK v \in Val : /\ t \notin dangling
                        /\ wdmap' = [wdmap EXCEPT ![ref[t][1]] = Put(@, ref[t][2], v)]
    BY <1>2 DEF UseRef
  <2>2. ref[t] # NoRef /\ ref[t] \in refs /\ ref[t] \in Maps \X Key
    BY <2>1 DEF Inv, RefOK, HasRef, UseRef, At, TypeOK
  <2>3. ref[t][1] \in Maps /\ ref[t][2] \in Key /\ <<ref[t][1], ref[t][2]>> = ref[t]
    BY <2>2
  <2> QED
    BY <2>1, <2>2, <2>3 DEF UseRef, At, results, refvars
<1> QED
  BY <1>1, <1>2

\* References keep pointing at entries, or are known to dangle.
LEMMA StepRef == Inv /\ [Next]_vars => RefOK'
<1> SUFFICES ASSUME Inv, [Next]_vars PROVE RefOK'
  OBVIOUS
<1> USE DEF RefOK, HasRef
<1>0. TypeOK /\ RefOK
  BY DEF Inv
<1>00. wdmap \in [Maps -> StdMap]
  BY <1>0 DEF TypeOK
<1>1. CASE UNCHANGED vars
  BY <1>0, <1>1 DEF vars, results, refvars
<1>2. ASSUME NEW t \in Threads, NEW c \in Calls[t], Begin(t, c) PROVE RefOK'
  <2>1. pc' = [pc EXCEPT ![t] = Enter(c)] /\ Enter(c) \in {"idle", "lock"}
    BY <1>2 DEF Begin, At, Enter
  <2>2. UNCHANGED <<wdmap, ref, dangling, refs>> /\ \A u \in Threads \ {t} : call'[u] = call[u]
    BY <1>0, <1>2, BeginCall DEF Begin, results, refvars
  <2> QED
    BY <1>0, <2>1, <2>2 DEF TypeOK
<1>3. ASSUME NEW t \in Threads, Increment(t) PROVE RefOK'
  BY <1>0, <1>3 DEF Increment, At, refvars, TypeOK
<1>4. ASSUME NEW t \in Threads, Lock(t) \/ LockOther(t) \/ UnlockOther(t) \/ Look(t) PROVE RefOK'
  <2>1. UNCHANGED <<wdmap, call, ref, dangling, refs>>
    BY <1>4 DEF Lock, LockOther, UnlockOther, Look, results, refvars
  <2>2. \E there \in {"lock2", "look", "act", "unlock"} :
           pc' = [pc EXCEPT ![t] = there] /\ (there = "unlock" => call[t].op = "assign")
    BY <1>4 DEF Lock, LockOther, UnlockOther, Look, At, Inv, LockOK, Assigns
  <2> QED
    BY <1>0, <2>1, <2>2 DEF TypeOK
<1>5. ASSUME NEW t \in Threads, Unlock(t) PROVE RefOK'
  <2>1. UNCHANGED <<wdmap, ref, dangling, refs>> /\ \A u \in Threads \ {t} : call'[u] = call[u]
    BY <1>0, <1>5 DEF Unlock, results, refvars, TypeOK
  <2> QED
    BY <1>0, <1>5, <2>1 DEF Unlock, At, TypeOK
<1>6. ASSUME NEW t \in Threads, UseRef(t) PROVE RefOK'
  <2>1. /\ pc' = [pc EXCEPT ![t] = "idle"]
        /\ UNCHANGED <<call, ref, dangling, refs>>
    BY <1>6, StoreFrame DEF refvars
  <2>2. \A m \in Maps, k \in Key : wdmap[m][k] # Absent => wdmap'[m][k] # Absent
    <3>1. CASE wdmap' = wdmap
      BY <3>1
    <3>2. CASE wdmap' # wdmap
      <4>1. PICK m \in Maps, k \in Key, v \in Val : wdmap' = [wdmap EXCEPT ![m] = Put(@, k, v)]
        BY <1>6, <3>2, StoreFrame
      <4> QED
        BY <1>00, <4>1, PutKeeps
    <3> QED
      BY <3>1, <3>2
  <2> QED
    BY <1>0, <2>1, <2>2 DEF TypeOK
<1>7. ASSUME NEW t \in Threads, Act(t) PROVE RefOK'
  <2> DEFINE m == call[t].m
             k == call[t].k
             v == call[t].v
  <2>1. m \in Maps /\ k \in Key /\ v \in Val /\ Absent \notin Val /\ Default \in Val
    BY <1>0, StdMapAssumption DEF TypeOK, Call
  <2>2. /\ pc[t] = "act"
        /\ pc' = [pc EXCEPT ![t] = IF Assigns(t) THEN "unlock2" ELSE "unlock"]
        /\ call' = call
    BY <1>7, ActFrame
  <2>3. \A u \in Threads \ {t} : pc'[u] = pc[u]
    BY <1>0, <2>2 DEF TypeOK
  <2>4. CASE insert(t) \/ update(t) \/ find(t) \/ begin(t) \/ size(t)
    <3>1. UNCHANGED <<ref, dangling, refs>> /\ call[t].op # "index"
      BY <2>4 DEF insert, update, find, begin, size, Acts, results, refvars
    <3>2. \A n \in Maps, j \in Key : wdmap[n][j] # Absent => wdmap'[n][j] # Absent
      <4>1. CASE wdmap' = wdmap
        BY <4>1
      <4>2. CASE wdmap' # wdmap
        <5>1. \/ wdmap' = [wdmap EXCEPT ![m] = Insert(@, k, v)]
              \/ wdmap' = [wdmap EXCEPT ![m] = Put(@, k, v)]
          BY <2>4, <4>2 DEF insert, update, find, begin, size, Write
        <5> QED
          BY <1>00, <2>1, <5>1, PutKeeps
      <4> QED
        BY <4>1, <4>2
    <3> QED
      BY <1>0, <2>2, <2>3, <3>1, <3>2
  <2>5. CASE erase(t) \/ assign(t)
    <3> DEFINE S == IF erase(t) THEN {k} ELSE Key
               gone == {u \in Threads : ref[u] \in {m} \X S}
    <3>1. /\ ref' = [u \in Threads |-> IF u \in gone THEN NoRef ELSE ref[u]]
          /\ dangling' = dangling \cup gone
          /\ refs' = refs \ ({m} \X S)
          /\ call[t].op # "index"
      BY <2>5 DEF erase, assign, Delete, Acts
    <3>2. \A n \in Maps, j \in Key : n # m \/ j \notin S => wdmap'[n][j] = wdmap[n][j]
      BY <1>0, <2>1, <2>5 DEF erase, assign, Write, Put, TypeOK, StdMap
    <3> HIDE DEF m, k, v, S
    <3>3. \A u \in Threads : ref'[u] # NoRef => ref'[u] \in refs'
      BY <1>0, <3>1
    <3>4. \A u \in Threads : HasRef(u)' => u \in dangling' \/ ref'[u] # NoRef
      BY <1>0, <2>2, <2>3, <3>1
    <3>5. \A n \in Maps, j \in Key : <<n, j>> \in refs' => wdmap'[n][j] # Absent
      BY <1>0, <3>1, <3>2
    <3> QED
      BY <3>3, <3>4, <3>5
  <2>6. CASE index(t)
    <3>1. /\ ref' = [ref EXCEPT ![t] = <<m, k>>]
          /\ dangling' = dangling \ {t}
          /\ refs' = refs \cup {<<m, k>>}
      BY <2>6 DEF index
    <3>2. wdmap'[m][k] # Absent
      <4>1. seen[t][k] = Absent <=> wdmap[m][k] = Absent
        BY <2>1, <2>2, <2>6, SawEntry DEF Source, index, Acts, Assigns
      <4> QED
        BY <1>0, <2>1, <2>6, <4>1 DEF index, Write, Insert, Put, TypeOK, StdMap
    <3>3. \A n \in Maps, j \in Key : wdmap[n][j] # Absent => wdmap'[n][j] # Absent
      <4>1. wdmap' = wdmap \/ wdmap' = [wdmap EXCEPT ![m] = Insert(@, k, Default)]
        BY <2>6 DEF index, Write
      <4> QED
        BY <1>00, <2>1, <4>1, PutKeeps
    <3>4. NoRef # <<m, k>>
      BY <2>1, SafeMapAssumption
    <3> HIDE DEF m, k, v
    <3>5. \A u \in Threads : ref'[u] # NoRef => ref'[u] \in refs'
      <4>1. ref \in [Threads -> (Maps \X Key) \cup {NoRef}]
        BY <1>0 DEF TypeOK
      <4>2. ref'[t] \in refs' /\ \A u \in Threads \ {t} : ref'[u] = ref[u]
        BY <3>1, <4>1
      <4> QED
        BY <1>0, <3>1, <4>2
    <3>6. \A u \in Threads : HasRef(u)' => u \in dangling' \/ ref'[u] # NoRef
      BY <1>0, <2>2, <2>3, <3>1, <3>4 DEF TypeOK
    <3>7. \A n \in Maps, j \in Key : <<n, j>> \in refs' => wdmap'[n][j] # Absent
      BY <1>0, <3>1, <3>2, <3>3
    <3> QED
      BY <3>5, <3>6, <3>7
  <2> QED
    BY <1>7, <2>4, <2>5, <2>6 DEF Act
<1> QED
  BY <1>1, <1>2, <1>3, <1>4, <1>5, <1>6, <1>7 DEF Next, Proceed

\* What a call saw stays true while it holds the lock.
LEMMA StepSeen == Inv /\ [Next]_vars => SeenOK'
<1> SUFFICES ASSUME Inv, [Next]_vars,
                    NEW u \in Threads, pc'[u] = "act", NEW k \in Key
             PROVE  \/ seen'[u][k] = wdmap'[Source(u)'][k]
                    \/ seen'[u][k] # Absent /\ <<Source(u)', k>> \in refs'
  BY DEF SeenOK
<1>0. TypeOK /\ SeenOK /\ LockOK /\ Source(u) \in Maps
  BY DEF Inv, TypeOK, Source, Call
<1>a. ASSUME UNCHANGED <<wdmap, refs>>, pc[u] = "act", call'[u] = call[u], seen'[u] = seen[u]
      PROVE  \/ seen'[u][k] = wdmap'[Source(u)'][k]
             \/ seen'[u][k] # Absent /\ <<Source(u)', k>> \in refs'
  BY <1>0, <1>a DEF SeenOK, Source, Assigns
<1>1. CASE UNCHANGED vars
  BY <1>1, <1>a DEF vars, results, refvars
<1>2. ASSUME NEW t \in Threads, NEW c \in Calls[t], Begin(t, c) PROVE pc[u] = "act" /\ t # u
  BY <1>0, <1>2 DEF Begin, At, Enter, TypeOK
<1>3. ASSUME NEW t \in Threads, NEW c \in Calls[t], Begin(t, c)
      PROVE  UNCHANGED <<wdmap, refs>> /\ call'[u] = call[u] /\ seen'[u] = seen[u]
  BY <1>0, <1>2, <1>3, BeginCall DEF Begin, results, refvars
<1>4. ASSUME NEW t \in Threads,
             Increment(t) \/ Lock(t) \/ LockOther(t) \/ UnlockOther(t) \/ Unlock(t)
      PROVE  pc[u] = "act" /\ t # u
  BY <1>0, <1>4 DEF Increment, Lock, LockOther, UnlockOther, Unlock, At, TypeOK
<1>5. ASSUME NEW t \in Threads,
             Increment(t) \/ Lock(t) \/ LockOther(t) \/ UnlockOther(t) \/ Unlock(t)
      PROVE  UNCHANGED <<wdmap, refs>> /\ call'[u] = call[u] /\ seen'[u] = seen[u]
  <2>1. t # u
    BY <1>4, <1>5
  <2>2. CASE Unlock(t)
    BY <1>0, <2>1, <2>2 DEF Unlock, results, refvars, TypeOK
  <2> QED
    BY <1>5, <2>2 DEF Increment, Lock, LockOther, UnlockOther, results, refvars
<1>6. ASSUME NEW t \in Threads, Look(t)
      PROVE  \/ seen'[u][k] = wdmap'[Source(u)'][k]
             \/ seen'[u][k] # Absent /\ <<Source(u)', k>> \in refs'
  <2>1. UNCHANGED <<wdmap, call, refs>>
    BY <1>6 DEF Look, results, refvars
  <2>2. CASE t = u
    BY <1>0, <1>6, <2>1, <2>2 DEF Look, Source, Assigns, TypeOK
  <2>3. CASE t # u
    BY <1>0, <1>6, <1>a, <2>1, <2>3 DEF Look, At, TypeOK
  <2> QED
    BY <2>2, <2>3
<1>7. ASSUME NEW t \in Threads, Act(t)
      PROVE  \/ seen'[u][k] = wdmap'[Source(u)'][k]
             \/ seen'[u][k] # Absent /\ <<Source(u)', k>> \in refs'
  <2>1. pc[u] = "act" /\ t # u /\ pc[t] = "act" /\ UNCHANGED <<call, seen>>
    BY <1>0, <1>7, ActFrame DEF TypeOK
  <2>2. myLock[call[t].m] = t /\ myLock[Source(u)] = u
    BY <1>0, <2>1 DEF LockOK, Inside, InBoth, Source
  <2>3. Source(u) # call[t].m
    BY <2>1, <2>2
  <2>4. wdmap'[Source(u)] = wdmap[Source(u)] /\ (<<Source(u), k>> \in refs' <=> <<Source(u), k>> \in refs)
    BY <1>0, <1>7, <2>3, ActFrame
  <2>5. Source(u)' = Source(u)
    BY <2>1 DEF Source, Assigns
  <2> QED
    BY <1>0, <2>1, <2>4, <2>5 DEF SeenOK
<1>8. ASSUME NEW t \in Threads, UseRef(t)
      PROVE  \/ seen'[u][k] = wdmap'[Source(u)'][k]
             \/ seen'[u][k] # Absent /\ <<Source(u)', k>> \in refs'
  <2>1. pc[u] = "act" /\ UNCHANGED <<call, seen, refs>>
    BY <1>0, <1>8, StoreFrame DEF TypeOK, refvars
  <2>2. CASE wdmap' = wdmap
    BY <1>a, <2>1, <2>2
  <2>3. ASSUME NEW m \in Maps, NEW j \in Key, NEW v \in Val,
               <<m, j>> \in refs, wdmap' = [wdmap EXCEPT ![m] = Put(@, j, v)]
        PROVE  \/ seen[u][k] = wdmap'[Source(u)][k]
               \/ seen[u][k] # Absent /\ <<Source(u), k>> \in refs
    <3>1. CASE m = Source(u) /\ j = k
      <4>1. wdmap[m][j] # Absent
        BY <2>3 DEF Inv, RefOK
      <4>2. seen[u][k] # Absent
        BY <2>1, <3>1, <4>1, SawEntry
      <4> QED
        BY <2>3, <3>1, <4>2
    <3>2. CASE ~(m = Source(u) /\ j = k)
      <4>1. wdmap'[Source(u)][k] = wdmap[Source(u)][k]
        BY <1>0, <2>3, <3>2 DEF Put, TypeOK, StdMap
      <4> QED
        BY <1>0, <2>1, <4>1 DEF SeenOK
    <3> QED
      BY <3>1, <3>2
  <2>4. Source(u)' = Source(u)
    BY <2>1 DEF Source, Assigns
  <2> QED
    BY <1>8, <2>1, <2>2, <2>3, <2>4, StoreFrame
<1> QED
  BY <1>a, <1>1, <1>2, <1>3, <1>4, <1>5, <1>6, <1>7, <1>8 DEF Next, Proceed

-----------------------------------------------------------------------------
(* The theorems *)

\* The invariant is inductive.
LEMMA Invariant == Spec => []Inv
<1>1. Init => Inv
  <2> SUFFICES ASSUME Init PROVE Inv
    OBVIOUS
  <2>1. TypeOK
    BY NoCallType DEF Init, TypeOK, Empty, EndOf, Itr, NoWalk, StdMap
  <2>2. LockOK /\ AssignOK /\ RefOK /\ SeenOK
    BY SafeMapAssumption DEF Init, LockOK, AssignOK, RefOK, SeenOK, HasRef, Inside, InBoth
  <2> QED
    BY <2>1, <2>2 DEF Inv
<1>2. Inv /\ [Next]_vars => Inv'
  BY StepType, StepLock, StepAssign, StepRef, StepSeen DEF Inv
<1> QED
  BY <1>1, <1>2, PTL DEF Spec

\* The variables of SafeMap have their types in every reachable state.
THEOREM TypeCorrect == Spec => []TypeOK
BY Invariant, PTL DEF Inv

\* For any number of threads, maps and calls, crossed assignments included: a
\* thread that holds a lock somebody waits for and waits itself is in operator=,
\* and waits for another map than the one it holds.
THEOREM OnlyAssignWaitsHoldingCorrect == Spec => []OnlyAssignWaitsHolding
<1>1. Inv => OnlyAssignWaitsHolding
  <2> SUFFICES ASSUME Inv, NEW t \in Threads, NEW u \in Threads, NEW m \in Maps, NEW n \in Maps,
                      WaitsFor(t, m), myLock[m] = u, WaitsFor(u, n)
               PROVE  /\ \E c \in Calls[u] : c.op = "assign" /\ c.m = m /\ c.n = n
                      /\ m # n
    BY DEF OnlyAssignWaitsHolding
  <2>1. pc[u] = "lock2" /\ call[u].m = m /\ call[u].n = n /\ Assigns(u) /\ call[u].m # call[u].n
    BY DEF Inv, LockOK, Inside, InBoth, WaitsFor
  <2> QED
    BY <2>1 DEF Inv, AssignOK
<1> QED
  BY <1>1, Invariant, PTL

\* Every step of the detailed map is a step of the atomic one, or none.
LEMMA StepRefines == Inv /\ [Next]_vars => [Atomic!Next]_(Atomic!vars)
<1> SUFFICES ASSUME Inv, [Next]_vars PROVE Atomic!Next \/ UNCHANGED <<wdmap, ret, itr, refs>>
  BY DEF Atomic!vars
<1>0. TypeOK
  BY DEF Inv
<1>1. CASE UNCHANGED vars
  BY <1>1 DEF vars, results, refvars
<1>2. ASSUME NEW t \in Threads, NEW c \in Calls[t], Begin(t, c)
      PROVE  UNCHANGED <<wdmap, ret, itr, refs>>
  BY <1>2 DEF Begin, results, refvars
<1>3. ASSUME NEW t \in Threads, Lock(t) \/ LockOther(t) \/ UnlockOther(t) \/ Unlock(t) \/ Look(t)
      PROVE  UNCHANGED <<wdmap, ret, itr, refs>>
  BY <1>3 DEF Lock, LockOther, UnlockOther, Unlock, Look, results, refvars
<1>4. ASSUME NEW t \in Threads, Increment(t) PROVE Atomic!Next
  <2>1. Atomic!increment(t)
    BY <1>4 DEF Increment, Atomic!increment, refvars, Advance, Atomic!Advance, Present,
       Atomic!Present, Least, Atomic!Least, ItrAt, Atomic!ItrAt
  <2> QED
    BY <2>1, SafeMapAssumption DEF Atomic!Next
<1>5. ASSUME NEW t \in Threads, UseRef(t)
      PROVE  Atomic!Next \/ UNCHANGED <<wdmap, ret, itr, refs>>
  <2>1. UNCHANGED <<ret, itr, refs>>
    BY <1>5, StoreFrame DEF refvars
  <2>2. CASE wdmap' # wdmap
    <3>1. PICK m \in Maps, k \in Key, v \in Val :
             <<m, k>> \in refs /\ wdmap' = [wdmap EXCEPT ![m] = Put(@, k, v)]
      BY <1>5, <2>2, StoreFrame
    <3>2. Atomic!store(m, k, v)
      BY <2>1, <3>1 DEF Atomic!store, Atomic!Put, Put
    <3> QED
      BY <3>2 DEF Atomic!Next
  <2> QED
    BY <2>1, <2>2
<1>6. ASSUME NEW t \in Threads, Act(t) PROVE Atomic!Next
  <2> DEFINE m == call[t].m
             n == call[t].n
             k == call[t].k
             v == call[t].v
  <2>1. m \in Maps /\ n \in Maps /\ k \in Key /\ v \in Val
    BY <1>0 DEF TypeOK, Call
  <2>2. pc[t] = "act"
    BY <1>6, ActFrame
  <2>3. seen[t] \in Atomic!Copies(Source(t))
    BY <1>0, <2>2 DEF Inv, SeenOK, Atomic!Copies, Atomic!StdMap, TypeOK, StdMap
  <2>4. seen[t][k] = Absent <=> wdmap[Source(t)][k] = Absent
    BY <2>1, <2>2, SawEntry
  <2> USE DEF Acts, Write, Delete, refvars, results, Put, Insert, Atomic!Put, Atomic!Insert, Assigns, Source
  <2>5. CASE insert(t)
    BY <2>1, <2>5 DEF insert, Atomic!insert, Atomic!Next
  <2>6. CASE update(t)
    <3>1. UpdateFinds(t) <=> wdmap[m][k] # Absent
      BY <2>4, <2>6 DEF update, UpdateFinds
    <3>2. Atomic!update(t, m, k, v)
      BY <2>6, <3>1 DEF update, Atomic!update
    <3> QED
      BY <2>1, <3>2 DEF Atomic!Next
  <2>7. CASE erase(t)
    <3>1. {m} \X {k} = {<<m, k>>}
      OBVIOUS
    <3>2. Atomic!erase(m, k)
      BY <2>7, <3>1 DEF erase, Atomic!erase
    <3> QED
      BY <2>1, <3>2 DEF Atomic!Next
  <2>8. CASE index(t)
    <3>1. seen[t][k] = Absent <=> wdmap[m][k] = Absent
      BY <2>4, <2>8 DEF index
    <3>2. wdmap' = [wdmap EXCEPT ![m] = Atomic!Insert(@, k, Default)]
      BY <1>0, <2>1, <2>8, <3>1 DEF index, TypeOK
    <3>3. Atomic!index(m, k)
      BY <2>8, <3>2 DEF index, Atomic!index
    <3> QED
      BY <2>1, <3>3 DEF Atomic!Next
  <2>9. CASE find(t)
    <3>1. Atomic!find(t, m, k)
      BY <2>3, <2>9 DEF find, Atomic!find, FindIn, Atomic!FindIn, EndOf, Atomic!EndOf, ItrAt,
         Atomic!ItrAt, Unset, Atomic!Unset
    <3> QED
      BY <2>1, <3>1 DEF Atomic!Next
  <2>10. CASE begin(t)
    <3>1. BeginIn(seen[t], wdmap[m]) = Atomic!BeginIn(seen[t], wdmap[m])
      BY DEF BeginIn, Atomic!BeginIn, EndOf, Atomic!EndOf, ItrAt, Atomic!ItrAt, Present,
         Atomic!Present, Least, Atomic!Least, Unset, Atomic!Unset
    <3>2. Atomic!begin(t, m)
      BY <2>3, <2>10, <3>1 DEF begin, Atomic!begin
    <3> QED
      BY <2>1, <3>2 DEF Atomic!Next
  <2>11. CASE size(t)
    <3>1. Present(wdmap[m]) = Atomic!Present(wdmap[m])
      BY DEF Present, Atomic!Present
    <3>2. Cardinality(Present(wdmap[m])) = Atomic!Cardinality(Present(wdmap[m]))
      BY DEF Cardinality, Atomic!Cardinality
    <3>3. Atomic!size(t, m)
      BY <2>11, <3>1, <3>2 DEF size, Atomic!size
    <3> QED
      BY <2>1, <3>3 DEF Atomic!Next
  <2>12. CASE assign(t)
    <3>1. Atomic!assign(m, n)
      BY <2>3, <2>12 DEF assign, Atomic!assign
    <3> QED
      BY <2>1, <3>1 DEF Atomic!Next
  <2> QED
    BY <1>6, <2>5, <2>6, <2>7, <2>8, <2>9, <2>10, <2>11, <2>12 DEF Act
<1> QED
  BY <1>1, <1>2, <1>3, <1>4, <1>5, <1>6 DEF Next, Proceed

\* Linearisability: SafeMap implements the atomic map, whatever the threads, the
\* maps, the keys and the calls.
THEOREM Linearisable == Spec => ImplementsAtomicMap
<1>1. Init => Atomic!Init
  BY DEF Init, Atomic!Init, Empty, Atomic!Empty, EndOf, Atomic!EndOf, Unset, Atomic!Unset
<1> QED
  BY <1>1, StepRefines, Invariant, PTL DEF Spec, ImplementsAtomicMap, Atomic!Spec

-----------------------------------------------------------------------------
(* The walk of an iterator *)

\* A least key is at most every other.
LEMMA LeastIsLeast ==
  ASSUME NEW S \in SUBSET Key, S # {}
  PROVE  \A k \in S : Least(S) <= k
BY StdMapAssumption DEF Least

\* The iterator's copy has the keys the map had when begin() was called, and an
\* iterator that is not at the end stands at one of them.
WalkInv ==
    \A t \in Threads :
        walk[t].on =>
            /\ walk[t].all = Present(itr[t].tempMap)
            /\ ~itr[t].isEnd => itr[t].first \in walk[t].all
            /\ walk[t].keys = {k \in walk[t].all : itr[t].isEnd \/ k <= itr[t].first}

\* A walk nobody touches.
LEMMA SameWalk ==
  ASSUME WalkInv, NEW t, \A u \in Threads : u # t => walk'[u] = walk[u] /\ itr'[u] = itr[u],
         t \in Threads =>
            (walk'[t].on =>
               /\ walk'[t].all = Present(itr'[t].tempMap)
               /\ ~itr'[t].isEnd => itr'[t].first \in walk'[t].all
               /\ walk'[t].keys = {k \in walk'[t].all : itr'[t].isEnd \/ k <= itr'[t].first})
  PROVE  WalkInv'
BY DEF WalkInv

\* begin(): the copy was made before the first key was looked up, and has the
\* same keys, since only values were stored meanwhile.
LEMMA BeginWalk ==
  ASSUME Inv, WalkInv, NEW t \in Threads, begin(t)
  PROVE  WalkInv'
<1> DEFINE m == call[t].m
           f == wdmap[m]
           g == seen[t]
           it == BeginIn(g, f)
           all == Present(f)
<1>1. /\ pc[t] = "act" /\ call[t].op = "begin"
      /\ itr' = [itr EXCEPT ![t] = it]
      /\ walk' = [walk EXCEPT ![t] = [on |-> TRUE, all |-> all, keys |-> {itr'[t].first} \ {Unset}]]
  BY DEF begin, Acts, At
<1>2. m \in Maps /\ f \in StdMap /\ g \in StdMap /\ Source(t) = m
  BY <1>1 DEF Inv, TypeOK, Call, Source, Assigns
<1>3. Present(g) = all
  <2>1. \A k \in Key : g[k] = f[k] \/ (g[k] # Absent /\ <<m, k>> \in refs)
    BY <1>1, <1>2 DEF Inv, SeenOK
  <2>2. \A k \in Key : <<m, k>> \in refs => f[k] # Absent
    BY <1>2 DEF Inv, RefOK
  <2> QED
    BY <2>1, <2>2 DEF Present
<1>4. all \subseteq Key /\ Key \subseteq Nat
  BY StdMapAssumption DEF Present
<1> HIDE DEF m, f, g, all
<1>5. itr'[t] = it /\ walk'[t] = [on |-> TRUE, all |-> all, keys |-> {it.first} \ {Unset}]
  BY <1>1 DEF Inv, TypeOK
<1>6. CASE all = {}
  <2>1. it = [isEnd |-> TRUE, first |-> Unset, second |-> Absent, tempMap |-> g]
    BY <1>6 DEF BeginIn, EndOf, all
  <2> HIDE DEF it
  <2>2. /\ walk'[t].all = Present(itr'[t].tempMap) /\ itr'[t].isEnd
        /\ walk'[t].keys = {} /\ walk'[t].all = {}
    BY <1>3, <1>5, <1>6, <2>1
  <2>3. \A u \in Threads : u # t => walk'[u] = walk[u] /\ itr'[u] = itr[u]
    BY <1>1 DEF Inv, TypeOK
  <2> QED
    BY <2>2, <2>3, SameWalk
<1>7. CASE all # {}
  <2> DEFINE a == Least(all)
  <2>1. it = [isEnd |-> FALSE, first |-> a, second |-> f[a], tempMap |-> g]
    BY <1>7 DEF BeginIn, ItrAt, all
  <2>2. a \in all /\ a \in Nat /\ \A k \in all : a <= k
    BY <1>4, <1>7, LeastIsIn, LeastIsLeast
  <2> HIDE DEF it, a
  <2>3. itr'[t].isEnd = FALSE /\ itr'[t].first = a /\ itr'[t].tempMap = g
    BY <1>5, <2>1
  <2>4. walk'[t].all = all /\ walk'[t].keys = {a}
    <3>1. a # Unset
      BY <2>2 DEF Unset
    <3> QED
      BY <1>5, <2>1, <3>1
  <2>5. {a} = {k \in all : k <= a}
    <3>1. ASSUME NEW k \in all, k <= a PROVE k = a
      <4>1. k \in Nat /\ a \in Nat /\ a <= k
        BY <1>4, <2>2
      <4> QED
        BY <3>1, <4>1
    <3>2. a \in all /\ a <= a
      BY <2>2
    <3> QED
      BY <3>1, <3>2
  <2>6. \A u \in Threads : u # t => walk'[u] = walk[u] /\ itr'[u] = itr[u]
    BY <1>1 DEF Inv, TypeOK
  <2> QED
    BY <1>3, <2>2, <2>3, <2>4, <2>5, <2>6, SameWalk
<1> QED
  BY <1>6, <1>7

\* ++ goes to the next key of the copy, or to the end when there is none.
LEMMA IncrementWalk ==
  ASSUME Inv, WalkInv, NEW t \in Threads, Increment(t)
  PROVE  WalkInv'
<1> DEFINE it == itr[t]
           jt == Advance(it)
           all == walk[t].all
           later == {k \in Present(it.tempMap) : k > it.first}
<1>1. /\ ~it.isEnd /\ it \in Itr
      /\ itr' = [itr EXCEPT ![t] = jt]
      /\ walk' = [walk EXCEPT ![t].keys = @ \cup {itr'[t].first}]
  BY DEF Increment, Inv, TypeOK
<1>2. /\ itr'[t] = jt /\ walk'[t].on = walk[t].on /\ walk'[t].all = all
      /\ walk'[t].keys = walk[t].keys \cup {jt.first}
      /\ \A u \in Threads : u # t => walk'[u] = walk[u] /\ itr'[u] = itr[u]
  BY <1>1 DEF Inv, TypeOK
<1>3. CASE walk[t].on
  <2>1. /\ all = Present(it.tempMap) /\ it.first \in all
        /\ walk[t].keys = {k \in all : k <= it.first}
    BY <1>1, <1>3 DEF WalkInv
  <2>2. all \subseteq Nat /\ all \subseteq Key
    BY <2>1, StdMapAssumption DEF Present
  <2>3. later = {k \in all : k > it.first}
    BY <2>1
  <2>4. CASE later = {}
    <3>1. jt = [it EXCEPT !.isEnd = TRUE]
      BY <2>4 DEF Advance
    <3>2. jt.isEnd = TRUE /\ jt.first = it.first /\ jt.tempMap = it.tempMap
      BY <1>1, <3>1 DEF Itr
    <3>3. all = {k \in all : k <= it.first} \cup {it.first}
      <4> HIDE DEF all, it, later
      <4> QED
        BY <2>1, <2>2, <2>3, <2>4
    <3> HIDE DEF jt, it, all
    <3> QED
      BY <1>2, <2>1, <3>2, <3>3, SameWalk
  <2>5. CASE later # {}
    <3> DEFINE a == Least(later)
    <3>1. jt = [isEnd |-> FALSE, first |-> a, second |-> it.tempMap[a], tempMap |-> it.tempMap]
      BY <2>1, <2>5 DEF Advance, ItrAt
    <3>2. jt.isEnd = FALSE /\ jt.first = a /\ jt.tempMap = it.tempMap
      BY <3>1
    <3>3. later \in SUBSET Key
      BY <2>2, <2>3
    <3>4. a \in later /\ \A k \in later : a <= k
      BY <2>5, <3>3, LeastIsIn, LeastIsLeast
    <3> HIDE DEF a, jt, it, all, later
    <3>5. {k \in all : k <= it.first} \cup {a} = {k \in all : k <= a}
      BY <2>1, <2>2, <2>3, <3>4
    <3>6. a \in all
      BY <2>3, <3>4
    <3> QED
      BY <1>2, <2>1, <3>2, <3>5, <3>6, SameWalk
  <2> QED
    BY <2>4, <2>5
<1>4. CASE ~walk[t].on
  BY <1>2, <1>4, SameWalk
<1> QED
  BY <1>3, <1>4

\* Every step keeps the walks.
LEMMA StepWalk == Inv /\ WalkInv /\ [Next]_vars => WalkInv'
<1> SUFFICES ASSUME Inv, WalkInv, [Next]_vars PROVE WalkInv'
  OBVIOUS
<1>1. CASE UNCHANGED <<walk, itr>>
  BY <1>1 DEF WalkInv
<1>2. ASSUME NEW t \in Threads, find(t)
      PROVE  WalkInv'
  <2>1. walk'[t].on = FALSE /\ \A u \in Threads : u # t => walk'[u] = walk[u] /\ itr'[u] = itr[u]
    BY <1>2 DEF find, NoWalk, Inv, TypeOK
  <2> QED
    BY <2>1, SameWalk
<1>3. ASSUME NEW t \in Threads, Act(t), ~find(t), ~begin(t)
      PROVE  WalkInv'
  BY <1>1, <1>3 DEF Act, insert, update, erase, index, size, assign, results
<1>4. ASSUME NEW t \in Threads, Proceed(t), ~Act(t)
      PROVE  WalkInv'
  BY <1>1, <1>4 DEF Proceed, Lock, LockOther, Look, UnlockOther, Unlock, UseRef, results
<1>5. ASSUME NEW t \in Threads, NEW c \in Calls[t], Begin(t, c)
      PROVE  WalkInv'
  BY <1>1, <1>5 DEF Begin, results
<1>6. CASE UNCHANGED vars
  BY <1>1, <1>6 DEF vars, results
<1> QED
  BY <1>2, <1>3, <1>4, <1>5, <1>6, BeginWalk, IncrementWalk DEF Next

\* A loop over a SafeMap visits the keys that were there when it began, in
\* order, none left out and none twice, whatever the other threads do.
THEOREM WalksCorrect == Spec => []WalksSnapshot
<1>1. Init => WalkInv
  BY DEF Init, WalkInv, NoWalk
<1>2. WalkInv => WalksSnapshot
  BY DEF WalkInv, WalksSnapshot
<1> QED
  BY <1>1, <1>2, Invariant, StepWalk, PTL DEF Spec

=============================================================================
