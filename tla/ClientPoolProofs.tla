-------------------------- MODULE ClientPoolProofs ---------------------------
(***************************************************************************)
(* Every invariant of the pool, proved for any number of threads and       *)
(* addresses and any width of int.                                         *)
(*                                                                         *)
(* LimitBound is not inductive: the list may grow after the limit was      *)
(* looked at.  LimitInv counts the threads that have looked and not yet    *)
(* added: each may still add one client, and there are at most as many as  *)
(* there are threads when one of them finds room, and when the limit is    *)
(* set anew.  The types need IndexInv, the sign of an index; the keys need *)
(* KeysInv, that no two clients share one; a handle needs HandleInv, that  *)
(* it was good from the moment it was made; and a scan needs ScanInv, that *)
(* what it has seen is a walk in a circle and select_index the next step.  *)
(***************************************************************************)
EXTENDS ClientPool, FiniteSetTheorems, SequenceTheorems, TLAPS

-----------------------------------------------------------------------------
(* The limit *)

\* Threads that add_link has let in and that wait for the lock.
Adding == {t \in Threads : pc[t] = "add"}

\* The inductive invariant: cur_client_index never falls behind the list, since
\* destroying a client does not decrement it, and the list has room for the
\* threads about to add.
LimitInv ==
    /\ client_list \in Seq([key : Keys, id : Nat])
    /\ cur_client_index \in Nat
    /\ made \in Nat
    /\ DOMAIN pc = Threads
    /\ Len(client_list) <= cur_client_index
    /\ client_max_num \in Int
    /\ client_max_num >= 0 =>
          Len(client_list) + Cardinality(Adding) <= client_max_num + Cardinality(Threads)

\* Adding is a finite set, no larger than Threads.
LEMMA AddingFinite ==
    /\ IsFiniteSet(Threads) /\ Cardinality(Threads) \in Nat
    /\ IsFiniteSet(Adding) /\ Cardinality(Adding) \in Nat
    /\ Cardinality(Adding) <= Cardinality(Threads)
BY FS_Subset, FS_CardinalityType, ClientPoolAssumption DEF Adding

\* The empty pool satisfies the invariant.
LEMMA InitLimit == Init => LimitInv
<1> SUFFICES ASSUME Init PROVE LimitInv
  OBVIOUS
<1>1. Adding = {}
  BY DEF Init, Adding
<1>2. Cardinality(Adding) = 0
  BY <1>1, FS_EmptySet
<1> QED
  BY <1>2, AddingFinite, ClientPoolAssumption DEF Init, LimitInv

\* A step of a thread that was not, and does not get, inside add_link.
LEMMA ElsewhereLimit ==
    ASSUME LimitInv, NEW t \in Threads, NEW here, NEW there,
           here # "add", there # "add", pc[t] = here, pc' = [pc EXCEPT ![t] = there]
    PROVE  Adding' = Adding /\ DOMAIN pc' = Threads
BY DEF LimitInv, Adding

\* A list and a counter that stay, with Adding, preserve the invariant.
LEMMA SameLimit ==
    ASSUME LimitInv, client_list' = client_list, cur_client_index' = cur_client_index,
           client_max_num' = client_max_num, made' = made, Adding' = Adding, DOMAIN pc' = Threads
    PROVE  LimitInv'
BY DEF LimitInv

\* The limit is looked at: a thread let in finds cur_client_index at most
\* client_max_num, whoever else is let in already.
LEMMA LimitCheckLimit ==
    ASSUME LimitInv, NEW t \in Threads, LimitCheck(t)
    PROVE  LimitInv'
<1>1. /\ pc[t] = "limit" /\ DOMAIN pc' = Threads
      /\ client_list' = client_list /\ cur_client_index' = cur_client_index /\ made' = made
      /\ client_max_num' = client_max_num
  BY DEF LimitInv, LimitCheck, At, listvars, countvars
<1>2. CASE Full
  <2>1. pc' = [pc EXCEPT ![t] = "lock"]
    BY <1>2 DEF LimitCheck, At
  <2> QED
    BY <1>1, <2>1, ElsewhereLimit, SameLimit
<1>3. CASE ~Full
  <2>1. Cardinality(Adding') <= Cardinality(Threads) /\ Cardinality(Adding') \in Nat
    BY FS_Subset, FS_CardinalityType, ClientPoolAssumption DEF Adding
  <2> QED
    BY <1>1, <1>3, <2>1, AddingFinite DEF LimitInv, Full
<1> QED
  BY <1>2, <1>3

\* Under the lock one thread fewer is about to add, and one client more is there.
LEMMA AddLinkLimit ==
    ASSUME LimitInv, NEW t \in Threads, NEW l \in Links, AddLink(t, l)
    PROVE  LimitInv'
<1>1. pc[t] = "add" /\ pc' = [pc EXCEPT ![t] = "lock"] /\ DOMAIN pc' = Threads
  BY DEF LimitInv, AddLink, At
<1>2. Adding' = Adding \ {t} /\ t \in Adding
  BY <1>1 DEF LimitInv, Adding
<1>3. Cardinality(Adding') = Cardinality(Adding) - 1 /\ Cardinality(Adding') \in Nat
  BY <1>2, AddingFinite, FS_RemoveElement, FS_CardinalityType
<1>0. client_max_num' = client_max_num
  BY DEF AddLink
<1>4. CASE UNCHANGED <<client_list, cur_client_index, made>>
  BY <1>0, <1>1, <1>3, <1>4, AddingFinite, ClientPoolAssumption DEF LimitInv
<1>5. CASE /\ client_list' = Append(client_list, [key |-> Key[l], id |-> made + 1])
           /\ cur_client_index' = cur_client_index + 1
           /\ made' = made + 1
  <2>1. [key |-> Key[l], id |-> made + 1] \in [key : Keys, id : Nat]
    BY DEF LimitInv, Keys
  <2>2. /\ client_list' \in Seq([key : Keys, id : Nat])
        /\ Len(client_list') = Len(client_list) + 1
        /\ Len(client_list) \in Nat
    BY <1>5, <2>1 DEF LimitInv
  <2> QED
    BY <1>0, <1>1, <1>3, <1>5, <2>2, AddingFinite, ClientPoolAssumption DEF LimitInv
<1> QED
  BY <1>4, <1>5 DEF AddLink, PushBack

\* Destroying makes the list shorter and leaves the counter.
LEMMA ShorterLimit ==
    ASSUME LimitInv, client_list' \in Seq([key : Keys, id : Nat]),
           Len(client_list') <= Len(client_list), cur_client_index' = cur_client_index,
           client_max_num' = client_max_num, made' = made, Adding' = Adding, DOMAIN pc' = Threads
    PROVE  LimitInv'
BY AddingFinite DEF LimitInv

\* destroy(ip, port) removes at most one client.
LEMMA DestroyLimit ==
    ASSUME LimitInv, NEW t \in Threads, NEW l \in Links, Destroy(t, l)
    PROVE  LimitInv'
<1>1. Adding' = Adding /\ DOMAIN pc' = Threads
  BY DEF LimitInv, Destroy, At, Adding
<1>2. made' = made /\ cur_client_index' = cur_client_index /\ client_max_num' = client_max_num
  BY DEF Destroy, EraseNone, EraseClient
<1>3. CASE client_list' = client_list
  BY <1>1, <1>2, <1>3, SameLimit
<1>4. ASSUME NEW n \in DOMAIN client_list, client_list' = Remove(n)
      PROVE  LimitInv'
  <2> DEFINE S == [key : Keys, id : Nat]
             a == SubSeq(client_list, 1, n - 1)
             b == SubSeq(client_list, n + 1, Len(client_list))
  <2>1. client_list \in Seq(S) /\ n \in 1..Len(client_list) /\ Len(client_list) \in Nat
    BY <1>4 DEF LimitInv
  <2> HIDE DEF S
  <2>2. a \in Seq(S) /\ Len(a) = n - 1
    BY <2>1
  <2>3. b \in Seq(S) /\ Len(b) = Len(client_list) - n
    BY <2>1
  <2>4. client_list' = a \o b
    BY <1>4 DEF Remove
  <2> HIDE DEF a, b
  <2>5. client_list' \in Seq(S) /\ Len(client_list') = Len(a) + Len(b)
    BY <2>2, <2>3, <2>4, ConcatProperties
  <2>6. Len(client_list') <= Len(client_list)
    BY <2>1, <2>2, <2>3, <2>5
  <2> QED
    BY <1>1, <1>2, <2>5, <2>6, ShorterLimit DEF S
<1> QED
  BY <1>3, <1>4 DEF Destroy, EraseNone, EraseClient

\* destroy() removes the first client.
LEMMA DestroyFirstLimit ==
    ASSUME LimitInv, DestroyFirst
    PROVE  LimitInv'
<1>1. /\ Adding' = Adding /\ DOMAIN pc' = Threads /\ made' = made
      /\ cur_client_index' = cur_client_index /\ client_max_num' = client_max_num
      /\ client_list # <<>>
      /\ client_list' = Tail(client_list)
  BY DEF LimitInv, DestroyFirst, Adding
<1>2. client_list' \in Seq([key : Keys, id : Nat]) /\ Len(client_list') <= Len(client_list)
  BY <1>1 DEF LimitInv
<1> QED
  BY <1>1, <1>2, ShorterLimit

\* set_c_max_num accepts a limit above the size of the list, or a negative one:
\* however many threads are about to add, they are no more than all.
LEMMA SetMaxNumLimit ==
    ASSUME LimitInv, NEW v \in MaxNums, set_c_max_num(v)
    PROVE  LimitInv'
<1>1. /\ client_list' = client_list /\ cur_client_index' = cur_client_index /\ made' = made
      /\ Adding' = Adding /\ DOMAIN pc' = Threads /\ client_max_num' = v
      /\ v < 0 \/ Len(client_list) < v
  BY DEF set_c_max_num, countvars, LimitInv, Adding
<1>2. v \in Int /\ Len(client_list) \in Nat
  BY ClientPoolAssumption DEF LimitInv
<1> QED
  BY <1>1, <1>2, AddingFinite DEF LimitInv

\* Every step preserves the invariant.
LEMMA NextLimit == LimitInv /\ [Next]_vars => LimitInv'
<1> SUFFICES ASSUME LimitInv, [Next]_vars PROVE LimitInv'
  OBVIOUS
<1>1. CASE UNCHANGED vars
  BY <1>1 DEF vars, listvars, countvars, LimitInv, Adding
<1>2. ASSUME NEW t \in Threads, Step(t)
      PROVE  LimitInv'
  <2>1. CASE LimitCheck(t)
    BY <2>1, LimitCheckLimit
  <2>2. CASE \E l \in Links : AddLink(t, l)
    BY <2>2, AddLinkLimit
  <2>3. CASE \/ SelectBegin(t) \/ SelectRound(t) \/ SelectEnd(t)
             \/ WriteLoad(t) \/ WriteUse(t) \/ ReadLoad(t) \/ ReadUse(t)
    <3>1. /\ client_list' = client_list /\ cur_client_index' = cur_client_index
          /\ client_max_num' = client_max_num /\ made' = made
      BY <2>3 DEF SelectBegin, SelectRound, SelectEnd, WriteLoad, WriteUse, ReadLoad,
                  ReadUse, IndexLoad, IndexUse, listvars, countvars
    <3>2. \E here \in {"lock", "select", "wload", "wuse", "rload", "ruse"},
             there \in {"select", "wload", "written", "wuse", "ruse", "idle"} :
                 pc[t] = here /\ pc' = [pc EXCEPT ![t] = there]
      BY <2>3 DEF SelectBegin, SelectRound, SelectReturn, SelectEnd, WriteLoad, WriteUse,
                  ReadLoad, ReadUse, IndexLoad, IndexUse, At
    <3> QED
      BY <3>1, <3>2, ElsewhereLimit, SameLimit
  <2> QED
    BY <1>2, <2>1, <2>2, <2>3 DEF Step
<1>3. ASSUME NEW t \in Threads, Write(t) \/ Read(t)
      PROVE  LimitInv'
  <2>1. /\ client_list' = client_list /\ cur_client_index' = cur_client_index
        /\ client_max_num' = client_max_num /\ made' = made
    BY <1>3 DEF Write, Read, listvars, countvars
  <2>2. \E here \in {"idle", "written"}, there \in {"limit", "idle", "rload"} :
            pc[t] = here /\ pc' = [pc EXCEPT ![t] = there]
    BY <1>3 DEF Write, Read, At
  <2> QED
    BY <2>1, <2>2, ElsewhereLimit, SameLimit
<1>4. CASE Toggle
  BY <1>4 DEF Toggle, listvars, countvars, LimitInv, Adding
<1> QED
  BY <1>1, <1>2, <1>3, <1>4, DestroyLimit, DestroyFirstLimit, SetMaxNumLimit DEF Next

\* How far the pool outgrows its limit.
LimitBound ==
    client_max_num >= 0 => Len(client_list) <= client_max_num + Cardinality(Threads)

\* The comment in add_link says that nothing is added at the maximum; the code
\* compares with > and looks at the limit before it takes the lock.  The excess is
\* at most one client per thread, although set_c_max_num may change the limit at any
\* time; one thread alone reaches client_max_num + 1.
THEOREM LimitHolds == Spec => []LimitBound
<1>1. LimitInv => LimitBound
  BY AddingFinite, ClientPoolAssumption DEF LimitInv, LimitBound
<1> QED
  BY <1>1, InitLimit, NextLimit, PTL DEF Spec

-----------------------------------------------------------------------------
(* Types.  An index is used without a test for -1, so its sign is part of the *)
(* invariant.                                                                 *)

\* Where a thread is about to index client_list.
Indexing == {"wload", "wuse", "rload", "ruse"}

\* A negative index is -1, and a thread that indexes the list has none.
IndexInv ==
    crash = "none" => \A t \in Threads : /\ index[t] >= -1
                                         /\ pc[t] \in Indexing => index[t] >= 0

\* The empty pool satisfies the types.
LEMMA InitType == Init => TypeOK /\ IndexInv
<1> SUFFICES ASSUME Init PROVE TypeOK /\ IndexInv
  OBVIOUS
<1>1. client_list \in Seq([key : Keys, id : Nat])
  BY DEF Init
<1>2. index \in [Threads -> Int] /\ \A t \in Threads : index[t] = -1 /\ pc[t] = "idle"
  BY DEF Init
<1>3. TypeOK
  <2>1. /\ buf \in [gen : Nat, cap : Nat] /\ link_set_poll \in SUBSET Keys
        /\ cur_client_index \in Nat /\ open \in SUBSET Nat /\ {made, calls, destroys} \subseteq Nat
        /\ client_max_num \in MaxNums \cup {DefaultMaxNum}
    BY DEF Init
  <2>2. select_index \in (-MaxInt - 1)..MaxInt
    BY ClientPoolAssumption DEF Init
  <2>3. /\ i \in [Threads -> Nat] /\ base \in [Threads -> Nat] /\ wrote \in [Threads -> Nat]
        /\ seen \in [Threads -> SUBSET Int] /\ alone \in [Threads -> BOOLEAN]
        /\ ended \in BOOLEAN /\ crash = "none"
    BY DEF Init
  <2> QED
    BY <1>1, <1>2, <2>1, <2>2, <2>3 DEF Init, TypeOK
<1>4. IndexInv
  BY <1>2 DEF IndexInv, Indexing
<1> QED
  BY <1>3, <1>4

\* The remainder lies between the negated divisor and the divisor, and select_index
\* stays an int.
LEMMA RemType ==
    ASSUME NEW s \in (-MaxInt - 1)..MaxInt, NEW c \in Nat \ {0}
    PROVE  /\ Rem(s, c) \in Int /\ Rem(s, c) > -c /\ Rem(s, c) < c
           /\ s >= 0 => Rem(s, c) >= 0
           /\ Increment(s) \in (-MaxInt - 1)..MaxInt
<1>1. MaxInt \in Nat /\ s \in Int
  BY ClientPoolAssumption
<1>2. \A n \in Int : n % c \in Int /\ 0 <= n % c /\ n % c < c
  OBVIOUS
<1>3. CASE s >= 0
  BY <1>1, <1>2, <1>3 DEF Rem, Increment
<1>4. CASE ~(s >= 0)
  <2>1. -s \in Int /\ Rem(s, c) = -((-s) % c)
    BY <1>1, <1>4 DEF Rem
  <2>2. Rem(s, c) \in Int /\ Rem(s, c) > -c /\ Rem(s, c) < c
    BY <1>2, <2>1
  <2> QED
    BY <1>1, <1>4, <2>2 DEF Increment
<1> QED
  BY <1>3, <1>4

\* A thread that starts a call or goes on before it has an index.
LEMMA EnterType ==
    ASSUME TypeOK, IndexInv, NEW t \in Threads,
           Write(t) \/ LimitCheck(t) \/ SelectBegin(t) \/ Read(t)
    PROVE  TypeOK' /\ IndexInv'
<1>1. CASE Write(t)
  BY <1>1, SMTT(30) DEF Write, At, TypeOK, IndexInv, Indexing, listvars, scanvars
<1>2. CASE LimitCheck(t)
  BY <1>2 DEF LimitCheck, At, TypeOK, IndexInv, Indexing, listvars, scanvars, countvars
<1>3. CASE SelectBegin(t)
  <2>1. TypeOK'
    BY <1>3 DEF SelectBegin, At, TypeOK, listvars, countvars
  <2>2. IndexInv'
    BY <1>3 DEF SelectBegin, At, TypeOK, IndexInv, Indexing
  <2> QED
    BY <2>1, <2>2
<1>4. CASE Read(t)
  <2>1. TypeOK'
    BY <1>4 DEF Read, At, TypeOK, listvars, scanvars, countvars
  <2>2. IndexInv'
    BY <1>4 DEF Read, At, TypeOK, IndexInv, Indexing, scanvars
  <2> QED
    BY <2>1, <2>2
<1> QED
  BY <1>1, <1>2, <1>3, <1>4

\* add_link appends a client with a number of its own.
LEMMA AddLinkType ==
    ASSUME TypeOK, IndexInv, NEW t \in Threads, NEW l \in Links, AddLink(t, l)
    PROVE  TypeOK' /\ IndexInv'
<1>1. Key[l] \in Keys /\ made \in Nat
  BY DEF Keys, TypeOK
<1>2. /\ client_list' \in Seq([key : Keys, id : Nat]) /\ buf' \in [gen : Nat, cap : Nat]
      /\ link_set_poll' \in SUBSET Keys /\ cur_client_index' \in Nat /\ made' \in Nat
  <2>1. CASE UNCHANGED <<client_list, buf, link_set_poll, cur_client_index, made>>
    BY <2>1 DEF TypeOK
  <2>2. CASE /\ link_set_poll' = link_set_poll \cup {Key[l]}
             /\ PushBack([key |-> Key[l], id |-> made + 1])
             /\ cur_client_index' = cur_client_index + 1
             /\ made' = made + 1
    <3>1. [key |-> Key[l], id |-> made + 1] \in [key : Keys, id : Nat]
      BY <1>1
    <3>2. client_list' \in Seq([key : Keys, id : Nat])
      BY <2>2, <3>1, AppendProperties DEF PushBack, TypeOK
    <3>3. buf' \in [gen : Nat, cap : Nat]
      <4>1. buf.gen \in Nat /\ buf.cap \in Nat
        BY DEF TypeOK
      <4>2. \A g, c \in Nat : [gen |-> g, cap |-> c] \in [gen : Nat, cap : Nat]
        OBVIOUS
      <4>3. /\ buf.gen + 1 \in Nat /\ (IF buf.cap = 0 THEN 1 ELSE 2 * buf.cap) \in Nat
        BY <4>1
      <4>4. [gen |-> buf.gen + 1, cap |-> IF buf.cap = 0 THEN 1 ELSE 2 * buf.cap] \in [gen : Nat, cap : Nat]
        BY <4>2, <4>3
      <4> QED
        BY <2>2, <4>4 DEF PushBack, TypeOK
    <3> QED
      BY <1>1, <2>2, <3>2, <3>3 DEF TypeOK
  <2> QED
    BY <2>1, <2>2 DEF AddLink
<1>3. TypeOK'
  BY <1>2 DEF AddLink, At, TypeOK, scanvars
<1>4. IndexInv'
  BY DEF AddLink, At, TypeOK, IndexInv, Indexing, scanvars
<1> QED
  BY <1>3, <1>4

\* A round that finds no client in range ends the process; one that returns has
\* an index of the list.
LEMMA SelectRoundType ==
    ASSUME TypeOK, IndexInv, NEW t \in Threads, SelectRound(t)
    PROVE  TypeOK' /\ IndexInv'
<1> DEFINE k == Rem(select_index, cur_client_index)
           n == Len(client_list)
<1>1. /\ cur_client_index \in Nat /\ i[t] \in Nat /\ select_index \in (-MaxInt - 1)..MaxInt
      /\ n \in Nat /\ i[t] < cur_client_index
  BY LenProperties DEF TypeOK, SelectRound
<1>2. k \in Int /\ Increment(select_index) \in (-MaxInt - 1)..MaxInt
  BY <1>1, RemType
<1>3. /\ index' = [index EXCEPT ![t] = k]
      /\ select_index' = Increment(select_index)
      /\ alone' = [u \in Threads |-> alone[u] /\ (u = t \/ pc[u] # "select")]
      /\ UNCHANGED <<client_list, buf, link_set_poll, cur_client_index, client_max_num, open,
                     base, wrote, made, calls, destroys, ended>>
      /\ pc[t] = "select"
  BY DEF SelectRound, SelectReturn, At, listvars, countvars
<1>4. \/ /\ k \notin 0..(n - 1) /\ pc' = [pc EXCEPT ![t] = "select"]
         /\ crash' \in {"negative", "range"} /\ UNCHANGED <<i, seen>>
      \/ /\ k \in 0..(n - 1) /\ pc' = [pc EXCEPT ![t] = "wload"] /\ crash' = crash
         /\ i' = [i EXCEPT ![t] = 0] /\ seen' = [seen EXCEPT ![t] = {}]
      \/ /\ k \in 0..(n - 1) /\ pc' = [pc EXCEPT ![t] = "select"] /\ crash' = crash
         /\ i' = [i EXCEPT ![t] = @ + 1] /\ seen' = [seen EXCEPT ![t] = @ \cup {k}]
  BY DEF SelectRound, SelectReturn, At
<1> HIDE DEF k
<1>5. alone' \in [Threads -> BOOLEAN]
  BY <1>3
<1>6. TypeOK'
  <2>0. crash' \in {"none", "range", "negative", "dangling"}
    BY <1>4 DEF TypeOK
  <2>1. i' \in [Threads -> Nat]
    <3>1. \E v \in {0, i[t] + 1} : i' = i \/ i' = [i EXCEPT ![t] = v]
      BY <1>4
    <3>2. {0, i[t] + 1} \subseteq Nat /\ i \in [Threads -> Nat]
      BY <1>1 DEF TypeOK
    <3> QED
      BY <3>1, <3>2
  <2>2. seen' \in [Threads -> SUBSET Int]
    <3>1. \E v \in {{}, seen[t] \cup {k}} : seen' = seen \/ seen' = [seen EXCEPT ![t] = v]
      BY <1>4
    <3>2. seen[t] \cup {k} \in SUBSET Int /\ {} \in SUBSET Int /\ seen \in [Threads -> SUBSET Int]
      BY <1>2 DEF TypeOK
    <3> QED
      BY <3>1, <3>2
  <2>3. /\ pc' \in [Threads -> {"idle", "limit", "add", "lock", "select", "wload", "wuse",
                               "written", "rload", "ruse"}]
        /\ index' \in [Threads -> Int]
    BY <1>2, <1>3, <1>4 DEF TypeOK
  <2> QED
    BY <1>2, <1>3, <1>5, <2>0, <2>1, <2>2, <2>3 DEF TypeOK
<1>7. IndexInv'
  <2>1. crash' = "none" => k >= 0
    BY <1>1, <1>2, <1>4
  <2>2. \A u \in Threads : u # t => index'[u] = index[u] /\ pc'[u] = pc[u]
    BY <1>3, <1>4 DEF TypeOK
  <2>3. index'[t] = k /\ (crash' = "none" => crash = "none")
    BY <1>3, <1>4 DEF TypeOK
  <2> QED
    BY <2>1, <2>2, <2>3, <1>2 DEF IndexInv
<1> QED
  BY <1>6, <1>7

\* A scan without an open client returns the last index looked at.
LEMMA SelectEndType ==
    ASSUME TypeOK, IndexInv, NEW t \in Threads, SelectEnd(t)
    PROVE  TypeOK' /\ IndexInv'
<1>1. TypeOK'
  BY DEF SelectEnd, SelectReturn, At, TypeOK, listvars, countvars
<1>2. IndexInv'
  BY DEF SelectEnd, SelectReturn, At, TypeOK, IndexInv, Indexing
<1> QED
  BY <1>1, <1>2

\* Indexing the list in two steps.
LEMMA IndexType ==
    ASSUME TypeOK, IndexInv, NEW t \in Threads,
           WriteLoad(t) \/ WriteUse(t) \/ ReadLoad(t) \/ ReadUse(t)
    PROVE  TypeOK' /\ IndexInv'
<1>1. CASE WriteLoad(t) \/ ReadLoad(t)
  <2>1. TypeOK'
    BY <1>1 DEF WriteLoad, ReadLoad, IndexLoad, At, TypeOK, listvars, scanvars, countvars
  <2>2. IndexInv'
    BY <1>1 DEF WriteLoad, ReadLoad, IndexLoad, At, TypeOK, IndexInv, Indexing, scanvars
  <2> QED
    BY <2>1, <2>2
<1>2. CASE WriteUse(t)
  <2>1. /\ pc' = [pc EXCEPT ![t] = "written"] /\ base' = [base EXCEPT ![t] = 0]
        /\ crash' \in {"dangling", "range", "none"}
        /\ crash' = "none" => index[t] < Len(client_list)
        /\ crash = "none" /\ pc[t] = "wuse"
        /\ wrote' = [wrote EXCEPT ![t] = IF crash' = "none" THEN Indexed(t) ELSE @]
        /\ UNCHANGED <<listvars, select_index, open, scanvars, countvars>>
    <3>1. ~(index[t] >= Len(client_list)) => index[t] < Len(client_list)
      BY LenProperties DEF TypeOK
    <3> QED
      BY <1>2, <3>1 DEF WriteUse, IndexUse, At, scanvars
  <2>2. crash' = "none" => Indexed(t) \in Nat
    <3>1. index[t] \in Int /\ index[t] >= 0 /\ Len(client_list) \in Nat
      BY <2>1, LenProperties DEF TypeOK, IndexInv, Indexing
    <3>2. ASSUME crash' = "none" PROVE Indexed(t) \in Nat
      <4>1. index[t] + 1 \in 1..Len(client_list)
        BY <2>1, <3>1, <3>2
      <4> QED
        <5>1. client_list[index[t] + 1] \in [key : Keys, id : Nat]
          BY <4>1, ElementOfSeq DEF TypeOK
        <5> QED
          BY <5>1 DEF Indexed
    <3> QED
      BY <3>2
  <2>3. wrote' \in [Threads -> Nat]
    BY <2>1, <2>2 DEF TypeOK
  <2>4. TypeOK'
    BY <2>1, <2>3 DEF TypeOK, listvars, scanvars, countvars
  <2>5. IndexInv'
    BY <2>1 DEF TypeOK, IndexInv, Indexing, scanvars
  <2> QED
    BY <2>4, <2>5
<1>3. CASE ReadUse(t)
  <2>1. /\ pc' = [pc EXCEPT ![t] = "idle"] /\ base' = [base EXCEPT ![t] = 0]
        /\ crash' \in {"dangling", "range", "none"}
        /\ wrote' = [wrote EXCEPT ![t] = 0] /\ index' = [index EXCEPT ![t] = -1]
        /\ crash = "none"
        /\ UNCHANGED <<listvars, select_index, open, i, seen, alone, countvars>>
    BY <1>3 DEF ReadUse, IndexUse, At
  <2>2. TypeOK'
    BY <2>1, SMTT(30) DEF TypeOK, listvars, countvars
  <2>3. IndexInv'
    BY <2>1 DEF TypeOK, IndexInv, Indexing
  <2> QED
    BY <2>2, <2>3
<1> QED
  BY <1>1, <1>2, <1>3

\* The list without its client number n.
LEMMA RemoveFacts ==
    ASSUME TypeOK, NEW n \in DOMAIN client_list
    PROVE  /\ Len(client_list) \in Nat /\ n \in 1..Len(client_list)
           /\ Remove(n) \in Seq([key : Keys, id : Nat]) /\ Len(Remove(n)) = Len(client_list) - 1
           /\ \A m \in 1..(Len(client_list) - 1) :
                 Remove(n)[m] = IF m < n THEN client_list[m] ELSE client_list[m + 1]
<1> DEFINE S == [key : Keys, id : Nat]
           len == Len(client_list)
           a == SubSeq(client_list, 1, n - 1)
           b == SubSeq(client_list, n + 1, len)
<1>1. client_list \in Seq(S) /\ n \in 1..len /\ len \in Nat
  BY DEF TypeOK
<1> HIDE DEF S
<1>2. a \in Seq(S) /\ Len(a) = n - 1 /\ \A m \in 1..(n - 1) : a[m] = client_list[m]
  BY <1>1
<1>3. b \in Seq(S) /\ Len(b) = len - n /\ \A m \in 1..(len - n) : b[m] = client_list[n + m]
  BY <1>1
<1>4. Remove(n) = a \o b
  BY DEF Remove
<1> HIDE DEF a, b
<1>5. /\ Remove(n) \in Seq(S) /\ Len(Remove(n)) = Len(a) + Len(b)
      /\ \A m \in 1..(Len(a) + Len(b)) : Remove(n)[m] = IF m <= Len(a) THEN a[m] ELSE b[m - Len(a)]
  <2>1. /\ a \o b \in Seq(S) /\ Len(a \o b) = Len(a) + Len(b)
        /\ \A m \in 1..(Len(a) + Len(b)) : (a \o b)[m] = IF m <= Len(a) THEN a[m] ELSE b[m - Len(a)]
    BY <1>2, <1>3, ConcatProperties, Zenon
  <2> QED
    BY <1>4, <2>1, Zenon
<1>6. ASSUME NEW m \in 1..(len - 1)
      PROVE  Remove(n)[m] = IF m < n THEN client_list[m] ELSE client_list[m + 1]
  <2>1. Remove(n)[m] = IF m <= n - 1 THEN a[m] ELSE b[m - (n - 1)]
    <3>1. Len(a) + Len(b) = len - 1
      BY <1>1, <1>2, <1>3
    <3>2. m \in 1..(Len(a) + Len(b))
      BY <1>6, <3>1
    <3> QED
      BY <1>2, <1>5, <3>2
  <2>2. CASE m < n
    BY <1>1, <1>2, <1>6, <2>1, <2>2
  <2>3. CASE ~(m < n)
    <3>1. /\ m - (n - 1) \in 1..(len - n) /\ n + (m - (n - 1)) = m + 1 /\ ~(m <= n - 1)
      BY <1>1, <1>6, <2>3
    <3> QED
      BY <1>3, <2>1, <2>3, <3>1
  <2> QED
    BY <2>2, <2>3
<1> QED
  BY <1>1, <1>2, <1>3, <1>5, <1>6 DEF S

\* destroy(ip, port) and destroy() take clients out of the list.
LEMMA DestroyType ==
    ASSUME TypeOK, IndexInv,
           DestroyFirst \/ \E t \in Threads, l \in Links : Destroy(t, l)
    PROVE  TypeOK' /\ IndexInv'
<1>1. CASE DestroyFirst
  <2>1. client_list' \in Seq([key : Keys, id : Nat])
    BY <1>1, HeadTailProperties DEF DestroyFirst, TypeOK
  <2>2. open' \in SUBSET Nat
    BY <1>1 DEF DestroyFirst, TypeOK
  <2>3. TypeOK'
    BY <1>1, <2>1, <2>2 DEF DestroyFirst, TypeOK, scanvars
  <2>4. IndexInv'
    BY <1>1 DEF DestroyFirst, IndexInv, scanvars
  <2> QED
    BY <2>3, <2>4
<1>2. ASSUME NEW t \in Threads, NEW l \in Links, Destroy(t, l)
      PROVE  TypeOK' /\ IndexInv'
  <2>1. /\ client_list' \in Seq([key : Keys, id : Nat]) /\ link_set_poll' \in SUBSET Keys
        /\ cur_client_index' = cur_client_index /\ open' \in SUBSET Nat
    <3>1. CASE EraseNone(l)
      BY <3>1 DEF EraseNone, TypeOK
    <3>2. ASSUME NEW n \in DOMAIN client_list, EraseClient(l, n)
          PROVE  /\ client_list' \in Seq([key : Keys, id : Nat]) /\ link_set_poll' \in SUBSET Keys
                 /\ cur_client_index' = cur_client_index /\ open' \in SUBSET Nat
      BY <3>2, RemoveFacts DEF EraseClient, Forget, TypeOK
    <3> QED
      BY <1>2, <3>1, <3>2 DEF Destroy
  <2>2. destroys' \in Nat
    BY <1>2 DEF Destroy, TypeOK
  <2>3. TypeOK'
    BY <1>2, <2>1, <2>2 DEF Destroy, At, TypeOK, scanvars
  <2>4. IndexInv'
    BY <1>2 DEF Destroy, At, TypeOK, IndexInv, Indexing, scanvars
  <2> QED
    BY <2>3, <2>4
<1> QED
  BY <1>1, <1>2

\* The limit changes, or a client connects or loses its connection.
LEMMA OtherType ==
    ASSUME TypeOK, IndexInv, Toggle \/ \E v \in MaxNums : set_c_max_num(v)
    PROVE  TypeOK' /\ IndexInv'
<1>1. CASE Toggle
  <2>1. PICK n \in DOMAIN client_list :
               open' = IF client_list[n].id \in open THEN open \ {client_list[n].id}
                       ELSE open \cup {client_list[n].id}
    BY <1>1 DEF Toggle
  <2>2. client_list[n] \in [key : Keys, id : Nat]
    BY RemoveFacts, ElementOfSeq DEF TypeOK
  <2>3. open' \in SUBSET Nat
    BY <2>1, <2>2 DEF TypeOK
  <2>4. TypeOK'
    BY <1>1, <2>3 DEF Toggle, TypeOK, listvars, scanvars, countvars
  <2>5. IndexInv'
    BY <1>1 DEF Toggle, IndexInv, scanvars
  <2> QED
    BY <2>4, <2>5
<1>2. ASSUME NEW v \in MaxNums, set_c_max_num(v)
      PROVE  TypeOK' /\ IndexInv'
  BY <1>2 DEF set_c_max_num, TypeOK, IndexInv, scanvars, countvars
<1> QED
  BY <1>1, <1>2

\* Every step keeps the types.
LEMMA NextType == TypeOK /\ IndexInv /\ [Next]_vars => TypeOK' /\ IndexInv'
<1> SUFFICES ASSUME TypeOK, IndexInv, [Next]_vars PROVE TypeOK' /\ IndexInv'
  OBVIOUS
<1>1. CASE UNCHANGED vars
  BY <1>1 DEF vars, listvars, scanvars, countvars, TypeOK, IndexInv
<1>2. ASSUME NEW t \in Threads, Step(t) \/ Write(t) \/ Read(t)
      PROVE  TypeOK' /\ IndexInv'
  BY <1>2, EnterType, AddLinkType, SelectRoundType, SelectEndType, IndexType DEF Step
<1> QED
  BY <1>1, <1>2, DestroyType, OtherType DEF Next

\* Every variable keeps its type: no index is used while it is -1, although
\* write() and read() use what get_client_index returned with no lock.
THEOREM TypeCorrect == Spec => []TypeOK
BY InitType, NextType, PTL DEF Spec

-----------------------------------------------------------------------------
(* One client per key. *)

\* That no two clients share a key is what makes the set of keys as large as the
\* list, and what makes removing one client remove one key.
KeysInv ==
    ~ended => /\ link_set_poll = {client_list[n].key : n \in DOMAIN client_list}
              /\ \A m, n \in DOMAIN client_list : client_list[m].key = client_list[n].key => m = n
              /\ IsFiniteSet(link_set_poll)
              /\ Cardinality(link_set_poll) = Len(client_list)

\* add_link of a key the set does not hold.
LEMMA AddLinkKeys ==
    ASSUME TypeOK, KeysInv, NEW t \in Threads, NEW l \in Links, AddLink(t, l)
    PROVE  KeysInv'
<1> SUFFICES ASSUME ~ended' PROVE KeysInv'
  BY DEF KeysInv
<1>0. ~ended
  BY DEF AddLink
<1>1. CASE UNCHANGED <<client_list, link_set_poll>>
  BY <1>0, <1>1 DEF KeysInv
<1>2. CASE /\ Key[l] \notin link_set_poll
           /\ link_set_poll' = link_set_poll \cup {Key[l]}
           /\ client_list' = Append(client_list, [key |-> Key[l], id |-> made + 1])
  <2> DEFINE len == Len(client_list)
             c == [key |-> Key[l], id |-> made + 1]
  <2>1. client_list \in Seq([key : Keys, id : Nat]) /\ len \in Nat /\ DOMAIN client_list = 1..len
    BY LenProperties DEF TypeOK
  <2>2. c \in [key : Keys, id : Nat] /\ c.key = Key[l]
    BY DEF TypeOK, Keys
  <2>3. /\ Len(client_list') = len + 1 /\ DOMAIN client_list' = 1..(len + 1)
        /\ client_list'[len + 1] = c
        /\ \A m \in 1..len : client_list'[m] = client_list[m]
    <3> HIDE DEF c
    <3> QED
      BY <1>2, <2>1, <2>2, AppendProperties DEF c
  <2> HIDE DEF c, len
  <2>4. DOMAIN client_list' = DOMAIN client_list \cup {len + 1} /\ len + 1 \notin DOMAIN client_list
    BY <2>1, <2>3
  <2>5. link_set_poll' = {client_list'[n].key : n \in DOMAIN client_list'}
    <3>1. \A m \in DOMAIN client_list : client_list'[m].key = client_list[m].key
      BY <2>1, <2>3
    <3>2. client_list'[len + 1].key = Key[l]
      BY <2>2, <2>3
    <3>3. link_set_poll = {client_list[n].key : n \in DOMAIN client_list}
      BY <1>0 DEF KeysInv
    <3> QED
      BY <1>2, <2>4, <3>1, <3>2, <3>3
  <2>6. \A m, n \in DOMAIN client_list' : client_list'[m].key = client_list'[n].key => m = n
    <3>1. \A m \in DOMAIN client_list : client_list'[m].key = client_list[m].key
                                        /\ client_list[m].key # Key[l]
      BY <1>0, <1>2, <2>1, <2>3 DEF KeysInv
    <3>2. client_list'[len + 1].key = Key[l]
      BY <2>2, <2>3
    <3> QED
      BY <1>0, <2>4, <3>1, <3>2 DEF KeysInv
  <2>7. IsFiniteSet(link_set_poll') /\ Cardinality(link_set_poll') = Cardinality(link_set_poll) + 1
    BY <1>0, <1>2, FS_AddElement DEF KeysInv
  <2> QED
    BY <1>0, <2>3, <2>5, <2>6, <2>7 DEF KeysInv, len
<1> QED
  BY <1>1, <1>2 DEF AddLink, PushBack

\* destroy(ip, port) forgets the key of the client it removes, and no other
\* client has it.
LEMMA EraseKeys ==
    ASSUME TypeOK, KeysInv, NEW l \in Links, NEW n \in DOMAIN client_list, EraseClient(l, n),
           ended' = ended
    PROVE  KeysInv'
<1> SUFFICES ASSUME ~ended PROVE KeysInv'
  BY DEF KeysInv
<1> DEFINE len == Len(client_list)
           q == Remove(n)
           From(m) == IF m < n THEN m ELSE m + 1
<1>1. /\ len \in Nat /\ n \in 1..len /\ Len(q) = len - 1
      /\ \A m \in 1..(len - 1) : q[m] = IF m < n THEN client_list[m] ELSE client_list[m + 1]
  BY RemoveFacts
<1>2. DOMAIN q = 1..(len - 1) /\ DOMAIN client_list = 1..len
  BY <1>1, RemoveFacts, LenProperties DEF TypeOK
<1>3. client_list' = q /\ link_set_poll' = link_set_poll \ {client_list[n].key}
  BY DEF EraseClient, Forget
<1>4. /\ link_set_poll = {client_list[m].key : m \in DOMAIN client_list}
      /\ \A m, k \in DOMAIN client_list : client_list[m].key = client_list[k].key => m = k
      /\ IsFiniteSet(link_set_poll) /\ Cardinality(link_set_poll) = len
  BY DEF KeysInv
<1> HIDE DEF q, len
<1>5. \A m \in 1..(len - 1) : From(m) \in 1..len /\ From(m) # n /\ q[m] = client_list[From(m)]
  BY <1>1
<1>6. \A m, k \in 1..(len - 1) : From(m) = From(k) => m = k
  BY <1>1
<1>7. \A k \in 1..len : k # n => \E m \in 1..(len - 1) : From(m) = k
  <2> SUFFICES ASSUME NEW k \in 1..len, k # n PROVE \E m \in 1..(len - 1) : From(m) = k
    OBVIOUS
  <2>1. CASE k < n
    <3>1. k \in 1..(len - 1) /\ From(k) = k
      BY <1>1, <2>1
    <3> QED
      BY <3>1
  <2>2. CASE k > n
    <3>1. k - 1 \in 1..(len - 1) /\ From(k - 1) = k
      BY <1>1, <2>2
    <3> QED
      BY <3>1
  <2> QED
    BY <1>1, <2>1, <2>2
<1> HIDE DEF From
<1>8. link_set_poll' = {q[m].key : m \in DOMAIN q}
  <2>1. ASSUME NEW x \in link_set_poll' PROVE x \in {q[m].key : m \in DOMAIN q}
    <3>1. PICK k \in 1..len : x = client_list[k].key /\ k # n
      BY <1>2, <1>3, <1>4, <2>1
    <3>2. PICK m \in 1..(len - 1) : From(m) = k
      BY <1>7, <3>1
    <3> QED
      BY <1>2, <1>5, <3>1, <3>2
  <2>2. ASSUME NEW m \in DOMAIN q PROVE q[m].key \in link_set_poll'
    <3>1. From(m) \in DOMAIN client_list /\ From(m) # n /\ q[m].key = client_list[From(m)].key
      BY <1>2, <1>5, <2>2
    <3>2. client_list[From(m)].key \in link_set_poll /\ client_list[From(m)].key # client_list[n].key
      BY <1>1, <1>2, <1>4, <3>1
    <3> QED
      BY <1>3, <3>1, <3>2
  <2> QED
    BY <2>1, <2>2
<1>9. \A m, k \in DOMAIN q : q[m].key = q[k].key => m = k
  BY <1>2, <1>4, <1>5, <1>6
<1>10. IsFiniteSet(link_set_poll') /\ Cardinality(link_set_poll') = len - 1
  <2>1. client_list[n].key \in link_set_poll
    BY <1>1, <1>2, <1>4
  <2> QED
    BY <1>3, <1>4, <2>1, FS_RemoveElement
<1> QED
  BY <1>1, <1>3, <1>8, <1>9, <1>10 DEF KeysInv

\* Every step keeps one client per key.
LEMMA NextKeys == TypeOK /\ KeysInv /\ [Next]_vars => KeysInv'
<1> SUFFICES ASSUME TypeOK, KeysInv, [Next]_vars PROVE KeysInv'
  OBVIOUS
<1>1. CASE UNCHANGED <<client_list, link_set_poll, ended>>
  BY <1>1 DEF KeysInv
<1>2. CASE DestroyFirst
  BY <1>2 DEF DestroyFirst, KeysInv
<1>3. ASSUME NEW t \in Threads, NEW l \in Links, Destroy(t, l)
      PROVE  KeysInv'
  <2>1. CASE EraseNone(l)
    BY <1>1, <1>3, <2>1 DEF EraseNone, Destroy
  <2>2. ASSUME NEW n \in DOMAIN client_list, EraseClient(l, n)
        PROVE  KeysInv'
    BY <1>3, <2>2, EraseKeys DEF Destroy
  <2> QED
    BY <1>3, <2>1, <2>2 DEF Destroy
<1>4. ASSUME NEW t \in Threads, Step(t), ~\E l \in Links : AddLink(t, l)
      PROVE  KeysInv'
  BY <1>1, <1>4 DEF Step, LimitCheck, SelectBegin, SelectRound, SelectEnd, WriteLoad, WriteUse,
                    ReadLoad, ReadUse, IndexLoad, IndexUse, listvars, countvars
<1>5. ASSUME NEW t \in Threads, Write(t) \/ Read(t)
      PROVE  KeysInv'
  BY <1>1, <1>5 DEF Write, Read, listvars, countvars
<1>6. CASE Toggle \/ \E v \in MaxNums : set_c_max_num(v)
  BY <1>1, <1>6 DEF Toggle, set_c_max_num, listvars, countvars
<1>7. CASE UNCHANGED vars
  BY <1>1, <1>7 DEF vars, listvars, countvars
<1> QED
  BY <1>2, <1>3, <1>4, <1>5, <1>6, <1>7, AddLinkKeys DEF Next

\* link_set_poll and client_list agree whatever the threads do: a link has one
\* client, and a destroyed link can be made again.
THEOREM KeysMatch == Spec => []KeysMatchClients
<1>1. Init => KeysInv
  <2> SUFFICES ASSUME Init PROVE KeysInv
    OBVIOUS
  <2>1. DOMAIN client_list = {} /\ Len(client_list) = 0 /\ link_set_poll = {}
    BY DEF Init
  <2>2. IsFiniteSet(link_set_poll) /\ Cardinality(link_set_poll) = 0
    BY <2>1, FS_EmptySet
  <2> QED
    BY <2>1, <2>2 DEF KeysInv
<1>2. KeysInv => KeysMatchClients
  BY DEF KeysInv, KeysMatchClients
<1> QED
  BY <1>1, <1>2, InitType, NextType, NextKeys, PTL DEF Spec

-----------------------------------------------------------------------------
(* A handle names its client while nothing is destroyed. *)

\* What a handle promises, from the moment it is made.
Kept(t) == index[t] >= 0 /\ Indexed(t) = wrote[t]

\* cur_client_index is the length of the list until something is destroyed, so
\* every index is one of the list; and the handle is good as soon as write()
\* returns it, before read() uses it.
HandleInv ==
    destroys = 0 /\ ~ended =>
        /\ cur_client_index = Len(client_list)
        /\ crash # "range"
        /\ crash = "negative" => select_index <= 0
        /\ \A t \in Threads :
              /\ index[t] < Len(client_list)
              /\ pc[t] \in {"rload", "ruse"} => Kept(t)
              /\ crash = "none" /\ pc[t] = "written" /\ index[t] >= 0 => Kept(t)

\* add_link appends: the clients before keep their places.
LEMMA AddLinkHandle ==
    ASSUME TypeOK, HandleInv, NEW t \in Threads, NEW l \in Links, AddLink(t, l)
    PROVE  HandleInv'
<1> SUFFICES ASSUME destroys' = 0, ~ended' PROVE HandleInv'
  BY DEF HandleInv
<1>0. /\ destroys = 0 /\ ~ended /\ crash' = crash /\ select_index' = select_index
      /\ index' = index /\ wrote' = wrote
      /\ pc[t] = "add" /\ pc' = [pc EXCEPT ![t] = "lock"]
  BY DEF AddLink, At, scanvars
<1> DEFINE len == Len(client_list)
<1>1. client_list \in Seq([key : Keys, id : Nat]) /\ len \in Nat
  BY LenProperties DEF TypeOK
<1>2. /\ len <= Len(client_list') /\ Len(client_list') \in Nat
      /\ \A m \in 1..len : client_list'[m] = client_list[m]
      /\ cur_client_index' = Len(client_list')
  <2>1. CASE UNCHANGED <<client_list, cur_client_index>>
    BY <1>0, <1>1, <2>1 DEF HandleInv
  <2>2. CASE /\ client_list' = Append(client_list, [key |-> Key[l], id |-> made + 1])
             /\ cur_client_index' = cur_client_index + 1
    <3> DEFINE c == [key |-> Key[l], id |-> made + 1]
    <3>1. c \in [key : Keys, id : Nat]
      BY DEF TypeOK, Keys
    <3> HIDE DEF c
    <3>2. Len(client_list') = len + 1 /\ \A m \in 1..len : client_list'[m] = client_list[m]
      BY <1>1, <2>2, <3>1, AppendProperties DEF c
    <3> QED
      BY <1>0, <1>1, <2>2, <3>2 DEF HandleInv
  <2> QED
    BY <2>1, <2>2 DEF AddLink, PushBack
<1>3. \A u \in Threads : index[u] \in Int /\ index[u] < len
  BY <1>0 DEF HandleInv, TypeOK
<1>4. \A u \in Threads : Kept(u) => Kept(u)'
  <2> SUFFICES ASSUME NEW u \in Threads, Kept(u) PROVE Kept(u)'
    OBVIOUS
  <2>1. index[u] + 1 \in 1..len
    BY <1>1, <1>3 DEF Kept
  <2> QED
    BY <1>0, <1>2, <2>1 DEF Kept, Indexed
<1>5. \A u \in Threads : pc'[u] \in {"rload", "ruse", "written"} => pc[u] = pc'[u]
  BY <1>0 DEF TypeOK
<1>6. \A u \in Threads : index'[u] < Len(client_list')
  BY <1>0, <1>1, <1>2, <1>3
<1> QED
  BY <1>0, <1>2, <1>4, <1>5, <1>6 DEF HandleInv

\* A round looks at a client of the list, or, after the wrap, in front of it.
LEMMA SelectRoundHandle ==
    ASSUME TypeOK, HandleInv, NEW t \in Threads, SelectRound(t)
    PROVE  HandleInv'
<1> SUFFICES ASSUME destroys' = 0, ~ended' PROVE HandleInv'
  BY DEF HandleInv
<1> DEFINE k == Rem(select_index, cur_client_index)
           len == Len(client_list)
<1>0. /\ destroys = 0 /\ ~ended /\ crash = "none" /\ pc[t] = "select"
      /\ UNCHANGED <<client_list, cur_client_index, wrote>>
      /\ index' = [index EXCEPT ![t] = k] /\ select_index' = Increment(select_index)
      /\ i[t] < cur_client_index
  BY DEF SelectRound, SelectReturn, At, listvars, countvars
<1>1. cur_client_index = len /\ len \in Nat /\ len # 0 /\ select_index \in (-MaxInt - 1)..MaxInt
  BY <1>0, LenProperties DEF HandleInv, TypeOK
<1>2. k \in Int /\ k < len /\ (select_index >= 0 => k >= 0)
  BY <1>1, RemType
<1>3. /\ crash' \in {"none", "negative", "range"}
      /\ crash' = "range" => k \notin 0..(len - 1) /\ ~(k < 0)
      /\ crash' = "negative" => k < 0
      /\ pc' = [pc EXCEPT ![t] = "select"] \/ pc' = [pc EXCEPT ![t] = "wload"]
  BY <1>0 DEF SelectRound, SelectReturn, At
<1> HIDE DEF k
<1>4. crash' # "range"
  BY <1>1, <1>2, <1>3
<1>5. crash' = "negative" => select_index' <= 0
  <2>1. MaxInt \in Nat
    BY ClientPoolAssumption
  <2>2. ASSUME k < 0 PROVE Increment(select_index) <= 0
    BY <1>1, <1>2, <2>1, <2>2 DEF Increment
  <2> QED
    BY <1>0, <1>3, <2>2
<1>6. ASSUME NEW u \in Threads
      PROVE  /\ index'[u] < len
             /\ pc'[u] \in {"rload", "ruse", "written"} => u # t /\ pc[u] = pc'[u]
             /\ u # t => index'[u] = index[u]
  BY <1>0, <1>2, <1>3 DEF HandleInv, TypeOK
<1>7. ASSUME NEW u \in Threads, u # t, Kept(u) PROVE Kept(u)'
  BY <1>0, <1>6, <1>7 DEF Kept, Indexed
<1>8. \A u \in Threads : /\ index'[u] < Len(client_list')
                         /\ pc'[u] \in {"rload", "ruse"} => Kept(u)'
                         /\ crash' = "none" /\ pc'[u] = "written" /\ index'[u] >= 0 => Kept(u)'
  BY <1>0, <1>6, <1>7 DEF HandleInv
<1> QED
  BY <1>0, <1>1, <1>4, <1>5, <1>8 DEF HandleInv

\* Using the index: write() makes the handle good, read() lets go of it.
LEMMA UseHandle ==
    ASSUME TypeOK, IndexInv, HandleInv, NEW t \in Threads, WriteUse(t) \/ ReadUse(t)
    PROVE  HandleInv'
<1> SUFFICES ASSUME destroys' = 0, ~ended' PROVE HandleInv'
  BY DEF HandleInv
<1>0. /\ destroys = 0 /\ ~ended /\ crash = "none" /\ pc[t] \in {"wuse", "ruse"}
      /\ UNCHANGED <<client_list, cur_client_index, select_index>>
      /\ crash' \in {"dangling", "none", "range"}
      /\ crash' = "range" => index[t] >= Len(client_list)
  BY DEF WriteUse, ReadUse, IndexUse, At, listvars, countvars
<1>1. \A u \in Threads : index[u] \in Int /\ index[u] < Len(client_list) /\ Len(client_list) \in Nat
  BY <1>0, LenProperties DEF HandleInv, TypeOK
<1>2. crash' # "range"
  BY <1>0, <1>1
<1>3. CASE WriteUse(t)
  <2>1. /\ pc[t] = "wuse" /\ pc' = [pc EXCEPT ![t] = "written"] /\ index' = index
        /\ wrote' = [wrote EXCEPT ![t] = IF crash' = "none" THEN Indexed(t) ELSE @]
    BY <1>3 DEF WriteUse, IndexUse, At
  <2>2. ASSUME NEW u \in Threads, u # t, Kept(u) PROVE Kept(u)'
    BY <1>0, <2>1, <2>2 DEF Kept, Indexed, TypeOK
  <2>3. crash' = "none" => Kept(t)'
    <3>1. index[t] >= 0
      BY <1>0, <2>1 DEF IndexInv, Indexing
    <3>2. crash' = "none" => wrote'[t] = Indexed(t)
      BY <2>1 DEF TypeOK
    <3> QED
      BY <1>0, <2>1, <3>1, <3>2 DEF Kept, Indexed
  <2>4. pc'[t] = "written" /\ \A u \in Threads : u # t => pc'[u] = pc[u]
    BY <2>1 DEF TypeOK
  <2> QED
    BY <1>0, <1>2, <2>1, <2>2, <2>3, <2>4 DEF HandleInv
<1>4. CASE ReadUse(t)
  <2>1. /\ pc' = [pc EXCEPT ![t] = "idle"] /\ index' = [index EXCEPT ![t] = -1]
        /\ wrote' = [wrote EXCEPT ![t] = 0]
    BY <1>4 DEF ReadUse, IndexUse, At
  <2>2. pc'[t] = "idle" /\ \A u \in Threads : u # t => pc'[u] = pc[u]
    BY <2>1 DEF TypeOK
  <2>3. ASSUME NEW u \in Threads, u # t, Kept(u) PROVE Kept(u)'
    BY <1>0, <2>1, <2>3 DEF Kept, Indexed, TypeOK
  <2>4. index'[t] = -1 /\ \A u \in Threads : u # t => index'[u] = index[u]
    BY <2>1 DEF TypeOK
  <2>5. \A u \in Threads : index'[u] < Len(client_list')
    BY <1>0, <1>1, <2>4
  <2> QED
    BY <1>0, <1>2, <2>2, <2>3, <2>4, <2>5 DEF HandleInv
<1> QED
  BY <1>3, <1>4

\* A step that leaves the list, the counters and the clients written to.
LEMMA SameHandle ==
    ASSUME TypeOK, IndexInv, HandleInv, NEW t \in Threads,
           \/ Write(t) \/ LimitCheck(t) \/ SelectBegin(t) \/ SelectEnd(t) \/ Read(t)
           \/ WriteLoad(t) \/ ReadLoad(t)
    PROVE  HandleInv'
<1> SUFFICES ASSUME destroys' = 0, ~ended' PROVE HandleInv'
  BY DEF HandleInv
<1>0. /\ destroys = 0 /\ ~ended /\ crash = "none" /\ crash' = "none"
      /\ UNCHANGED <<client_list, cur_client_index, wrote>>
  BY DEF Write, LimitCheck, SelectBegin, SelectEnd, SelectReturn, Read, WriteLoad, ReadLoad,
         IndexLoad, At, listvars, countvars
<1>1. \A u \in Threads : index[u] \in Int /\ index[u] < Len(client_list) /\ Len(client_list) \in Nat
  BY <1>0, LenProperties DEF HandleInv, TypeOK
<1>2. \/ index' = index
      \/ index' = [index EXCEPT ![t] = -1] /\ pc'[t] = "select"
  BY DEF Write, LimitCheck, SelectBegin, SelectEnd, SelectReturn, Read, WriteLoad, ReadLoad,
         IndexLoad, At, scanvars, TypeOK
<1>3. /\ \A u \in Threads : u # t => pc'[u] = pc[u] /\ index'[u] = index[u]
      /\ (index'[t] = index[t] \/ (index'[t] = -1 /\ pc'[t] = "select"))
  <2>1. \E there : pc' = [pc EXCEPT ![t] = there]
    BY DEF Write, LimitCheck, SelectBegin, SelectEnd, SelectReturn, Read, WriteLoad, ReadLoad,
           IndexLoad, At
  <2>2. \A u \in Threads : u # t => pc'[u] = pc[u]
    BY <2>1 DEF TypeOK
  <2>3. /\ \A u \in Threads : u # t => index'[u] = index[u]
        /\ (index'[t] = index[t] \/ (index'[t] = -1 /\ pc'[t] = "select"))
    <3>1. CASE index' = index
      BY <3>1
    <3>2. CASE index' = [index EXCEPT ![t] = -1] /\ pc'[t] = "select"
      BY <3>2 DEF TypeOK
    <3> QED
      BY <1>2, <3>1, <3>2
  <2> QED
    BY <2>2, <2>3
<1>4. /\ pc'[t] \in {"rload", "ruse"} => Kept(t)
      /\ pc'[t] = "written" => index[t] < 0
  <2>1. CASE Write(t) \/ LimitCheck(t) \/ SelectBegin(t) \/ WriteLoad(t)
    BY <2>1 DEF Write, LimitCheck, SelectBegin, WriteLoad, IndexLoad, At, TypeOK
  <2>2. CASE SelectEnd(t)
    BY <1>1, <2>2 DEF SelectEnd, SelectReturn, At, TypeOK
  <2>3. CASE Read(t)
    <3>1. pc[t] = "written" /\ pc'[t] = IF index[t] = -1 THEN "idle" ELSE "rload"
      BY <2>3 DEF Read, At, TypeOK
    <3>2. index[t] # -1 => index[t] >= 0
      BY <1>0, <1>1 DEF IndexInv
    <3> QED
      BY <1>0, <3>1, <3>2 DEF HandleInv
  <2>4. CASE ReadLoad(t)
    <3>1. pc[t] = "rload" /\ pc'[t] = "ruse"
      BY <2>4 DEF ReadLoad, IndexLoad, At, TypeOK
    <3> QED
      BY <1>0, <3>1 DEF HandleInv
  <2> QED
    BY <2>1, <2>2, <2>3, <2>4
<1>5. ASSUME NEW u \in Threads, Kept(u), index'[u] = index[u] PROVE Kept(u)'
  BY <1>0, <1>5 DEF Kept, Indexed
<1>6. ASSUME NEW u \in Threads
      PROVE  /\ index'[u] < Len(client_list')
             /\ pc'[u] \in {"rload", "ruse"} => Kept(u)'
             /\ crash' = "none" /\ pc'[u] = "written" /\ index'[u] >= 0 => Kept(u)'
  <2>1. CASE u # t
    BY <1>0, <1>3, <1>5, <2>1 DEF HandleInv
  <2>2. CASE u = t
    BY <1>0, <1>1, <1>3, <1>4, <1>5, <2>2
  <2> QED
    BY <2>1, <2>2
<1> QED
  BY <1>0, <1>6 DEF HandleInv

\* Every step keeps handles good.
LEMMA NextHandle == TypeOK /\ IndexInv /\ HandleInv /\ [Next]_vars => HandleInv'
<1> SUFFICES ASSUME TypeOK, IndexInv, HandleInv, [Next]_vars PROVE HandleInv'
  OBVIOUS
<1>1. CASE UNCHANGED <<client_list, cur_client_index, select_index, index, wrote, pc, destroys, ended, crash>>
  BY <1>1 DEF HandleInv, Kept, Indexed
<1>2. CASE DestroyFirst
  BY <1>2 DEF DestroyFirst, HandleInv
<1>3. ASSUME NEW t \in Threads, NEW l \in Links, Destroy(t, l)
      PROVE  HandleInv'
  BY <1>3 DEF Destroy, HandleInv, TypeOK
<1>4. ASSUME NEW t \in Threads, Step(t) \/ Write(t) \/ Read(t)
      PROVE  HandleInv'
  BY <1>4, AddLinkHandle, SelectRoundHandle, UseHandle, SameHandle DEF Step
<1>5. CASE Toggle \/ \E v \in MaxNums : set_c_max_num(v)
  BY <1>1, <1>5 DEF Toggle, set_c_max_num, listvars, scanvars, countvars
<1>6. CASE UNCHANGED vars
  BY <1>1, <1>6 DEF vars, listvars, scanvars, countvars
<1> QED
  BY <1>2, <1>3, <1>4, <1>5, <1>6 DEF Next

\* While nothing is destroyed a handle names the client it was made for, no scan
\* looks behind the last client, and none in front of the first before
\* select_index has wrapped.
THEOREM HandlesStayGood == Spec => []HandleFindsItsClient
<1>1. Init => HandleInv
  BY DEF Init, HandleInv
<1>2. HandleInv => HandleFindsItsClient
  BY DEF HandleInv, HandleFindsItsClient, Kept
<1> QED
  BY <1>1, <1>2, InitType, NextType, NextHandle, PTL DEF Spec

-----------------------------------------------------------------------------
(* A scan alone looks at every client. *)

\* Division with remainder.
LEMMA Division ==
    ASSUME NEW n \in Int, NEW c \in Nat \ {0}
    PROVE  n = c * (n \div c) + (n % c) /\ n \div c \in Int /\ n % c \in 0..(c - 1)
OBVIOUS

\* Quotient and remainder are unique.
LEMMA DivisionUnique ==
    ASSUME NEW a \in Int, NEW b \in Int, NEW c \in Nat \ {0}, NEW r \in 0..(c - 1),
           NEW s \in 0..(c - 1), c * a + r = c * b + s
    PROVE  r = s
<1>1. CASE a < b
  <2>1. b >= a + 1 /\ c * b >= c * (a + 1)
    BY <1>1
  <2>2. c * (a + 1) = c * a + c
    OBVIOUS
  <2> QED
    BY <2>1, <2>2
<1>2. CASE b < a
  <2>1. a >= b + 1 /\ c * a >= c * (b + 1)
    BY <1>2
  <2>2. c * (b + 1) = c * b + c
    OBVIOUS
  <2> QED
    BY <2>1, <2>2
<1>3. CASE a = b
  BY <1>3
<1> QED
  BY <1>1, <1>2, <1>3

\* The index after k in a list of c clients that is walked in a circle.
After(k, c) == IF k + 1 = c THEN 0 ELSE k + 1

\* The remainder of the next number.
LEMMA NextMod ==
    ASSUME NEW n \in Int, NEW c \in Nat \ {0}
    PROVE  (n + 1) % c = After(n % c, c)
<1> DEFINE a == n \div c
           r == n % c
           b == (n + 1) \div c
           s == (n + 1) % c
           a1 == IF r + 1 = c THEN a + 1 ELSE a
           x == c * a
           y == c * b
           z == c * a1
           next == After(r, c)
<1>1. n = x + r /\ a \in Int /\ r \in 0..(c - 1)
  BY Division
<1>2. n + 1 = y + s /\ b \in Int /\ s \in 0..(c - 1)
  BY Division
<1> HIDE DEF a, b, r, s
<1>3. a1 \in Int /\ x \in Int /\ y \in Int /\ z \in Int
  BY <1>1, <1>2
<1>4. z = IF r + 1 = c THEN x + c ELSE x
  <2>1. c * (a + 1) = x + c
    BY <1>1
  <2> QED
    BY <2>1
<1>5. next \in 0..(c - 1)
  BY <1>1 DEF After
<1> HIDE DEF x, y, z
<1>6. z + next = y + s
  BY <1>1, <1>2, <1>3, <1>4 DEF After
<1> HIDE DEF next, a1
<1>7. c * a1 + next = c * b + s
  BY <1>6 DEF z, y
<1>8. next = s
  BY <1>2, <1>3, <1>5, <1>7, DivisionUnique
<1> QED
  BY <1>8 DEF next, r, s

\* select_index moves on by one client, or, past the largest int, to a negative
\* index.
LEMMA NextRem ==
    ASSUME NEW s \in (-MaxInt - 1)..MaxInt, NEW c \in Nat \ {0}, Rem(s, c) >= 0
    PROVE  Rem(Increment(s), c) < 0 \/ Rem(Increment(s), c) = After(Rem(s, c), c)
<1>0. MaxInt \in Nat /\ s \in Int
  BY ClientPoolAssumption
<1>1. CASE s >= 0 /\ s # MaxInt
  <2>1. Rem(s, c) = s % c /\ Rem(Increment(s), c) = (s + 1) % c
    BY <1>0, <1>1 DEF Rem, Increment
  <2> QED
    BY <1>0, <2>1, NextMod
<1>2. CASE s = MaxInt
  <2> DEFINE r == (s + 1) % c
  <2>1. Rem(s, c) = s % c
    BY <1>0, <1>2 DEF Rem
  <2>2. Increment(s) = -(s + 1) /\ s + 1 \in Nat /\ s + 1 > 0
    BY <1>0, <1>2 DEF Increment
  <2>3. Rem(Increment(s), c) = -r
    BY <2>2 DEF Rem
  <2>4. r \in 0..(c - 1) /\ r = After(Rem(s, c), c)
    BY <1>0, <2>1, <2>2, Division, NextMod
  <2> HIDE DEF r
  <2>5. CASE r = 0
    <3>0. -r = 0
      <4>1. r \in Int /\ r <= 0 /\ r >= 0
        BY <2>4, <2>5
      <4> QED
        BY <4>1
    <3>1. Rem(Increment(s), c) = 0
      BY <2>3, <3>0, Zenon
    <3>2. After(Rem(s, c), c) = 0
      BY <2>4, <2>5
    <3> QED
      BY <3>1, <3>2
  <2>6. CASE r # 0
    BY <2>3, <2>4, <2>6
  <2> QED
    BY <2>5, <2>6
<1>3. CASE s < 0
  <2> DEFINE n == -s - 1
             r == n % c
  <2>1. n \in Nat /\ n \in Int /\ n + 1 = -s
    BY <1>0, <1>3
  <2>2. Rem(s, c) = -((n + 1) % c)
    BY <1>0, <1>3, <2>1 DEF Rem
  <2>3. (n + 1) % c \in 0..(c - 1) /\ r \in 0..(c - 1) /\ (n + 1) % c = After(r, c)
    <3>1. (n + 1) % c = After(r, c)
      BY <2>1, NextMod
    <3>2. n + 1 \in Int
      BY <2>1
    <3>3. (n + 1) % c \in 0..(c - 1) /\ r \in 0..(c - 1)
      BY <2>1, <3>2, Division
    <3> QED
      BY <3>1, <3>3
  <2>4. Rem(s, c) = 0 /\ After(r, c) = 0
    BY <2>2, <2>3
  <2>5. r = c - 1
    BY <2>3, <2>4 DEF After
  <2>6. Increment(s) = -n
    BY <1>0, <1>3 DEF Increment
  <2>7. Rem(Increment(s), c) = -r
    <3>1. CASE n = 0
      <4>1. r = 0
        BY <3>1, <2>3
      <4> QED
        BY <2>6, <3>1, <4>1 DEF Rem
    <3>2. CASE n > 0
      BY <2>1, <2>6, <3>2 DEF Rem
    <3> QED
      BY <2>1, <3>1, <3>2
  <2> HIDE DEF r
  <2> QED
    BY <2>3, <2>4, <2>5, <2>7 DEF After
<1> QED
  BY <1>0, <1>1, <1>2, <1>3

\* The n indices a walk in a circle of c clients has passed when it stands at k.
Walked(k, c, n) ==
    IF n <= k + 1 THEN (k + 1 - n)..k ELSE (0..k) \cup ((c + k + 1 - n)..(c - 1))

\* A first step, a further step, and all the way round.
LEMMA WalkedFacts ==
    ASSUME NEW c \in Nat \ {0}, NEW k \in 0..(c - 1)
    PROVE  /\ Walked(k, c, 1) = {k}
           /\ Walked(k, c, c) = 0..(c - 1)
           /\ After(k, c) \in 0..(c - 1)
           /\ \A n \in 1..(c - 1) : Walked(After(k, c), c, n + 1) = Walked(k, c, n) \cup {After(k, c)}
<1>1. Walked(k, c, 1) = {k}
  BY DEF Walked
<1>2. Walked(k, c, c) = 0..(c - 1)
  <2>1. CASE c <= k + 1
    <3>1. Walked(k, c, c) = (k + 1 - c)..k /\ k + 1 - c = 0 /\ k = c - 1
      BY <2>1 DEF Walked
    <3> QED
      BY <3>1
  <2>2. CASE ~(c <= k + 1)
    <3>1. Walked(k, c, c) = (0..k) \cup ((k + 1)..(c - 1))
      <4>1. c + k + 1 - c = k + 1
        OBVIOUS
      <4> QED
        BY <2>2, <4>1 DEF Walked
    <3>2. (0..k) \cup ((k + 1)..(c - 1)) = 0..(c - 1)
      BY <2>2
    <3> QED
      BY <3>1, <3>2
  <2> QED
    BY <2>1, <2>2
<1>3. After(k, c) \in 0..(c - 1)
  BY DEF After
<1>4. ASSUME NEW n \in 1..(c - 1)
      PROVE  Walked(After(k, c), c, n + 1) = Walked(k, c, n) \cup {After(k, c)}
  <2>1. CASE k + 1 = c
    <3>1. After(k, c) = 0 /\ ~(n + 1 <= 0 + 1) /\ n <= k + 1
      BY <1>4, <2>1 DEF After
    <3>2. Walked(0, c, n + 1) = (0..0) \cup ((c + 0 + 1 - (n + 1))..(c - 1))
      BY <3>1 DEF Walked
    <3>3. Walked(k, c, n) = (k + 1 - n)..k
      BY <3>1 DEF Walked
    <3>4. /\ (0..0) = {0}
          /\ (c + 0 + 1 - (n + 1))..(c - 1) = (k + 1 - n)..k
      BY <1>4, <2>1
    <3> QED
      BY <3>1, <3>2, <3>3, <3>4
  <2>2. CASE k + 1 # c
    <3>1. After(k, c) = k + 1
      BY <2>2 DEF After
    <3>2. CASE n <= k + 1
      <4>1. Walked(k + 1, c, n + 1) = (k + 1 + 1 - (n + 1))..(k + 1)
        BY <1>4, <3>2 DEF Walked
      <4>2. Walked(k, c, n) = (k + 1 - n)..k
        BY <3>2 DEF Walked
      <4>3. (k + 1 + 1 - (n + 1))..(k + 1) = ((k + 1 - n)..k) \cup {k + 1}
        BY <1>4, <3>2
      <4> QED
        BY <3>1, <4>1, <4>2, <4>3
    <3>3. CASE ~(n <= k + 1)
      <4>1. Walked(k + 1, c, n + 1) = (0..(k + 1)) \cup ((c + (k + 1) + 1 - (n + 1))..(c - 1))
        BY <1>4, <3>3 DEF Walked
      <4>2. Walked(k, c, n) = (0..k) \cup ((c + k + 1 - n)..(c - 1))
        BY <3>3 DEF Walked
      <4>3. /\ 0..(k + 1) = (0..k) \cup {k + 1}
            /\ c + (k + 1) + 1 - (n + 1) = c + k + 1 - n
        BY <1>4
      <4> QED
        BY <3>1, <4>1, <4>2, <4>3
    <3> QED
      BY <3>2, <3>3
  <2> QED
    BY <2>1, <2>2
<1> QED
  BY <1>1, <1>2, <1>3, <1>4

\* A scan no other has disturbed: the indices it found closed are the ones it
\* has walked, and select_index gives the one after, unless it has wrapped.
Scanning(t) ==
    \/ i[t] = 0 /\ seen[t] = {}
    \/ /\ i[t] \in 1..cur_client_index /\ index[t] \in 0..(cur_client_index - 1)
       /\ seen[t] = Walked(index[t], cur_client_index, i[t])
       /\ \/ Rem(select_index, cur_client_index) < 0
          \/ Rem(select_index, cur_client_index) = After(index[t], cur_client_index)

\* The shared lock is what keeps cur_client_index in a scan, and every scan of
\* another thread ends being alone.  A scan that ended the process is not complete.
ScanInv ==
    \A t \in Threads :
        /\ pc[t] # "select" => i[t] = 0 /\ seen[t] = {}
        /\ pc[t] = "select" /\ alone[t] /\ (crash = "none" \/ i[t] >= cur_client_index) => Scanning(t)

\* A round of a scan.
LEMMA SelectRoundScan ==
    ASSUME TypeOK, ScanInv, NEW t \in Threads, SelectRound(t)
    PROVE  ScanInv'
<1> DEFINE c == cur_client_index
           k == Rem(select_index, c)
           len == Len(client_list)
<1>0. /\ c \in Nat \ {0} /\ i[t] \in Nat /\ i[t] < c /\ len \in Nat
      /\ select_index \in (-MaxInt - 1)..MaxInt
  BY LenProperties DEF TypeOK, SelectRound
<1>1. /\ crash = "none" /\ pc[t] = "select" /\ cur_client_index' = c
      /\ index' = [index EXCEPT ![t] = k] /\ select_index' = Increment(select_index)
      /\ alone' = [u \in Threads |-> alone[u] /\ (u = t \/ pc[u] # "select")]
  BY DEF SelectRound, SelectReturn, At, listvars
<1>2. \/ /\ pc' = [pc EXCEPT ![t] = "select"] /\ crash' # "none" /\ UNCHANGED <<i, seen>>
      \/ /\ pc' = [pc EXCEPT ![t] = "wload"]
         /\ i' = [i EXCEPT ![t] = 0] /\ seen' = [seen EXCEPT ![t] = {}]
      \/ /\ k >= 0 /\ pc' = [pc EXCEPT ![t] = "select"]
         /\ i' = [i EXCEPT ![t] = @ + 1] /\ seen' = [seen EXCEPT ![t] = @ \cup {k}]
  <2>1. k \in 0..(len - 1) => k >= 0
    BY <1>0
  <2> QED
    BY <2>1 DEF SelectRound, SelectReturn, At
<1>3. k \in Int /\ k < c
  BY <1>0, RemType
<1> HIDE DEF c, len
<1>4. ASSUME NEW u \in Threads, u # t
      PROVE  /\ pc'[u] # "select" => i'[u] = 0 /\ seen'[u] = {}
             /\ pc'[u] = "select" => ~alone'[u]
  <2>1. pc'[u] = pc[u] /\ i'[u] = i[u] /\ seen'[u] = seen[u]
    BY <1>2, <1>4 DEF TypeOK
  <2>2. alone'[u] <=> alone[u] /\ (u = t \/ pc[u] # "select")
    BY <1>1
  <2> QED
    BY <1>4, <2>1, <2>2 DEF ScanInv
<1>5. /\ pc'[t] # "select" => i'[t] = 0 /\ seen'[t] = {}
      /\ pc'[t] = "select" /\ alone'[t] /\ (crash' = "none" \/ i'[t] >= cur_client_index') => Scanning(t)'
  <2>1. CASE pc' = [pc EXCEPT ![t] = "select"] /\ crash' # "none" /\ UNCHANGED <<i, seen>>
    <3>1. pc'[t] = "select" /\ ~(i'[t] >= cur_client_index')
      BY <1>0, <1>1, <2>1 DEF TypeOK
    <3> QED
      BY <2>1, <3>1
  <2>2. CASE /\ pc' = [pc EXCEPT ![t] = "wload"]
             /\ i' = [i EXCEPT ![t] = 0] /\ seen' = [seen EXCEPT ![t] = {}]
    BY <2>2 DEF TypeOK
  <2>3. CASE /\ k >= 0 /\ pc' = [pc EXCEPT ![t] = "select"]
             /\ i' = [i EXCEPT ![t] = @ + 1] /\ seen' = [seen EXCEPT ![t] = @ \cup {k}]
    <3>1. /\ pc'[t] = "select" /\ i'[t] = i[t] + 1 /\ seen'[t] = seen[t] \cup {k} /\ index'[t] = k
          /\ (alone'[t] <=> alone[t])
      BY <1>1, <2>3 DEF TypeOK
    <3>2. k \in 0..(c - 1)
      BY <1>0, <1>3, <2>3
    <3>3. ASSUME alone[t] PROVE Scanning(t)'
      <4>1. Scanning(t)
        BY <1>1, <3>3 DEF ScanInv
      <4>2. seen'[t] = Walked(k, c, i'[t])
        <5>1. CASE i[t] = 0 /\ seen[t] = {}
          <6>1. i'[t] = 1 /\ seen'[t] = {k}
            BY <3>1, <5>1
          <6> QED
            BY <1>0, <3>2, <6>1, WalkedFacts
        <5>2. CASE /\ i[t] \in 1..c /\ index[t] \in 0..(c - 1) /\ seen[t] = Walked(index[t], c, i[t])
                   /\ k < 0 \/ k = After(index[t], c)
          <6>1. i[t] \in 1..(c - 1) /\ k = After(index[t], c)
            BY <1>0, <1>3, <2>3, <5>2
          <6>2. Walked(After(index[t], c), c, i[t] + 1) = Walked(index[t], c, i[t]) \cup {After(index[t], c)}
            BY <1>0, <5>2, <6>1, WalkedFacts
          <6> QED
            BY <3>1, <5>2, <6>1, <6>2, Zenon
        <5> QED
          BY <4>1, <5>1, <5>2 DEF Scanning, c
      <4>3. Rem(select_index', c) < 0 \/ Rem(select_index', c) = After(k, c)
        BY <1>0, <1>1, <2>3, NextRem DEF c
      <4>4. i'[t] \in 1..c
        BY <1>0, <3>1
      <4> HIDE DEF k
      <4> QED
        BY <1>1, <3>1, <3>2, <4>2, <4>3, <4>4 DEF Scanning
    <3> QED
      BY <3>1, <3>3
  <2> QED
    BY <1>2, <2>1, <2>2, <2>3
<1>6. ASSUME NEW u \in Threads
      PROVE  /\ pc'[u] # "select" => i'[u] = 0 /\ seen'[u] = {}
             /\ pc'[u] = "select" /\ alone'[u] /\ (crash' = "none" \/ i'[u] >= cur_client_index') => Scanning(u)'
  BY <1>4, <1>5
<1> QED
  BY <1>6 DEF ScanInv

\* A step that is no round of a scan: it starts or ends one, or is elsewhere.
LEMMA OtherScan ==
    ASSUME TypeOK, ScanInv, select_index' = select_index, NEW t \in Threads,
           \E there : pc' = [pc EXCEPT ![t] = there], crash = "none",
           \A u \in Threads : u # t => index'[u] = index[u],
           \/ /\ pc[t] # "select" /\ pc'[t] # "select" /\ UNCHANGED <<i, seen, alone>>
              /\ cur_client_index' = cur_client_index \/ Exclusive
           \/ /\ pc[t] # "select" /\ pc'[t] = "select" /\ UNCHANGED <<i, seen>>
              /\ \A u \in Threads : u # t => alone'[u] = alone[u]
              /\ cur_client_index' = cur_client_index
           \/ /\ pc'[t] # "select" /\ UNCHANGED alone
              /\ i' = [i EXCEPT ![t] = 0] /\ seen' = [seen EXCEPT ![t] = {}]
              /\ cur_client_index' = cur_client_index
    PROVE  ScanInv'
<1>1. ASSUME NEW u \in Threads, u # t
      PROVE  /\ pc'[u] # "select" => i'[u] = 0 /\ seen'[u] = {}
             /\ pc'[u] = "select" /\ alone'[u] /\ (crash' = "none" \/ i'[u] >= cur_client_index') => Scanning(u)'
  <2>1. pc'[u] = pc[u] /\ index'[u] = index[u]
    BY <1>1 DEF TypeOK
  <2>2. i'[u] = i[u] /\ seen'[u] = seen[u] /\ alone'[u] = alone[u]
    BY <1>1 DEF TypeOK
  <2>3. pc[u] = "select" => cur_client_index' = cur_client_index
    BY DEF Exclusive
  <2>4. pc[u] = "select" /\ Scanning(u) => Scanning(u)'
    BY <2>1, <2>2, <2>3 DEF Scanning
  <2> QED
    BY <2>1, <2>2, <2>4 DEF ScanInv
<1>2. /\ pc'[t] # "select" => i'[t] = 0 /\ seen'[t] = {}
      /\ pc'[t] = "select" => Scanning(t)'
  <2>1. CASE pc[t] # "select" /\ UNCHANGED <<i, seen>>
    BY <2>1 DEF ScanInv, Scanning
  <2>2. CASE pc'[t] # "select" /\ i' = [i EXCEPT ![t] = 0] /\ seen' = [seen EXCEPT ![t] = {}]
    BY <2>2 DEF TypeOK
  <2> QED
    BY <2>1, <2>2
<1>3. ASSUME NEW u \in Threads
      PROVE  /\ pc'[u] # "select" => i'[u] = 0 /\ seen'[u] = {}
             /\ pc'[u] = "select" /\ alone'[u] /\ (crash' = "none" \/ i'[u] >= cur_client_index') => Scanning(u)'
  BY <1>1, <1>2
<1> QED
  BY <1>3 DEF ScanInv

\* Every step keeps the scans in order.
LEMMA NextScan == TypeOK /\ ScanInv /\ [Next]_vars => ScanInv'
<1> SUFFICES ASSUME TypeOK, ScanInv, [Next]_vars PROVE ScanInv'
  OBVIOUS
<1>1. CASE UNCHANGED <<cur_client_index, select_index, pc, i, index, seen, alone, crash>>
  BY <1>1 DEF ScanInv, Scanning
<1>2. CASE DestroyFirst \/ Toggle \/ \E v \in MaxNums : set_c_max_num(v)
  BY <1>1, <1>2 DEF DestroyFirst, Toggle, set_c_max_num, listvars, scanvars
<1>3. CASE UNCHANGED vars
  BY <1>1, <1>3 DEF vars, listvars, scanvars
<1>4. ASSUME NEW t \in Threads, NEW l \in Links, AddLink(t, l) \/ Destroy(t, l)
      PROVE  ScanInv'
  <2>1. /\ select_index' = select_index /\ crash = "none" /\ Exclusive
        /\ \E there \in {"lock", "idle"} : pc' = [pc EXCEPT ![t] = there]
        /\ UNCHANGED <<i, index, seen, alone>>
    BY <1>4 DEF AddLink, Destroy, At, scanvars
  <2>2. pc[t] # "select" /\ pc'[t] # "select"
    BY <2>1 DEF Exclusive, TypeOK
  <2> QED
    BY <2>1, <2>2, OtherScan
<1>5. ASSUME NEW t \in Threads,
             \/ Write(t) \/ Read(t) \/ LimitCheck(t) \/ WriteLoad(t) \/ WriteUse(t)
             \/ ReadLoad(t) \/ ReadUse(t)
      PROVE  ScanInv'
  <2>1. /\ select_index' = select_index /\ crash = "none" /\ cur_client_index' = cur_client_index
        /\ \E there \in {"limit", "idle", "rload", "lock", "add", "wuse", "written", "ruse"} :
              pc' = [pc EXCEPT ![t] = there]
        /\ UNCHANGED <<i, seen, alone>> /\ pc[t] # "select"
    BY <1>5 DEF Write, Read, LimitCheck, WriteLoad, WriteUse, ReadLoad, ReadUse, IndexLoad, IndexUse,
                At, listvars, scanvars
  <2>2. \A u \in Threads : u # t => index'[u] = index[u]
    BY <1>5 DEF Write, Read, LimitCheck, WriteLoad, WriteUse, ReadLoad, ReadUse, IndexLoad, IndexUse,
                scanvars, TypeOK
  <2>3. pc'[t] # "select"
    BY <2>1 DEF TypeOK
  <2> QED
    BY <2>1, <2>2, <2>3, OtherScan
<1>6. ASSUME NEW t \in Threads, SelectBegin(t)
      PROVE  ScanInv'
  <2>1. /\ select_index' = select_index /\ crash = "none" /\ cur_client_index' = cur_client_index
        /\ pc' = [pc EXCEPT ![t] = "select"] /\ UNCHANGED <<i, seen>> /\ pc[t] # "select"
    BY <1>6 DEF SelectBegin, At, listvars
  <2>2. /\ \A u \in Threads : u # t => index'[u] = index[u] /\ alone'[u] = alone[u]
        /\ pc'[t] = "select"
    BY <1>6, <2>1 DEF SelectBegin, TypeOK
  <2> QED
    BY <2>1, <2>2, OtherScan
<1>7. ASSUME NEW t \in Threads, SelectEnd(t)
      PROVE  ScanInv'
  <2>1. /\ select_index' = select_index /\ crash = "none" /\ cur_client_index' = cur_client_index
        /\ \E there \in {"wload", "written"} : pc' = [pc EXCEPT ![t] = there]
        /\ i' = [i EXCEPT ![t] = 0] /\ seen' = [seen EXCEPT ![t] = {}] /\ UNCHANGED <<index, alone>>
    BY <1>7 DEF SelectEnd, SelectReturn, At, listvars
  <2>2. pc'[t] # "select"
    BY <2>1 DEF TypeOK
  <2> QED
    BY <2>1, <2>2, OtherScan
<1> QED
  BY <1>2, <1>3, <1>4, <1>5, <1>6, <1>7, SelectRoundScan DEF Next, Step

\* A scan that found no open client and that no other scan disturbed has looked
\* at every client, also when select_index wraps on the way.
THEOREM AloneScanCorrect == Spec => []AloneScanIsComplete
<1>1. Init => ScanInv
  BY DEF Init, ScanInv
<1>2. TypeOK /\ ScanInv => AloneScanIsComplete
  <2> SUFFICES ASSUME TypeOK, ScanInv, NEW t \in Threads,
                      pc[t] = "select", i[t] >= cur_client_index, alone[t]
               PROVE  seen[t] = 0..(cur_client_index - 1)
    BY DEF AloneScanIsComplete
  <2>1. Scanning(t) /\ i[t] \in Nat /\ cur_client_index \in Nat
    BY DEF ScanInv, TypeOK
  <2>2. CASE i[t] = 0 /\ seen[t] = {}
    BY <2>1, <2>2
  <2>3. CASE /\ i[t] \in 1..cur_client_index /\ index[t] \in 0..(cur_client_index - 1)
             /\ seen[t] = Walked(index[t], cur_client_index, i[t])
    <3>1. i[t] = cur_client_index /\ cur_client_index \in Nat \ {0}
      BY <2>1, <2>3
    <3> QED
      BY <2>3, <3>1, WalkedFacts
  <2> QED
    BY <2>1, <2>2, <2>3 DEF Scanning
<1> QED
  BY <1>1, <1>2, InitType, NextType, NextScan, PTL DEF Spec

=============================================================================
