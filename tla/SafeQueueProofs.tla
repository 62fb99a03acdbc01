--------------------------- MODULE SafeQueueProofs ---------------------------
(* The pointer-level queue keeps its list, for any number of threads, values *)
(* and pushes. *)
EXTENDS SafeQueue, TLAPS

\* Threads inside the two critical sections; a thread that aborted never unlocks.
Pushing(p) == ppc[p] \in {"inc", "link", "tail"}
Popping(c) == cpc[c] \in {"check", "dec", "erase", "return", "abort"}

\* Each lock is held by at most one thread.
LocksOK ==
    /\ \A p \in Producers : Pushing(p) => h_lock_
    /\ \A p, q \in Producers : Pushing(p) /\ Pushing(q) => p = q
    /\ \A c \in Consumers : Popping(c) => t_lock_
    /\ \A c, d \in Consumers : Popping(c) /\ Popping(d) => c = d

\* The nodes from head_ on form a chain of distinct nodes that ends in NULL, and
\* what pop deleted is exactly what was in front of head_.
ListOK ==
    /\ popped < Len(linked)
    /\ \A i \in 1..Len(linked) : linked[i] <= allocated
    /\ \A i, j \in 1..Len(linked) : linked[i] = linked[j] => i = j
    /\ \A i \in 1..(Len(linked) - 1) : next[linked[i]] = linked[i + 1]
    /\ next[linked[Len(linked)]] = NULL
    /\ head_ = linked[popped + 1]
    /\ freed = {linked[i] : i \in 1..popped}

\* tail_ is the last node, except between the two stores of a push.
TailOK ==
    /\ (\A p \in Producers : ppc[p] # "tail") => tail_ = linked[Len(linked)]
    /\ \A p \in Producers : ppc[p] = "tail" => node[p] = linked[Len(linked)]

\* A node a push has made and not linked is in nobody else's hands.
FreshOK ==
    /\ \A p \in Producers :
          ppc[p] \in {"lock", "inc", "link"} =>
              /\ node[p] \in 1..allocated
              /\ next[node[p]] = NULL
              /\ val[node[p]] \in Values
              /\ \A i \in 1..Len(linked) : linked[i] # node[p]
    /\ \A p, q \in Producers :
          /\ ppc[p] \in {"lock", "inc", "link"}
          /\ ppc[q] \in {"lock", "inc", "link"}
          /\ node[p] = node[q]
          => p = q

\* pop found a successor of head_ and nobody else moves head_.
PopOK == \A c \in Consumers : cpc[c] \in {"dec", "erase"} => popped + 1 < Len(linked)

Inv == TypeOK /\ LocksOK /\ ListOK /\ TailOK /\ FreshOK /\ PopOK /\ SizeAccounts

\* The constructor establishes the invariant: one dummy node, nobody inside.
LEMMA InitInv == Init => Inv
<1> SUFFICES ASSUME Init PROVE Inv
  OBVIOUS
<1> USE SafeQueueAssumption DEF Init, Node
<1>1. TypeOK
  <2>1. linked \in Seq(Node)
    OBVIOUS
  <2>2. /\ head_ \in Node /\ tail_ \in Node
        /\ next \in [Node -> Node \cup {NULL}]
        /\ val \in [Node -> Values \cup {NoValue}]
        /\ freed \in SUBSET Node
        /\ size_ \in Int /\ allocated \in 0..MaxPush /\ popped \in Nat
        /\ node \in [Producers -> Node]
        /\ got \in [Consumers -> Values \cup {NoValue}]
    OBVIOUS
  <2>3. /\ h_lock_ \in BOOLEAN /\ t_lock_ \in BOOLEAN
        /\ ppc \in [Producers -> PushPC]
        /\ cpc \in [Consumers -> PopPC]
    BY DEF PushPC, PopPC
  <2> QED
    BY <2>1, <2>2, <2>3 DEF TypeOK
<1>2. LocksOK
  BY DEF LocksOK, Pushing, Popping
<1>3. ListOK
  BY DEF ListOK
<1>4. TailOK /\ FreshOK /\ PopOK
  BY DEF TailOK, FreshOK, PopOK
<1>5. SizeAccounts
  BY DEF SizeAccounts, Length, CountedEarly, UncountedEarly
<1> QED
  BY <1>1, <1>2, <1>3, <1>4, <1>5 DEF Inv

\* What the list holds are nodes that were allocated.
LEMMA LinkedNodes ==
    ASSUME Inv
    PROVE  \A i \in 1..Len(linked) : linked[i] \in 0..allocated /\ linked[i] \in Node
<1>1. linked \in Seq(Node) /\ allocated \in 0..MaxPush
  BY DEF Inv, TypeOK
<1>2. \A i \in 1..Len(linked) : linked[i] <= allocated
  BY DEF Inv, ListOK
<1>3. \A i \in 1..Len(linked) : linked[i] \in Node
  BY <1>1
<1> QED
  BY <1>1, <1>2, <1>3, SafeQueueAssumption DEF Node

\* new NODE: the node is fresh and its producer's own.
LEMMA PushNewInv ==
    ASSUME Inv, NEW p \in Producers, NEW v \in Values, PushNew(p, v)
    PROVE  Inv'
<1> USE SafeQueueAssumption DEF Inv, PushNew, ProducerAt, Node
<1>1. TypeOK'
  BY DEF TypeOK, PushPC, PopPC
<1>2. LocksOK'
  BY DEF TypeOK, LocksOK, Pushing, Popping
<1>3. ListOK'
  <2>1. \A i \in 1..Len(linked) : linked[i] \in 0..allocated
    BY LinkedNodes
  <2>2. \A i \in 1..Len(linked) : next'[linked[i]] = next[linked[i]]
    BY <2>1 DEF TypeOK
  <2>3. Len(linked) \in Nat /\ Len(linked) >= 1 /\ popped \in Nat
    BY DEF TypeOK, ListOK
  <2>4. allocated \in Nat /\ allocated' = allocated + 1
    BY DEF TypeOK
  <2> QED
    BY <2>1, <2>2, <2>3, <2>4 DEF ListOK
<1>4. TailOK'
  BY DEF TypeOK, ListOK, LocksOK, Pushing, Popping, TailOK, FreshOK
<1>5. FreshOK'
  <2>1. allocated + 1 \in Node /\ allocated' = allocated + 1
    BY DEF TypeOK
  <2>2. \A q \in Producers :
            q # p /\ ppc[q] \in {"lock", "inc", "link"} =>
                /\ node'[q] = node[q]
                /\ node[q] \in 1..allocated
                /\ next'[node[q]] = NULL
                /\ val'[node[q]] \in Values
    BY <2>1 DEF TypeOK, FreshOK
  <2>3. /\ node'[p] = allocated + 1
        /\ next'[allocated + 1] = NULL
        /\ val'[allocated + 1] = v
        /\ \A i \in 1..Len(linked) : linked[i] # allocated + 1
    BY <2>1 DEF TypeOK, ListOK
  <2> QED
    BY <2>1, <2>2, <2>3 DEF TypeOK, FreshOK
<1>6. PopOK'
  BY DEF TypeOK, ListOK, LocksOK, Popping, PopOK
<1>7. SizeAccounts'
  BY DEF TypeOK, SizeAccounts, Length, CountedEarly, UncountedEarly, LocksOK, Pushing, Popping
<1> QED
  BY <1>1, <1>2, <1>3, <1>4, <1>5, <1>6, <1>7 DEF Inv

\* scoped_lock in push(): the producer becomes the only one inside.
LEMMA PushLockInv ==
    ASSUME Inv, NEW p \in Producers, PushLock(p)
    PROVE  Inv'
<1> USE SafeQueueAssumption DEF Inv, PushLock, ProducerAt, Node
<1>1. TypeOK'
  BY DEF TypeOK, PushPC, PopPC
<1>2. LocksOK'
  BY DEF TypeOK, LocksOK, Pushing, Popping
<1>3. ListOK'
  BY DEF ListOK
<1>4. TailOK'
  BY DEF TypeOK, ListOK, LocksOK, Pushing, Popping, TailOK, FreshOK
<1>5. FreshOK'
  BY DEF TypeOK, FreshOK
<1>6. PopOK'
  BY DEF TypeOK, ListOK, LocksOK, Popping, PopOK
<1>7. SizeAccounts'
  BY DEF TypeOK, SizeAccounts, Length, CountedEarly, UncountedEarly, LocksOK, Pushing, Popping
<1> QED
  BY <1>1, <1>2, <1>3, <1>4, <1>5, <1>6, <1>7 DEF Inv

\* size_++ before the node is linked: CountedEarly turns 1.
LEMMA PushIncInv ==
    ASSUME Inv, NEW p \in Producers, PushInc(p)
    PROVE  Inv'
<1> USE SafeQueueAssumption DEF Inv, PushInc, ProducerAt, Node
<1>1. TypeOK'
  BY DEF TypeOK, PushPC, PopPC
<1>2. LocksOK'
  BY DEF TypeOK, LocksOK, Pushing, Popping
<1>3. ListOK'
  BY DEF ListOK
<1>4. TailOK'
  BY DEF TypeOK, ListOK, LocksOK, Pushing, Popping, TailOK, FreshOK
<1>5. FreshOK'
  BY DEF TypeOK, FreshOK
<1>6. PopOK'
  BY DEF TypeOK, ListOK, LocksOK, Popping, PopOK
<1>7. SizeAccounts'
  BY DEF TypeOK, SizeAccounts, Length, CountedEarly, UncountedEarly, LocksOK, Pushing, Popping
<1> QED
  BY <1>1, <1>2, <1>3, <1>4, <1>5, <1>6, <1>7 DEF Inv

\* tail_->next = node: the chain grows by one, tail_ lags behind.
LEMMA PushLinkInv ==
    ASSUME Inv, NEW p \in Producers, PushLink(p)
    PROVE  Inv'
<1> USE SafeQueueAssumption DEF Inv, PushLink, ProducerAt, Node
<1>a. /\ tail_ = linked[Len(linked)]
      /\ node[p] \in 1..allocated
      /\ next[node[p]] = NULL
      /\ \A i \in 1..Len(linked) : linked[i] # node[p]
  BY DEF TypeOK, LocksOK, Pushing, TailOK, FreshOK
<1>b. /\ linked \in Seq(Node)
      /\ Len(linked) \in Nat \ {0}
      /\ linked' \in Seq(Node)
      /\ Len(linked') = Len(linked) + 1
      /\ linked'[Len(linked) + 1] = node[p]
      /\ \A i \in 1..Len(linked) : linked[i] \in Node /\ linked'[i] = linked[i]
  <2>1. linked \in Seq(Node) /\ node[p] \in Node /\ Len(linked) \in Nat \ {0}
    BY <1>a DEF TypeOK, ListOK
  <2>2. linked' = Append(linked, node[p])
    OBVIOUS
  <2> HIDE DEF PushLink, Node, Inv
  <2> QED
    BY <2>1, <2>2
<1>c. /\ next'[tail_] = node[p]
      /\ next'[node[p]] = NULL
      /\ \A n \in Node : n # tail_ => next'[n] = next[n]
  BY <1>a, <1>b DEF TypeOK
<1>1. TypeOK'
  BY <1>a, <1>b DEF TypeOK, PushPC
<1>2. LocksOK'
  BY DEF TypeOK, LocksOK, Pushing, Popping
<1>3. ListOK'
  <2>1. \A i \in 1..Len(linked) : next'[linked'[i]] = linked'[i + 1]
    <3> TAKE i \in 1..Len(linked)
    <3>1. CASE i = Len(linked)
      BY <3>1, <1>a, <1>b, <1>c
    <3>2. CASE i # Len(linked)
      <4>1. i \in 1..(Len(linked) - 1) /\ i + 1 \in 1..Len(linked)
        BY <3>2, <1>b
      <4>2. linked[i] # tail_
        BY <4>1, <1>a, <1>b DEF ListOK
      <4> QED
        BY <4>1, <4>2, <1>b, <1>c DEF ListOK
    <3> QED
      BY <3>1, <3>2
  <2>2. \A i, j \in 1..Len(linked') : linked'[i] = linked'[j] => i = j
    BY <1>a, <1>b DEF ListOK
  <2>3. \A i \in 1..Len(linked') : linked'[i] <= allocated'
    BY <1>a, <1>b DEF ListOK
  <2>4. freed' = {linked'[i] : i \in 1..popped'}
    BY <1>b DEF TypeOK, ListOK
  <2>5. popped' < Len(linked') /\ head_' = linked'[popped' + 1]
    BY <1>b DEF TypeOK, ListOK
  <2>6. next'[linked'[Len(linked')]] = NULL
    BY <1>b, <1>c
  <2>7. \A i \in 1..(Len(linked') - 1) : next'[linked'[i]] = linked'[i + 1]
    BY <2>1, <1>b
  <2> QED
    BY <2>2, <2>3, <2>4, <2>5, <2>6, <2>7 DEF ListOK
<1>4. TailOK'
  BY DEF TypeOK, ListOK, LocksOK, Pushing, Popping, TailOK, FreshOK
<1>5. FreshOK'
  <2>1. ASSUME NEW q \in Producers, ppc'[q] \in {"lock", "inc", "link"}
        PROVE  /\ q # p
               /\ ppc[q] = ppc'[q]
               /\ node[q] # node[p]
               /\ node[q] \in 1..allocated
               /\ node[q] \in Node
               /\ node[q] # tail_
    BY <2>1, <1>a, <1>b DEF TypeOK, FreshOK
  <2>2. ASSUME NEW q \in Producers, ppc'[q] \in {"lock", "inc", "link"}
        PROVE  /\ next'[node[q]] = NULL
               /\ val[node[q]] \in Values
               /\ \A i \in 1..Len(linked') : linked'[i] # node[q]
    BY <2>1, <2>2, <1>b, <1>c DEF FreshOK
  <2> QED
    BY <2>1, <2>2 DEF FreshOK
<1>6. PopOK'
  BY DEF TypeOK, ListOK, LocksOK, Popping, PopOK
<1>7. SizeAccounts'
  BY DEF TypeOK, SizeAccounts, Length, CountedEarly, UncountedEarly, LocksOK, Pushing, Popping
<1> QED
  BY <1>1, <1>2, <1>3, <1>4, <1>5, <1>6, <1>7 DEF Inv

\* tail_ = node and the unlock: tail_ is the last node again.
LEMMA PushTailInv ==
    ASSUME Inv, NEW p \in Producers, PushTail(p)
    PROVE  Inv'
<1> USE SafeQueueAssumption DEF Inv, PushTail, ProducerAt, Node
<1>1. TypeOK'
  BY DEF TypeOK, PushPC, PopPC
<1>2. LocksOK'
  BY DEF TypeOK, LocksOK, Pushing, Popping
<1>3. ListOK'
  BY DEF ListOK
<1>4. TailOK'
  BY DEF TypeOK, ListOK, LocksOK, Pushing, Popping, TailOK, FreshOK
<1>5. FreshOK'
  BY DEF TypeOK, ListOK, LocksOK, Pushing, TailOK, FreshOK
<1>6. PopOK'
  BY DEF TypeOK, ListOK, LocksOK, Popping, PopOK
<1>7. SizeAccounts'
  BY DEF TypeOK, SizeAccounts, Length, CountedEarly, UncountedEarly, LocksOK, Pushing, Popping
<1> QED
  BY <1>1, <1>2, <1>3, <1>4, <1>5, <1>6, <1>7 DEF Inv

\* size() reads without a lock and changes nothing.
LEMMA SizeCheckInv ==
    ASSUME Inv, NEW c \in Consumers, SizeCheck(c)
    PROVE  Inv'
<1> USE SafeQueueAssumption DEF Inv, SizeCheck, ConsumerAt, Node
<1>1. TypeOK'
  BY DEF TypeOK, PushPC, PopPC
<1>2. LocksOK'
  BY DEF TypeOK, LocksOK, Pushing, Popping
<1>3. ListOK'
  BY DEF ListOK
<1>4. TailOK'
  BY DEF TypeOK, ListOK, LocksOK, Pushing, Popping, TailOK, FreshOK
<1>5. FreshOK'
  BY DEF TypeOK, FreshOK
<1>6. PopOK'
  BY DEF TypeOK, ListOK, LocksOK, Popping, PopOK
<1>7. SizeAccounts'
  BY DEF TypeOK, SizeAccounts, Length, CountedEarly, UncountedEarly, LocksOK, Pushing, Popping
<1> QED
  BY <1>1, <1>2, <1>3, <1>4, <1>5, <1>6, <1>7 DEF Inv

\* concurrent_lock in pop(): the consumer becomes the only one inside.
LEMMA PopLockInv ==
    ASSUME Inv, NEW c \in Consumers, PopLock(c)
    PROVE  Inv'
<1> USE SafeQueueAssumption DEF Inv, PopLock, ConsumerAt, Node
<1>1. TypeOK'
  BY DEF TypeOK, PushPC, PopPC
<1>2. LocksOK'
  BY DEF TypeOK, LocksOK, Pushing, Popping
<1>3. ListOK'
  BY DEF ListOK
<1>4. TailOK'
  BY DEF TypeOK, ListOK, LocksOK, Pushing, Popping, TailOK, FreshOK
<1>5. FreshOK'
  BY DEF TypeOK, FreshOK
<1>6. PopOK'
  BY DEF TypeOK, ListOK, LocksOK, Popping, PopOK
<1>7. SizeAccounts'
  BY DEF TypeOK, SizeAccounts, Length, CountedEarly, UncountedEarly, LocksOK, Pushing, Popping
<1> QED
  BY <1>1, <1>2, <1>3, <1>4, <1>5, <1>6, <1>7 DEF Inv

\* empty_() true: the assert ends the process, the list is as it was.
LEMMA PopEmptyInv ==
    ASSUME Inv, NEW c \in Consumers, PopEmpty(c)
    PROVE  Inv'
<1> USE SafeQueueAssumption DEF Inv, PopEmpty, ConsumerAt, Node
<1>1. TypeOK'
  BY DEF TypeOK, PushPC, PopPC
<1>2. LocksOK'
  BY DEF TypeOK, LocksOK, Pushing, Popping
<1>3. ListOK'
  BY DEF ListOK
<1>4. TailOK'
  BY DEF TypeOK, ListOK, LocksOK, Pushing, Popping, TailOK, FreshOK
<1>5. FreshOK'
  BY DEF TypeOK, FreshOK
<1>6. PopOK'
  BY DEF TypeOK, ListOK, LocksOK, Popping, PopOK
<1>7. SizeAccounts'
  BY DEF TypeOK, SizeAccounts, Length, CountedEarly, UncountedEarly, LocksOK, Pushing, Popping
<1> QED
  BY <1>1, <1>2, <1>3, <1>4, <1>5, <1>6, <1>7 DEF Inv

\* empty_() false: a node behind head_ stays there, as only pop() removes.
LEMMA PopNonEmptyInv ==
    ASSUME Inv, NEW c \in Consumers, PopNonEmpty(c)
    PROVE  Inv'
<1> USE SafeQueueAssumption DEF Inv, PopNonEmpty, ConsumerAt, Node
<1>1. TypeOK'
  BY DEF TypeOK, PushPC, PopPC
<1>2. LocksOK'
  BY DEF TypeOK, LocksOK, Pushing, Popping
<1>3. ListOK'
  BY DEF ListOK
<1>4. TailOK'
  BY DEF TypeOK, ListOK, LocksOK, Pushing, Popping, TailOK, FreshOK
<1>5. FreshOK'
  BY DEF TypeOK, FreshOK
<1>6. PopOK'
  BY DEF TypeOK, ListOK, LocksOK, Popping, PopOK
<1>7. SizeAccounts'
  BY DEF TypeOK, SizeAccounts, Length, CountedEarly, UncountedEarly, LocksOK, Pushing, Popping
<1> QED
  BY <1>1, <1>2, <1>3, <1>4, <1>5, <1>6, <1>7 DEF Inv

\* size_-- before the node is unlinked: UncountedEarly turns 1.
LEMMA PopDecInv ==
    ASSUME Inv, NEW c \in Consumers, PopDec(c)
    PROVE  Inv'
<1> USE SafeQueueAssumption DEF Inv, PopDec, ConsumerAt, Node
<1>1. TypeOK'
  BY DEF TypeOK, PushPC, PopPC
<1>2. LocksOK'
  BY DEF TypeOK, LocksOK, Pushing, Popping
<1>3. ListOK'
  BY DEF ListOK
<1>4. TailOK'
  BY DEF TypeOK, ListOK, LocksOK, Pushing, Popping, TailOK, FreshOK
<1>5. FreshOK'
  BY DEF TypeOK, FreshOK
<1>6. PopOK'
  BY DEF TypeOK, ListOK, LocksOK, Popping, PopOK
<1>7. SizeAccounts'
  <2>1. ~\E d \in Consumers : cpc[d] = "erase"
    BY DEF TypeOK, LocksOK, Popping
  <2>2. \E d \in Consumers : cpc'[d] = "erase"
    BY DEF TypeOK
  <2>3. UncountedEarly = 0 /\ UncountedEarly' = 1
    BY <2>1, <2>2 DEF UncountedEarly
  <2>4. CountedEarly' = CountedEarly /\ CountedEarly \in Int
    BY DEF CountedEarly
  <2>5. Length' = Length /\ Length \in Int /\ size_ \in Int
    BY DEF TypeOK, Length
  <2> QED
    BY <2>3, <2>4, <2>5 DEF SizeAccounts
<1> QED
  BY <1>1, <1>2, <1>3, <1>4, <1>5, <1>6, <1>7 DEF Inv

\* head_ = erase_(head_): the dummy is deleted, the chain starts one later.
LEMMA PopEraseInv ==
    ASSUME Inv, NEW c \in Consumers, PopErase(c)
    PROVE  Inv'
<1> USE SafeQueueAssumption DEF Inv, PopErase, ConsumerAt, Node
<1>a. /\ linked \in Seq(Node)
      /\ popped \in Nat
      /\ Len(linked) \in Nat
      /\ popped + 1 \in 1..(Len(linked) - 1)
      /\ popped + 2 \in 1..Len(linked)
  BY DEF TypeOK, PopOK
<1>b. next[head_] = linked[popped + 2]
  <2>1. head_ = linked[popped + 1]
    BY DEF ListOK
  <2>2. \A i \in 1..(Len(linked) - 1) : next[linked[i]] = linked[i + 1]
    BY DEF ListOK
  <2>3. next[linked[popped + 1]] = linked[(popped + 1) + 1]
    BY <1>a, <2>2
  <2>4. (popped + 1) + 1 = popped + 2
    BY <1>a
  <2> QED
    BY <2>1, <2>3, <2>4
<1>c. linked[popped + 2] \in Node
  BY <1>a
<1>1. TypeOK'
  BY <1>a, <1>b, <1>c DEF TypeOK, PopPC
<1>2. LocksOK'
  BY DEF TypeOK, LocksOK, Pushing, Popping
<1>3. ListOK'
  <2>1. freed' = {linked[i] : i \in 1..(popped + 1)}
    <3>1. freed' = {linked[i] : i \in 1..popped} \cup {linked[popped + 1]}
      BY DEF ListOK
    <3>2. 1..(popped + 1) = (1..popped) \cup {popped + 1}
      BY <1>a
    <3> QED
      BY <3>1, <3>2
  <2>2. head_' = linked[popped' + 1] /\ popped' < Len(linked)
    BY <1>a, <1>b
  <2>3. freed' = {linked'[i] : i \in 1..popped'}
    BY <2>1, <1>a
  <2>4. linked' = linked /\ next' = next /\ allocated' = allocated
    OBVIOUS
  <2> HIDE DEF PopErase
  <2> QED
    BY <2>2, <2>3, <2>4 DEF ListOK
<1>4. TailOK'
  BY DEF TypeOK, ListOK, LocksOK, Pushing, Popping, TailOK, FreshOK
<1>5. FreshOK'
  BY DEF TypeOK, ListOK, LocksOK, Pushing, TailOK, FreshOK
<1>6. PopOK'
  BY DEF TypeOK, ListOK, LocksOK, Popping, PopOK
<1>7. SizeAccounts'
  <2>1. \E d \in Consumers : cpc[d] = "erase"
    OBVIOUS
  <2>2. ~\E d \in Consumers : cpc'[d] = "erase"
    BY DEF TypeOK, LocksOK, Popping
  <2>3. UncountedEarly = 1 /\ UncountedEarly' = 0
    BY <2>1, <2>2 DEF UncountedEarly
  <2>4. CountedEarly' = CountedEarly /\ CountedEarly \in Int
    BY DEF CountedEarly
  <2>5. Length' = Length - 1 /\ Length \in Int /\ size_ \in Int
    BY <1>a DEF TypeOK, Length
  <2> QED
    BY <2>3, <2>4, <2>5 DEF SizeAccounts
<1> QED
  BY <1>1, <1>2, <1>3, <1>4, <1>5, <1>6, <1>7 DEF Inv

\* The value is returned and the lock released.
LEMMA PopReturnInv ==
    ASSUME Inv, NEW c \in Consumers, PopReturn(c)
    PROVE  Inv'
<1> USE SafeQueueAssumption DEF Inv, PopReturn, ConsumerAt, Node
<1>1. TypeOK'
  BY DEF TypeOK, PushPC, PopPC
<1>2. LocksOK'
  BY DEF TypeOK, LocksOK, Pushing, Popping
<1>3. ListOK'
  BY DEF ListOK
<1>4. TailOK'
  BY DEF TypeOK, ListOK, LocksOK, Pushing, Popping, TailOK, FreshOK
<1>5. FreshOK'
  BY DEF TypeOK, FreshOK
<1>6. PopOK'
  BY DEF TypeOK, ListOK, LocksOK, Popping, PopOK
<1>7. SizeAccounts'
  BY DEF TypeOK, SizeAccounts, Length, CountedEarly, UncountedEarly, LocksOK, Pushing, Popping
<1> QED
  BY <1>1, <1>2, <1>3, <1>4, <1>5, <1>6, <1>7 DEF Inv

-----------------------------------------------------------------------------

\* Every step of every thread preserves the invariant.
LEMMA NextInv ==
    ASSUME Inv, [Next]_vars
    PROVE  Inv'
<1>1. CASE UNCHANGED vars
  BY <1>1 DEF Inv, vars, qvars, TypeOK, LocksOK, Pushing, Popping, ListOK, TailOK, FreshOK,
              PopOK, SizeAccounts, Length, CountedEarly, UncountedEarly
<1>2. CASE Next
  <2>1. CASE \E p \in Producers : Produce(p)
    BY <2>1, PushNewInv, PushLockInv, PushIncInv, PushLinkInv, PushTailInv DEF Produce
  <2>2. CASE \E c \in Consumers : Consume(c)
    BY <2>2, SizeCheckInv, PopLockInv, PopEmptyInv, PopNonEmptyInv, PopDecInv, PopEraseInv,
       PopReturnInv DEF Consume
  <2> QED
    BY <1>2, <2>1, <2>2 DEF Next
<1> QED
  BY <1>1, <1>2

\* The inductive invariant holds in every reachable state.
THEOREM QueueInvariant == Spec => []Inv
<1>1. Inv /\ [Next]_vars => Inv'
  BY NextInv
<1> QED
  BY InitInv, <1>1, PTL DEF Spec

\* Every variable of the queue keeps its type, in particular head_ never
\* becomes NULL: pop() never follows the last node.
THEOREM TypeCorrect == Spec => []TypeOK
<1>1. Inv => TypeOK
  BY DEF Inv
<1> QED
  BY QueueInvariant, <1>1, PTL

\* The counter agrees with the list up to the push and the pop under way.
THEOREM SizeCorrect == Spec => []SizeAccounts
<1>1. Inv => SizeAccounts
  BY DEF Inv
<1> QED
  BY QueueInvariant, <1>1, PTL

\* Deleted nodes lie before head_, and push() stores only behind the last node.
LEMMA InvNoUseAfterFree == Inv => NoUseAfterFree
<1> SUFFICES ASSUME Inv PROVE NoUseAfterFree
  OBVIOUS
<1>1. popped \in Nat /\ Len(linked) \in Nat /\ popped < Len(linked)
  BY DEF Inv, TypeOK, ListOK
<1>2. \A i \in (popped + 1)..Len(linked) : linked[i] \in Live
  <2> TAKE i \in (popped + 1)..Len(linked)
  <2>1. i \in 1..Len(linked) /\ \A j \in 1..popped : j \in 1..Len(linked) /\ j # i
    BY <1>1
  <2>2. linked[i] \in 0..allocated
    BY <2>1, LinkedNodes
  <2>3. linked[i] \notin freed
    BY <2>1 DEF Inv, ListOK
  <2> QED
    BY <2>2, <2>3 DEF Live
<1>3. head_ \in Live
  BY <1>1, <1>2 DEF Inv, ListOK
<1>4. ASSUME NEW p \in Producers, ppc[p] \in {"inc", "link"}
      PROVE  tail_ \in Live
  <2>1. tail_ = linked[Len(linked)]
    BY <1>4 DEF Inv, LocksOK, Pushing, TailOK
  <2> QED
    BY <2>1, <1>1, <1>2
<1> QED
  BY <1>3, <1>4 DEF NoUseAfterFree

\* push and pop hold different locks, and yet neither end of the list ever
\* reaches a node pop() has deleted.
THEOREM MemorySafe == Spec => []NoUseAfterFree
BY QueueInvariant, InvNoUseAfterFree, PTL

-----------------------------------------------------------------------------
(* The refinement *)

\* What Contents and Returned look at.
LEMMA ListFacts ==
    ASSUME Inv
    PROVE  /\ linked \in Seq(Node)
           /\ popped \in Nat
           /\ Len(linked) \in Nat
           /\ Length \in Nat
           /\ Length = Len(linked) - 1 - popped
           /\ \A i \in 1..Len(linked) : linked[i] \in 0..allocated /\ linked[i] \in Node
           /\ head_ \in 0..allocated
<1>1. linked \in Seq(Node) /\ popped \in Nat /\ Len(linked) \in Nat
  BY DEF Inv, TypeOK
<1>2. popped < Len(linked) /\ head_ = linked[popped + 1]
  BY DEF Inv, ListOK
<1>3. Length = Len(linked) - 1 - popped /\ Length \in Nat
  BY <1>1, <1>2 DEF Length
<1>4. head_ \in 0..allocated
  BY <1>1, <1>2, LinkedNodes
<1> QED
  BY <1>1, <1>3, <1>4, LinkedNodes

\* A step that leaves alone everything the abstract queue shows; a pop that
\* returns hands over the value it has taken before.
Hidden ==
    /\ linked' = linked
    /\ popped' = popped
    /\ head_' = head_
    /\ \A n \in 0..allocated : val'[n] = val[n]
    /\ \A c \in Consumers :
          \/ cpc'[c] = cpc[c] /\ got'[c] = got[c]
          \/ cpc'[c] # "return" /\ cpc[c] # "return" /\ got'[c] = got[c]
          \/ cpc'[c] # "return" /\ cpc[c] = "return" /\ got'[c] = val[head_]

\* A step that is Hidden is a stutter of the abstract queue.
LEMMA HiddenView ==
    ASSUME Inv, Hidden
    PROVE  Contents' = Contents /\ Returned' = Returned
<1> USE DEF Hidden
<1>1. Length' = Length
  BY DEF Length
<1>2. \A i \in 1..Length : popped + 1 + i \in 1..Len(linked)
  BY ListFacts
<1>3. Contents' = Contents
  BY <1>1, <1>2, ListFacts DEF Contents
<1>4. \A c \in Consumers : (IF cpc'[c] = "return" THEN val'[head_'] ELSE got'[c])
                          = (IF cpc[c] = "return" THEN val[head_] ELSE got[c])
  BY ListFacts
<1> QED
  BY <1>3, <1>4 DEF Returned

\* tail_->next = node appends the value to the queue.
LEMMA PushLinkView ==
    ASSUME Inv, NEW p \in Producers, PushLink(p)
    PROVE  Fifo!Push(val[node[p]]) /\ val[node[p]] \in Values
<1>1. val[node[p]] \in Values /\ node[p] \in Node
  BY DEF Inv, TypeOK, FreshOK, PushLink, ProducerAt
<1>2. linked' = Append(linked, node[p]) /\ popped' = popped /\ val' = val /\ head_' = head_
      /\ cpc' = cpc /\ got' = got
  BY DEF PushLink, ProducerAt
<1>3. Length' = Length + 1
  BY <1>1, <1>2, ListFacts DEF Length
<1>4. \A i \in 1..Length : linked'[popped + 1 + i] = linked[popped + 1 + i]
  BY <1>1, <1>2, ListFacts
<1>5. linked'[popped + 1 + (Length + 1)] = node[p]
  BY <1>1, <1>2, ListFacts
<1>6. Contents' = Append(Contents, val[node[p]])
  <2>1. Contents' = [i \in 1..(Length + 1) |-> val[linked'[popped + 1 + i]]]
    BY <1>2, <1>3 DEF Contents
  <2>2. Len(Contents) = Length /\ Length \in Nat
    BY ListFacts DEF Contents
  <2>3. \A i \in 1..Length : Contents[i] = val[linked[popped + 1 + i]]
    BY DEF Contents
  <2>4. Append(Contents, val[node[p]])
            = [i \in 1..(Length + 1) |-> IF i \in 1..Length THEN Contents[i] ELSE val[node[p]]]
    BY <2>2
  <2>5. \A i \in 1..(Length + 1) :
            val[linked'[popped + 1 + i]] = IF i \in 1..Length THEN Contents[i] ELSE val[node[p]]
    BY <2>2, <2>3, <1>4, <1>5
  <2> QED
    BY <2>1, <2>4, <2>5
<1>7. Returned' = Returned
  BY <1>2 DEF Returned
<1> QED
  BY <1>1, <1>6, <1>7 DEF Fifo!Push

\* head_ = erase_(head_) takes the oldest value.
LEMMA PopEraseView ==
    ASSUME Inv, NEW c \in Consumers, PopErase(c)
    PROVE  Fifo!Pop(c)
<1>1. /\ linked' = linked /\ popped' = popped + 1 /\ val' = val /\ got' = got
      /\ cpc[c] = "erase" /\ cpc' = [cpc EXCEPT ![c] = "return"]
      /\ cpc \in [Consumers -> PopPC] /\ head_' = next[head_]
  BY DEF Inv, TypeOK, PopErase, ConsumerAt
<1>2. Length >= 1 /\ head_' = linked[popped + 2]
  BY <1>1, ListFacts DEF Inv, ListOK, PopOK
<1>3. Length' = Length - 1
  BY <1>1, ListFacts DEF Length
<1>4. Contents # <<>> /\ Head(Contents) = val[head_']
  BY <1>2, ListFacts DEF Contents
<1>5. Contents' = Tail(Contents)
  <2> DEFINE n == Length
             f(i) == val[linked[popped + 1 + i]]
  <2>1. n \in Nat /\ n >= 1 /\ popped \in Nat
    BY <1>2, ListFacts
  <2>2. Contents = [i \in 1..n |-> f(i)]
    BY DEF Contents
  <2>3. Contents' = [i \in 1..(n - 1) |-> val[linked[(popped + 1) + 1 + i]]]
    BY <1>1, <1>3 DEF Contents
  <2>4. \A i \in 1..(n - 1) : (popped + 1) + 1 + i = popped + 1 + (i + 1)
    BY <2>1
  <2>5. Contents' = [i \in 1..(n - 1) |-> f(i + 1)]
    BY <2>3, <2>4
  <2> HIDE DEF n, f
  <2>6. Tail([i \in 1..n |-> f(i)]) = [i \in 1..(n - 1) |-> f(i + 1)]
    BY <2>1
  <2> QED
    BY <2>2, <2>5, <2>6
<1>6. \A d \in Consumers : d # c => cpc[d] # "return"
  BY <1>1 DEF Inv, LocksOK, Popping
<1>7. Returned' = [Returned EXCEPT ![c] = val[head_']]
  BY <1>1, <1>6 DEF Returned
<1> QED
  BY <1>4, <1>5, <1>7 DEF Fifo!Pop

\* Every step of the pointer code is a Push, a Pop or a stutter of the queue.
LEMMA StepView ==
    ASSUME Inv, [Next]_vars
    PROVE  [Fifo!Next]_(Fifo!vars)
<1> SUFFICES \/ Contents' = Contents /\ Returned' = Returned
             \/ Fifo!Next
  BY DEF Fifo!vars
<1>1. CASE UNCHANGED vars
  BY <1>1 DEF vars, qvars, Contents, Returned, Length
<1>2. ASSUME NEW p \in Producers, Produce(p)
      PROVE  \/ Contents' = Contents /\ Returned' = Returned
             \/ Fifo!Next
  <2>1. CASE \E v \in Values : PushNew(p, v)
    <3>1. PICK v \in Values : PushNew(p, v)
      BY <2>1
    <3>2. /\ linked' = linked /\ popped' = popped /\ head_' = head_
          /\ \A n \in 0..allocated : val'[n] = val[n]
          /\ cpc' = cpc /\ got' = got
      BY <3>1, SafeQueueAssumption DEF PushNew, ProducerAt, Inv, TypeOK, Node
    <3>3. Hidden
      BY <3>2 DEF Hidden
    <3> QED
      BY <3>3, HiddenView
  <2>2. CASE PushLock(p) \/ PushInc(p) \/ PushTail(p)
    <3>1. /\ linked' = linked /\ popped' = popped /\ head_' = head_ /\ val' = val
          /\ cpc' = cpc /\ got' = got
      BY <2>2 DEF PushLock, PushInc, PushTail, ProducerAt
    <3>2. Hidden
      BY <3>1 DEF Hidden
    <3> QED
      BY <3>2, HiddenView
  <2>3. CASE PushLink(p)
    BY <2>3, PushLinkView DEF Fifo!Next
  <2> QED
    BY <1>2, <2>1, <2>2, <2>3 DEF Produce
<1>3. ASSUME NEW c \in Consumers, Consume(c)
      PROVE  \/ Contents' = Contents /\ Returned' = Returned
             \/ Fifo!Next
  <2>1. CASE SizeCheck(c) \/ PopLock(c) \/ PopEmpty(c) \/ PopNonEmpty(c) \/ PopDec(c)
    <3>1. linked' = linked /\ popped' = popped /\ head_' = head_ /\ val' = val /\ got' = got
      BY <2>1 DEF SizeCheck, PopLock, PopEmpty, PopNonEmpty, PopDec, ConsumerAt
    <3>2. \A d \in Consumers : cpc'[d] = cpc[d] \/ (cpc'[d] # "return" /\ cpc[d] # "return")
      BY <2>1 DEF SizeCheck, PopLock, PopEmpty, PopNonEmpty, PopDec, ConsumerAt, Inv, TypeOK
    <3>3. Hidden
      BY <3>1, <3>2 DEF Hidden
    <3> QED
      BY <3>3, HiddenView
  <2>2. CASE PopErase(c)
    BY <2>2, PopEraseView DEF Fifo!Next
  <2>3. CASE PopReturn(c)
    <3>1. linked' = linked /\ popped' = popped /\ head_' = head_ /\ val' = val
      BY <2>3 DEF PopReturn, ConsumerAt
    <3>2. \A d \in Consumers :
              \/ cpc'[d] = cpc[d] /\ got'[d] = got[d]
              \/ cpc'[d] # "return" /\ cpc[d] = "return" /\ got'[d] = val[head_]
      BY <2>3 DEF PopReturn, ConsumerAt, Inv, TypeOK
    <3>3. Hidden
      BY <3>1, <3>2 DEF Hidden
    <3> QED
      BY <3>3, HiddenView
  <2> QED
    BY <1>3, <2>1, <2>2, <2>3 DEF Consume
<1> QED
  BY <1>1, <1>2, <1>3 DEF Next

\* The constructed queue is the empty abstract queue.
LEMMA InitView == Init => Fifo!Init
<1> SUFFICES ASSUME Init PROVE Contents = <<>> /\ Returned = [c \in Consumers |-> NoValue]
  BY DEF Fifo!Init
<1>1. Length = 0
  BY DEF Init, Length
<1> QED
  BY <1>1 DEF Init, Contents, Returned

\* Linearisability, for every number of threads, values and pushes: the pointer
\* code implements the atomic queue.
THEOREM Linearisable == Spec => ImplementsFifo
<1>1. Inv /\ [Next]_vars => [Fifo!Next]_(Fifo!vars)
  BY StepView
<1> QED
  BY QueueInvariant, InitView, <1>1, PTL DEF Spec, ImplementsFifo, Fifo!Spec

=============================================================================
