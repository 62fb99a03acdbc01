------------------------------ MODULE SafeQueue ------------------------------
(***************************************************************************)
(* The two-lock queue of include/safequeue.hpp, pointer by pointer.  push  *)
(* works under h_lock_ and touches only tail_, pop works under t_lock_ and *)
(* touches only head_; the list always keeps one dummy node in front, the  *)
(* node whose value the last pop() returned.  The atomic counter size_ is  *)
(* shared by both and read with no lock by size().                         *)
(*                                                                         *)
(* Consumers behave as the callers in the repository do (do_write and      *)
(* erase_msg_timer of client_async_loop.h): they call pop() only after     *)
(* size() returned something else than 0.                                  *)
(*                                                                         *)
(* A failed assert in pop() calls abort(), which stops every thread.       *)
(* Pointer loads and stores are single steps: the build is plain -g for    *)
(* x86-64, so the unsynchronised accesses to the next field of the node    *)
(* both ends share yield either the old or the new pointer.                *)
(***************************************************************************)
EXTENDS Integers, Sequences

CONSTANTS
    Producers,  \* threads that call push()
    Consumers,  \* threads that call size() and pop()
    Values,     \* the values pushed
    NoValue,    \* a consumer that has not popped yet, the value of the first node
    NULL,       \* nullptr
    MaxPush     \* bound: number of push() calls

ASSUME SafeQueueAssumption ==
    /\ MaxPush \in Nat
    /\ NULL \notin Nat

\* Addresses, in allocation order.  0 is the node the constructor makes.
Node == 0..MaxPush

VARIABLES
    head_, tail_,     \* the two ends of the list
    next, val,        \* the fields of each node
    freed,            \* nodes that were deleted
    size_,            \* the atomic counter
    h_lock_, t_lock_, \* TRUE while some thread holds the mutex
    allocated,        \* number of nodes made by push() so far
    ppc, node,        \* producers: program counter, the local variable node
    cpc, got,         \* consumers: program counter, the last value returned
    linked,           \* history: nodes in the order they entered the list
    popped            \* history: number of nodes that left it

qvars == <<head_, tail_, next, val, freed, size_, h_lock_, t_lock_, allocated>>
vars == <<qvars, ppc, node, cpc, got, linked, popped>>

PushPC == {"idle", "lock", "inc", "link", "tail"}
PopPC == {"idle", "lock", "check", "dec", "erase", "return", "abort"}

\* One type invariant: every variable stays in its type.
TypeOK ==
    /\ head_ \in Node
    /\ tail_ \in Node
    /\ next \in [Node -> Node \cup {NULL}]
    /\ val \in [Node -> Values \cup {NoValue}]
    /\ freed \in SUBSET Node
    /\ size_ \in Int
    /\ h_lock_ \in BOOLEAN
    /\ t_lock_ \in BOOLEAN
    /\ allocated \in 0..MaxPush
    /\ ppc \in [Producers -> PushPC]
    /\ node \in [Producers -> Node]
    /\ cpc \in [Consumers -> PopPC]
    /\ got \in [Consumers -> Values \cup {NoValue}]
    /\ linked \in Seq(Node)
    /\ popped \in Nat

-----------------------------------------------------------------------------
(* SafeQueue(): one dummy node, both ends point at it. *)
Init ==
    /\ head_ = 0
    /\ tail_ = 0
    /\ next = [n \in Node |-> NULL]
    /\ val = [n \in Node |-> NoValue]
    /\ freed = {}
    /\ size_ = 0
    /\ h_lock_ = FALSE
    /\ t_lock_ = FALSE
    /\ allocated = 0
    /\ ppc = [p \in Producers |-> "idle"]
    /\ node = [p \in Producers |-> 0]
    /\ cpc = [c \in Consumers |-> "idle"]
    /\ got = [c \in Consumers |-> NoValue]
    /\ linked = <<0>>
    /\ popped = 0

\* abort() ends the process.
Running == \A c \in Consumers : cpc[c] # "abort"

ProducerAt(p, here, there) ==
    /\ Running
    /\ ppc[p] = here
    /\ ppc' = [ppc EXCEPT ![p] = there]
    /\ UNCHANGED <<cpc, got>>

ConsumerAt(c, here, there) ==
    /\ Running
    /\ cpc[c] = here
    /\ cpc' = [cpc EXCEPT ![c] = there]
    /\ UNCHANGED <<ppc, node, linked, allocated, tail_, next, val, h_lock_>>

-----------------------------------------------------------------------------
(* push(val) *)

\* The node is made and filled before the lock is taken.
PushNew(p, v) ==
    /\ ProducerAt(p, "idle", "lock")
    /\ allocated < MaxPush
    /\ allocated' = allocated + 1
    /\ node' = [node EXCEPT ![p] = allocated + 1]
    /\ val' = [val EXCEPT ![allocated + 1] = v]
    /\ next' = [next EXCEPT ![allocated + 1] = NULL]
    /\ UNCHANGED <<head_, tail_, freed, size_, h_lock_, t_lock_, linked, popped>>

PushLock(p) ==
    /\ ProducerAt(p, "lock", "inc")
    /\ ~h_lock_
    /\ h_lock_' = TRUE
    /\ UNCHANGED <<head_, tail_, next, val, freed, size_, t_lock_, allocated,
                   node, linked, popped>>

PushInc(p) ==
    /\ ProducerAt(p, "inc", "link")
    /\ size_' = size_ + 1
    /\ UNCHANGED <<head_, tail_, next, val, freed, h_lock_, t_lock_, allocated,
                   node, linked, popped>>

PushLink(p) ==
    /\ ProducerAt(p, "link", "tail")
    /\ next' = [next EXCEPT ![tail_] = node[p]]
    /\ linked' = Append(linked, node[p])
    /\ UNCHANGED <<head_, tail_, val, freed, size_, h_lock_, t_lock_, allocated,
                   node, popped>>

\* Mutant: push forgets tail_ = node.
PushTailForgotten(p) ==
    /\ ProducerAt(p, "tail", "idle")
    /\ h_lock_' = FALSE
    /\ UNCHANGED <<head_, tail_, next, val, freed, size_, t_lock_, allocated, node,
                   linked, popped>>

\* tail_ = node, then the destructor of scoped_lock unlocks.
PushTail(p) ==
    /\ ProducerAt(p, "tail", "idle")
    /\ tail_' = node[p]
    /\ h_lock_' = FALSE
    /\ UNCHANGED <<head_, next, val, freed, size_, t_lock_, allocated, node,
                   linked, popped>>

-----------------------------------------------------------------------------
(* size(), then pop() *)

SizeCheck(c) ==
    /\ ConsumerAt(c, "idle", "lock")
    /\ size_ # 0
    /\ UNCHANGED <<head_, freed, size_, t_lock_, got, popped>>

PopLock(c) ==
    /\ ConsumerAt(c, "lock", "check")
    /\ ~t_lock_
    /\ t_lock_' = TRUE
    /\ UNCHANGED <<head_, freed, size_, got, popped>>

PopEmpty(c) ==
    /\ next[head_] = NULL
    /\ ConsumerAt(c, "check", "abort")
    /\ UNCHANGED <<head_, freed, size_, t_lock_, got, popped>>

\* Mutant: empty_() answered from size_ instead of from the list.
PopNonEmptyBySize(c) ==
    /\ size_ # 0
    /\ ConsumerAt(c, "check", "dec")
    /\ UNCHANGED <<head_, freed, size_, t_lock_, got, popped>>

PopNonEmpty(c) ==
    /\ next[head_] # NULL
    /\ ConsumerAt(c, "check", "dec")
    /\ UNCHANGED <<head_, freed, size_, t_lock_, got, popped>>

\* Mutant: the decrement is lost.
PopDecLost(c) ==
    /\ ConsumerAt(c, "dec", "erase")
    /\ UNCHANGED <<head_, freed, size_, t_lock_, got, popped>>

PopDec(c) ==
    /\ ConsumerAt(c, "dec", "erase")
    /\ size_' = size_ - 1
    /\ UNCHANGED <<head_, freed, t_lock_, got, popped>>

\* head_ = erase_(head_): the dummy is deleted, its successor becomes the dummy.
PopErase(c) ==
    /\ ConsumerAt(c, "erase", "return")
    /\ head_' = next[head_]
    /\ freed' = freed \cup {head_}
    /\ popped' = popped + 1
    /\ UNCHANGED <<size_, t_lock_, got>>

\* Mutant: the value of the deleted dummy is returned.
PopReturnOldDummy(c) ==
    /\ ConsumerAt(c, "return", "idle")
    /\ got' = [got EXCEPT ![c] = val[linked[popped]]]
    /\ t_lock_' = FALSE
    /\ UNCHANGED <<head_, freed, size_, popped>>

PopReturn(c) ==
    /\ ConsumerAt(c, "return", "idle")
    /\ got' = [got EXCEPT ![c] = val[head_]]
    /\ t_lock_' = FALSE
    /\ UNCHANGED <<head_, freed, size_, popped>>

Produce(p) ==
    \/ \E v \in Values : PushNew(p, v)
    \/ PushLock(p) \/ PushInc(p) \/ PushLink(p) \/ PushTail(p)

Consume(c) ==
    \/ SizeCheck(c) \/ PopLock(c) \/ PopEmpty(c) \/ PopNonEmpty(c)
    \/ PopDec(c) \/ PopErase(c) \/ PopReturn(c)

Next ==
    \/ \E p \in Producers : Produce(p)
    \/ \E c \in Consumers : Consume(c)

Spec == Init /\ [][Next]_vars

-----------------------------------------------------------------------------
(* Properties *)

\* Nodes made by `new` and not yet deleted.
Live == (0..allocated) \ freed

\* The two ends never dereference a deleted node, although push and pop hold
\* different locks and pop deletes the node push may be about to link to:
\* the node behind tail_ is live when push stores into tail_->next, and the
\* node behind head_ is live whenever pop reads it.
NoUseAfterFree ==
    /\ \A p \in Producers : ppc[p] \in {"inc", "link"} => tail_ \in Live
    /\ \A c \in Consumers :
          cpc[c] \in {"check", "dec", "erase", "return"} => head_ \in Live

\* Number of values in the list behind the dummy node.
Length == Len(linked) - 1 - popped

\* A push has counted its value and not linked it; a pop has uncounted the
\* value it is about to unlink.
CountedEarly == IF \E p \in Producers : ppc[p] = "link" THEN 1 ELSE 0
UncountedEarly == IF \E c \in Consumers : cpc[c] = "erase" THEN 1 ELSE 0

\* size_ differs from the length of the list by exactly the push and the pop
\* that are halfway; so size() never misses a value no pop is about to take.
SizeAccounts == size_ = Length + CountedEarly - UncountedEarly

\* The list as a sequence of values, and the value a pop past its erase_ is
\* about to return: what the queue looks like to its users.
Contents == [i \in 1..Length |-> val[linked[popped + 1 + i]]]
Returned == [c \in Consumers |-> IF cpc[c] = "return" THEN val[head_] ELSE got[c]]

Fifo == INSTANCE FifoQueue WITH queue <- Contents, out <- Returned

\* Linearisability: every interleaving of the pointer steps is a behaviour of
\* the abstract queue, with tail_->next = node as the instant of a push and
\* head_ = erase_(head_) as the instant of a pop.
ImplementsFifo == Fifo!Spec

\* assert(false) in pop() says that no caller pops an empty queue; the callers
\* look at size() first.
PopNeverEmpty == Running

=============================================================================
