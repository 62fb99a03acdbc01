------------------------------ MODULE FifoQueue ------------------------------
(***************************************************************************)
(* What SafeQueue<T> (include/safequeue.hpp) promises its users: a queue   *)
(* to which any thread appends a value and from which any thread takes the *)
(* oldest one, both in a single step.                                      *)
(***************************************************************************)
EXTENDS Sequences

CONSTANTS
    Values,     \* what the queue carries
    Consumers,  \* the threads that call pop()
    NoValue     \* a consumer that has not popped anything yet

VARIABLES
    queue,      \* the values pushed and not yet popped, oldest first
    out         \* the last value each consumer popped

vars == <<queue, out>>

Init ==
    /\ queue = <<>>
    /\ out = [c \in Consumers |-> NoValue]

Push(v) ==
    /\ queue' = Append(queue, v)
    /\ UNCHANGED out

Pop(c) ==
    /\ queue # <<>>
    /\ out' = [out EXCEPT ![c] = Head(queue)]
    /\ queue' = Tail(queue)

Next ==
    \/ \E v \in Values : Push(v)
    \/ \E c \in Consumers : Pop(c)

Spec == Init /\ [][Next]_vars

=============================================================================
