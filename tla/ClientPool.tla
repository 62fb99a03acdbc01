----------------------------- MODULE ClientPool ------------------------------
(***************************************************************************)
(* client_loop_pool (include/client_async_loop_pool.h): threads write      *)
(* through whichever client is open and read with the handle they got, and *)
(* the pool grows by one client per new address.                           *)
(*                                                                         *)
(* add_link and destroy(ip, port) hold read_write_mutex exclusively and    *)
(* are one step each; get_client_index holds it shared and takes one step  *)
(* per round, since readers share select_index.  write() and read() index  *)
(* client_list with no lock: the vector's base is loaded in one step and   *)
(* used in the next, and push_back may have moved the vector in between.   *)
(* A client itself is module ClientLoop; here it is open or not.           *)
(*                                                                         *)
(* crash: "range" client_list was indexed behind its last element,         *)
(* "negative" in front of its first, "dangling" through a base that        *)
(* push_back has freed.                                                    *)
(***************************************************************************)
EXTENDS Integers, Sequences, FiniteSets

CONSTANTS
    Threads,         \* threads that call the pool
    Links,           \* addresses, ip and port
    Key,             \* BKDR_hash(ip) + port, which two addresses may share
    DefaultMaxNum,   \* what client_max_num is at first, 10 in the code
    MaxNums,         \* what set_c_max_num may be called with
    MaxInt,          \* the largest int
    MaxCalls,        \* bound: number of write() calls
    MaxDestroys      \* bound: number of destroy(ip, port) calls

ASSUME ClientPoolAssumption ==
    /\ IsFiniteSet(Threads)
    /\ DOMAIN Key = Links
    /\ {DefaultMaxNum, MaxInt, MaxCalls, MaxDestroys} \subseteq Nat
    /\ MaxNums \subseteq Int

Keys == {Key[l] : l \in Links}

VARIABLES
    client_list,      \* the clients: the key of each and a number of its own
    buf,              \* the storage of the vector: its generation and capacity
    link_set_poll,    \* keys of the links that have a client
    cur_client_index,
    client_max_num,
    select_index,
    open,             \* numbers of the clients whose socket is open
    pc,               \* threads: program counter
    i, index,         \* the variables of get_client_index
    base,             \* the generation of the vector whose base was loaded
    wrote,            \* the client a thread wrote to
    seen,             \* history: indices a scan found closed
    alone,            \* history: no other scan moved select_index meanwhile
    made,             \* number of clients made
    calls, destroys,  \* number of write() and destroy(ip, port) calls
    ended,            \* destroy() was called
    crash

listvars == <<client_list, buf, link_set_poll, cur_client_index, client_max_num>>
scanvars == <<i, index, seen, alone>>
countvars == <<made, calls, destroys, ended>>
vars == <<listvars, select_index, open, pc, scanvars, base, wrote,
          countvars, crash>>

\* The type invariant.
TypeOK ==
    /\ client_list \in Seq([key : Keys, id : Nat])
    /\ buf \in [gen : Nat, cap : Nat]
    /\ link_set_poll \in SUBSET Keys
    /\ cur_client_index \in Nat
    /\ client_max_num \in MaxNums \cup {DefaultMaxNum}
    /\ select_index \in (-MaxInt - 1)..MaxInt
    /\ open \in SUBSET Nat
    /\ pc \in [Threads -> {"idle", "limit", "add", "lock", "select", "wload", "wuse",
                           "written", "rload", "ruse"}]
    /\ i \in [Threads -> Nat]
    /\ index \in [Threads -> Int]
    /\ base \in [Threads -> Nat]
    /\ wrote \in [Threads -> Nat]
    /\ seen \in [Threads -> SUBSET Int]
    /\ alone \in [Threads -> BOOLEAN]
    /\ {made, calls, destroys} \subseteq Nat
    /\ ended \in BOOLEAN
    /\ crash \in {"none", "range", "negative", "dangling"}

Init ==
    /\ client_list = <<>>
    /\ buf = [gen |-> 0, cap |-> 0]
    /\ link_set_poll = {}
    /\ cur_client_index = 0
    /\ client_max_num = DefaultMaxNum
    /\ select_index = 0
    /\ open = {}
    /\ pc = [t \in Threads |-> "idle"]
    /\ i = [t \in Threads |-> 0]
    /\ index = [t \in Threads |-> -1]
    /\ base = [t \in Threads |-> 0]
    /\ wrote = [t \in Threads |-> 0]
    /\ seen = [t \in Threads |-> {}]
    /\ alone = [t \in Threads |-> TRUE]
    /\ made = 0
    /\ calls = 0
    /\ destroys = 0
    /\ ended = FALSE
    /\ crash = "none"

At(t, here, there) ==
    /\ crash = "none"
    /\ pc[t] = here
    /\ pc' = [pc EXCEPT ![t] = there]

\* boost::unique_lock: nobody holds the mutex shared.
Exclusive == \A t \in Threads : pc[t] # "select"

-----------------------------------------------------------------------------
(* write(ip, port, ...); only add_link looks at the address *)

Write(t) ==
    /\ calls < MaxCalls
    /\ At(t, "idle", "limit")
    /\ calls' = calls + 1
    /\ UNCHANGED <<listvars, select_index, open, scanvars, base, wrote, made, destroys,
                   ended, crash>>

Full == cur_client_index > client_max_num

\* add_link returns when there are too many clients; it looks before it locks.
LimitCheck(t) ==
    /\ At(t, "limit", IF Full THEN "lock" ELSE "add")
    /\ UNCHANGED <<listvars, select_index, open, scanvars, base, wrote,
                   countvars, crash>>

\* Mutant: the new client is put in front.
PushFront(c) ==
    /\ client_list' = <<c>> \o client_list
    /\ UNCHANGED buf

\* push_back: a full vector moves to storage of twice the size.
PushBack(c) ==
    /\ client_list' = Append(client_list, c)
    /\ buf' = IF Len(client_list) < buf.cap THEN buf
              ELSE [gen |-> buf.gen + 1, cap |-> IF buf.cap = 0 THEN 1 ELSE 2 * buf.cap]

AddLink(t, l) ==
    /\ Exclusive
    /\ At(t, "add", "lock")
    /\ \/ /\ Key[l] \in link_set_poll
          /\ UNCHANGED <<client_list, buf, link_set_poll, cur_client_index, made>>
       \/ /\ Key[l] \notin link_set_poll
          /\ link_set_poll' = link_set_poll \cup {Key[l]}
          /\ PushBack([key |-> Key[l], id |-> made + 1])
          /\ cur_client_index' = cur_client_index + 1
          /\ made' = made + 1
    /\ UNCHANGED <<client_max_num, select_index, open, scanvars, base, wrote, calls,
                   destroys, ended, crash>>

\* get_client_index
SelectBegin(t) ==
    /\ At(t, "lock", "select")
    /\ index' = [index EXCEPT ![t] = -1]
    /\ alone' = [alone EXCEPT ![t] = TRUE]
    /\ UNCHANGED <<listvars, select_index, open, i, seen, base, wrote, countvars,
                   crash>>

\* The remainder of C++: it has the sign of the dividend.
Rem(a, b) == IF a >= 0 THEN a % b ELSE -((-a) % b)

\* Mutant: select_index moves by two.
IncrementTwice(n) == n + 2

Increment(n) == IF n = MaxInt THEN -MaxInt - 1 ELSE n + 1

\* get_client_index returns: its variables are gone, the lock is released.
SelectReturn(t, there) ==
    /\ At(t, "select", there)
    /\ i' = [i EXCEPT ![t] = 0]
    /\ seen' = [seen EXCEPT ![t] = {}]

\* One round: index = (select_index++) % cur_client_index, then is_open().
SelectRound(t) ==
    /\ i[t] < cur_client_index
    /\ LET k == Rem(select_index, cur_client_index)
       IN /\ index' = [index EXCEPT ![t] = k]
          /\ \/ /\ k \notin 0..(Len(client_list) - 1)
                /\ At(t, "select", "select")
                /\ crash' = IF k < 0 THEN "negative" ELSE "range"
                /\ UNCHANGED <<i, seen>>
             \/ /\ k \in 0..(Len(client_list) - 1)
                /\ client_list[k + 1].id \in open
                /\ SelectReturn(t, "wload")
                /\ UNCHANGED crash
             \/ /\ k \in 0..(Len(client_list) - 1)
                /\ client_list[k + 1].id \notin open
                /\ At(t, "select", "select")
                /\ i' = [i EXCEPT ![t] = @ + 1]
                /\ seen' = [seen EXCEPT ![t] = @ \cup {k}]
                /\ UNCHANGED crash
    /\ select_index' = Increment(select_index)
    /\ alone' = [u \in Threads |-> alone[u] /\ (u = t \/ pc[u] # "select")]
    /\ UNCHANGED <<listvars, open, base, wrote, countvars>>

\* No client is open: the last index looked at is returned, -1 if there is none.
SelectEnd(t) ==
    /\ i[t] >= cur_client_index
    /\ SelectReturn(t, IF index[t] >= 0 THEN "wload" ELSE "written")
    /\ UNCHANGED <<listvars, select_index, open, index, alone, base, wrote,
                   countvars, crash>>

\* client_list[n], without the lock.
IndexLoad(t, here, there) ==
    /\ At(t, here, there)
    /\ base' = [base EXCEPT ![t] = buf.gen]
    /\ UNCHANGED <<listvars, select_index, open, scanvars, wrote, countvars,
                   crash>>

Indexed(t) == client_list[index[t] + 1].id

IndexUse(t, here, there) ==
    /\ At(t, here, there)
    /\ crash' = IF base[t] # buf.gen THEN "dangling"
                ELSE IF index[t] >= Len(client_list) THEN "range" ELSE "none"
    /\ base' = [base EXCEPT ![t] = 0]
    /\ UNCHANGED <<listvars, select_index, open, i, seen, alone, countvars>>

WriteLoad(t) == IndexLoad(t, "wload", "wuse")

WriteUse(t) ==
    /\ IndexUse(t, "wuse", "written")
    /\ wrote' = [wrote EXCEPT ![t] = IF crash' = "none" THEN Indexed(t) ELSE @]
    /\ UNCHANGED index

-----------------------------------------------------------------------------
(* read(handle) *)

\* With the index -1 it returns NULL.
Read(t) ==
    /\ At(t, "written", IF index[t] = -1 THEN "idle" ELSE "rload")
    /\ UNCHANGED <<listvars, select_index, open, scanvars, base, wrote, countvars,
                   crash>>

ReadLoad(t) == IndexLoad(t, "rload", "ruse")

\* The thread lets go of the handle.
ReadUse(t) ==
    /\ IndexUse(t, "ruse", "idle")
    /\ wrote' = [wrote EXCEPT ![t] = 0]
    /\ index' = [index EXCEPT ![t] = -1]

-----------------------------------------------------------------------------
(* destroy *)

Remove(n) == SubSeq(client_list, 1, n - 1) \o SubSeq(client_list, n + 1, Len(client_list))

\* Mutant: destroy(ip, port) counts a client less although it found none.
EraseNoneCounts(l) ==
    /\ \A n \in DOMAIN client_list : client_list[n].key # Key[l]
    /\ cur_client_index' = cur_client_index - 1
    /\ UNCHANGED <<client_list, link_set_poll, open>>

EraseNone(l) ==
    /\ \A n \in DOMAIN client_list : client_list[n].key # Key[l]
    /\ UNCHANGED <<client_list, link_set_poll, cur_client_index, open>>

\* Mutant: the key stays in link_set_poll.
ForgetNot(key) == link_set_poll

Forget(key) == link_set_poll \ {key}

\* The first client with the key leaves the list; cur_client_index stays.
EraseClient(l, n) ==
    /\ client_list[n].key = Key[l]
    /\ \A m \in 1..(n - 1) : client_list[m].key # Key[l]
    /\ client_list' = Remove(n)
    /\ link_set_poll' = Forget(Key[l])
    /\ open' = open \ {client_list[n].id}
    /\ UNCHANGED cur_client_index

\* destroy(ip, port); the client's own destroy() runs on another thread.
Destroy(t, l) ==
    /\ destroys < MaxDestroys
    /\ Exclusive
    /\ At(t, "idle", "idle")
    /\ destroys' = destroys + 1
    /\ EraseNone(l) \/ \E n \in DOMAIN client_list : EraseClient(l, n)
    /\ UNCHANGED <<buf, client_max_num, select_index, scanvars, base, wrote, made, calls,
                   ended, crash>>

\* destroy(), with no lock: main calls it when its threads are done, and so
\* does the handler of SIGINT and SIGTERM, at any time.  One client goes per step.
DestroyFirst ==
    /\ crash = "none"
    /\ client_list # <<>>
    /\ ended' = TRUE
    /\ client_list' = Tail(client_list)
    /\ open' = open \ {Head(client_list).id}
    /\ UNCHANGED <<buf, link_set_poll, cur_client_index, client_max_num, select_index, pc,
                   scanvars, base, wrote, made, calls, destroys, crash>>

-----------------------------------------------------------------------------
\* set_c_max_num, with no lock.  The size is unsigned, and so is v compared with
\* it: a negative v is larger than any size.
set_c_max_num(v) ==
    /\ crash = "none"
    /\ v < 0 \/ Len(client_list) < v
    /\ client_max_num' = v
    /\ UNCHANGED <<client_list, buf, link_set_poll, cur_client_index, select_index, open,
                   pc, scanvars, base, wrote, countvars, crash>>

(* A client connects or loses its connection at any time *)
Toggle ==
    /\ crash = "none"
    /\ \E n \in DOMAIN client_list :
          open' = IF client_list[n].id \in open THEN open \ {client_list[n].id}
                  ELSE open \cup {client_list[n].id}
    /\ UNCHANGED <<listvars, select_index, pc, scanvars, base, wrote, countvars,
                   crash>>

Step(t) ==
    \/ LimitCheck(t) \/ (\E l \in Links : AddLink(t, l)) \/ SelectBegin(t) \/ SelectRound(t) \/ SelectEnd(t)
    \/ WriteLoad(t) \/ WriteUse(t) \/ ReadLoad(t) \/ ReadUse(t)

Next ==
    \/ \E t \in Threads :
          \/ Step(t) \/ Write(t) \/ Read(t)
          \/ \E l \in Links : Destroy(t, l)
    \/ \E v \in MaxNums : set_c_max_num(v)
    \/ DestroyFirst
    \/ Toggle

Spec == Init /\ [][Next]_vars

-----------------------------------------------------------------------------
(* Properties *)

\* One client per key, and link_set_poll says which, however add_link and
\* destroy(ip, port) of several threads follow one another: a destroyed link can
\* be made again.  destroy() forgets the set.
KeysMatchClients ==
    ~ended => /\ link_set_poll = {client_list[n].key : n \in DOMAIN client_list}
              /\ Cardinality(link_set_poll) = Len(client_list)

\* While nothing is destroyed a handle stays good: its index names the client
\* the message was written to, no scan goes past the last client, and none goes
\* in front of the first until select_index has wrapped to the smallest int.
HandleFindsItsClient ==
    destroys = 0 /\ ~ended =>
        /\ crash # "range"
        /\ crash = "negative" => select_index <= 0
        /\ \A t \in Threads :
              pc[t] \in {"rload", "ruse"} =>
                  /\ index[t] < Len(client_list)
                  /\ Indexed(t) = wrote[t]

\* A scan that ends without an open client has looked at every client, unless
\* another thread's scan moved select_index meanwhile.
AloneScanIsComplete ==
    \A t \in Threads :
        pc[t] = "select" /\ i[t] >= cur_client_index /\ alone[t] =>
            seen[t] = 0..(cur_client_index - 1)

=============================================================================
