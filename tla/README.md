# A TLA+ model of the boost.asio client, its containers and its server

The repository is a small RPC library over boost.asio: a client that can be
shared by threads (`client_loop`), a pool of such clients (`client_loop_pool`),
two thread-safe containers they use (`SafeQueue`, `SafeMap`), the record kept
per request (`RPCStruct`) and a callback-driven server (`link_server`,
`link_session`). This directory models the parts that carry its logic, checks
them with TLC on small instances, and proves with TLAPS, for every instance, the
safety properties of the queue, the map, the pool and the server and most of
those of the client.

## 1. The system

| part | state | operations | runs on |
|---|---|---|---|
| `SafeQueue` (`safequeue.hpp`) | linked list with a dummy node, `head_`, `tail_`, `h_lock_`, `t_lock_`, atomic `size_` | `push`, `pop`, `size` | any thread |
| `SafeMap` (`safemap.hpp`) | `std::map` and one lock; iterators with a copy of the map | `operator[]`, `find`, `begin`, `insert`, `update`, `erase`, `operator=`, `size`; `++` | any thread |
| `RPCStruct` (`client_msg.hpp`) | head, buffer, `status`, `erase_flag`, timeout timer | `body`, `meta`, `recv_msg_buff`, `set_status`, `do_init_timer`, `set_timeout` | user and io thread |
| `client_loop` (`client_async_loop.h`) | socket, `clietn_status`, `write_msg_queue_`, `recv_msg_map_`, `del_reqid_list`, erase and log timers | `is_open`, `write`, `read`, `close`, `destroy`; handlers for connect, header, body, write, timers | users call it, one io thread runs the handlers |
| `client_loop_pool` (`client_async_loop_pool.h`) | list of clients each with its io thread, set of hashes, two atomic counters, a shared mutex | `add_link`, `write`, `read`, `destroy`, `set_c_max_num` | any thread |
| `link_server`, `link_session` (`server_async_loop.h`) | acceptor; per session a read record and the deque `write_msgs_` | accept, header, body and write handlers, `reply` | one io thread for all sessions |

How they interact. A user calls `write()`: it takes an id, puts the message into
`write_msg_queue_` (or not: `CSQ_ON`/`CSQ_OFF`), makes an entry for the reply in
`recv_msg_map_`, arms the entry's timer and posts `do_write` to the io thread.
`read(id)` polls the entry's status until a handler sets it: the reply arrived,
the connection failed or the timer expired. The reader then marks the entry and
puts the id on `del_reqid_list`; `erase_msg_timer`, on the io thread every three
seconds, marks entries in one pass and erases them in a later one. Every
completion handler calls `is_open()` first, which starts a connection when the
socket is closed; users call it as well, on their own threads.

What is hard here: user threads and the io thread meet in four shared
structures; the status of the connection is tested and set without a lock;
handlers that closing a socket aborts run when the next socket is already in
use; a cancelled timer's handler may be ready to run; the two ends of the queue
are under different locks; two unrelated things (reader pushes, connections) feed
the erase passes; the server's write queue depends on how many requests a client
has outstanding.

What makes each part correct:

* the queue: it is a FIFO queue whatever the interleaving, no end touches a
  deleted node, `size()` accounts for every value;
* the client: the connection can always be made again, `read()` always returns,
  a reply is reported only if it arrived, an entry is erased only after its
  result was taken and then always is, what is being sent is still there, a
  queued message is sent, closing and destroying end;
* the message buffer: nothing is read or written outside it, both ends agree on
  its layout, a pointer into it stays good while its record is kept;
* the server: it keeps listening, one reply for each request, in order, for every
  session, and no message is freed while it is being written;
* the pool: keys and clients agree, a handle names the client it was made for,
  the number of clients keeps to its limit, a scan finds an open client;
* the map: calls are atomic although references outlive the lock, an iteration
  sees one state of the map, every call returns.

## 2. Modules

| module | models | |
|---|---|---|
| `FifoQueue` | what a queue promises: append and take in one step | abstract specification |
| `SafeQueue` | `safequeue.hpp`, one action per pointer or counter step | implements `FifoQueue` |
| `SafeQueueProofs` | | theorems about `SafeQueue` |
| `StdMap` | the `std::map` and the iterator `WDItr` as functions | |
| `AtomicMap` | what a map promises: every call in one step | abstract specification |
| `SafeMap` | `safemap.hpp`, a call split at its locks and its first look | implements `AtomicMap` |
| `MCSafeMap` | | TLC: the calls each thread makes |
| `SafeMapProofs` | | theorems about `SafeMap` |
| `MsgBuffer` | the buffer of `RPCStruct`, `newMsgBuf`, `reply`, `CallStruct` | |
| `MsgBufferProofs` | | theorems about `MsgBuffer` |
| `ClientLoop` | `client_loop` and the life of an `RPCStruct` | uses queues and map as atomic, which `SafeQueue` and `SafeMap` justify |
| `MCClientLoop` | | TLC: symmetry of users |
| `ClientLoopProofs` | | theorems about `ClientLoop`: its types, the socket |
| `ClientRequestProofs` | | extends it: the requests |
| `ClientQueueProofs` | | extends that: the scheduler's queue, what is counted in it and in which order |
| `LinkSession` | `link_server` and its sessions | |
| `LinkSessionProofs` | | theorems about `LinkSession` |
| `ClientPool` | `client_loop_pool` | a client is just open or not |
| `MCClientPool` | | TLC: keys, symmetry of threads and addresses |
| `ClientPoolProofs` | | theorems about `ClientPool` |

**SafeQueue.** Nodes are numbered in allocation order, node 0 is the
constructor's dummy. `push` is `PushNew` (allocation, before the lock),
`PushLock`, `PushInc` (`size_++`), `PushLink` (`tail_->next = node`), `PushTail`
(`tail_ = node` and unlock). `pop` is `PopLock`, `PopEmpty` or `PopNonEmpty`
(`empty_()`), `PopDec`, `PopErase` (`head_ = erase_(head_)`), `PopReturn`.
Consumers do what the callers do: look at `size()` first (`SizeCheck`). A failed
assert stops everything. `linked` and `popped` are history variables. The build
uses plain loads and stores of aligned pointers on x86-64, so the read of `next`
that races with its write gives the old or the new pointer, which the
interleaving of the steps covers.

**SafeMap.** A call is `Begin`, `Lock`, `Look`, one of `insert`, `update`,
`erase`, `index`, `find`, `begin`, `size`, `assign`, and `Unlock`; `operator=` adds
`LockOther` and `UnlockOther`, and returns at once for the map itself (`Enter`).
`Look` is what the code keeps in a local before it acts: the iterator's copy, the
`std::map` iterator of `find(key)`, the map to copy from. `Increment` walks an
iterator, which owns its copy; `UseRef` reads or stores through the reference
`operator[]` returned, after the unlock. An iterator from `end()` has an
uninitialised `first`, and `erase(itr)` does not look at `_isEnd`: `KeyOf` then
chooses any key. Threads may assign any map to any other, two of them crosswise
as well: each then waits for the lock the other holds (`Crossed`), for ever.
Copies are not exact: a store through a reference may be missing from a copy made
meanwhile, which `AtomicMap` states as `Copies`. A store through a reference is
one step (section 6).

**MsgBuffer.** A buffer is a sequence of cells that say where they come from;
`new_data` allocates and grows it as the code does, `base` counts how often it
moved. One request after the other goes through `Write` (`newMsgBuf`),
`ServerReadHeader`, `ServerReadMsg` (with `reply` and the callback's result),
`ClientReadHeader`, `ClientReadMsg`; a reply may be sent twice, come after the
timeout, or find its record erased. Each of these steps also prints the message,
as the code does, with `showInfo` or `<<`: the cells from the meta data on up to
the first nul (`EndsIn`). A body ends in a nul or does not (`z`); `past` records
the requests whose print ran beyond the allocation, which does not stop the
process, and `bare` those with a body or a result that is no C string. A reader
gets the `RPCStruct_ptr` (`UserRead`), calls `body()` on it (`UserBody`) and lets
go of it at any time (`UserDrop`), as the pool's `read()` does before it returns.
A record is `Freed` when it is not in the map, no reader has it and no handler
reads into it; whoever then follows a pointer into it meets the outcome
`dangling` (`UserFindsFreed`). There is one reader per request. `HeadSize` and
`MetaSize` are counted in cells, an int or a byte each.

**ClientLoop.** The record `conn` holds `clietn_status`, the state of the
socket, the scheduler's queue of ready handlers and the operations the reactor
has outstanding. A handler is one action, guarded by being the oldest ready one;
`erase_msg_timer` is split per round of its loop, since the bound re-reads a
queue that users push to. A user call is split at every access to shared state
(`IsOpen`/`DoConnectCheck`/`DoConnectSet`/`DoConnectStart`;
`WriteNew`/`WritePush`/`WriteInsert`/`WriteAssign`/`WriteArm`/`WritePost`;
`ReadFind`/`ReadGet`/`ReadResult`/`ReadReturn`;
`Destroy`/`DestroyClose`/`DestroyDelete`/`DestroyStop`, the last from
`pool_client_::destroy`). `destroy()` is called when no other call is under way or
to come. `dropped` is a history variable. `recv_msg_map_` distinguishes no
entry, an entry `operator[]` made and nobody assigned yet (an empty pointer),
and a record. `dummy` is the message the queue's dummy node still refers to: the
only owner of a message being sent. Both queues are atomic here; the abort that
run `queue_assert` finds in a `pop()` right after `size()` is left to that run. The socket, the reactor, the peer and TCP are
external: connecting succeeds or is refused; a connection ends (`eof`) or is
reset (`dead`) after any part of what was sent; closing queues every outstanding
handler with an error; `shutdown()` throws on a socket that is not connected
(while a connection is being made it succeeds). When two reads are outstanding on
one socket, or the next read wants a header where a body comes, their bytes mix
and the code goes on: `ReadGarbled` ends any of the outstanding reads, a header
then has any id, and a body handler stores `CT_READ_OK` all the same; `garbled`
is the set of connections this happened on, and there the stream never gets back
in step. A garbled header may also ask for a buffer that cannot be had (outcome
`misframed`). `crash` records how the process ended and stops it. `MaxCalls`
bounds the `is_open()` and `close()` calls together.

**LinkSession.** Per session the outstanding read, the deque `write_msgs_` and
the writes under way; one queue of ready handlers for all sessions. A message is
the number of the request it answers. `reply` appends and starts a write of the
front even when one is under way, as the code does (the test is commented out).
`Window` is how many requests a client has without a reply: 1 for `client.cpp`,
which reads before it writes again, more for threads that share a client. An
accept may fail; its handler starts the next one either way.

**ClientPool.** `write` is `Write`, `LimitCheck` (the test in `add_link`, before
the lock), `AddLink`, `SelectBegin`, one `SelectRound` per round of
`get_client_index`, `SelectEnd` if none is open, `WriteLoad` and `WriteUse`
(indexing `client_list` without the lock); `read` is `Read`, `ReadLoad`, `ReadUse`.
`buf` is the vector's storage: `push_back` on a full one frees it, so a base
loaded before is dangling after. `Destroy` is `destroy(ip, port)`, `DestroyFirst` a
round of `destroy()`, which main and the signal handler call. The address matters
only to `add_link`, as in the code: a message goes to whichever client is open.
`select_index` has the width of an int and `%` the sign C++ gives it.
`set_c_max_num` changes the limit without the lock; its comparison with the
unsigned size lets negative values through.

## 3. Runs

| run | instance | shows |
|---|---|---|
| `queue` | 2 producers, 2 consumers, 2 values, 3 pushes | `TypeOK`, `NoUseAfterFree`, `SizeAccounts`, `ImplementsFifo` |
| `queue_assert` | 1 and 1 | **violated** `PopNeverEmpty`: `push` counts before it links, so a consumer that saw `size() != 0` runs into the assert |
| `map` | 2 threads, 2 maps, 2 keys, 2 values; 3 calls of a writer, 2 of a reader, crossed assignments among them | `TypeOK`, `OnlyAssignWaitsHolding`, `WalksSnapshot`, `ImplementsAtomicMap`, `CallReturns` |
| `buffer` | 2 requests, bodies of 0 to 3 cells, C strings or not, in records with room for 1, results of size 0, 1 and 3; readers and erasing | `TypeOK`, `InBounds`, `Delivered`, `PointerStable` |
| `client_faults` | 2 users, 1 request, 2 connections, 2 calls out of 2 `is_open` and 1 `close`, refusals and resets | `TypeOK`, `ConnectOutstanding`, `WaiterWakeable`, `ReadOkWasReceived`, `OneEraseChain`, `ThrowsOnlyWhenGone` |
| `client_requests` | 2 users, 2 requests, 1 connection, no faults | `TakenIsListed`, `QueuedIsPosted`, `ReadOkWasReceived`, `ErasedOnlyWhenTaken` |
| `client_liveness` | no send queue; 1 request answered up to twice and read up to twice, all faults, `destroy()` | `ReplyFindsRecord`, `TimerFindsRecord`, `ReadReturns`, `TakenIsErased`, `DestroyReturns` |
| `client_buffer` | 2 users, 2 requests | **violated** `SentBufferLives`: the second `do_write` frees the bytes the first write is sending |
| `client_answered` | 1 request | **violated** `AnsweredNeverTimesOut`: a timeout that is ready when the reply is processed overwrites `CT_READ_OK` |
| `pool` | 2 threads, 4 addresses, limit 2, then 1 or -1, 4 writes, 1 `destroy(ip, port)`, `destroy()`, ints from -4 to 3 | `TypeOK`, `KeysMatchClients`, `HandleFindsItsClient`, `AloneScanIsComplete` |
| `session` | 2 clients, 3 requests each, `Window = 1`, resets, failed accepts | `TypeOK`, `KeepsListening`, `RepliesInOrder`, `WritesAreQueued`, `Answered` |
| `session_pipelined` | 1 client, `Window = 2` | **violated** `RepliesInOrder`: the first reply is sent twice, and the handler of its second copy pops the second reply early |

A run marked violated states what a comment or `readme.txt` says; the finding of
the same name in `PROJECT.json` quotes it. Every property of a passing run has
a mutant next to the definition it mutates (comments beginning "Mutant:").

**Bounds.** All are constants named `Max...`. Three pushes give a list that is
empty, has one value and has two, with both ends on the same node and on
different nodes, and each thread free to overtake another. Two users are what
the races in `do_connect`, `newMsgBuf` and `erase_msg_timer` need; two
connections are what late handlers of the first need to meet the second; one
request is enough for the faults because requests do not share state other than
the queue and the list, which `client_requests` exercises with two, so that a
reply could go to the other request's record. The pool's limit of 2 with two
threads and four addresses lets it reach four clients, its bound.
An int of three bits keeps the parity that decides what the wrap of `select_index`
does: after the largest int the remainder by 1 and by 2 goes on, by 3 it is
negative. In `map` the writer's three calls are enough to hand out a reference,
delete or copy the entry and store through the reference, while the reader holds
an iterator, and for the two to assign crosswise. Bodies in `buffer` are shorter than, equal to and longer than the
room a record starts with, for requests and replies. `MaxOpens`
and `MaxConns` also cut behaviour the code leaves unbounded: racing `is_open()`
calls can make connection errors follow one another, and each new connection
adds a chain of erase passes. Deadlock is not checked: users may stop calling,
a broken connection stays broken until someone uses the client, and the process
may have ended.

**Fairness.** `ClientLoop!Fairness`: the io thread keeps running ready handlers
and a user thread inside a call goes on (weak fairness: threads are scheduled).
A request's timer and the completion of operations are strongly fair: the
reactor looks for them between two handlers and not during a pass, so they are
enabled again and again but not always. The erase timer is only weakly fair: a
pass sets it anew, so an interrupted wait owes nothing. The peer owes nothing at
all. `LinkSession!Fairness`: weak fairness of the handlers and of the completion
of operations; clients may stay silent. `SafeMap!FairSpec`: threads inside a call
are scheduled; weak fairness is enough for the mutex because every thread makes
finitely many calls. Making a call, and walking an iterator, is never owed.

## 4. Proofs

`SafeQueueProofs` proves, for any sets of threads and values and any number of
pushes, assuming only `MaxPush \in Nat` and `NULL \notin Nat`
(`SafeQueueAssumption`):

* `QueueInvariant`: the inductive invariant `Inv`;
* `TypeCorrect`, `MemorySafe`, `SizeCorrect`: `TypeOK`, `NoUseAfterFree` and
  `SizeAccounts`, the invariants run `queue` checks;
* `Linearisable`: `Spec => ImplementsFifo`, the refinement run `queue` checks.

The invariants are not inductive alone: that `tail_` is live depends on the shape
of the list and on who holds which lock. `Inv` adds `LocksOK` (at most one
thread is inside each critical section, and its mutex is then taken), `ListOK` (the nodes in the order they entered
are chained by `next`, the last one's `next` is null, `head_` is the one after
those that left, and exactly those before it are deleted), `TailOK` (`tail_` is
the last node, or the one before while a push is between its two stores),
`FreshOK` (a node not yet linked belongs to one producer) and `PopOK` (past the
test for empty there is a node behind `head_`). Memory safety follows: deleted
nodes lie strictly before `head_`, and `tail_` never lies before `head_`: in the
gap between the two stores of `push`, `pop` may take the new node, whose
predecessor `tail_` still names, but by then `push` no longer dereferences it.
There is one lemma per action. For the refinement, a `PushLink` maps to `Push`
and a `PopErase` to `Pop`; `Hidden` covers all other steps, which leave
`Contents` and `Returned` as they are.

`SafeMapProofs` proves, for any sets of threads, maps, keys and values
(`StdMapAssumption`: keys are naturals, finitely many; `SafeMapAssumption`: the
types of the parameters; which calls each thread makes is free):

* `TypeCorrect`: `TypeOK`;
* `OnlyAssignWaitsHoldingCorrect`: `OnlyAssignWaitsHolding`, so every circle of
  waiting threads is a circle of assignments of different maps;
* `Linearisable`: `Spec => ImplementsAtomicMap`, where the act under the lock maps
  to the abstract call, a store through a reference to `store`, and all else
  stutters.

The inductive invariant `Inv` adds to `TypeOK`: `LockOK` (who is inside a call
holds the lock, and both locks of an assignment), `RefOK` (a reference that is
not dangling is to an entry that exists and was handed out) and `SeenOK` (what a
call saw has the keys of the map it looked at, and differs from it at most in
entries that were handed out). `SeenOK` is what makes acting on an earlier look
sound: only the holder of the lock adds or deletes entries, and only handed-out
entries change under it. `WalksCorrect` (`WalksSnapshot`) needs `WalkInv` on top:
the iterator's copy has the keys `begin()` found, which `SeenOK` gives, it stands at
one of them or at the end, and those walked are exactly the ones up to it.

`ClientPoolProofs` proves every invariant run `pool` checks, for any finite set of
threads, any addresses (two may share a key), any limits and any width of int
(`ClientPoolAssumption`): `TypeCorrect`, `KeysMatch` (`KeysMatchClients`),
`HandlesStayGood` (`HandleFindsItsClient`) and `AloneScanCorrect`
(`AloneScanIsComplete`). `LimitHolds` (`LimitBound`) is no promise of the code,
whose comment says that nothing is added at the maximum (section 5): it says how
far the number of clients exceeds it. The argument: the list may grow after
the limit was looked at, so the invariant `LimitInv` counts the threads that
`add_link` has let in and that have not added yet: the length of the list plus
their number is at most `client_max_num` plus the number of threads, unless the
limit is negative. A thread let in found `cur_client_index`, which is never less
than the length, at most `client_max_num`; one that adds moves from one summand
to the other; destroying shortens the list; a new limit exceeds the length.

The other four need an invariant each. `IndexInv`: an index is used
without a test for -1, so the types depend on its sign. `KeysInv`: no two clients
share a key; without it destroying one would leave the other without its key.
`HandleInv`: `cur_client_index` is the length of the list until something is
destroyed, and a handle is good from the moment `write()` returns it; appending
keeps every client's place. `ScanInv`: what a scan has looked at is an arc of a circle
ending at `index`, and `select_index` leads to the place after it, or to a
negative one after the wrap of the int; after as many rounds as there are clients
the arc is the whole circle. The lemmas `NextMod` and `NextRem` hold the modular
arithmetic.

`LinkSessionProofs` proves, for any sets of sessions and any number of requests
(`LinkSessionAssumption`):

* `SessionTypeCorrect` and `KeepsListeningCorrect`, for any `Window`, from
  `AcceptInv` (one accept, outstanding or in the scheduler's queue) and `ReadInv` (a
  session has at most one read under way, and a header or body that was read is
  there to be used);
* `RepliesInOrderCorrect` and `WritesAreQueuedCorrect`, for `Window = 1`. Run
  `session_pipelined` shows that the hypothesis is needed. `TurnInv` says that a
  session is `Waiting`, `Asking` or `Replying`, with at most one message in
  `write_msgs_`; `OrderInv` that the handler of a write runs before the handler of
  the header the client sent on receipt of that reply. Without `OrderInv` the
  second reply could be appended behind a first one not yet taken off.

`MsgBufferProofs` proves, for any room and metadata size, any lengths of bodies, any
callback, bodies that are C strings or not, and any number of requests
(`MsgBufferAssumption`), the three invariants and the action property run `buffer`
checks: `TypeCorrect` (`TypeOK`),
`BoundsCorrect` (`InBounds`), `DeliveredCorrect` (`Delivered`) and
`PointerStableCorrect` (`PointerStable`). None is inductive: a stream carries
cells, and whether a header that is read next is one depends on all that was
written before it. `Inv` adds `Framing`: there are sets of cuts at which the two
streams fall into whole messages (`Framed`), behind the rest of the one being read
(`At`: between two messages, or past a header with its body to come).
`ServerFramed` says that every request still open is, once, in the stream to the
server or the one being read there; `ClientFramed` that replies exist only for
answered requests, so that the answer a record waits for cannot change any more
once a reply is under way; `RecordsHold` that a held record has its header and its
room, and after the reply its answer (`Holds`). Reading moves past a cut,
sending adds one, and nothing else touches the streams. `TextInv`, proved with
`Inv` (`Invariance`), says that the answer of a request not in `bare` ends in a nul
and that no such request was printed beyond its buffer: a record that holds a C
string is printed up to its nul (`TextEnds`). `PointerStable` follows from `Inv` and
`Still`, which says of a step that it leaves the buffer and answer of every held
record alone. The cuts are any set of numbers, which TLC cannot
enumerate, so `Inv` is not part of a run.

The client's theorems hold for any finite set of users and any number of
requests, connections, calls, replies and faults, with and without the queue
(`ClientLoopAssumption`); finiteness is for counting users. They are in three
modules that extend one another:

* `ClientLoopProofs`: `TypeCorrect`, `ConnectOutstandingCorrect` (no state in which
  `CT_CONN` bars every further `do_connect` while none is under way) and
  `ThrowsOnlyWhenGoneCorrect`. `SocketInv` says what made each handler that is ready
  or outstanding (a read or write handler closes only after `is_open()`, so not on a
  socket that an earlier close has closed), and that `CT_CONN` has a connection being made, a connect
  handler queued or a user about to start one.
* `ClientRequestProofs`: `WaiterWakeableCorrect`, `TakenIsListedCorrect`,
  `ErasedOnlyWhenTakenCorrect` (an action property) and, without the queue,
  `ReplyFindsRecordCorrect`. `RequestInv` is a conjunction: two users never have
  one request in hand (`OwnRequest`), an entry is empty only while its `write()` is
  between `operator[]` and the assignment (`NullWhileMade`), a request
  is read only after its `write()` returned (`ReadAfterWrite`), a flagged one has a
  result, which a `read()` saw (`FlaggedIsRead`), an unanswered one has its timer set, its timeout queued or its
  writer about to arm it (`Armed`), and a taken one is in `del_reqid_list` or about to
  be (`Listed`). `SentInv` says that what the peer may answer was posted after its
  entry was assigned and its timer armed, as long as no stream is garbled. Most handlers only move operations about, which `Quiet`
  describes: the invariants are argued once for such steps.
* `ClientQueueProofs`: `OneEraseChainCorrect` and `QueuedIsPostedCorrect`. `ChainsInv`
  and `PostedInv` (which also counts the `do_write`s spent on a client that was not
  connected) restate them with `Times`, which counts handlers in the
  scheduler's queue, and the lemmas say what running, posting and completing do to
  the counts. Then two theorems about the order of handlers, for the limits
  their properties state (section 5 says what happens beyond) and any value of the
  other constants:
  * `ReadOkWasReceivedCorrect`. `ReadsOk` says that a connection has at most one
    chain of reads (`Chained`: a connect handler that will start one, a read
    outstanding, or its handler queued), and that the stream is whole replies from
    the next part on (`Whole`). Between two replies (`Between`) no header that was
    read is left without its body where a header read comes first, and the
    handler of such a header is queued ahead of all that start a header read
    (`InTurn`). Amid a reply (`Amid`) at most one header waits for its body, and
    it is the header of the body that comes next (`InReply`). All this holds while
    no stream is garbled. With two connections there may be two chains, so one
    stale handler at most, and `InTurn` survives; a third chain breaks it.
    `OneReply` is the part about the first connection: when a body comes next, the
    header before it, and nothing else, is on its way to read it. So a read there
    always wants what comes next and is alone (`NotGarbled`): that
    `ReadGarbled` never happens on the first connection is proved, not assumed.
  * `TimerFindsRecordCorrect`. `MadeInv`: before `do_init_timer` nothing has
    happened to a request and nothing is on its way to it, on the first connection,
    so a timer is armed only on a complete entry without a result. `TakenOnce`: the one `read()` puts the
    request in `del_reqid_list` once, after which nobody reads it. `TimerInv`: the
    handler of an expired timer (`Survives`) has its entry, and once that is marked
    no pass is under way that comes to it again and none is queued before the
    handler. The mark is set by a pass, `ChainsInv` says that with one connection no
    other pass is queued then, and handlers that come later queue behind.

Only model-checked: all liveness (`ReadReturns`, `TakenIsErased`, `DestroyReturns`,
`CallReturns`, `Answered`), which the proof system does not handle. Every
invariant the passing runs check is proved.

## 5. Behaviour of the code worth knowing

Besides the violated runs the model reaches the following states. The first
four disagree with a comment or with `readme.txt` and have no run of their own:
for the first two a property of a passing run is stated for the case in which the
promise holds, for the third a theorem says how far the code goes beyond it, and
for the fourth nothing is claimed.

* `client_async_loop.h:382` says that every three seconds entries are marked and
  three seconds later deleted. `handle_connect` starts a chain of erase passes on
  every connection, all on one timer: from the second on, each pass cancels the
  other chain's wait, whose handler ignores the error code, so the passes follow
  one another without the pause (`OneEraseChain` is about the first connection).
  And a reader that pushes during a pass lengthens it: an entry marked in the pass
  is erased in the same pass, and a timeout handler that is ready then runs on a
  deleted record (`dangling`).
* `readme.txt:23` says that after a connection error the message is still there and
  can be sent on a new connection. It is still there, but nothing sends it when the
  client connects: only a later `write()` or a completed one calls `do_write`
  (`QueuedIsPosted` holds while no `do_write` found the client not connected).
* `client_async_loop_pool.h:181` says that nothing is added once the maximum is
  reached, and `readme.txt:39` that `set_c_max_num` sets the maximum. The test is
  `>`, so one thread alone brings in one client more, and it comes before the lock,
  so every further thread may bring in another (`LimitHolds`).
* `client_async_loop_pool.h:122` announces -1 when no client is open; `write()` then
  uses the last client looked at.

The others:

* after a reset by the peer `do_close()` calls the throwing `shutdown()`, and the
  exception ends `io_service::run()` (outcome `terminate`);
* `close()` between a connection and its handler, then `is_open()`: two
  chains of header reads on the second socket, whose reads then take each other's
  bytes: `handle_read_msg` stores `CT_READ_OK` on a record that holds parts of other
  messages (`ReadGarbled`; `ReadOkWasReceived` says that the first connection is
  free of this);
* after `close()` the aborted read's handler calls `is_open()` and connects again
  without any user call;
* `close()` or `destroy()` on a client that is not connected throws as well
  (`ThrowsOnlyWhenGone`);
* with the queue the reply may come before the record's timer is armed; it is
  armed nevertheless, and may fire after the record was erased (`dangling`);
* `destroy()` waits for ever when the client never connected or a result was not
  taken, and when it ends it has deleted the socket whose aborted handlers are
  still to run on the null pointer unless `io_service` is stopped first (`nullref`);
* another user's `do_write` may send a message before its map entry is
  assigned; a reply that fast dereferences an empty pointer (`nullref`);
* a third connection of one client may have the handler of a header read from the
  first still queued behind two connect handlers; its body read then puts another
  request's reply into its record, so `read()` reports a reply that never came;
  `ReadOkWasReceived` is stated for up to two connections;
* the pool's `read()` returns `body()` of a record that only the map keeps: the erase
  pass frees it under the caller, three seconds later or, with two chains of passes,
  at once (`dangling`; `PointerStable` says how long the pointer is good);
* a body or a result without a nul that fills its buffer: the log lines
  (`client_async_loop.h:259,355`, `server_async_loop.h:109,124`) and `showInfo` read
  beyond the allocation (`InBounds` excludes it for C strings; the programs under
  `src/src` send `strlen + 1` bytes);
* a second request may be read while a pass runs and lengthen it, so that the pass
  meets the first entry twice; `TimerFindsRecord` is stated for one request;
* a second `read()` of an id may find it and then index an erased entry (`nullref`);
* `SafeMap`: `a = b` against `b = a` deadlocks (`Crossed`); a reference whose entry was erased
  or whose map was assigned is used all the same; a callback that returns a
  `CallStruct` of size 0 makes its destructor free an unset pointer (`badfree`);
* in the pool: once `select_index` has wrapped, indices are negative (`negative`);
* in the pool: unlocked indexing meets a moved vector (`dangling`); after any
  `destroy` a handle may name another client or none, and scans run past the end
  because `cur_client_index` is not decremented (`range`); scans of two threads
  may both miss the only open client.

## 6. Not modelled

* `log_timer` (prints), argument parsing, log lines and error texts: no state.
* `set_csq` of the pool (stores a value nothing reads); `set_etimeri` and
  `set_ltimeri` (private, never called).
* `socket_` as a pointer: `reset_socket()` deletes the socket while a user may be
  in `is_open()`.
* In the pool, what `pool_client_::destroy()` waits for: `ClientLoop` has it for a
  single client.
* `do_close()` called by `destroy()` on the user's thread is one step
  (`DestroyClose`), although the io thread runs beside it: its store of the status,
  `shutdown`, `cancel` and `close` are not split.
* A store through a reference from `operator[]` is one step (`UseRef`), although the
  value is a `shared_ptr`, whose assignment is not atomic: two threads that assign
  one entry at a time may corrupt it. In `newMsgBuf` each entry has one writer.
* In `MsgBuffer` one reader per request; readers of one record do not differ.
* The copy constructor of `SafeMap` and the postfix `++`'s `_oldSelf`: both act on
  an object only the calling thread knows.

## 7. Plan

1. The generation of `socket_` in `ClientLoop`.
2. A client and a session composed over one connection in place of the external
   peer.
