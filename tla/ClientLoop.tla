----------------------------- MODULE ClientLoop ------------------------------
(***************************************************************************)
(* client_loop (include/client_async_loop.h) and the request record        *)
(* RPCStruct it keeps per request (include/client_msg.hpp): one TCP client *)
(* whose handlers run on a single io_service thread, called by any number  *)
(* of user threads through is_open(), write(), read() and close(), and     *)
(* ended by the one thread that calls destroy() when the others are done.  *)
(*                                                                         *)
(* A handler of the io thread is one action: it touches the shared state   *)
(* through locked containers and only the io thread erases.  The exception *)
(* is erase_msg_timer, whose loop re-reads a queue users push to, so each  *)
(* of its rounds is a step.  A user call is split at every shared access.  *)
(* write_msg_queue_ and del_reqid_list are atomic FIFO queues, which is    *)
(* what module SafeQueue shows of them.                                    *)
(*                                                                         *)
(* The socket, the reactor and the peer are external and modelled by what  *)
(* boost.asio and TCP let happen: operations complete or fail at any time, *)
(* the connection may end or be reset between any two messages, closing a  *)
(* socket queues every outstanding handler with operation_aborted, and a   *)
(* completed handler waits in the scheduler's FIFO until its turn.         *)
(*                                                                         *)
(* crash names the way the process died: "terminate" an exception left     *)
(* io_service::run(), "nullref" an empty pointer was dereferenced,         *)
(* "dangling" a timer ran on a deleted RPCStruct, "misframed" it could not *)
(* go on with the header it made of bytes that are none.                   *)
(***************************************************************************)
EXTENDS Integers, Sequences, FiniteSets

CONSTANTS
    Users,      \* threads that call the client
    UseQueue,   \* csq_ = CSQ_ON
    MaxReq,     \* bound: number of write() calls
    MaxReads,   \* bound: number of read() calls for one request
    MaxOpens,   \* bound: number of is_open() calls that find the socket closed
    MaxCloses,  \* bound: number of close() calls
    MaxCalls,   \* bound: number of these two kinds of calls together
    MaxReplies, \* bound: times the peer answers one request
    MaxConns,   \* bound: number of connections the peer accepts
    MayDestroy, \* whether a user ends with destroy()
    Faults      \* which of "refused", "eof" and "dead" the network may do

ASSUME ClientLoopAssumption ==
    /\ IsFiniteSet(Users)
    /\ {UseQueue, MayDestroy} \subseteq BOOLEAN
    /\ {MaxReq, MaxReads, MaxOpens, MaxCloses, MaxCalls, MaxReplies, MaxConns} \subseteq Nat
    /\ Faults \subseteq {"refused", "eof", "dead"}

Req == 1..MaxReq

VARIABLES
    conn,             \* clietn_status, *socket_ and the handlers around them
    write_msg_queue_, \* requests to send, CSQ_ON only
    dummy,            \* the message its dummy node still refers to, the one popped last
    dropped,          \* history: do_write calls that returned because not connected
    recv_msg_map_,    \* per request: no entry, an empty pointer, or an RPCStruct
    status,           \* RPCStruct::status
    erase_flag,       \* RPCStruct::erase_flag
    timer,            \* RPCStruct::timer is armed
    del_reqid_list,   \* requests whose result was taken
    e_timer,          \* a wait on the erase timer is outstanding
    sweep,            \* the loop of erase_msg_timer: running, its variable i
    msg_index_,       \* the next request id
    pc, req,          \* users: program counter, the request at hand
    reads,            \* number of read() calls per request
    opens, closes,    \* number of is_open() and close() calls
    conns,            \* number of connections made
    replied,          \* number of replies the peer sent per request
    received,         \* history: requests whose reply was read to its end
    garbled,          \* the connections whose stream reads shared
    crash             \* how the process died

queuevars == <<write_msg_queue_, dummy, dropped>>
msgvars == <<recv_msg_map_, status, erase_flag, timer>>
sweepvars == <<del_reqid_list, e_timer, sweep>>
calls == <<opens, closes>>
uservars == <<msg_index_, pc, req, reads, calls>>
netvars == <<conns, replied, received, garbled>>
vars == <<conn, queuevars, msgvars, sweepvars, uservars, netvars, crash>>

-----------------------------------------------------------------------------
(* Handlers, the socket and the operations on it *)

\* A handler, bound to the request it is about (0: none), and its error code.
H(h, id, ok) == [h |-> h, id |-> id, ok |-> ok]
Handler == [h : {"connect", "head", "body", "dowrite", "written", "timeout",
                 "erase", "close"}, id : 0..MaxReq, ok : BOOLEAN]
Fragment == [part : {"head", "body"}, id : Req]

\* sock: "closed" (no descriptor), "connecting", "connected", "eof" (the peer
\* closed its side), "dead" (open descriptor of a connection that failed),
\* "null" (deleted by destroy()).
Conn == [status : {"UNKNOWN", "CONN", "CONN_OK", "CONN_CLOSE", "ERROR"},
         sock : {"closed", "connecting", "connected", "eof", "dead", "null"},
         ready : Seq(Handler),  \* the scheduler's queue
         rops : Seq(Handler),   \* reads the reactor has outstanding
         wops : Seq(Handler),   \* writes the reactor has outstanding
         inbox : Seq(Fragment), \* sent by the peer on this connection, unread
         asked : SUBSET (0..MaxReq)] \* requests the peer received on it

Post(c, h) == [c EXCEPT !.ready = Append(@, h)]

Aborted(ops) == [i \in DOMAIN ops |-> [ops[i] EXCEPT !.ok = FALSE]]

\* close() or the destructor of the socket.
CloseSocket(c) ==
    [c EXCEPT !.sock = "closed",
              !.ready = @ \o (IF c.sock = "connecting"
                              THEN <<H("connect", 0, FALSE)>> ELSE <<>>)
                          \o Aborted(c.rops) \o Aborted(c.wops),
              !.rops = <<>>, !.wops = <<>>, !.inbox = <<>>, !.asked = {}]

\* Opens the descriptor when there is none; an open one is not connected again.
AsyncConnect(c) ==
    IF c.sock = "closed" THEN [c EXCEPT !.sock = "connecting"]
                         ELSE Post(c, H("connect", 0, FALSE))

AsyncRead(c, h) ==
    IF c.sock = "closed" THEN Post(c, [h EXCEPT !.ok = FALSE])
                         ELSE [c EXCEPT !.rops = Append(@, h)]

AsyncWrite(c, r) ==
    IF c.sock = "closed" THEN Post(c, H("written", r, FALSE))
                         ELSE [c EXCEPT !.wops = Append(@, H("written", r, TRUE))]

do_connect(c) ==
    IF c.status = "CONN" THEN c ELSE AsyncConnect([c EXCEPT !.status = "CONN"])

is_open(c) == c.sock \notin {"closed", "null"}

do_read_head(c) == AsyncRead(c, H("head", 0, TRUE))

do_read_msg(c, id) == AsyncRead(c, H("body", id, TRUE))

\* shutdown() throws when the socket is not connected.
do_close(c) ==
    \/ /\ c.status = "CONN_CLOSE"
       /\ conn' = c
       /\ UNCHANGED crash
    \/ /\ c.status # "CONN_CLOSE"
       /\ c.sock \in {"closed", "dead"}
       /\ conn' = [c EXCEPT !.status = "CONN_CLOSE"]
       /\ crash' = "terminate"
    \/ /\ c.status # "CONN_CLOSE"
       /\ c.sock \notin {"closed", "dead"}
       /\ conn' = IF c.sock = "null" THEN [c EXCEPT !.status = "CONN_CLOSE"]
                  ELSE CloseSocket([c EXCEPT !.status = "CONN_CLOSE"])
       /\ UNCHANGED crash

-----------------------------------------------------------------------------
(* client_loop(): init_socket, do_connect *)
Init ==
    /\ conn = do_connect([status |-> "UNKNOWN", sock |-> "closed", ready |-> <<>>,
                          rops |-> <<>>, wops |-> <<>>, inbox |-> <<>>, asked |-> {}])
    /\ write_msg_queue_ = <<>>
    /\ dummy = 0
    /\ dropped = 0
    /\ recv_msg_map_ = [r \in Req |-> "none"]
    /\ status = [r \in Req |-> "UNKNOWN"]
    /\ erase_flag = [r \in Req |-> "UNKNOWN"]
    /\ timer = [r \in Req |-> FALSE]
    /\ del_reqid_list = <<>>
    /\ e_timer = FALSE
    /\ sweep = [on |-> FALSE, i |-> 0]
    /\ msg_index_ = 1
    /\ pc = [u \in Users |-> "idle"]
    /\ req = [u \in Users |-> 0]
    /\ reads = [r \in Req |-> 0]
    /\ opens = 0
    /\ closes = 0
    /\ conns = 0
    /\ replied = [r \in Req |-> 0]
    /\ received = {}
    /\ garbled = {}
    /\ crash = "none"

-----------------------------------------------------------------------------
(* The io thread: it runs the oldest ready handler *)

\* io_service::stop() was called.
Stopped == \E u \in Users : pc[u] = "done"

IoRuns == crash = "none" /\ ~Stopped
IoIdle == IoRuns /\ ~sweep.on

Runs(h) ==
    /\ IoIdle
    /\ conn.ready # <<>>
    /\ Head(conn.ready).h = h

Job == Head(conn.ready)
Taken == [conn EXCEPT !.ready = Tail(@)]

\* The first line of every completion handler: if(!is_open()) return, where
\* is_open() starts a new connection.
HandlerFindsClosed ==
    /\ Runs("head") \/ Runs("body") \/ Runs("written")
    /\ Taken.sock = "closed"
    /\ conn' = do_connect(Taken)
    /\ UNCHANGED <<queuevars, msgvars, sweepvars, uservars, netvars, crash>>

\* Mutant: the wrong constant, CT_OK, is stored.
ConnectedWrong == "OK"

Connected == "CONN_OK"

\* After destroy() deleted the socket, is_open() and do_read_head() use nullptr;
\* handle_connect has stored its status by then.
HandlerFindsNull ==
    /\ Runs("head") \/ Runs("body") \/ Runs("written") \/ (Runs("connect") /\ Job.ok)
    /\ conn.sock = "null"
    /\ crash' = "nullref"
    /\ conn' = IF Job.h = "connect" THEN [Taken EXCEPT !.status = Connected] ELSE Taken
    /\ UNCHANGED <<queuevars, msgvars, sweepvars, uservars, netvars>>

HandleConnectOk ==
    /\ Runs("connect")
    /\ Job.ok
    /\ conn.sock # "null"
    /\ conn' = do_read_head([Taken EXCEPT !.status = Connected])
    /\ sweep' = [on |-> TRUE, i |-> 0]
    /\ UNCHANGED <<queuevars, msgvars, del_reqid_list, e_timer, uservars,
                   netvars, crash>>

\* Mutant: the status is left at CT_CONN.
Unconnected == "CONN"

NotConnected == "ERROR"

\* reset_socket: the old socket is deleted, its handlers are aborted.
HandleConnectError ==
    /\ Runs("connect")
    /\ ~Job.ok
    /\ conn' = CloseSocket([Taken EXCEPT !.status = NotConnected])
    /\ UNCHANGED <<queuevars, msgvars, sweepvars, uservars, netvars, crash>>

\* recv_msg_map_.find(id), for the id in any header.
Entry(id) == IF id \in Req THEN recv_msg_map_[id] ELSE "none"

\* Mutant: the reply is read into the entry made last.
IntoNewest(id) == msg_index_ - 1

\* The reply is read into the entry of its request, or into a temporary record
\* (0) when there is none.
Into(id) == IF Entry(id) = "none" THEN 0 ELSE id

\* An entry inserted but not yet assigned is an empty pointer.  When the header is
\* made of other bytes, the buffer it asks for may not be had.
HandleReadHeader ==
    /\ Runs("head")
    /\ is_open(Taken)
    /\ Job.ok
    /\ \/ /\ Entry(Job.id) # "null"
          /\ conn' = do_read_msg(Taken, Into(Job.id))
          /\ UNCHANGED crash
       \/ /\ Entry(Job.id) = "null"
          /\ crash' = "nullref"
          /\ conn' = Taken
       \/ /\ garbled # {}
          /\ crash' = "misframed"
          /\ conn' = Taken
    /\ UNCHANGED <<queuevars, msgvars, sweepvars, uservars, netvars>>

\* Mutant: the handler does not ask is_open() first.
GoesOnAlways(c) == TRUE

GoesOn(c) == is_open(c)

HandleReadHeaderError ==
    /\ Runs("head")
    /\ GoesOn(Taken)
    /\ ~Job.ok
    /\ do_close(Taken)
    /\ UNCHANGED <<queuevars, msgvars, sweepvars, uservars, netvars>>

\* set_status of an RPCStruct: the timer is cancelled, then the status stored.
\* Cancelling has no effect on a timer whose handler is ready already.
set_status(id, v) ==
    /\ status' = [r \in Req |-> IF r = id THEN v ELSE status[r]]
    /\ timer' = [r \in Req |-> timer[r] /\ r # id]
    /\ UNCHANGED <<recv_msg_map_, erase_flag>>

\* Mutant: the error code is not looked at before CT_READ_OK is stored.
BodyStatusOk(ok) == "READ_OK"

BodyStatus(ok) == IF ok THEN "READ_OK" ELSE "ERROR"

HandleReadMsg ==
    /\ Runs("body")
    /\ is_open(Taken)
    /\ set_status(Job.id, BodyStatus(Job.ok))
    /\ \/ /\ Job.ok
          /\ conn' = do_read_head(Taken)
          /\ UNCHANGED crash
       \/ /\ ~Job.ok
          /\ do_close(Taken)
    /\ UNCHANGED <<queuevars, sweepvars, uservars, netvars>>

\* do_write() with the queue: nothing while not connected, else the oldest one.
do_write(c) ==
    \/ /\ c.status # "CONN_OK" \/ write_msg_queue_ = <<>>
       /\ conn' = c
       /\ dropped' = IF c.status # "CONN_OK" /\ Job.h = "dowrite" THEN dropped + 1 ELSE dropped
       /\ UNCHANGED <<write_msg_queue_, dummy>>
    \/ /\ c.status = "CONN_OK"
       /\ write_msg_queue_ # <<>>
       /\ conn' = AsyncWrite(c, Head(write_msg_queue_))
       /\ write_msg_queue_' = Tail(write_msg_queue_)
       /\ dummy' = Head(write_msg_queue_)
       /\ UNCHANGED dropped

DoWriteQueue ==
    /\ UseQueue
    /\ Runs("dowrite")
    /\ do_write(Taken)
    /\ UNCHANGED <<msgvars, sweepvars, uservars, netvars, crash>>

\* do_write(res), without the queue.
DoWriteDirect ==
    /\ ~UseQueue
    /\ Runs("dowrite")
    /\ conn' = IF conn.status = "CONN_OK" THEN AsyncWrite(Taken, Job.id) ELSE Taken
    /\ UNCHANGED <<queuevars, msgvars, sweepvars, uservars, netvars, crash>>

HandleWrite ==
    /\ Runs("written")
    /\ is_open(Taken)
    /\ Job.ok
    /\ \/ UseQueue /\ do_write(Taken)
       \/ ~UseQueue /\ conn' = Taken /\ UNCHANGED queuevars
    /\ UNCHANGED <<msgvars, sweepvars, uservars, netvars, crash>>

HandleWriteError ==
    /\ Runs("written")
    /\ is_open(Taken)
    /\ ~Job.ok
    /\ do_close(Taken)
    /\ UNCHANGED <<queuevars, msgvars, sweepvars, uservars, netvars>>

\* set_timeout, bound to the bare address of the RPCStruct: once the entry is
\* erased the record exists only as long as a caller of read() keeps it.
SetTimeout ==
    /\ Runs("timeout")
    /\ conn' = Taken
    /\ \/ set_status(Job.id, "TIMEOUT") /\ UNCHANGED crash
       \/ /\ recv_msg_map_[Job.id] = "none"
          /\ crash' = "dangling"
          /\ UNCHANGED msgvars
    /\ UNCHANGED <<queuevars, sweepvars, uservars, netvars>>

\* close() was posted.
DoClose ==
    /\ Runs("close")
    /\ do_close(Taken)
    /\ UNCHANGED <<queuevars, msgvars, sweepvars, uservars, netvars>>

\* The erase timer's handler takes no error code: it runs on a cancelled wait too.
EraseStart ==
    /\ Runs("erase")
    /\ conn' = Taken
    /\ sweep' = [on |-> TRUE, i |-> 0]
    /\ UNCHANGED <<queuevars, msgvars, del_reqid_list, e_timer, uservars,
                   netvars, crash>>

-----------------------------------------------------------------------------
(* erase_msg_timer: for (int i=0; i<del_reqid_list.size(); ++i) *)

SweepRound ==
    /\ IoRuns
    /\ sweep.on
    /\ sweep.i < Len(del_reqid_list)
    /\ sweep' = [sweep EXCEPT !.i = @ + 1]
    /\ UNCHANGED <<conn, queuevars, status, e_timer, uservars, netvars, crash>>

Oldest == Head(del_reqid_list)

\* The request was erased before.
SweepDrop ==
    /\ SweepRound
    /\ recv_msg_map_[Oldest] = "none"
    /\ del_reqid_list' = Tail(del_reqid_list)
    /\ UNCHANGED <<recv_msg_map_, erase_flag, timer>>

\* Mutant: a request is erased by the first pass that finds it.
ErasableAtOnce(flag) == flag # "UNKNOWN"

Erasable(flag) == flag = "EXEC"

\* ~RPCStruct cancels the timer.
SweepErase ==
    /\ SweepRound
    /\ recv_msg_map_[Oldest] # "none"
    /\ Erasable(erase_flag[Oldest])
    /\ recv_msg_map_' = [recv_msg_map_ EXCEPT ![Oldest] = "none"]
    /\ timer' = [timer EXCEPT ![Oldest] = FALSE]
    /\ del_reqid_list' = Tail(del_reqid_list)
    /\ UNCHANGED erase_flag

\* Mutant: the marked request is not put back.
PutBackForgotten(q) == Tail(q)

PutBack(q) == Append(Tail(q), Head(q))

SweepMark ==
    /\ SweepRound
    /\ recv_msg_map_[Oldest] # "none"
    /\ ~Erasable(erase_flag[Oldest])
    /\ erase_flag' = [erase_flag EXCEPT ![Oldest] = IF @ = "STATE" THEN "EXEC" ELSE @]
    /\ del_reqid_list' = PutBack(del_reqid_list)
    /\ UNCHANGED <<recv_msg_map_, timer>>

\* Mutant: the timer is set but not waited on.
WaitsAgainNot == FALSE

WaitsAgain == TRUE

\* expires_from_now cancels the wait that is outstanding, async_wait adds one.
SweepEnd ==
    /\ IoRuns
    /\ sweep.on
    /\ sweep.i >= Len(del_reqid_list)
    /\ sweep' = [on |-> FALSE, i |-> 0]
    /\ conn' = IF e_timer THEN Post(conn, H("erase", 0, FALSE)) ELSE conn
    /\ e_timer' = WaitsAgain
    /\ UNCHANGED <<queuevars, msgvars, del_reqid_list, uservars, netvars, crash>>

IoThread ==
    \/ HandlerFindsClosed \/ HandlerFindsNull \/ HandleConnectOk \/ HandleConnectError
    \/ HandleReadHeader \/ HandleReadHeaderError \/ HandleReadMsg
    \/ DoWriteQueue \/ DoWriteDirect \/ HandleWrite \/ HandleWriteError
    \/ SetTimeout \/ DoClose \/ EraseStart
    \/ SweepDrop \/ SweepErase \/ SweepMark \/ SweepEnd

-----------------------------------------------------------------------------
(* User threads *)

UserAt(u, here, there) ==
    /\ crash = "none"
    /\ pc[u] = here
    /\ pc' = [pc EXCEPT ![u] = there]
    /\ UNCHANGED <<e_timer, sweep, netvars>>

\* is_open(): the socket is closed, so do_connect() is called on this thread.
IsOpen(u) ==
    /\ conn.sock = "closed"
    /\ opens < MaxOpens /\ opens + closes < MaxCalls
    /\ UserAt(u, "idle", "check")
    /\ opens' = opens + 1
    /\ UNCHANGED <<conn, queuevars, msgvars, del_reqid_list, msg_index_, req,
                   reads, closes, crash>>

DoConnectCheck(u) ==
    /\ UserAt(u, "check", IF conn.status = "CONN" THEN "idle" ELSE "set")
    /\ UNCHANGED <<conn, queuevars, msgvars, del_reqid_list, msg_index_, req,
                   reads, calls, crash>>

DoConnectSet(u) ==
    /\ UserAt(u, "set", "start")
    /\ conn' = [conn EXCEPT !.status = "CONN"]
    /\ UNCHANGED <<queuevars, msgvars, del_reqid_list, msg_index_, req, reads,
                   calls, crash>>

DoConnectStart(u) ==
    /\ UserAt(u, "start", "idle")
    /\ conn' = AsyncConnect(conn)
    /\ UNCHANGED <<queuevars, msgvars, del_reqid_list, msg_index_, req, reads,
                   calls, crash>>

\* Mutant: do_write is posted before the entry for the reply exists.
WriteOrderEarly ==
    [new |-> IF UseQueue THEN "push" ELSE "post", push |-> "post", post |-> "insert",
     insert |-> "assign", assign |-> "arm", arm |-> "idle"]

\* write(): newMsgBuf takes an id, queues the message, makes the entry for the
\* reply and arms its timer; then do_write is posted.
WriteOrder ==
    [new |-> IF UseQueue THEN "push" ELSE "insert", push |-> "insert",
     insert |-> "assign", assign |-> "arm", arm |-> "post", post |-> "idle"]

WriteNew(u) ==
    /\ msg_index_ <= MaxReq
    /\ UserAt(u, "idle", WriteOrder.new)
    /\ req' = [req EXCEPT ![u] = msg_index_]
    /\ msg_index_' = msg_index_ + 1
    /\ UNCHANGED <<conn, queuevars, msgvars, del_reqid_list, reads, calls, crash>>

WritePush(u) ==
    /\ UserAt(u, "push", WriteOrder.push)
    /\ write_msg_queue_' = Append(write_msg_queue_, req[u])
    /\ UNCHANGED <<dummy, dropped, conn, msgvars, del_reqid_list, msg_index_, req, reads, calls, crash>>

\* recv_msg_map_[id]: operator[] inserts an empty pointer and lets go of the lock.
WriteInsert(u) ==
    /\ UserAt(u, "insert", WriteOrder.insert)
    /\ recv_msg_map_' = [recv_msg_map_ EXCEPT ![req[u]] = "null"]
    /\ UNCHANGED <<conn, queuevars, status, erase_flag, timer, del_reqid_list,
                   msg_index_, req, reads, calls, crash>>

WriteAssign(u) ==
    /\ UserAt(u, "assign", WriteOrder.assign)
    /\ recv_msg_map_' = [recv_msg_map_ EXCEPT ![req[u]] = "set"]
    /\ UNCHANGED <<conn, queuevars, status, erase_flag, timer, del_reqid_list,
                   msg_index_, req, reads, calls, crash>>

\* Mutant: do_init_timer forgets async_wait.
do_init_timer_forgotten(r) == timer

do_init_timer(r) == [timer EXCEPT ![r] = TRUE]

WriteArm(u) ==
    /\ UserAt(u, "arm", WriteOrder.arm)
    /\ timer' = do_init_timer(req[u])
    /\ UNCHANGED <<conn, queuevars, recv_msg_map_, status, erase_flag,
                   del_reqid_list, msg_index_, req, reads, calls, crash>>

\* Mutant: do_write is only posted when the queue was empty before.
PostWriteLazy(c, r) ==
    IF UseQueue /\ Len(write_msg_queue_) > 1 THEN c
    ELSE Post(c, H("dowrite", IF UseQueue THEN 0 ELSE r, TRUE))

PostWrite(c, r) == Post(c, H("dowrite", IF UseQueue THEN 0 ELSE r, TRUE))

WritePost(u) ==
    /\ UserAt(u, "post", WriteOrder.post)
    /\ conn' = PostWrite(conn, req[u])
    /\ UNCHANGED <<queuevars, msgvars, del_reqid_list, msg_index_, req, reads,
                   calls, crash>>

\* read(reqid) of the request the user wrote last; no entry returns nullptr.
ReadFind(u) ==
    /\ req[u] # 0
    /\ reads[req[u]] < MaxReads
    /\ UserAt(u, "idle", IF recv_msg_map_[req[u]] = "none" THEN "idle" ELSE "get")
    /\ reads' = [reads EXCEPT ![req[u]] = @ + 1]
    /\ UNCHANGED <<conn, queuevars, msgvars, del_reqid_list, msg_index_, req,
                   calls, crash>>

\* recv_msg_map_[reqid], dereferenced; operator[] makes an empty pointer when
\* the entry was erased since find().
ReadGet(u) ==
    /\ UserAt(u, "get", "poll")
    /\ \/ /\ recv_msg_map_[req[u]] = "set"
          /\ UNCHANGED <<recv_msg_map_, crash>>
       \/ /\ recv_msg_map_[req[u]] # "set"
          /\ recv_msg_map_' = [recv_msg_map_ EXCEPT ![req[u]] = "null"]
          /\ crash' = "nullref"
    /\ UNCHANGED <<conn, queuevars, status, erase_flag, timer, del_reqid_list,
                   msg_index_, req, reads, calls>>

\* Mutant: the loop ends on any status.
IsResultAny(v) == TRUE

IsResult(v) == v \in {"ERROR", "READ_OK", "TIMEOUT"}

\* The status is a result; until then the loop sleeps.
ReadResult(u) ==
    /\ UserAt(u, "poll", "del")
    /\ IsResult(status[req[u]])
    /\ erase_flag' = [erase_flag EXCEPT ![req[u]] = "STATE"]
    /\ UNCHANGED <<conn, queuevars, recv_msg_map_, status, timer, del_reqid_list,
                   msg_index_, req, reads, calls, crash>>

ReadReturn(u) ==
    /\ UserAt(u, "del", "idle")
    /\ del_reqid_list' = Append(del_reqid_list, req[u])
    /\ UNCHANGED <<conn, queuevars, msgvars, msg_index_, req, reads, calls, crash>>

\* close()
UserClose(u) ==
    /\ closes < MaxCloses /\ opens + closes < MaxCalls
    /\ UserAt(u, "idle", "idle")
    /\ closes' = closes + 1
    /\ conn' = Post(conn, H("close", 0, TRUE))
    /\ UNCHANGED <<queuevars, msgvars, del_reqid_list, msg_index_, req, reads,
                   opens, crash>>

\* destroy(), called once and when no other call is under way or to come: it
\* sleeps until the queue and the map are empty.
Destroy(u) ==
    /\ MayDestroy
    /\ \A v \in Users : pc[v] = "idle"
    /\ crash = "none"
    /\ pc' = [v \in Users |-> IF v = u THEN "drain" ELSE "gone"]
    /\ UNCHANGED <<conn, queuevars, msgvars, sweepvars, msg_index_, req, reads, calls,
                   netvars, crash>>

Drained == write_msg_queue_ = <<>> /\ \A r \in Req : recv_msg_map_[r] = "none"

\* do_close runs on this thread, beside the io thread.
DestroyClose(u) ==
    /\ UserAt(u, "drain", "delete")
    /\ Drained
    /\ do_close(conn)
    /\ UNCHANGED <<queuevars, msgvars, del_reqid_list, msg_index_, req, reads, calls>>

DestroyDelete(u) ==
    /\ UserAt(u, "delete", "stop")
    /\ conn' = [CloseSocket(conn) EXCEPT !.sock = "null"]
    /\ UNCHANGED <<queuevars, msgvars, del_reqid_list, msg_index_, req, reads, calls, crash>>

\* pool_client_::destroy then stops the io_service and joins its thread.
DestroyStop(u) ==
    /\ UserAt(u, "stop", "done")
    /\ UNCHANGED <<conn, queuevars, msgvars, del_reqid_list, msg_index_, req, reads, calls, crash>>

\* A user decides to call something; once called, it goes on.
UserCall(u) == IsOpen(u) \/ WriteNew(u) \/ ReadFind(u) \/ UserClose(u) \/ Destroy(u)
UserStep(u) ==
    \/ DoConnectCheck(u) \/ DoConnectSet(u) \/ DoConnectStart(u)
    \/ WritePush(u) \/ WriteInsert(u) \/ WriteAssign(u) \/ WriteArm(u) \/ WritePost(u)
    \/ ReadGet(u) \/ ReadResult(u) \/ ReadReturn(u)
    \/ DestroyClose(u) \/ DestroyDelete(u) \/ DestroyStop(u)

-----------------------------------------------------------------------------
(* The reactor, polled by the io thread between two handlers *)

Reactor ==
    /\ IoIdle
    /\ UNCHANGED <<queuevars, recv_msg_map_, status, erase_flag, del_reqid_list,
                   sweep, uservars, replied>>

ConnectOk ==
    /\ Reactor
    /\ conn.sock = "connecting"
    /\ conns < MaxConns
    /\ conns' = conns + 1
    /\ conn' = Post([conn EXCEPT !.sock = "connected"], H("connect", 0, TRUE))
    /\ UNCHANGED <<received, garbled, timer, e_timer, crash>>

ConnectFail ==
    /\ "refused" \in Faults
    /\ Reactor
    /\ conn.sock = "connecting"
    /\ conn' = Post([conn EXCEPT !.sock = "dead"], H("connect", 0, FALSE))
    /\ UNCHANGED <<conns, received, garbled, timer, e_timer, crash>>

\* The only read gets the next part of the stream, or the oldest one does.
ReadComplete ==
    /\ Reactor
    /\ conn.rops # <<>>
    /\ conn.inbox # <<>>
    /\ conns \notin garbled
    /\ LET op == Head(conn.rops)
           f == Head(conn.inbox)
           c == [conn EXCEPT !.rops = Tail(@), !.inbox = Tail(@)]
       IN /\ op.h = f.part
          /\ conn' = Post(c, IF op.h = "head" THEN H("head", f.id, TRUE) ELSE op)
          /\ received' = IF op.h = "body" THEN received \cup {f.id} ELSE received
    /\ UNCHANGED <<conns, garbled, timer, e_timer, crash>>

\* async_read reads on in as many pieces as it takes, so two of them on one socket
\* share what comes between them; and a read that comes next may want a header
\* where a body is, or the other way round.  From then on nothing in this stream
\* is where it is looked for: any of the reads may end, there may be more to read
\* or nothing, and a header may have any id.
ReadGarbled ==
    /\ Reactor
    /\ conn.rops # <<>>
    /\ conn.inbox # <<>>
    /\ \/ Len(conn.rops) > 1
       \/ Head(conn.rops).h # Head(conn.inbox).part
       \/ conns \in garbled
    /\ \E k \in DOMAIN conn.rops, rest \in {conn.inbox, <<>>}, id \in 0..MaxReq :
          LET op == conn.rops[k]
              c == [conn EXCEPT !.rops = SubSeq(@, 1, k - 1) \o SubSeq(@, k + 1, Len(@)),
                                !.inbox = rest]
          IN conn' = Post(c, IF op.h = "head" THEN H("head", id, TRUE) ELSE op)
    /\ garbled' = garbled \cup {conns}
    /\ UNCHANGED <<conns, received, timer, e_timer, crash>>

ReadFail ==
    /\ Reactor
    /\ conn.rops # <<>>
    /\ conn.inbox = <<>>
    /\ conn.sock \in {"eof", "dead"}
    /\ conn' = Post([conn EXCEPT !.rops = Tail(@)], [Head(conn.rops) EXCEPT !.ok = FALSE])
    /\ UNCHANGED <<conns, received, garbled, timer, e_timer, crash>>

\* Who refers to the message of a request while it is sent: the queue, whose
\* dummy node keeps the message popped last, a write() under way, a posted
\* do_write(res).  async_write is given the bytes only.
Referred(r) ==
    \/ dummy = r
    \/ \E i \in DOMAIN write_msg_queue_ : write_msg_queue_[i] = r
    \/ \E u \in Users : req[u] = r /\ pc[u] \in {"push", "insert", "assign", "arm", "post"}
    \/ \E i \in DOMAIN conn.ready : conn.ready[i].h = "dowrite" /\ conn.ready[i].id = r

\* The peer may not get the request when its bytes were freed meanwhile.
WriteComplete ==
    /\ Reactor
    /\ conn.wops # <<>>
    /\ conn.sock \in {"connected", "eof"}
    /\ LET r == Head(conn.wops).id
           c == Post([conn EXCEPT !.wops = Tail(@)], Head(conn.wops))
       IN \/ conn.sock = "connected" /\ conn' = [c EXCEPT !.asked = @ \cup {r}]
          \/ conn.sock = "eof" /\ conn' = c
          \/ ~Referred(r) /\ conn' = c
    /\ UNCHANGED <<conns, received, garbled, timer, e_timer, crash>>

WriteFail ==
    /\ Reactor
    /\ conn.wops # <<>>
    /\ conn.sock = "dead"
    /\ conn' = Post([conn EXCEPT !.wops = Tail(@)], [Head(conn.wops) EXCEPT !.ok = FALSE])
    /\ UNCHANGED <<conns, received, garbled, timer, e_timer, crash>>

TimerExpire(r) ==
    /\ Reactor
    /\ timer[r]
    /\ timer' = [timer EXCEPT ![r] = FALSE]
    /\ conn' = Post(conn, H("timeout", r, TRUE))
    /\ UNCHANGED <<conns, received, garbled, e_timer, crash>>

EraseTimerExpire ==
    /\ Reactor
    /\ e_timer
    /\ e_timer' = FALSE
    /\ conn' = Post(conn, H("erase", 0, TRUE))
    /\ UNCHANGED <<conns, received, garbled, timer, crash>>

-----------------------------------------------------------------------------
(* The peer and the network *)

\* One reply; a peer may answer a request more than once (module LinkSession).
PeerReply(r) ==
    /\ crash = "none"
    /\ conn.sock = "connected"
    /\ r \in conn.asked
    /\ replied[r] < MaxReplies
    /\ replied' = [replied EXCEPT ![r] = @ + 1]
    /\ conn' = [conn EXCEPT !.inbox = @ \o <<[part |-> "head", id |-> r],
                                            [part |-> "body", id |-> r]>>]
    /\ UNCHANGED <<queuevars, msgvars, sweepvars, uservars, conns,
                   received, garbled, crash>>

\* The connection ends (eof) or is reset (dead), after any part of what was sent.
NetBreak(how) ==
    /\ crash = "none"
    /\ conn.sock \in {"connected", "eof"} \ {how}
    /\ \E n \in 0..Len(conn.inbox) :
          conn' = [conn EXCEPT !.sock = how, !.asked = {},
                               !.inbox = SubSeq(@, 1, n)]
    /\ UNCHANGED <<queuevars, msgvars, sweepvars, uservars, netvars, crash>>

Network ==
    \/ ConnectOk \/ ConnectFail \/ ReadComplete \/ ReadGarbled \/ ReadFail
    \/ WriteComplete \/ WriteFail
    \/ \E r \in Req : PeerReply(r)
    \/ \E how \in Faults \ {"refused"} : NetBreak(how)

Next ==
    \/ IoThread
    \/ \E u \in Users : UserCall(u) \/ UserStep(u)
    \/ \E r \in Req : TimerExpire(r)
    \/ EraseTimerExpire
    \/ Network

Spec == Init /\ [][Next]_vars

\* The kernel reports what became of an operation.
Completion ==
    \/ ConnectOk \/ ConnectFail \/ ReadComplete \/ ReadGarbled \/ ReadFail
    \/ WriteComplete \/ WriteFail

\* The io thread keeps running handlers, a user thread inside a call goes on,
\* and the reactor, which is polled again and again but never during a pass of
\* erase_msg_timer, finds expired timers and finished operations.  The erase
\* timer is set anew by every pass, so only a wait left alone must expire.  The
\* peer owes nothing.
Fairness ==
    /\ WF_vars(IoThread)
    /\ \A u \in Users : WF_vars(UserStep(u))
    /\ \A r \in Req : SF_vars(TimerExpire(r))
    /\ WF_vars(EraseTimerExpire)
    /\ SF_vars(Completion)

FairSpec == Spec /\ Fairness

-----------------------------------------------------------------------------
(* Properties *)

\* The type invariant.
TypeOK ==
    /\ conn \in Conn
    /\ write_msg_queue_ \in Seq(Req)
    /\ dummy \in 0..MaxReq
    /\ dropped \in Nat
    /\ recv_msg_map_ \in [Req -> {"none", "null", "set"}]
    /\ status \in [Req -> {"UNKNOWN", "READ_OK", "TIMEOUT", "ERROR"}]
    /\ erase_flag \in [Req -> {"UNKNOWN", "STATE", "EXEC"}]
    /\ timer \in [Req -> BOOLEAN]
    /\ del_reqid_list \in Seq(Req)
    /\ e_timer \in BOOLEAN
    /\ sweep \in [on : BOOLEAN, i : Nat]
    /\ msg_index_ \in 1..(MaxReq + 1)
    /\ pc \in [Users -> {"idle", "check", "set", "start", "push", "insert", "assign",
                         "arm", "post", "get", "poll", "del", "drain", "delete", "stop",
                         "done", "gone"}]
    /\ req \in [Users -> 0..MaxReq]
    /\ \A u \in Users : pc[u] \in {"push", "insert", "assign", "arm", "post", "get",
                                   "poll", "del"} => req[u] \in Req
    /\ reads \in [Req -> Nat]
    /\ opens \in Nat
    /\ closes \in Nat
    /\ conns \in Nat
    /\ replied \in [Req -> Nat]
    /\ received \in SUBSET Req
    /\ garbled \in SUBSET Nat
    /\ crash \in {"none", "terminate", "nullref", "dangling", "misframed"}

Queued(h, id) == \E i \in DOMAIN conn.ready : conn.ready[i].h = h /\ conn.ready[i].id = id

\* clietn_status is CT_CONN only while something will still change it: a
\* connection attempt, its handler in the scheduler's queue, or a thread about
\* to start one.  do_connect() returns at once in that status, so without this
\* the client could never connect again.
ConnectOutstanding ==
    conn.status = "CONN" =>
        \/ conn.sock = "connecting"
        \/ Queued("connect", 0)
        \/ \E u \in Users : pc[u] = "start"

\* The loop in read() has no bound of its own: while the request has no result
\* its timer is armed or has fired, so some handler will end the loop.
WaiterWakeable ==
    \A u \in Users :
        pc[u] = "poll" /\ status[req[u]] = "UNKNOWN" /\ crash = "none" =>
            timer[req[u]] \/ Queued("timeout", req[u])

\* CT_READ_OK is the truth: the reply to this very request was received to its
\* last byte.  So it is throughout the first connection, where one chain of reads
\* has the stream for itself, and still on the second, whatever aborted handlers
\* run meanwhile, until two reads share its stream.  From the third connection on
\* it is not: the handler of a header read on the first may run behind the connect
\* handlers of two others, and then the body of another request's reply is read
\* into its record.
ReadOkWasReceived ==
    /\ conns <= 1 => garbled = {}
    /\ conns <= 2 /\ garbled = {} => \A r \in Req : status[r] = "READ_OK" => r \in received

\* A request whose result was taken stays in del_reqid_list until it is erased,
\* whichever way the passes of erase_msg_timer and the pushes of readers interleave.
TakenIsListed ==
    \A r \in Req :
        recv_msg_map_[r] = "set" /\ erase_flag[r] # "UNKNOWN" =>
            \/ \E i \in DOMAIN del_reqid_list : del_reqid_list[i] = r
            \/ \E u \in Users : pc[u] = "del" /\ req[u] = r

\* No result is lost to the sweeper: an entry is erased only when its request
\* has a result and no first read() of it is still under way.
ErasedOnlyWhenTaken ==
    [][\A r \in Req :
          recv_msg_map_[r] = "set" /\ recv_msg_map_'[r] = "none" =>
              /\ status[r] # "UNKNOWN"
              /\ \A u \in Users :
                    req[u] = r /\ reads[r] = 1 => pc[u] \notin {"get", "poll"}]_vars

Count(h) == Cardinality({i \in DOMAIN conn.ready : conn.ready[i].h = h})

\* The chains of passes of erase_msg_timer: the running pass, the outstanding wait,
\* handlers in the scheduler's queue, and connect handlers that are to start one.
Chains ==
    Cardinality({x \in {1} : sweep.on}) + Cardinality({x \in {1} : e_timer})
    + Count("erase")
    + Cardinality({i \in DOMAIN conn.ready : conn.ready[i].h = "connect" /\ conn.ready[i].ok})

\* Throughout the first connection, broken or closed as it may be, the passes of
\* erase_msg_timer are one chain: it does not end, so results keep being erased,
\* and it does not fork, so each pass waits three seconds for its turn.  The next
\* connection starts another chain on the same timer: from then on every pass
\* cancels the wait of the other, whose handler runs at once.
OneEraseChain == crash = "none" /\ conns <= 1 => Chains = conns

\* While the client is connected whenever do_write runs, a message waits in the send
\* queue only for a do_write that is posted or about to be.  One that found it not
\* connected is lost to its message: nothing calls it again when there is a
\* connection, and the messages are sent by the calls for later ones.
QueuedIsPosted ==
    dropped = 0 =>
        Len(write_msg_queue_) <=
            Count("dowrite") + Cardinality({u \in Users : pc[u] \in {"insert", "assign", "arm", "post"}})

\* Without the queue no reply finds its request half made: do_write gets the
\* message only when the entry for the reply is complete.
ReplyFindsRecord ==
    ~UseQueue /\ garbled = {} /\ Runs("head") /\ Job.ok => Entry(Job.id) # "null"

\* The timer's handler is bound to a bare address.  Without the queue, with one
\* chain of passes, one request and one read() of it, it never runs on a deleted
\* record: the timer is armed before the reply can come, so a handler that lost
\* the race against the reply is in the scheduler's queue before the second of
\* the two passes it takes to erase the entry.  A second request may lengthen
\* the first pass until it meets the entry twice.
TimerFindsRecord ==
    ~UseQueue /\ conns <= 1 /\ msg_index_ <= 2 /\ (\A r \in Req : reads[r] <= 1)
        => crash # "dangling"

\* shutdown() throws in the middle of do_close only when the network had reset
\* the connection, when the close() a user called comes to a client that is not
\* connected, or in destroy(); never because handlers that were aborted, be it by a
\* close() before, close once more.
ThrowsOnlyWhenGone ==
    [][crash # "terminate" /\ crash' = "terminate" =>
          \/ conn.sock = "dead"
          \/ Runs("close") /\ conn.sock = "closed"
          \/ \E u \in Users : pc[u] = "drain" /\ pc'[u] = "delete"]_vars

\* Every read() returns, whatever the network does: the request's timer wakes it.
ReadReturns ==
    \A u \in Users : pc[u] = "poll" ~> pc[u] # "poll" \/ crash # "none"

\* Once the client was connected, a request whose result was taken is erased.
TakenIsErased ==
    \A r \in Req :
        conns > 0 /\ erase_flag[r] # "UNKNOWN" ~>
            recv_msg_map_[r] = "none" \/ crash # "none"

\* destroy() ends, if the client was connected once, nothing waits to be sent
\* and every result was taken: the passes empty the map.
DestroyReturns ==
    \A u \in Users :
        /\ pc[u] = "drain" /\ conns > 0 /\ write_msg_queue_ = <<>>
        /\ \A r \in Req : recv_msg_map_[r] = "none" \/ erase_flag[r] # "UNKNOWN"
        ~> pc[u] = "done" \/ crash # "none"

-----------------------------------------------------------------------------
(* What comments and the readme say of the client, against the code *)

\* client_loop::write: the message is deleted when it has been sent, so a write
\* that is outstanding still has its bytes.  This needs what readme.txt says of
\* the message queue, that there is one write at a time.
SentBufferLives ==
    \A i \in DOMAIN conn.wops : Referred(conn.wops[i].id)

\* client_msg.hpp, set_status: a status means there is a result, so the timeout
\* is off; a request that was answered does not time out.
AnsweredNeverTimesOut ==
    [][\A r \in Req : status[r] = "READ_OK" => status'[r] # "TIMEOUT"]_vars

=============================================================================
