----------------------------- MODULE LinkSession -----------------------------
(***************************************************************************)
(* The server of include/server_async_loop.h: link_server accepts          *)
(* connections, each served by a link_session that reads a header, reads   *)
(* the body, replies through a queue of outgoing messages and reads the    *)
(* next header.  All sessions share the one thread that runs io_service.   *)
(*                                                                         *)
(* A message is the number of the request it carries: reply() gives the    *)
(* answer, from the callback or the echo, the req_id of the request.  The  *)
(* reactor, the network and the clients are external.  A client has at     *)
(* most Window requests without a reply: 1 is client.cpp, which reads the  *)
(* reply before it writes again; threads that share a client send more.    *)
(*                                                                         *)
(* crash: "terminate" an exception ended io_service::run(), "popempty"     *)
(* pop_front() was called on an empty deque.                               *)
(***************************************************************************)
EXTENDS Integers, Sequences

CONSTANTS
    Sessions,  \* connections to the server
    MaxReq,    \* bound: number of requests a client sends
    Window,    \* requests a client sends before it waits for a reply
    Resets     \* whether a client may break its connection

ASSUME LinkSessionAssumption ==
    /\ MaxReq \in Nat
    /\ Window \in Nat \ {0}
    /\ Resets \in BOOLEAN

Req == 1..MaxReq

VARIABLES
    sock,         \* per session: not "accepted" yet, "connected", "dead"
    rop,          \* per session: the read outstanding, "none", "head" or "body"
    write_msgs_,  \* per session: the deque of replies
    wops,         \* per session: the messages being written, oldest first
    inbox,        \* per session: requests not read yet
    asked,        \* per session: number of requests the client sent
    outbox,       \* per session: replies the client got, in order
    acceptor_,    \* an async_accept is outstanding
    ready,        \* the scheduler's queue: handler, session, error code
    crash

vars == <<sock, rop, write_msgs_, wops, inbox, asked, outbox, acceptor_, ready,
          crash>>

H(h, s, ok) == [h |-> h, s |-> s, ok |-> ok]

\* The type invariant.
TypeOK ==
    /\ sock \in [Sessions -> {"none", "connected", "dead"}]
    /\ rop \in [Sessions -> {"none", "head", "body"}]
    /\ write_msgs_ \in [Sessions -> Seq(Req)]
    /\ wops \in [Sessions -> Seq(Req)]
    /\ inbox \in [Sessions -> Seq(Req)]
    /\ asked \in [Sessions -> 0..MaxReq]
    /\ outbox \in [Sessions -> Seq(Req)]
    /\ acceptor_ \in BOOLEAN
    /\ ready \in Seq([h : {"accept", "head", "body", "written"}, s : Sessions,
                      ok : BOOLEAN])
    /\ crash \in {"none", "terminate", "popempty"}

Init ==
    /\ sock = [s \in Sessions |-> "none"]
    /\ rop = [s \in Sessions |-> "none"]
    /\ write_msgs_ = [s \in Sessions |-> <<>>]
    /\ wops = [s \in Sessions |-> <<>>]
    /\ inbox = [s \in Sessions |-> <<>>]
    /\ asked = [s \in Sessions |-> 0]
    /\ outbox = [s \in Sessions |-> <<>>]
    /\ acceptor_ = TRUE
    /\ ready = <<>>
    /\ crash = "none"

-----------------------------------------------------------------------------
(* The handlers *)

\* Mutant: the acceptor only waits again after a connection.
ListensAgainOk(ok) == ok

\* handle_accept calls start_accept whatever became of the last one.
ListensAgain(ok) == TRUE

Runs(h, s, ok) ==
    /\ crash = "none"
    /\ ready # <<>>
    /\ Head(ready) = H(h, s, ok)
    /\ ready' = Tail(ready)
    /\ acceptor_' = IF h = "accept" THEN ListensAgain(ok) ELSE acceptor_
    /\ UNCHANGED <<sock, asked, outbox>>

\* handle_accept: the session starts with do_read.
HandleAccept(s) ==
    /\ \/ /\ Runs("accept", s, TRUE)
          /\ rop' = [rop EXCEPT ![s] = "head"]
       \/ /\ Runs("accept", s, FALSE)
          /\ UNCHANGED rop
    /\ UNCHANGED <<write_msgs_, wops, inbox, crash>>

HandleReadHeader(s) ==
    /\ Runs("head", s, TRUE)
    /\ rop' = [rop EXCEPT ![s] = "body"]
    /\ UNCHANGED <<write_msgs_, wops, inbox, crash>>

\* Mutant: the header of the reply keeps its default req_id, -1.
ReplyIdUnset(r) == -1

\* The reply carries the id of the request.
ReplyId(r) == r

\* Mutant: the reply is written at once and joins no queue.
ReplyUnqueued(s, r) ==
    /\ wops' = [wops EXCEPT ![s] = Append(@, r)]
    /\ UNCHANGED write_msgs_

\* reply: the answer joins the queue, then do_write starts a write of its front.
reply(s, r) ==
    /\ write_msgs_' = [write_msgs_ EXCEPT ![s] = Append(@, ReplyId(r))]
    /\ wops' = [wops EXCEPT ![s] = Append(@, Head(write_msgs_'[s]))]

\* Mutant: start() is not called after the reply.
NextReadNone == "none"

NextRead == "head"

\* handle_read_msg; it prints remote_endpoint(), which throws on a socket the
\* client has reset.
HandleReadMsg(s) ==
    /\ Runs("body", s, TRUE)
    /\ \/ /\ sock[s] = "connected"
          /\ reply(s, Head(inbox[s]))
          /\ inbox' = [inbox EXCEPT ![s] = Tail(@)]
          /\ rop' = [rop EXCEPT ![s] = NextRead]
          /\ UNCHANGED crash
       \/ /\ sock[s] = "dead"
          /\ crash' = "terminate"
          /\ UNCHANGED <<rop, write_msgs_, wops, inbox>>

\* Mutant: the message that was written is not removed.
PoppedNot(q) == q

Popped(q) == Tail(q)

\* handle_write: the front is removed, the next one is written.
HandleWrite(s) ==
    /\ Runs("written", s, TRUE)
    /\ \/ /\ write_msgs_[s] = <<>>
          /\ crash' = "popempty"
          /\ UNCHANGED <<write_msgs_, wops>>
       \/ /\ write_msgs_[s] # <<>>
          /\ write_msgs_' = [write_msgs_ EXCEPT ![s] = Popped(@)]
          /\ wops' = IF write_msgs_'[s] = <<>> THEN wops
                     ELSE [wops EXCEPT ![s] = Append(@, Head(write_msgs_'[s]))]
          /\ UNCHANGED crash
    /\ UNCHANGED <<rop, inbox>>

\* A failed read or write only prints: nothing is started again.
HandleError(s) ==
    /\ \E h \in {"head", "body", "written"} : Runs(h, s, FALSE)
    /\ UNCHANGED <<rop, write_msgs_, wops, inbox, crash>>

-----------------------------------------------------------------------------
(* The reactor and the clients *)

\* A client connects, or the accept fails.
Accept(s) ==
    /\ crash = "none"
    /\ acceptor_
    /\ sock[s] = "none"
    /\ \E ok \in {TRUE, ~Resets} :
          /\ sock' = IF ok THEN [sock EXCEPT ![s] = "connected"] ELSE sock
          /\ ready' = Append(ready, H("accept", s, ok))
    /\ acceptor_' = FALSE
    /\ UNCHANGED <<rop, write_msgs_, wops, inbox, asked, outbox, crash>>

\* A header or a body arrived, or the client is gone.
ReadDone(s) ==
    /\ crash = "none"
    /\ rop[s] # "none"
    /\ \E ok \in BOOLEAN :
          /\ ok => inbox[s] # <<>>
          /\ ~ok => sock[s] = "dead"
          /\ ready' = Append(ready, H(rop[s], s, ok))
    /\ rop' = [rop EXCEPT ![s] = "none"]
    /\ UNCHANGED <<sock, write_msgs_, wops, inbox, asked, outbox, acceptor_, crash>>

\* The oldest write went out, or failed.  The call that hands the last bytes to
\* the kernel also queues the handler, so it is queued before anything the
\* client does on receipt of the reply can be.
WriteDone(s) ==
    /\ crash = "none"
    /\ wops[s] # <<>>
    /\ wops' = [wops EXCEPT ![s] = Tail(@)]
    /\ ready' = Append(ready, H("written", s, sock[s] = "connected"))
    /\ outbox' = IF sock[s] = "connected"
                 THEN [outbox EXCEPT ![s] = Append(@, Head(wops[s]))] ELSE outbox
    /\ UNCHANGED <<sock, rop, write_msgs_, inbox, asked, acceptor_, crash>>

ClientSend(s) ==
    /\ crash = "none"
    /\ sock[s] = "connected"
    /\ asked[s] < MaxReq
    /\ asked[s] < Len(outbox[s]) + Window
    /\ asked' = [asked EXCEPT ![s] = @ + 1]
    /\ inbox' = [inbox EXCEPT ![s] = Append(@, asked[s] + 1)]
    /\ UNCHANGED <<sock, rop, write_msgs_, wops, outbox, acceptor_, ready, crash>>

ClientReset(s) ==
    /\ Resets
    /\ crash = "none"
    /\ sock[s] = "connected"
    /\ sock' = [sock EXCEPT ![s] = "dead"]
    /\ UNCHANGED <<rop, write_msgs_, wops, inbox, asked, outbox, acceptor_, ready, crash>>

Handle(s) ==
    HandleAccept(s) \/ HandleReadHeader(s) \/ HandleReadMsg(s) \/ HandleWrite(s) \/ HandleError(s)

Next ==
    \E s \in Sessions : \/ Handle(s) \/ Accept(s) \/ ReadDone(s) \/ WriteDone(s)
                        \/ ClientSend(s) \/ ClientReset(s)

Spec == Init /\ [][Next]_vars

\* The io thread runs handlers, and the kernel reports finished operations; a
\* client may stay silent.
Fairness ==
    \A s \in Sessions : WF_vars(Handle(s)) /\ WF_vars(ReadDone(s)) /\ WF_vars(WriteDone(s))

FairSpec == Spec /\ Fairness

-----------------------------------------------------------------------------
(* Properties *)

\* The server never stops listening, although start_accept() is only called from
\* the handler of the last accept, and that may have failed.
KeepsListening ==
    crash = "none" => acceptor_ \/ \E i \in DOMAIN ready : ready[i].h = "accept"

\* handle_read_msg says replies are sent one after the other: what a client has
\* received is the reply to request 1, then to request 2 and so on, none twice,
\* none skipped, whatever other sessions do on the same thread.
RepliesInOrder ==
    \A s \in Sessions : outbox[s] = [i \in 1..Len(outbox[s]) |-> i]

\* A write never outlives its message: the buffer being written belongs to a
\* message still in the queue, and pop_front() always has something to pop.
WritesAreQueued ==
    /\ crash # "popempty"
    /\ \A s \in Sessions : \A i \in DOMAIN wops[s] :
          \E j \in DOMAIN write_msgs_[s] : write_msgs_[s][j] = wops[s][i]

\* Every request is answered, unless its client broke the connection or the
\* exception one client's reset causes ended the server for all.
Answered ==
    \A s \in Sessions : \A r \in Req :
        asked[s] >= r ~> Len(outbox[s]) >= r \/ sock[s] = "dead" \/ crash = "terminate"

=============================================================================
