-------------------------- MODULE ClientLoopProofs ---------------------------
(***************************************************************************)
(* Theorems about ClientLoop, for any number of users, requests,           *)
(* connections, calls and faults: its type invariant, and SocketInv, what  *)
(* the status, the socket and the handlers around it have to do with each  *)
(* other.  SocketInv says of every handler that is ready or outstanding    *)
(* what made it (a connect handler, an aborted read), which is what decides*)
(* whether CT_CONN can be left with nothing under way.  Last, that         *)
(* do_close() meets a socket that is gone in no handler but its own.       *)
(***************************************************************************)
EXTENDS ClientLoop, SequenceTheorems, FiniteSetTheorems, TLAPS

-----------------------------------------------------------------------------
(* The operators on the socket and its handlers, and their types *)

\* A handler is a record of its name, its request and its error code.
LEMMA HandlerType ==
    ASSUME NEW h \in {"connect", "head", "body", "dowrite", "written", "timeout",
                      "erase", "close"}, NEW id \in 0..MaxReq, NEW ok \in BOOLEAN
    PROVE  H(h, id, ok) \in Handler
BY DEF H, Handler

\* The handler of a connection that was aborted or never started.
LEMMA ConnectErrorType == H("connect", 0, FALSE) \in Handler
<1>1. 0 \in 0..MaxReq
  BY ClientLoopAssumption
<1> QED
  BY <1>1 DEF H, Handler

\* The handlers of aborted operations are handlers.
LEMMA AbortedType ==
    ASSUME NEW ops \in Seq(Handler)
    PROVE  /\ Aborted(ops) \in Seq(Handler)
           /\ Len(Aborted(ops)) = Len(ops)
           /\ \A i \in 1..Len(ops) : Aborted(ops)[i] = [ops[i] EXCEPT !.ok = FALSE]
<1>1. DOMAIN ops = 1..Len(ops) /\ Len(ops) \in Nat
  BY LenProperties
<1>2. \A i \in 1..Len(ops) : Aborted(ops)[i] = [ops[i] EXCEPT !.ok = FALSE]
  BY <1>1 DEF Aborted
<1>3. \A i \in 1..Len(ops) : Aborted(ops)[i] \in Handler
  <2> TAKE i \in 1..Len(ops)
  <2>1. ops[i] \in Handler
    BY ElementOfSeq
  <2> QED
    BY <1>2, <2>1 DEF Handler
<1>4. Aborted(ops) = [i \in 1..Len(ops) |-> Aborted(ops)[i]]
  BY <1>1 DEF Aborted
<1>5. Aborted(ops) \in Seq(Handler) /\ Len(Aborted(ops)) = Len(ops)
  <2> DEFINE A == Aborted(ops)
  <2>1. A \in [1..Len(ops) -> Handler]
    BY <1>3, <1>4
  <2> HIDE DEF A
  <2>2. A \in Seq(Handler)
    BY <2>1, <1>1, SeqDef
  <2>3. Len(A) = Len(ops)
    BY <2>1, <2>2, <1>1, LenProperties
  <2> QED
    BY <2>2, <2>3 DEF A
<1> QED
  BY <1>2, <1>5

\* The fields of conn, one by one.
LEMMA ConnFields ==
    ASSUME NEW c \in Conn
    PROVE  /\ c.status \in {"UNKNOWN", "CONN", "CONN_OK", "CONN_CLOSE", "ERROR"}
           /\ c.sock \in {"closed", "connecting", "connected", "eof", "dead", "null"}
           /\ c.ready \in Seq(Handler)
           /\ c.rops \in Seq(Handler)
           /\ c.wops \in Seq(Handler)
           /\ c.inbox \in Seq(Fragment)
           /\ c.asked \in SUBSET (0..MaxReq)
BY DEF Conn

\* Any of them may be replaced.
LEMMA ConnExcept ==
    ASSUME NEW c \in Conn
    PROVE  /\ \A x \in {"UNKNOWN", "CONN", "CONN_OK", "CONN_CLOSE", "ERROR"} :
                 [c EXCEPT !.status = x] \in Conn
           /\ \A x \in {"closed", "connecting", "connected", "eof", "dead", "null"} :
                 [c EXCEPT !.sock = x] \in Conn
           /\ \A x \in Seq(Handler) : /\ [c EXCEPT !.ready = x] \in Conn
                                      /\ [c EXCEPT !.rops = x] \in Conn
                                      /\ [c EXCEPT !.wops = x] \in Conn
           /\ \A x \in Seq(Fragment) : [c EXCEPT !.inbox = x] \in Conn
           /\ \A x \in SUBSET (0..MaxReq) : [c EXCEPT !.asked = x] \in Conn
BY DEF Conn

\* A handler posted to the scheduler.
LEMMA PostType ==
    ASSUME NEW c \in Conn, NEW h \in Handler
    PROVE  Post(c, h) \in Conn
<1>1. Append(c.ready, h) \in Seq(Handler)
  BY ConnFields, AppendProperties
<1> QED
  BY <1>1, ConnExcept DEF Post

\* A socket that is closed.
LEMMA CloseSocketType ==
    ASSUME NEW c \in Conn
    PROVE  CloseSocket(c) \in Conn
<1> DEFINE x == IF c.sock = "connecting" THEN <<H("connect", 0, FALSE)>> ELSE <<>>
<1>0. <<>> \in Seq(Handler)
  BY EmptySeq
<1>1. <<H("connect", 0, FALSE)>> \in Seq(Handler)
  <2> DEFINE h == H("connect", 0, FALSE)
  <2>1. h \in Handler
    BY ConnectErrorType
  <2> HIDE DEF h
  <2>2. <<h>> \in Seq(Handler)
    BY <2>1
  <2> QED
    BY <2>2 DEF h
<1>2. Aborted(c.rops) \in Seq(Handler) /\ Aborted(c.wops) \in Seq(Handler)
  BY ConnFields, AbortedType
<1> DEFINE R == c.ready \o x \o Aborted(c.rops) \o Aborted(c.wops)
<1>3. R \in Seq(Handler)
  BY ConnFields, <1>0, <1>1, <1>2, ConcatProperties
<1>4. CloseSocket(c) = [c EXCEPT !.sock = "closed", !.ready = R, !.rops = <<>>, !.wops = <<>>,
                                 !.inbox = <<>>, !.asked = {}]
  BY DEF CloseSocket
<1> HIDE DEF R
<1>5. <<>> \in Seq(Fragment)
  OBVIOUS
<1> QED
  BY <1>0, <1>3, <1>4, <1>5 DEF Conn

\* A connection that is started.
LEMMA AsyncConnectType ==
    ASSUME NEW c \in Conn
    PROVE  AsyncConnect(c) \in Conn
BY ConnectErrorType, PostType, ConnExcept DEF AsyncConnect

\* do_connect starts one or returns.
LEMMA DoConnectType ==
    ASSUME NEW c \in Conn
    PROVE  do_connect(c) \in Conn
BY ConnExcept, AsyncConnectType DEF do_connect

\* A read that is started.
LEMMA AsyncReadType ==
    ASSUME NEW c \in Conn, NEW h \in Handler
    PROVE  AsyncRead(c, h) \in Conn
<1>1. [h EXCEPT !.ok = FALSE] \in Handler
  BY DEF Handler
<1>2. Append(c.rops, h) \in Seq(Handler)
  BY ConnFields, AppendProperties
<1> QED
  BY <1>1, <1>2, PostType, ConnExcept DEF AsyncRead

\* A write that is started.
LEMMA AsyncWriteType ==
    ASSUME NEW c \in Conn, NEW r \in 0..MaxReq
    PROVE  AsyncWrite(c, r) \in Conn
<1>1. H("written", r, FALSE) \in Handler /\ H("written", r, TRUE) \in Handler
  BY HandlerType
<1>2. Append(c.wops, H("written", r, TRUE)) \in Seq(Handler)
  BY <1>1, ConnFields, AppendProperties
<1> QED
  BY <1>1, <1>2, PostType, ConnExcept DEF AsyncWrite

\* The scheduler without the handler it runs.
LEMMA TakenType ==
    ASSUME conn \in Conn, conn.ready # <<>>
    PROVE  Taken \in Conn /\ Job \in Handler
<1>1. Head(conn.ready) \in Handler /\ Tail(conn.ready) \in Seq(Handler)
  BY ConnFields, HeadTailProperties
<1> QED
  BY <1>1, ConnExcept DEF Taken, Job

\* do_close leaves a socket of the right type and ends in no other way than by
\* the exception shutdown() throws.
LEMMA DoCloseType ==
    ASSUME NEW c \in Conn, do_close(c)
    PROVE  conn' \in Conn /\ crash' \in {crash, "terminate"}
<1>1. [c EXCEPT !.status = "CONN_CLOSE"] \in Conn
  BY DEF Conn
<1>2. CloseSocket([c EXCEPT !.status = "CONN_CLOSE"]) \in Conn
  BY <1>1, CloseSocketType
<1> QED
  BY <1>1, <1>2 DEF do_close

\* do_write sends or leaves alone.
LEMMA DoWriteType ==
    ASSUME TypeOK, NEW c \in Conn, do_write(c)
    PROVE  /\ conn' \in Conn
           /\ write_msg_queue_' \in Seq(Req)
           /\ dummy' \in 0..MaxReq
           /\ dropped' \in Nat
<1>0. write_msg_queue_ \in Seq(Req) /\ dummy \in 0..MaxReq /\ dropped \in Nat
  BY DEF TypeOK
<1>1. CASE c.status # "CONN_OK" \/ write_msg_queue_ = <<>>
  BY <1>0, <1>1 DEF do_write
<1>2. CASE c.status = "CONN_OK" /\ write_msg_queue_ # <<>>
  <2>1. Head(write_msg_queue_) \in Req /\ Tail(write_msg_queue_) \in Seq(Req)
    BY <1>0, <1>2, HeadTailProperties
  <2>2. Head(write_msg_queue_) \in 0..MaxReq
    BY <2>1, ClientLoopAssumption DEF Req
  <2> QED
    BY <1>0, <1>2, <2>1, <2>2, AsyncWriteType DEF do_write
<1> QED
  BY <1>1, <1>2

-----------------------------------------------------------------------------
(* The type invariant *)

\* The client before any handler ran.
LEMMA InitType == Init => TypeOK
<1> SUFFICES ASSUME Init PROVE TypeOK
  OBVIOUS
<1> USE ClientLoopAssumption
<1> DEFINE c == [status |-> "UNKNOWN", sock |-> "closed", ready |-> <<>>, rops |-> <<>>,
                 wops |-> <<>>, inbox |-> <<>>, asked |-> {}]
<1>1. c \in Conn
  <2>1. <<>> \in Seq(Handler) /\ <<>> \in Seq(Fragment)
    BY EmptySeq
  <2> QED
    BY <2>1 DEF Conn
<1>2. conn \in Conn
  BY <1>1, DoConnectType DEF Init
<1>3. <<>> \in Seq(Req)
  BY EmptySeq
<1>4. msg_index_ \in 1..(MaxReq + 1) /\ dummy \in 0..MaxReq
  BY DEF Init
<1> QED
  BY <1>2, <1>3, <1>4 DEF Init, TypeOK

\* Every handler of the io thread.
LEMMA IoThreadType == TypeOK /\ IoThread => TypeOK'
<1> SUFFICES ASSUME TypeOK, IoThread PROVE TypeOK'
  OBVIOUS
<1> USE DEF queuevars, msgvars, sweepvars, calls, uservars, netvars
<1>0. conn \in Conn
  BY DEF TypeOK
<1>1. CASE HandlerFindsClosed
  <2>1. conn' \in Conn
    BY <1>0, <1>1, TakenType, DoConnectType DEF HandlerFindsClosed, Runs
  <2> QED
    BY <1>1, <2>1 DEF HandlerFindsClosed, TypeOK
<1>2. CASE HandlerFindsNull
  <2>1. conn' \in Conn
    <3>1. Taken \in Conn
      BY <1>0, <1>2, TakenType DEF HandlerFindsNull, Runs
    <3> QED
      BY <1>2, <3>1, ConnExcept DEF HandlerFindsNull, Connected
  <2> QED
    BY <1>2, <2>1 DEF HandlerFindsNull, TypeOK
<1>3. CASE HandleConnectOk
  <2>1. conn' \in Conn
    <3>1. Taken \in Conn
      BY <1>0, <1>3, TakenType DEF HandleConnectOk, Runs
    <3>2. [Taken EXCEPT !.status = Connected] \in Conn
      BY <3>1, ConnExcept DEF Connected
    <3>3. 0 \in 0..MaxReq
      BY ClientLoopAssumption
    <3> QED
      BY <1>3, <3>2, <3>3, HandlerType, AsyncReadType DEF HandleConnectOk, do_read_head
  <2> QED
    BY <1>3, <2>1 DEF HandleConnectOk, TypeOK
<1>4. CASE HandleConnectError
  <2>1. conn' \in Conn
    <3>1. Taken \in Conn
      BY <1>0, <1>4, TakenType DEF HandleConnectError, Runs
    <3> QED
      BY <1>4, <3>1, ConnExcept, CloseSocketType DEF HandleConnectError, NotConnected
  <2> QED
    BY <1>4, <2>1 DEF HandleConnectError, TypeOK
<1>5. CASE HandleReadHeader
  <2>1. conn' \in Conn
    <3>1. Taken \in Conn /\ Job.id \in 0..MaxReq
      BY <1>0, <1>5, TakenType DEF HandleReadHeader, Runs, Handler
    <3>2. 0 \in 0..MaxReq
      BY ClientLoopAssumption
    <3>3. Into(Job.id) \in 0..MaxReq
      BY <3>1, <3>2 DEF Into
    <3>4. conn' = Taken \/ conn' = do_read_msg(Taken, Into(Job.id))
      BY <1>5 DEF HandleReadHeader
    <3> QED
      BY <3>1, <3>3, <3>4, HandlerType, AsyncReadType DEF do_read_msg
  <2> QED
    BY <1>5, <2>1 DEF HandleReadHeader, TypeOK
<1>6. CASE HandleReadHeaderError
  <2>1. conn' \in Conn /\ crash' \in {crash, "terminate"}
    BY <1>0, <1>6, TakenType, DoCloseType DEF HandleReadHeaderError, Runs
  <2> QED
    BY <1>6, <2>1 DEF HandleReadHeaderError, TypeOK
<1>7. CASE HandleReadMsg
  <2>1. Taken \in Conn
    BY <1>0, <1>7, TakenType DEF HandleReadMsg, Runs
  <2>2. conn' \in Conn /\ crash' \in {crash, "terminate"}
    <3>1. 0 \in 0..MaxReq
      BY ClientLoopAssumption
    <3> QED
      BY <1>7, <2>1, <3>1, HandlerType, AsyncReadType, DoCloseType
      DEF HandleReadMsg, do_read_head
  <2>3. /\ status' \in [Req -> {"UNKNOWN", "READ_OK", "TIMEOUT", "ERROR"}]
        /\ timer' \in [Req -> BOOLEAN]
    BY <1>7 DEF HandleReadMsg, set_status, BodyStatus, TypeOK
  <2> QED
    BY <1>7, <2>2, <2>3 DEF HandleReadMsg, set_status, TypeOK
<1>8. CASE DoWriteQueue
  <2>1. Taken \in Conn
    BY <1>0, <1>8, TakenType DEF DoWriteQueue, Runs
  <2>2. do_write(Taken)
    BY <1>8 DEF DoWriteQueue
  <2> QED
    BY <1>8, <2>1, <2>2, DoWriteType DEF DoWriteQueue, TypeOK
<1>9. CASE DoWriteDirect
  <2>1. conn' \in Conn
    <3>1. Taken \in Conn /\ Job.id \in 0..MaxReq
      BY <1>0, <1>9, TakenType DEF DoWriteDirect, Runs, Handler
    <3> QED
      BY <1>9, <3>1, AsyncWriteType DEF DoWriteDirect
  <2> QED
    BY <1>9, <2>1 DEF DoWriteDirect, TypeOK
<1>10. CASE HandleWrite
  <2>1. Taken \in Conn
    BY <1>0, <1>10, TakenType DEF HandleWrite, Runs
  <2>2. CASE do_write(Taken)
    BY <1>10, <2>1, <2>2, DoWriteType DEF HandleWrite, TypeOK
  <2>3. CASE conn' = Taken /\ UNCHANGED queuevars
    BY <1>10, <2>1, <2>3 DEF HandleWrite, TypeOK
  <2> QED
    BY <1>10, <2>2, <2>3 DEF HandleWrite
<1>11. CASE HandleWriteError
  <2>1. conn' \in Conn /\ crash' \in {crash, "terminate"}
    BY <1>0, <1>11, TakenType, DoCloseType DEF HandleWriteError, Runs
  <2> QED
    BY <1>11, <2>1 DEF HandleWriteError, TypeOK
<1>12. CASE SetTimeout
  <2>1. conn' \in Conn
    BY <1>0, <1>12, TakenType DEF SetTimeout, Runs
  <2>2. /\ status' \in [Req -> {"UNKNOWN", "READ_OK", "TIMEOUT", "ERROR"}]
        /\ timer' \in [Req -> BOOLEAN]
    <3>1. CASE set_status(Job.id, "TIMEOUT")
      BY <3>1 DEF set_status, TypeOK
    <3>2. CASE UNCHANGED msgvars
      BY <3>2 DEF TypeOK
    <3> QED
      BY <1>12, <3>1, <3>2 DEF SetTimeout
  <2> QED
    BY <1>12, <2>1, <2>2 DEF SetTimeout, set_status, TypeOK
<1>13. CASE DoClose
  <2>1. conn' \in Conn /\ crash' \in {crash, "terminate"}
    BY <1>0, <1>13, TakenType, DoCloseType DEF DoClose, Runs
  <2> QED
    BY <1>13, <2>1 DEF DoClose, TypeOK
<1>14. CASE EraseStart
  <2>1. conn' \in Conn
    BY <1>0, <1>14, TakenType DEF EraseStart, Runs
  <2> QED
    BY <1>14, <2>1 DEF EraseStart, TypeOK
<1>15. ASSUME SweepRound
       PROVE  /\ Oldest \in Req
              /\ Tail(del_reqid_list) \in Seq(Req)
              /\ PutBack(del_reqid_list) \in Seq(Req)
              /\ sweep' \in [on : BOOLEAN, i : Nat]
  <2>1. del_reqid_list \in Seq(Req) /\ del_reqid_list # <<>> /\ sweep.i \in Nat
    BY <1>15 DEF SweepRound, TypeOK
  <2>2. Oldest \in Req /\ Tail(del_reqid_list) \in Seq(Req)
    BY <2>1, HeadTailProperties DEF Oldest
  <2>3. PutBack(del_reqid_list) \in Seq(Req)
    BY <2>2, AppendProperties DEF PutBack, Oldest
  <2>4. sweep \in [on : BOOLEAN, i : Nat] /\ sweep' = [sweep EXCEPT !.i = @ + 1]
    BY <1>15 DEF SweepRound, TypeOK
  <2> QED
    BY <2>1, <2>2, <2>3, <2>4
<1>16. CASE SweepDrop
  BY <1>15, <1>16 DEF SweepDrop, SweepRound, TypeOK
<1>17. CASE SweepErase
  BY <1>15, <1>17 DEF SweepErase, SweepRound, TypeOK
<1>18. CASE SweepMark
  BY <1>15, <1>18 DEF SweepMark, SweepRound, TypeOK
<1>19. CASE SweepEnd
  <2>1. H("erase", 0, FALSE) \in Handler
    <3>1. 0 \in 0..MaxReq
      BY ClientLoopAssumption
    <3> QED
      BY <3>1 DEF H, Handler
  <2>2. conn' \in Conn
    BY <1>0, <1>19, <2>1, PostType DEF SweepEnd
  <2> QED
    BY <1>19, <2>2 DEF SweepEnd, WaitsAgain, TypeOK
<1> QED
  BY <1>1, <1>2, <1>3, <1>4, <1>5, <1>6, <1>7, <1>8, <1>9, <1>10, <1>11, <1>12, <1>13, <1>14,
     <1>16, <1>17, <1>18, <1>19 DEF IoThread

\* Every step of a user thread.
LEMMA UserType ==
    ASSUME TypeOK, NEW u \in Users, UserCall(u) \/ UserStep(u)
    PROVE  TypeOK'
<1> USE DEF queuevars, msgvars, sweepvars, calls, uservars, netvars
<1>0. conn \in Conn
  BY DEF TypeOK
<1>h. 0 \in 0..MaxReq
  BY ClientLoopAssumption
<1>1. CASE IsOpen(u)
  BY <1>1 DEF IsOpen, UserAt, TypeOK
<1>2. CASE WriteNew(u)
  <2>0. msg_index_ \in 1..(MaxReq + 1) /\ msg_index_ <= MaxReq /\ msg_index_' = msg_index_ + 1
    BY <1>2 DEF WriteNew, TypeOK
  <2>1. msg_index_ \in Req /\ msg_index_' \in 1..(MaxReq + 1) /\ msg_index_ \in 0..MaxReq
    BY <2>0, ClientLoopAssumption DEF Req
  <2>2. req'[u] \in Req
    BY <1>2, <2>1 DEF WriteNew, TypeOK
  <2> QED
    BY <1>2, <2>1, <2>2 DEF WriteNew, WriteOrder, UserAt, TypeOK
<1>3. CASE ReadFind(u)
  <2>1. req[u] \in Req
    BY <1>3 DEF ReadFind, TypeOK, Req
  <2> QED
    BY <1>3, <2>1, SMTT(30) DEF ReadFind, UserAt, TypeOK
<1>4. CASE UserClose(u)
  <2>1. conn' \in Conn
    BY <1>0, <1>4, <1>h, HandlerType, PostType DEF UserClose
  <2>2. closes' \in Nat
    BY <1>4 DEF UserClose, TypeOK
  <2> QED
    BY <1>4, <2>1, <2>2 DEF UserClose, UserAt, TypeOK
<1>5. CASE Destroy(u)
  BY <1>5 DEF Destroy, TypeOK
<1>6. CASE DoConnectCheck(u)
  BY <1>6 DEF DoConnectCheck, UserAt, TypeOK
<1>7. CASE DoConnectSet(u)
  <2>1. conn' \in Conn
    BY <1>0, <1>7, ConnExcept DEF DoConnectSet
  <2> QED
    BY <1>7, <2>1 DEF DoConnectSet, UserAt, TypeOK
<1>8. CASE DoConnectStart(u)
  <2>1. conn' \in Conn
    BY <1>0, <1>8, AsyncConnectType DEF DoConnectStart
  <2> QED
    BY <1>8, <2>1 DEF DoConnectStart, UserAt, TypeOK
<1>9. CASE WritePush(u)
  <2>1. req[u] \in Req
    BY <1>9 DEF WritePush, UserAt, TypeOK
  <2>2. write_msg_queue_' \in Seq(Req)
    BY <1>9, <2>1, AppendProperties DEF WritePush, TypeOK
  <2> QED
    BY <1>9, <2>1, <2>2 DEF WritePush, WriteOrder, UserAt, TypeOK
<1>10. CASE WriteInsert(u)
  BY <1>10 DEF WriteInsert, WriteOrder, UserAt, TypeOK
<1>11. CASE WriteAssign(u)
  BY <1>11 DEF WriteAssign, WriteOrder, UserAt, TypeOK
<1>12. CASE WriteArm(u)
  BY <1>12 DEF WriteArm, WriteOrder, do_init_timer, UserAt, TypeOK
<1>13. CASE WritePost(u)
  <2>1. req[u] \in 0..MaxReq
    BY DEF TypeOK
  <2>2. H("dowrite", IF UseQueue THEN 0 ELSE req[u], TRUE) \in Handler
    BY <1>h, <2>1 DEF H, Handler
  <2>3. conn' \in Conn
    BY <1>0, <1>13, <2>2, PostType DEF WritePost, PostWrite
  <2> QED
    BY <1>13, <2>3 DEF WritePost, WriteOrder, UserAt, TypeOK
<1>14. CASE ReadGet(u)
  BY <1>14 DEF ReadGet, UserAt, TypeOK
<1>15. CASE ReadResult(u)
  BY <1>15 DEF ReadResult, UserAt, TypeOK
<1>16. CASE ReadReturn(u)
  <2>1. req[u] \in Req
    BY <1>16 DEF ReadReturn, UserAt, TypeOK
  <2>2. del_reqid_list' \in Seq(Req)
    BY <1>16, <2>1, AppendProperties DEF ReadReturn, TypeOK
  <2> QED
    BY <1>16, <2>2 DEF ReadReturn, UserAt, TypeOK
<1>17. CASE DestroyClose(u)
  <2>1. conn' \in Conn /\ crash' \in {crash, "terminate"}
    BY <1>0, <1>17, DoCloseType DEF DestroyClose
  <2> QED
    BY <1>17, <2>1 DEF DestroyClose, UserAt, TypeOK
<1>18. CASE DestroyDelete(u)
  <2>1. conn' \in Conn
    BY <1>0, <1>18, CloseSocketType, ConnExcept DEF DestroyDelete
  <2> QED
    BY <1>18, <2>1 DEF DestroyDelete, UserAt, TypeOK
<1>19. CASE DestroyStop(u)
  BY <1>19 DEF DestroyStop, UserAt, TypeOK
<1> QED
  BY <1>1, <1>2, <1>3, <1>4, <1>5, <1>6, <1>7, <1>8, <1>9, <1>10, <1>11, <1>12, <1>13, <1>14,
     <1>15, <1>16, <1>17, <1>18, <1>19 DEF UserCall, UserStep

\* A sequence without one of its elements.
LEMMA WithoutOne ==
    ASSUME NEW S, NEW q \in Seq(S), NEW k \in DOMAIN q
    PROVE  LET s == SubSeq(q, 1, k - 1) \o SubSeq(q, k + 1, Len(q))
           IN  /\ s \in Seq(S) /\ Len(s) = Len(q) - 1 /\ q[k] \in S
               /\ Range(s) \subseteq Range(q) /\ q[k] \in Range(q)
<1> DEFINE a == SubSeq(q, 1, k - 1)
           b == SubSeq(q, k + 1, Len(q))
<1>1. Len(q) \in Nat /\ DOMAIN q = 1..Len(q) /\ k \in 1..Len(q)
  BY LenProperties
<1>2. \A i \in 1..Len(q) : q[i] \in S /\ q[i] \in Range(q)
  BY <1>1, ElementOfSeq, RangeEquality
<1>3. /\ a \in Seq(S) /\ Len(a) = k - 1
      /\ \A i \in 1..(k - 1) : a[i] = q[i]
  BY <1>1, <1>2, SubSeqProperties
<1>4. /\ b \in Seq(S) /\ Len(b) = Len(q) - k
      /\ \A i \in 1..(Len(q) - k) : b[i] = q[k + i]
  BY <1>1, <1>2, SubSeqProperties
<1> HIDE DEF a, b
<1>5. a \o b \in Seq(S) /\ Len(a \o b) = Len(q) - 1 /\ Range(a \o b) = Range(a) \cup Range(b)
  <2>1. a \o b \in Seq(S) /\ Len(a \o b) = Len(a) + Len(b)
    BY <1>3, <1>4, ConcatProperties
  <2>2. Range(a \o b) = Range(a) \cup Range(b)
    BY <1>3, <1>4, RangeConcatenation
  <2> QED
    BY <1>1, <1>3, <1>4, <2>1, <2>2
<1>6. Range(a) \subseteq Range(q)
  <2>1. Range(a) = {a[i] : i \in 1..(k - 1)}
    BY <1>3, RangeEquality
  <2>2. \A i \in 1..(k - 1) : i \in 1..Len(q)
    BY <1>1
  <2> QED
    BY <1>2, <1>3, <2>1, <2>2
<1>7. Range(b) \subseteq Range(q)
  <2>1. Range(b) = {b[i] : i \in 1..(Len(q) - k)}
    BY <1>4, RangeEquality
  <2>2. \A i \in 1..(Len(q) - k) : k + i \in 1..Len(q)
    BY <1>1
  <2> QED
    BY <1>2, <1>4, <2>1, <2>2
<1> QED
  BY <1>1, <1>2, <1>5, <1>6, <1>7 DEF a, b

\* A read that ends in a garbled stream takes its operation from the reactor and
\* posts its handler, with any id when it read a header.
LEMMA GarbledFacts ==
    ASSUME conn \in Conn, ReadGarbled
    PROVE  \E op \in Range(conn.rops), d \in Conn, h \in Handler :
              /\ op \in Handler
              /\ h = op \/ (op.h = "head" /\ h.h = "head" /\ h.ok)
              /\ d.ready = conn.ready /\ d.wops = conn.wops /\ d.asked = conn.asked
              /\ d.status = conn.status /\ d.sock = conn.sock
              /\ Range(d.rops) \subseteq Range(conn.rops) /\ Len(d.rops) = Len(conn.rops) - 1
              /\ d.inbox \in {conn.inbox, <<>>}
              /\ conn' = Post(d, h)
<1> PICK k \in DOMAIN conn.rops, rest \in {conn.inbox, <<>>}, id \in 0..MaxReq :
       conn' = Post([conn EXCEPT !.rops = SubSeq(@, 1, k - 1) \o SubSeq(@, k + 1, Len(@)),
                                 !.inbox = rest],
                    IF conn.rops[k].h = "head" THEN H("head", id, TRUE) ELSE conn.rops[k])
  BY DEF ReadGarbled
<1> DEFINE s == SubSeq(conn.rops, 1, k - 1) \o SubSeq(conn.rops, k + 1, Len(conn.rops))
           op == conn.rops[k]
           h == IF op.h = "head" THEN H("head", id, TRUE) ELSE op
           d == [conn EXCEPT !.rops = s, !.inbox = rest]
<1>1. conn.rops \in Seq(Handler) /\ rest \in Seq(Fragment)
  BY ConnFields, EmptySeq
<1>2. /\ s \in Seq(Handler) /\ Len(s) = Len(conn.rops) - 1 /\ op \in Handler
      /\ Range(s) \subseteq Range(conn.rops) /\ op \in Range(conn.rops)
  BY <1>1, WithoutOne
<1>3. H("head", id, TRUE) \in Handler /\ H("head", id, TRUE).h = "head" /\ H("head", id, TRUE).ok
  BY DEF H, Handler
<1>4. conn' = Post(d, h)
  OBVIOUS
<1>5. h \in Handler /\ (h = op \/ (op.h = "head" /\ h.h = "head" /\ h.ok))
  BY <1>2, <1>3
<1> HIDE DEF s, op, h
<1>6. /\ d \in Conn /\ d.rops = s /\ d.inbox = rest /\ d.ready = conn.ready /\ d.wops = conn.wops
      /\ d.asked = conn.asked /\ d.status = conn.status /\ d.sock = conn.sock
  BY <1>1, <1>2 DEF Conn
<1> HIDE DEF d
<1> QED
  BY <1>2, <1>4, <1>5, <1>6

\* Every event of the reactor, the peer and the network.
LEMMA NetworkType ==
    ASSUME TypeOK, Network \/ EraseTimerExpire \/ (\E r \in Req : TimerExpire(r))
    PROVE  TypeOK'
<1> USE DEF queuevars, msgvars, sweepvars, calls, uservars, netvars
<1>0. conn \in Conn
  BY DEF TypeOK
<1>h. 0 \in 0..MaxReq
  BY ClientLoopAssumption
<1>1. CASE ConnectOk
  <2>1. conn' \in Conn
    BY <1>0, <1>1, <1>h, ConnExcept, HandlerType, PostType DEF ConnectOk
  <2>2. conns' \in Nat
    BY <1>1 DEF ConnectOk, TypeOK
  <2> QED
    BY <1>1, <2>1, <2>2 DEF ConnectOk, Reactor, TypeOK
<1>2. CASE ConnectFail
  <2>1. conn' \in Conn
    BY <1>0, <1>2, ConnExcept, ConnectErrorType, PostType DEF ConnectFail
  <2> QED
    BY <1>2, <2>1 DEF ConnectFail, Reactor, TypeOK
<1>3. CASE ReadComplete
  <2> DEFINE op == Head(conn.rops)
             f == Head(conn.inbox)
             c == [conn EXCEPT !.rops = Tail(@), !.inbox = Tail(@)]
  <2>1. /\ op \in Handler /\ Tail(conn.rops) \in Seq(Handler)
        /\ f \in Fragment /\ Tail(conn.inbox) \in Seq(Fragment)
    BY <1>0, <1>3, ConnFields, HeadTailProperties DEF ReadComplete
  <2>2. c \in Conn
    BY <1>0, <2>1, ConnExcept
  <2>3. f.id \in Req /\ f.id \in 0..MaxReq
    BY <2>1, ClientLoopAssumption, SMTT(30) DEF Fragment, Req
  <2>4. conn' = c \/ conn' = Post(c, H("head", f.id, TRUE)) \/ conn' = Post(c, op)
    BY <1>3 DEF ReadComplete
  <2>5. conn' \in Conn
    BY <2>1, <2>2, <2>3, <2>4, HandlerType, PostType
  <2>6. received' = received \/ received' = received \cup {f.id}
    BY <1>3 DEF ReadComplete
  <2>7. received' \in SUBSET Req
    BY <2>3, <2>6 DEF TypeOK
  <2> QED
    BY <1>3, <2>5, <2>7 DEF ReadComplete, Reactor, TypeOK
<1>4. CASE ReadFail
  <2>1. conn' \in Conn
    <3>1. Head(conn.rops) \in Handler /\ Tail(conn.rops) \in Seq(Handler)
      BY <1>0, <1>4, ConnFields, HeadTailProperties DEF ReadFail
    <3>2. [Head(conn.rops) EXCEPT !.ok = FALSE] \in Handler
      BY <3>1 DEF Handler
    <3> QED
      BY <1>0, <1>4, <3>1, <3>2, ConnExcept, PostType DEF ReadFail
  <2> QED
    BY <1>4, <2>1 DEF ReadFail, Reactor, TypeOK
<1>5. CASE WriteComplete
  <2> DEFINE c == Post([conn EXCEPT !.wops = Tail(@)], Head(conn.wops))
             a == c.asked \cup {Head(conn.wops).id}
  <2>1. Head(conn.wops) \in Handler /\ Tail(conn.wops) \in Seq(Handler)
    BY <1>0, <1>5, ConnFields, HeadTailProperties DEF WriteComplete
  <2>2. c \in Conn
    BY <1>0, <2>1, ConnExcept, PostType
  <2>3. a \in SUBSET (0..MaxReq)
    BY <2>1, <2>2, ConnFields DEF Handler
  <2>4. conn' = c \/ conn' = [c EXCEPT !.asked = a]
    BY <1>5 DEF WriteComplete
  <2> HIDE DEF a, c
  <2>5. conn' \in Conn
    BY <2>2, <2>3, <2>4, ConnExcept
  <2> QED
    BY <1>5, <2>5 DEF WriteComplete, Reactor, TypeOK
<1>6. CASE WriteFail
  <2>1. conn' \in Conn
    <3>1. Head(conn.wops) \in Handler /\ Tail(conn.wops) \in Seq(Handler)
      BY <1>0, <1>6, ConnFields, HeadTailProperties DEF WriteFail
    <3>2. [Head(conn.wops) EXCEPT !.ok = FALSE] \in Handler
      BY <3>1 DEF Handler
    <3> QED
      BY <1>0, <1>6, <3>1, <3>2, ConnExcept, PostType DEF WriteFail
  <2> QED
    BY <1>6, <2>1 DEF WriteFail, Reactor, TypeOK
<1>7. CASE \E r \in Req : PeerReply(r)
  <2> PICK r \in Req : PeerReply(r)
    BY <1>7
  <2> DEFINE more == <<[part |-> "head", id |-> r], [part |-> "body", id |-> r]>>
             q == conn.inbox \o more
  <2>1. more \in Seq(Fragment)
    <3>1. [part |-> "head", id |-> r] \in Fragment /\ [part |-> "body", id |-> r] \in Fragment
      BY DEF Fragment
    <3> QED
      BY <3>1
  <2> HIDE DEF more
  <2>2. q \in Seq(Fragment)
    BY <1>0, <2>1, ConnFields, ConcatProperties
  <2>3. conn' = [conn EXCEPT !.inbox = q]
    BY DEF PeerReply, more
  <2> HIDE DEF q
  <2>4. conn' \in Conn
    BY <1>0, <2>2, <2>3, ConnExcept
  <2>5. replied' \in [Req -> Nat]
    BY SMTT(30) DEF PeerReply, TypeOK
  <2> QED
    BY <2>4, <2>5 DEF PeerReply, TypeOK
<1>8. CASE \E how \in Faults \ {"refused"} : NetBreak(how)
  <2> PICK how \in Faults \ {"refused"} : NetBreak(how)
    BY <1>8
  <2>1. how \in {"eof", "dead"}
    BY ClientLoopAssumption
  <2> PICK n \in 0..Len(conn.inbox) :
        conn' = [conn EXCEPT !.sock = how, !.asked = {}, !.inbox = SubSeq(@, 1, n)]
    BY DEF NetBreak
  <2>2. SubSeq(conn.inbox, 1, n) \in Seq(Fragment)
    <3>1. conn.inbox \in Seq(Fragment)
      BY <1>0, ConnFields
    <3>2. \A i \in 1..n : conn.inbox[i] \in Fragment
      BY <3>1
    <3> QED
      BY <3>1, <3>2, SubSeqProperties
  <2>3. conn' \in Conn
    BY <1>0, <2>1, <2>2, ConnExcept
  <2> QED
    BY <2>3 DEF NetBreak, TypeOK
<1>9. CASE \E r \in Req : TimerExpire(r)
  <2> PICK r \in Req : TimerExpire(r)
    BY <1>9
  <2>1. r \in 0..MaxReq
    BY ClientLoopAssumption DEF Req
  <2>2. conn' \in Conn
    BY <1>0, <2>1, HandlerType, PostType DEF TimerExpire
  <2> QED
    BY <2>2 DEF TimerExpire, Reactor, TypeOK
<1>10. CASE EraseTimerExpire
  <2>1. conn' \in Conn
    BY <1>0, <1>10, <1>h, HandlerType, PostType DEF EraseTimerExpire
  <2> QED
    BY <1>10, <2>1 DEF EraseTimerExpire, Reactor, TypeOK
<1>11. CASE ReadGarbled
  <2>1. conn' \in Conn
    BY <1>0, <1>11, GarbledFacts, PostType
  <2>2. garbled' \in SUBSET Nat
    BY <1>11 DEF ReadGarbled, TypeOK
  <2> QED
    BY <1>11, <2>1, <2>2 DEF ReadGarbled, Reactor, TypeOK
<1> QED
  BY <1>1, <1>2, <1>3, <1>4, <1>5, <1>6, <1>7, <1>8, <1>9, <1>10, <1>11 DEF Network

\* The type invariant holds in every state, for any number of users, requests
\* and connections.
THEOREM TypeCorrect == Spec => []TypeOK
<1>1. Init => TypeOK
  BY InitType
<1>2. TypeOK /\ [Next]_vars => TypeOK'
  <2> SUFFICES ASSUME TypeOK, [Next]_vars PROVE TypeOK'
    OBVIOUS
  <2>1. CASE UNCHANGED vars
    BY <2>1 DEF vars, queuevars, msgvars, sweepvars, calls, uservars, netvars, TypeOK
  <2> QED
    BY <2>1, IoThreadType, UserType, NetworkType DEF Next
<1> QED
  BY <1>1, <1>2, PTL DEF Spec

-----------------------------------------------------------------------------
(* Which handlers a step adds to the scheduler's queue and takes from it *)

\* Append adds one element.
LEMMA RangeAppend ==
    ASSUME NEW S, NEW q \in Seq(S), NEW e \in S
    PROVE  Range(Append(q, e)) = Range(q) \cup {e}
<1>1. /\ Append(q, e) \in Seq(S) /\ Len(q) \in Nat
      /\ Len(Append(q, e)) = Len(q) + 1
      /\ \A i \in 1..Len(q) : Append(q, e)[i] = q[i]
      /\ Append(q, e)[Len(q) + 1] = e
  BY AppendProperties, LenProperties
<1>2. Range(q) = {q[i] : i \in 1..Len(q)}
  BY RangeEquality
<1>3. Range(Append(q, e)) = {Append(q, e)[i] : i \in 1..(Len(q) + 1)}
  BY <1>1, RangeEquality
<1>4. \A x : x \in Range(Append(q, e)) => x \in Range(q) \cup {e}
  <2> SUFFICES ASSUME NEW i \in 1..(Len(q) + 1) PROVE Append(q, e)[i] \in Range(q) \cup {e}
    BY <1>3
  <2>1. i \in 1..Len(q) \/ i = Len(q) + 1
    BY <1>1
  <2> QED
    BY <1>1, <1>2, <2>1
<1>5. \A x \in Range(q) : x \in Range(Append(q, e))
  <2> SUFFICES ASSUME NEW i \in 1..Len(q) PROVE q[i] \in Range(Append(q, e))
    BY <1>2
  <2>1. i \in 1..(Len(q) + 1)
    BY <1>1
  <2> QED
    BY <1>1, <1>3, <2>1
<1>6. e \in Range(Append(q, e))
  BY <1>1, <1>3
<1> QED
  BY <1>4, <1>5, <1>6

\* A sequence is its head and its tail.
LEMMA RangeTail ==
    ASSUME NEW S, NEW q \in Seq(S), q # <<>>
    PROVE  Range(q) = {Head(q)} \cup Range(Tail(q))
<1>1. /\ Tail(q) \in Seq(S) /\ Len(q) \in Nat \ {0} /\ Len(Tail(q)) = Len(q) - 1
      /\ \A i \in 1..Len(Tail(q)) : Tail(q)[i] = q[i + 1]
      /\ Head(q) = q[1]
  BY HeadTailProperties, LenProperties, EmptySeq
<1>2. Range(q) = {q[i] : i \in 1..Len(q)} /\ Range(Tail(q)) = {Tail(q)[i] : i \in 1..(Len(q) - 1)}
  BY <1>1, RangeEquality, ZenonT(30)
<1>3. \A x \in Range(q) : x \in {Head(q)} \cup Range(Tail(q))
  <2> SUFFICES ASSUME NEW i \in 1..Len(q), i # 1 PROVE q[i] \in Range(Tail(q))
    BY <1>1, <1>2
  <2>1. i - 1 \in 1..(Len(q) - 1) /\ (i - 1) + 1 = i
    BY <1>1
  <2> QED
    BY <1>1, <1>2, <2>1
<1>4. \A x \in Range(Tail(q)) : x \in Range(q)
  <2> SUFFICES ASSUME NEW i \in 1..(Len(q) - 1) PROVE Tail(q)[i] \in Range(q)
    BY <1>2
  <2>1. i + 1 \in 1..Len(q) /\ Tail(q)[i] = q[i + 1]
    BY <1>1
  <2> QED
    BY <1>2, <2>1
<1>5. Head(q) \in Range(q)
  BY <1>1, <1>2
<1> QED
  BY <1>3, <1>4, <1>5

\* The aborted operations are the operations with an error.
LEMMA RangeAborted ==
    ASSUME NEW ops \in Seq(Handler)
    PROVE  Range(Aborted(ops)) = {[h EXCEPT !.ok = FALSE] : h \in Range(ops)}
<1>1. /\ Aborted(ops) \in Seq(Handler) /\ Len(Aborted(ops)) = Len(ops)
      /\ \A i \in 1..Len(ops) : Aborted(ops)[i] = [ops[i] EXCEPT !.ok = FALSE]
  BY AbortedType
<1>2. Range(ops) = {ops[i] : i \in 1..Len(ops)}
  BY RangeEquality
<1>3. Range(Aborted(ops)) = {Aborted(ops)[i] : i \in 1..Len(ops)}
  BY <1>1, RangeEquality
<1> DEFINE E == {[h EXCEPT !.ok = FALSE] : h \in Range(ops)}
<1>4. ASSUME NEW x \in Range(Aborted(ops)) PROVE x \in E
  <2> PICK i \in 1..Len(ops) : x = Aborted(ops)[i]
    BY <1>3
  <2>1. ops[i] \in Range(ops) /\ x = [ops[i] EXCEPT !.ok = FALSE]
    BY <1>1, <1>2
  <2> QED
    BY <2>1
<1>5. ASSUME NEW x \in E PROVE x \in Range(Aborted(ops))
  <2> PICK h \in Range(ops) : x = [h EXCEPT !.ok = FALSE]
    OBVIOUS
  <2> PICK i \in 1..Len(ops) : h = ops[i]
    BY <1>2
  <2> QED
    BY <1>1, <1>3
<1> QED
  BY <1>4, <1>5

\* A posted handler joins the scheduler's queue and changes nothing else.
LEMMA PostFacts ==
    ASSUME NEW c \in Conn, NEW h \in Handler
    PROVE  /\ Range(Post(c, h).ready) = Range(c.ready) \cup {h}
           /\ Post(c, h).ready = Append(c.ready, h)
           /\ Post(c, h).status = c.status /\ Post(c, h).sock = c.sock
           /\ Post(c, h).rops = c.rops /\ Post(c, h).wops = c.wops
           /\ Post(c, h).inbox = c.inbox /\ Post(c, h).asked = c.asked
<1>1. /\ Post(c, h).ready = Append(c.ready, h)
      /\ Post(c, h).status = c.status /\ Post(c, h).sock = c.sock
      /\ Post(c, h).rops = c.rops /\ Post(c, h).wops = c.wops
      /\ Post(c, h).inbox = c.inbox /\ Post(c, h).asked = c.asked
  BY DEF Post, Conn
<1> QED
  BY <1>1, ConnFields, RangeAppend

\* Closing the socket queues every outstanding handler with an error.
LEMMA CloseSocketFacts ==
    ASSUME NEW c \in Conn
    PROVE  /\ Range(CloseSocket(c).ready) =
                 Range(c.ready)
                 \cup (IF c.sock = "connecting" THEN {H("connect", 0, FALSE)} ELSE {})
                 \cup {[h EXCEPT !.ok = FALSE] : h \in Range(c.rops)}
                 \cup {[h EXCEPT !.ok = FALSE] : h \in Range(c.wops)}
           /\ CloseSocket(c).status = c.status /\ CloseSocket(c).sock = "closed"
           /\ CloseSocket(c).rops = <<>> /\ CloseSocket(c).wops = <<>>
           /\ CloseSocket(c).inbox = <<>> /\ CloseSocket(c).asked = {}
<1> DEFINE x == IF c.sock = "connecting" THEN <<H("connect", 0, FALSE)>> ELSE <<>>
           y == IF c.sock = "connecting" THEN {H("connect", 0, FALSE)} ELSE {}
           a == Aborted(c.rops)
           b == Aborted(c.wops)
<1>1. x \in Seq(Handler) /\ Range(x) = y
  <2> DEFINE h == H("connect", 0, FALSE)
  <2>1. h \in Handler
    BY ConnectErrorType
  <2> HIDE DEF h
  <2>2. <<h>> \in Seq(Handler) /\ Range(<<h>>) = {h}
    <3>1. <<h>> \in Seq(Handler) /\ Len(<<h>>) = 1 /\ <<h>>[1] = h
      BY <2>1
    <3>2. Range(<<h>>) = {<<h>>[i] : i \in 1..1}
      BY <3>1, RangeEquality
    <3>3. 1..1 = {1}
      OBVIOUS
    <3> QED
      BY <3>1, <3>2, <3>3
  <2>3. <<>> \in Seq(Handler) /\ Range(<<>>) = {}
    <3>1. <<>> \in Seq(Handler) /\ Len(<<>>) = 0
      BY EmptySeq
    <3>2. Range(<<>>) = {<<>>[i] : i \in 1..0}
      BY <3>1, RangeEquality
    <3> QED
      BY <3>1, <3>2
  <2> QED
    BY <2>2, <2>3 DEF h
<1>2. /\ a \in Seq(Handler) /\ Range(a) = {[h EXCEPT !.ok = FALSE] : h \in Range(c.rops)}
      /\ b \in Seq(Handler) /\ Range(b) = {[h EXCEPT !.ok = FALSE] : h \in Range(c.wops)}
  BY ConnFields, AbortedType, RangeAborted
<1>3. /\ CloseSocket(c).ready = ((c.ready \o x) \o a) \o b
      /\ CloseSocket(c).status = c.status /\ CloseSocket(c).sock = "closed"
      /\ CloseSocket(c).rops = <<>> /\ CloseSocket(c).wops = <<>>
      /\ CloseSocket(c).inbox = <<>> /\ CloseSocket(c).asked = {}
  BY DEF CloseSocket, Conn
<1> HIDE DEF x, y, a, b
<1>4. c.ready \in Seq(Handler)
  BY ConnFields
<1> DEFINE s == c.ready \o x
           t == s \o a
<1>5. s \in Seq(Handler) /\ Range(s) = Range(c.ready) \cup y
  BY <1>1, <1>4, ConcatProperties, RangeConcatenation
<1> HIDE DEF s
<1>6. t \in Seq(Handler) /\ Range(t) = Range(s) \cup Range(a)
  BY <1>2, <1>5, ConcatProperties, RangeConcatenation
<1> HIDE DEF t
<1>7. Range(t \o b) = Range(t) \cup Range(b)
  BY <1>2, <1>6, RangeConcatenation
<1>8. Range(CloseSocket(c).ready) = Range(c.ready) \cup y \cup Range(a) \cup Range(b)
  BY <1>3, <1>5, <1>6, <1>7 DEF s, t
<1> QED
  BY <1>2, <1>3, <1>8 DEF y

\* The handler that runs leaves the queue, and nothing else changes.
LEMMA TakenFacts ==
    ASSUME conn \in Conn, conn.ready # <<>>
    PROVE  /\ Range(conn.ready) = {Job} \cup Range(Taken.ready)
           /\ Taken.ready = Tail(conn.ready)
           /\ Taken.status = conn.status /\ Taken.sock = conn.sock
           /\ Taken.rops = conn.rops /\ Taken.wops = conn.wops
           /\ Taken.inbox = conn.inbox /\ Taken.asked = conn.asked
<1>1. /\ Taken.ready = Tail(conn.ready)
      /\ Taken.status = conn.status /\ Taken.sock = conn.sock
      /\ Taken.rops = conn.rops /\ Taken.wops = conn.wops
      /\ Taken.inbox = conn.inbox /\ Taken.asked = conn.asked
  BY DEF Taken, Conn
<1> QED
  BY <1>1, ConnFields, RangeTail DEF Job

-----------------------------------------------------------------------------
(* The socket: what the queued handlers are, and who will connect again *)

\* A connect handler is about no request, and a close handler is there because
\* close() was called (n: how often).
WellMade(h, n) ==
    /\ h.h = "connect" => h.id = 0
    /\ h.h = "close" => n > 0

\* Only reads and writes are outstanding with the reactor, so that closing the
\* socket queues no other handlers than theirs.
OpsOk(c, n) ==
    /\ \A h \in Range(c.rops) : h.h \in {"head", "body"}
    /\ \A h \in Range(c.wops) : h.h = "written"
    /\ \A h \in Range(c.ready) : WellMade(h, n)

\* A connection is being made, or the outcome of one is queued.
Trying(c) == c.sock = "connecting" \/ \E h \in Range(c.ready) : h.h = "connect"

\* The inductive invariant of the socket.
SocketInv ==
    /\ OpsOk(conn, closes)
    /\ conn.status = "CONN" => Trying(conn) \/ \E u \in Users : pc[u] = "start"

\* An empty sequence has no elements.
LEMMA RangeEmpty == Range(<<>>) = {}
BY DEF Range

\* Queued, in terms of the elements of the queue.
LEMMA QueuedRange ==
    ASSUME TypeOK, NEW h, NEW id
    PROVE  Queued(h, id) <=> \E x \in Range(conn.ready) : x.h = h /\ x.id = id
BY DEF Queued, Range

\* Queueing a well-made handler keeps the operations; a connect handler is an attempt.
LEMMA PostOps ==
    ASSUME NEW n \in Nat, NEW c \in Conn, OpsOk(c, n), NEW h \in Handler, WellMade(h, n)
    PROVE  /\ OpsOk(Post(c, h), n)
           /\ Trying(c) \/ h.h = "connect" => Trying(Post(c, h))
BY PostFacts, ZenonT(30) DEF OpsOk, Trying

\* Closing the socket turns what was outstanding into failed handlers.
LEMMA CloseSocketOps ==
    ASSUME NEW n \in Nat, NEW c \in Conn, OpsOk(c, n)
    PROVE  /\ OpsOk(CloseSocket(c), n)
           /\ Trying(c) => Trying(CloseSocket(c))
<1> DEFINE d == CloseSocket(c)
<1>1. /\ Range(d.ready) = Range(c.ready)
                 \cup (IF c.sock = "connecting" THEN {H("connect", 0, FALSE)} ELSE {})
                 \cup {[h EXCEPT !.ok = FALSE] : h \in Range(c.rops)}
                 \cup {[h EXCEPT !.ok = FALSE] : h \in Range(c.wops)}
      /\ d.rops = <<>> /\ d.wops = <<>>
  BY CloseSocketFacts
<1> HIDE DEF d
<1>2. \A h \in Range(c.rops) \cup Range(c.wops) : h \in Handler
  BY ConnFields, RangeOfSeq
<1>3. ASSUME NEW h \in Range(d.ready) PROVE WellMade(h, n)
  <2>1. CASE h \in Range(c.ready)
    BY <2>1 DEF OpsOk
  <2>2. CASE h = H("connect", 0, FALSE)
    BY <2>2 DEF WellMade, H
  <2>3. CASE \E x \in Range(c.rops) \cup Range(c.wops) : h = [x EXCEPT !.ok = FALSE]
    <3> PICK x \in Range(c.rops) \cup Range(c.wops) : h = [x EXCEPT !.ok = FALSE]
      BY <2>3
    <3>1. x.h \in {"head", "body", "written"} /\ h.h = x.h
      BY <1>2 DEF OpsOk, Handler
    <3> QED
      BY <3>1 DEF WellMade
  <2> QED
    BY <1>1, <2>1, <2>2, <2>3
<1>4. OpsOk(d, n)
  BY <1>1, <1>3, RangeEmpty DEF OpsOk
<1>5. Trying(c) => Trying(d)
  <2>1. CASE c.sock = "connecting"
    <3>1. H("connect", 0, FALSE) \in Range(d.ready) /\ H("connect", 0, FALSE).h = "connect"
      BY <1>1, <2>1 DEF H
    <3> QED
      BY <3>1 DEF Trying
  <2>2. CASE c.sock # "connecting"
    BY <1>1, <2>2 DEF Trying
  <2> QED
    BY <2>1, <2>2
<1> QED
  BY <1>4, <1>5 DEF d

\* Storing a status leaves the handlers alone.
LEMMA StatusOps ==
    ASSUME NEW n, NEW c \in Conn, NEW s
    PROVE  LET d == [c EXCEPT !.status = s]
           IN  /\ d.status = s /\ d.sock = c.sock /\ d.ready = c.ready /\ d.rops = c.rops
               /\ d.wops = c.wops /\ d.inbox = c.inbox /\ d.asked = c.asked
               /\ OpsOk(d, n) <=> OpsOk(c, n)
               /\ Trying(d) <=> Trying(c)
<1>1. LET d == [c EXCEPT !.status = s]
      IN  /\ d.status = s /\ d.sock = c.sock /\ d.ready = c.ready /\ d.rops = c.rops
          /\ d.wops = c.wops /\ d.inbox = c.inbox /\ d.asked = c.asked
  BY DEF Conn
<1> QED
  BY <1>1 DEF OpsOk, Trying

\* async_connect leads to a connect handler.
LEMMA AsyncConnectOps ==
    ASSUME NEW n \in Nat, NEW c \in Conn, OpsOk(c, n)
    PROVE  OpsOk(AsyncConnect(c), n) /\ Trying(AsyncConnect(c))
<1>1. CASE c.sock = "closed"
  <2> DEFINE d == [c EXCEPT !.sock = "connecting"]
  <2>1. d.sock = "connecting" /\ d.ready = c.ready /\ d.rops = c.rops /\ d.wops = c.wops
    BY DEF Conn
  <2>2. AsyncConnect(c) = d
    BY <1>1 DEF AsyncConnect
  <2> HIDE DEF d
  <2> QED
    BY <2>1, <2>2 DEF OpsOk, Trying
<1>2. CASE c.sock # "closed"
  <2>1. WellMade(H("connect", 0, FALSE), n) /\ H("connect", 0, FALSE).h = "connect"
    BY DEF WellMade, H
  <2>2. AsyncConnect(c) = Post(c, H("connect", 0, FALSE))
    BY <1>2 DEF AsyncConnect
  <2> QED
    BY <2>1, <2>2, ConnectErrorType, PostOps
<1> QED
  BY <1>1, <1>2

\* do_connect() leaves an attempt behind, whether it starts one or returns.
LEMMA DoConnectOps ==
    ASSUME NEW n \in Nat, NEW c \in Conn, OpsOk(c, n)
    PROVE  /\ OpsOk(do_connect(c), n)
           /\ do_connect(c).status = "CONN" => do_connect(c) = c \/ Trying(do_connect(c))
<1> DEFINE d == [c EXCEPT !.status = "CONN"]
<1>1. d \in Conn /\ OpsOk(d, n)
  BY ConnExcept, StatusOps
<1>2. do_connect(c) = c \/ do_connect(c) = AsyncConnect(d)
  BY DEF do_connect
<1> HIDE DEF d
<1> QED
  BY <1>1, <1>2, AsyncConnectOps

\* Starting a read.
LEMMA AsyncReadFacts ==
    ASSUME NEW n \in Nat, NEW c \in Conn, OpsOk(c, n), NEW h \in Handler, h.h \in {"head", "body"}
    PROVE  LET d == AsyncRead(c, h)
           IN  /\ OpsOk(d, n) /\ (Trying(c) => Trying(d))
               /\ d.status = c.status /\ d.sock = c.sock
               /\ d.wops = c.wops /\ d.inbox = c.inbox /\ d.asked = c.asked
               /\ \/ d.ready = c.ready
                  \/ c.sock = "closed" /\ d.ready = Append(c.ready, [h EXCEPT !.ok = FALSE])
<1> DEFINE d == AsyncRead(c, h)
<1>1. CASE c.sock = "closed"
  <2> DEFINE g == [h EXCEPT !.ok = FALSE]
  <2>1. g \in Handler /\ g.h = h.h
    BY DEF Handler
  <2>2. d = Post(c, g)
    BY <1>1 DEF AsyncRead
  <2> HIDE DEF g
  <2>3. WellMade(g, n)
    BY <2>1 DEF WellMade
  <2>4. /\ d.status = c.status /\ d.sock = c.sock /\ d.wops = c.wops /\ d.inbox = c.inbox
        /\ d.asked = c.asked /\ d.ready = Append(c.ready, g)
    BY <2>1, <2>2, PostFacts
  <2>5. OpsOk(d, n) /\ (Trying(c) => Trying(d))
    BY <2>1, <2>2, <2>3, PostOps
  <2> QED
    BY <1>1, <2>4, <2>5 DEF g
<1>2. CASE c.sock # "closed"
  <2>1. d = [c EXCEPT !.rops = Append(c.rops, h)]
    BY <1>2 DEF AsyncRead
  <2>2. /\ d.ready = c.ready /\ d.rops = Append(c.rops, h) /\ d.wops = c.wops /\ d.sock = c.sock
        /\ d.status = c.status /\ d.inbox = c.inbox /\ d.asked = c.asked
    BY <2>1 DEF Conn
  <2>3. Range(d.rops) = Range(c.rops) \cup {h}
    BY <2>2, ConnFields, RangeAppend
  <2> HIDE DEF d
  <2> QED
    BY <2>2, <2>3 DEF OpsOk, Trying, d
<1> QED
  BY <1>1, <1>2

\* Starting a write.
LEMMA AsyncWriteFacts ==
    ASSUME NEW n \in Nat, NEW c \in Conn, OpsOk(c, n), NEW r \in 0..MaxReq
    PROVE  LET d == AsyncWrite(c, r)
           IN  /\ OpsOk(d, n) /\ (Trying(c) => Trying(d))
               /\ d.status = c.status /\ d.sock = c.sock
               /\ d.rops = c.rops /\ d.inbox = c.inbox /\ d.asked = c.asked
               /\ \/ d.ready = c.ready /\ d.wops = Append(c.wops, H("written", r, TRUE))
                  \/ d.ready = Append(c.ready, H("written", r, FALSE)) /\ d.wops = c.wops
<1> DEFINE d == AsyncWrite(c, r)
<1>0. /\ H("written", r, FALSE) \in Handler /\ H("written", r, TRUE) \in Handler
      /\ WellMade(H("written", r, FALSE), n) /\ H("written", r, TRUE).h = "written"
  BY HandlerType DEF WellMade, H
<1>1. CASE c.sock = "closed"
  <2>1. d = Post(c, H("written", r, FALSE))
    BY <1>1 DEF AsyncWrite
  <2>2. /\ d.status = c.status /\ d.sock = c.sock /\ d.rops = c.rops /\ d.inbox = c.inbox
        /\ d.asked = c.asked /\ d.wops = c.wops
        /\ d.ready = Append(c.ready, H("written", r, FALSE))
    BY <1>0, <2>1, PostFacts, ZenonT(30)
  <2>3. OpsOk(d, n) /\ (Trying(c) => Trying(d))
    BY <1>0, <2>1, PostOps
  <2> QED
    BY <2>2, <2>3
<1>2. CASE c.sock # "closed"
  <2> DEFINE g == H("written", r, TRUE)
  <2>1. d = [c EXCEPT !.wops = Append(c.wops, g)]
    BY <1>2 DEF AsyncWrite
  <2>2. g \in Handler /\ g.h = "written"
    BY <1>0
  <2> HIDE DEF g
  <2>3. /\ d.ready = c.ready /\ d.rops = c.rops /\ d.wops = Append(c.wops, g) /\ d.sock = c.sock
        /\ d.status = c.status /\ d.inbox = c.inbox /\ d.asked = c.asked
    BY <2>1 DEF Conn
  <2>4. Range(d.wops) = Range(c.wops) \cup {g}
    BY <2>2, <2>3, ConnFields, RangeAppend
  <2> HIDE DEF d
  <2> QED
    BY <2>2, <2>3, <2>4 DEF OpsOk, Trying, d, g
<1> QED
  BY <1>1, <1>2

\* do_close ends in CT_CONN_CLOSE, and throws only on a socket not connected.
LEMMA DoCloseFacts ==
    ASSUME NEW n \in Nat, NEW c \in Conn, OpsOk(c, n), do_close(c)
    PROVE  /\ OpsOk(conn', n)
           /\ conn'.status = "CONN_CLOSE"
           /\ \/ crash' = crash
              \/ crash' = "terminate" /\ c.sock \in {"closed", "dead"} /\ conn'.sock = c.sock
<1> DEFINE d == [c EXCEPT !.status = "CONN_CLOSE"]
<1>1. d \in Conn /\ d.status = "CONN_CLOSE" /\ d.sock = c.sock /\ OpsOk(d, n)
  <2>1. d \in Conn
    BY ConnExcept
  <2> QED
    BY <2>1, StatusOps
<1>2. OpsOk(CloseSocket(d), n) /\ CloseSocket(d).status = "CONN_CLOSE"
  BY <1>1, CloseSocketOps, CloseSocketFacts
<1>3. \/ conn' = c /\ c.status = "CONN_CLOSE" /\ crash' = crash
      \/ conn' = d /\ c.sock \in {"closed", "dead"} /\ crash' = "terminate"
      \/ conn' \in {d, CloseSocket(d)} /\ crash' = crash
  BY DEF do_close
<1> HIDE DEF d
<1> QED
  BY <1>1, <1>2, <1>3

\* The handler that runs, and the queue without it.
LEMMA TakenOps ==
    ASSUME NEW n \in Nat, conn \in Conn, conn.ready # <<>>, OpsOk(conn, n)
    PROVE  /\ OpsOk(Taken, n) /\ WellMade(Job, n)
           /\ Job.h # "connect" /\ Trying(conn) => Trying(Taken)
BY TakenFacts DEF OpsOk, Trying

\* The first connection is being made.
LEMMA InitSocket == Init => SocketInv
<1> SUFFICES ASSUME Init PROVE SocketInv
  OBVIOUS
<1> DEFINE c == [status |-> "UNKNOWN", sock |-> "closed", ready |-> <<>>, rops |-> <<>>,
                 wops |-> <<>>, inbox |-> <<>>, asked |-> {}]
<1>1. c \in Conn
  <2>1. <<>> \in Seq(Handler) /\ <<>> \in Seq(Fragment)
    BY EmptySeq
  <2> QED
    BY <2>1 DEF Conn
<1>2. OpsOk(c, 0) /\ c.status # "CONN"
  BY RangeEmpty DEF OpsOk
<1>3. conn = do_connect(c) /\ closes = 0
  BY DEF Init
<1> HIDE DEF c
<1>4. do_connect(c) = AsyncConnect([c EXCEPT !.status = "CONN"])
  BY <1>2 DEF do_connect
<1>5. [c EXCEPT !.status = "CONN"] \in Conn /\ OpsOk([c EXCEPT !.status = "CONN"], 0)
  BY <1>1, <1>2, ConnExcept, StatusOps
<1>6. OpsOk(conn, closes) /\ Trying(conn)
  BY <1>3, <1>4, <1>5, AsyncConnectOps
<1> QED
  BY <1>6 DEF SocketInv

\* The parts of the invariant, for a step that leaves the users alone.
LEMMA SocketKept ==
    ASSUME OpsOk(conn', closes'),
           conn'.status = "CONN" => Trying(conn') \/ \E u \in Users : pc'[u] = "start"
    PROVE  SocketInv'
BY DEF SocketInv, OpsOk, Trying

\* Every handler of the io thread.
LEMMA IoThreadSocket == TypeOK /\ SocketInv /\ IoThread => SocketInv'
<1> SUFFICES ASSUME TypeOK, SocketInv, IoThread PROVE SocketInv'
  OBVIOUS
<1> USE DEF queuevars, msgvars, sweepvars, calls, uservars, netvars
<1>0. /\ conn \in Conn /\ closes \in Nat /\ OpsOk(conn, closes)
      /\ conn.status = "CONN" => Trying(conn) \/ \E u \in Users : pc[u] = "start"
  BY DEF TypeOK, SocketInv
<1>h. ASSUME NEW h, Runs(h)
      PROVE  /\ Taken \in Conn /\ Job \in Handler /\ OpsOk(Taken, closes) /\ Job.h = h
             /\ WellMade(Job, closes)
             /\ Taken.sock = conn.sock /\ Taken.status = conn.status
             /\ h # "connect" /\ Trying(conn) => Trying(Taken)
             /\ crash = "none"
  BY <1>0, <1>h, TakenType, TakenFacts, TakenOps DEF Runs, Job, IoIdle, IoRuns
<1>r. ASSUME NEW h \in {"head", "body"}, NEW id \in 0..MaxReq
      PROVE  H(h, id, TRUE) \in Handler /\ H(h, id, TRUE).h = h
  BY DEF H, Handler
<1>z. 0 \in 0..MaxReq
  BY ClientLoopAssumption
<1>k. ASSUME closes' = closes, pc' = pc, OpsOk(conn', closes),
             conn'.status = "CONN" => Trying(conn') \/ \E u \in Users : pc[u] = "start"
      PROVE  SocketInv'
  BY <1>k, SocketKept
<1>1. CASE HandlerFindsClosed
  <2> PICK h \in {"head", "body", "written"} : Runs(h)
    BY <1>1 DEF HandlerFindsClosed
  <2>1. /\ OpsOk(conn', closes)
        /\ conn'.status = "CONN" => Trying(conn') \/ \E u \in Users : pc[u] = "start"
    BY <1>0, <1>1, <1>h, DoConnectOps DEF HandlerFindsClosed
  <2> QED
    BY <1>1, <1>h, <1>k, <2>1 DEF HandlerFindsClosed
<1>2. CASE HandlerFindsNull
  <2> PICK h \in {"head", "body", "written", "connect"} : Runs(h)
    BY <1>2 DEF HandlerFindsNull
  <2>0. /\ Taken \in Conn /\ OpsOk(Taken, closes) /\ Job.h = h /\ Taken.status = conn.status
        /\ h # "connect" /\ Trying(conn) => Trying(Taken)
    BY <1>h
  <2>1. CASE h = "connect"
    <3>1. conn' = [Taken EXCEPT !.status = "CONN_OK"]
      BY <1>2, <2>0, <2>1 DEF HandlerFindsNull, Connected
    <3>2. OpsOk(conn', closes) /\ conn'.status = "CONN_OK"
      BY <2>0, <3>1, StatusOps
    <3> QED
      BY <1>2, <1>k, <3>2 DEF HandlerFindsNull
  <2>2. CASE h # "connect"
    <3>1. conn' = Taken
      BY <1>2, <2>0, <2>2 DEF HandlerFindsNull
    <3> QED
      BY <1>0, <1>2, <1>k, <2>0, <2>2, <3>1 DEF HandlerFindsNull
  <2> QED
    BY <2>1, <2>2
<1>3. CASE HandleConnectOk
  <2> DEFINE d == [Taken EXCEPT !.status = "CONN_OK"]
  <2>1. Taken \in Conn /\ OpsOk(Taken, closes) /\ crash = "none"
    BY <1>3, <1>h DEF HandleConnectOk
  <2>2. d \in Conn /\ OpsOk(d, closes) /\ d.status = "CONN_OK"
    <3>1. d \in Conn
      BY <2>1, ConnExcept
    <3> QED
      BY <2>1, <3>1, StatusOps
  <2>3. conn' = AsyncRead(d, H("head", 0, TRUE))
    BY <1>3 DEF HandleConnectOk, Connected, do_read_head
  <2> HIDE DEF d
  <2>4. OpsOk(conn', closes) /\ conn'.status = "CONN_OK"
    BY <1>0, <1>r, <1>z, <2>2, <2>3, AsyncReadFacts
  <2> QED
    BY <1>3, <1>k, <2>1, <2>4 DEF HandleConnectOk
<1>4. CASE HandleConnectError
  <2> DEFINE d == [Taken EXCEPT !.status = "ERROR"]
  <2>1. Taken \in Conn /\ OpsOk(Taken, closes) /\ crash = "none"
    BY <1>4, <1>h DEF HandleConnectError
  <2>2. d \in Conn /\ OpsOk(d, closes) /\ d.status = "ERROR"
    <3>1. d \in Conn
      BY <2>1, ConnExcept
    <3> QED
      BY <2>1, <3>1, StatusOps
  <2>3. conn' = CloseSocket(d)
    BY <1>4 DEF HandleConnectError, NotConnected
  <2> HIDE DEF d
  <2>4. OpsOk(conn', closes) /\ conn'.status = "ERROR"
    BY <1>0, <2>2, <2>3, CloseSocketOps, CloseSocketFacts
  <2> QED
    BY <1>4, <1>k, <2>1, <2>4 DEF HandleConnectError
<1>5. CASE HandleReadHeader
  <2>1. /\ Taken \in Conn /\ OpsOk(Taken, closes) /\ crash = "none" /\ Taken.status = conn.status
        /\ Trying(conn) => Trying(Taken)
        /\ Job.id \in 0..MaxReq
    BY <1>5, <1>h DEF HandleReadHeader, Handler
  <2>2. conn' = Taken \/ \E id \in 0..MaxReq : conn' = AsyncRead(Taken, H("body", id, TRUE))
    BY <1>5, <1>z, <2>1 DEF HandleReadHeader, Into, do_read_msg
  <2>3. /\ OpsOk(conn', closes) /\ conn'.status = conn.status
        /\ Trying(conn) => Trying(conn')
    <3>1. CASE conn' = Taken
      BY <2>1, <3>1
    <3>2. ASSUME NEW id \in 0..MaxReq, conn' = AsyncRead(Taken, H("body", id, TRUE))
          PROVE  /\ OpsOk(conn', closes) /\ conn'.status = conn.status
                 /\ Trying(conn) => Trying(conn')
      <4> DEFINE g == H("body", id, TRUE)
      <4>1. g \in Handler /\ g.h \in {"head", "body"}
        BY <1>r
      <4> HIDE DEF g
      <4>2. conn' = AsyncRead(Taken, g)
        BY <3>2 DEF g
      <4> QED
        BY <1>0, <2>1, <4>1, <4>2, AsyncReadFacts
    <3> QED
      BY <2>2, <3>1, <3>2
  <2> QED
    BY <1>0, <1>5, <1>k, <2>3 DEF HandleReadHeader
<1>c. ASSUME NEW h \in {"head", "body", "written", "close"}, Runs(h), do_close(Taken),
             closes' = closes, pc' = pc
      PROVE  SocketInv'
  <2>1. Taken \in Conn /\ OpsOk(Taken, closes)
    BY <1>c, <1>h
  <2>2. OpsOk(conn', closes) /\ conn'.status = "CONN_CLOSE"
    BY <1>0, <1>c, <2>1, DoCloseFacts
  <2> QED
    BY <1>c, <2>1, <2>2, SocketKept
<1>6. CASE HandleReadHeaderError
  BY <1>6, <1>c DEF HandleReadHeaderError
<1>7. CASE HandleReadMsg
  <2>1. CASE do_close(Taken)
    BY <1>7, <1>c, <2>1 DEF HandleReadMsg
  <2>2. CASE conn' = do_read_head(Taken) /\ UNCHANGED crash
    <3>1. /\ Taken \in Conn /\ OpsOk(Taken, closes) /\ crash = "none" /\ Taken.status = conn.status
          /\ Trying(conn) => Trying(Taken)
      BY <1>7, <1>h DEF HandleReadMsg
    <3>2. /\ OpsOk(conn', closes) /\ conn'.status = conn.status
          /\ Trying(conn) => Trying(conn')
      BY <1>0, <1>r, <1>z, <2>2, <3>1, AsyncReadFacts DEF do_read_head
    <3> QED
      BY <1>0, <1>7, <1>k, <2>2, <3>1, <3>2 DEF HandleReadMsg
  <2> QED
    BY <1>7, <2>1, <2>2 DEF HandleReadMsg
<1>w. ASSUME NEW h \in {"dowrite", "written"}, Runs(h), closes' = closes, pc' = pc, crash' = crash,
             conn' = Taken \/ \E r \in 0..MaxReq : conn' = AsyncWrite(Taken, r)
      PROVE  SocketInv'
  <2>1. /\ Taken \in Conn /\ OpsOk(Taken, closes) /\ crash = "none" /\ Taken.status = conn.status
        /\ Trying(conn) => Trying(Taken)
    BY <1>w, <1>h
  <2>2. /\ OpsOk(conn', closes) /\ conn'.status = conn.status
        /\ Trying(conn) => Trying(conn')
    BY <1>0, <1>w, <2>1, AsyncWriteFacts
  <2> QED
    BY <1>0, <1>w, <1>k, <2>1, <2>2
<1>q. do_write(Taken) => conn' = Taken \/ \E r \in 0..MaxReq : conn' = AsyncWrite(Taken, r)
  <2>1. write_msg_queue_ # <<>> => Head(write_msg_queue_) \in Req
    BY HeadTailProperties DEF TypeOK
  <2>2. write_msg_queue_ # <<>> => Head(write_msg_queue_) \in 0..MaxReq
    BY <2>1, ClientLoopAssumption DEF Req
  <2> QED
    BY <2>2 DEF do_write
<1>8. CASE DoWriteQueue
  BY <1>8, <1>w, <1>q DEF DoWriteQueue
<1>9. CASE DoWriteDirect
  <2>1. Job.id \in 0..MaxReq
    BY <1>9, <1>h DEF DoWriteDirect, Handler
  <2> QED
    BY <1>9, <1>w, <2>1 DEF DoWriteDirect
<1>10. CASE HandleWrite
  BY <1>10, <1>w, <1>q DEF HandleWrite
<1>11. CASE HandleWriteError
  BY <1>11, <1>c DEF HandleWriteError
<1>12. CASE SetTimeout
  BY <1>0, <1>12, <1>h, <1>k DEF SetTimeout
<1>13. CASE DoClose
  BY <1>13, <1>c DEF DoClose
<1>14. CASE EraseStart
  BY <1>0, <1>14, <1>h, <1>k DEF EraseStart
<1>15. CASE SweepDrop \/ SweepErase \/ SweepMark
  <2>1. SweepRound /\ crash = "none"
    BY <1>15 DEF SweepDrop, SweepErase, SweepMark, SweepRound, IoRuns
  <2> QED
    BY <1>0, <1>k, <2>1 DEF SweepRound
<1>16. CASE SweepEnd
  <2> DEFINE e == H("erase", 0, FALSE)
  <2>1. e \in Handler /\ WellMade(e, closes)
    BY <1>z DEF H, Handler, WellMade
  <2>2. conn' = conn \/ conn' = Post(conn, e)
    BY <1>16 DEF SweepEnd
  <2> HIDE DEF e
  <2>3. /\ OpsOk(conn', closes) /\ conn'.status = conn.status
        /\ Trying(conn) => Trying(conn')
    BY <1>0, <2>1, <2>2, PostOps, PostFacts
  <2>4. crash = "none"
    BY <1>16 DEF SweepEnd, IoRuns
  <2> QED
    BY <1>0, <1>16, <1>k, <2>3, <2>4 DEF SweepEnd
<1> QED
  BY <1>1, <1>2, <1>3, <1>4, <1>5, <1>6, <1>7, <1>8, <1>9, <1>10, <1>11, <1>12, <1>13, <1>14,
     <1>15, <1>16 DEF IoThread

\* Every step of a user thread.
LEMMA UserSocket ==
    ASSUME TypeOK, SocketInv, NEW u \in Users, UserCall(u) \/ UserStep(u)
    PROVE  SocketInv'
<1> USE DEF queuevars, msgvars, sweepvars, calls, uservars, netvars
<1>0. /\ conn \in Conn /\ closes \in Nat /\ OpsOk(conn, closes)
      /\ conn.status = "CONN" => Trying(conn) \/ \E v \in Users : pc[v] = "start"
      /\ pc \in [Users -> {"idle", "check", "set", "start", "push", "insert", "assign",
                           "arm", "post", "get", "poll", "del", "drain", "delete", "stop",
                           "done", "gone"}]
  BY DEF TypeOK, SocketInv
<1>z. 0 \in 0..MaxReq
  BY ClientLoopAssumption
<1>s. ASSUME NEW here \in STRING, NEW there, UserAt(u, here, there), here # "start"
      PROVE  (\E v \in Users : pc[v] = "start") => (\E v \in Users : pc'[v] = "start")
  BY <1>0, <1>s DEF UserAt
<1>k. ASSUME (\E v \in Users : pc[v] = "start") => (\E v \in Users : pc'[v] = "start"),
             closes' = closes, OpsOk(conn', closes),
             conn'.status = "CONN" => conn.status = "CONN",
             Trying(conn) => Trying(conn')
      PROVE  SocketInv'
  BY <1>0, <1>k, SocketKept
<1>1. CASE IsOpen(u)
  BY <1>0, <1>1, <1>k, <1>s DEF IsOpen, UserAt
<1>2. CASE WriteNew(u)
  BY <1>0, <1>2, <1>k, <1>s DEF WriteNew, UserAt
<1>3. CASE ReadFind(u)
  BY <1>0, <1>3, <1>k, <1>s DEF ReadFind, UserAt
<1>4. CASE UserClose(u)
  <2> DEFINE h == H("close", 0, TRUE)
  <2>1. h \in Handler /\ closes' \in Nat /\ closes' > 0 /\ WellMade(h, closes')
    BY <1>0, <1>4, <1>z DEF UserClose, H, Handler, WellMade
  <2>2. conn' = Post(conn, h)
    BY <1>4 DEF UserClose
  <2> HIDE DEF h
  <2>3. OpsOk(conn, closes')
    BY <1>0, <2>1 DEF OpsOk, WellMade
  <2>4. OpsOk(conn', closes') /\ (Trying(conn) => Trying(conn')) /\ conn'.status = conn.status
    BY <1>0, <2>1, <2>2, <2>3, PostOps, PostFacts
  <2>5. crash = "none" /\ crash' = crash /\ UserAt(u, "idle", "idle")
    BY <1>4 DEF UserClose, UserAt
  <2>6. (\E v \in Users : pc[v] = "start") => (\E v \in Users : pc'[v] = "start")
    BY <1>0, <2>5 DEF UserAt
  <2> QED
    BY <1>0, <2>4, <2>6, SocketKept
<1>5. CASE Destroy(u)
  <2>1. ~ \E v \in Users : pc[v] = "start"
    BY <1>5 DEF Destroy
  <2> QED
    BY <1>0, <1>5, <1>k, <2>1 DEF Destroy
<1>6. CASE DoConnectCheck(u)
  BY <1>0, <1>6, <1>k, <1>s DEF DoConnectCheck, UserAt
<1>7. CASE DoConnectSet(u)
  <2>1. OpsOk(conn', closes) /\ closes' = closes /\ crash' = "none" /\ pc'[u] = "start"
    BY <1>0, <1>7, StatusOps DEF DoConnectSet, UserAt
  <2> QED
    BY <2>1, SocketKept
<1>8. CASE DoConnectStart(u)
  <2>1. OpsOk(conn', closes) /\ closes' = closes /\ crash' = "none" /\ Trying(conn')
    BY <1>0, <1>8, AsyncConnectOps DEF DoConnectStart, UserAt
  <2> QED
    BY <2>1, SocketKept
<1>9. CASE WritePush(u)
  BY <1>0, <1>9, <1>k, <1>s DEF WritePush, UserAt
<1>10. CASE WriteInsert(u)
  BY <1>0, <1>10, <1>k, <1>s DEF WriteInsert, UserAt
<1>11. CASE WriteAssign(u)
  BY <1>0, <1>11, <1>k, <1>s DEF WriteAssign, UserAt
<1>12. CASE WriteArm(u)
  BY <1>0, <1>12, <1>k, <1>s DEF WriteArm, UserAt
<1>13. CASE WritePost(u)
  <2> DEFINE h == H("dowrite", IF UseQueue THEN 0 ELSE req[u], TRUE)
  <2>1. req[u] \in 0..MaxReq
    BY DEF TypeOK
  <2>2. h \in Handler /\ WellMade(h, closes)
    BY <1>z, <2>1 DEF H, Handler, WellMade
  <2>3. conn' = Post(conn, h)
    BY <1>13 DEF WritePost, PostWrite
  <2> HIDE DEF h
  <2>4. OpsOk(conn', closes) /\ (Trying(conn) => Trying(conn')) /\ conn'.status = conn.status
    BY <1>0, <2>2, <2>3, PostOps, PostFacts
  <2> QED
    BY <1>13, <1>k, <1>s, <2>4 DEF WritePost, UserAt
<1>14. CASE ReadGet(u)
  <2>1. UserAt(u, "get", "poll") /\ conn' = conn /\ closes' = closes
    BY <1>14 DEF ReadGet
  <2>2. (\E v \in Users : pc[v] = "start") => (\E v \in Users : pc'[v] = "start")
    BY <1>0, <2>1 DEF UserAt
  <2> QED
    BY <1>0, <1>k, <2>1, <2>2
<1>15. CASE ReadResult(u)
  BY <1>0, <1>15, <1>k, <1>s DEF ReadResult, UserAt
<1>16. CASE ReadReturn(u)
  BY <1>0, <1>16, <1>k, <1>s DEF ReadReturn, UserAt
<1>17. CASE DestroyClose(u)
  <2>1. OpsOk(conn', closes) /\ conn'.status = "CONN_CLOSE" /\ closes' = closes /\ pc'[u] = "delete"
    BY <1>0, <1>17, DoCloseFacts DEF DestroyClose, UserAt
  <2> QED
    BY <2>1, SocketKept
<1>18. CASE DestroyDelete(u)
  <2> DEFINE d == CloseSocket(conn)
  <2>1. d \in Conn /\ OpsOk(d, closes) /\ d.status = conn.status /\ d.sock = "closed"
        /\ (Trying(conn) => Trying(d))
    BY <1>0, CloseSocketType, CloseSocketOps, CloseSocketFacts
  <2>2. conn' = [d EXCEPT !.sock = "null"]
    BY <1>18 DEF DestroyDelete
  <2> HIDE DEF d
  <2>3. /\ conn'.status = d.status /\ conn'.ready = d.ready /\ conn'.rops = d.rops
        /\ conn'.wops = d.wops
    BY <2>1, <2>2 DEF Conn
  <2>4. OpsOk(conn', closes) /\ (Trying(conn) => Trying(conn'))
    BY <2>1, <2>3 DEF OpsOk, Trying
  <2> QED
    BY <1>18, <1>k, <1>s, <2>1, <2>3, <2>4 DEF DestroyDelete, UserAt
<1>19. CASE DestroyStop(u)
  BY <1>0, <1>19, <1>k, <1>s DEF DestroyStop, UserAt
<1> QED
  BY <1>1, <1>2, <1>3, <1>4, <1>5, <1>6, <1>7, <1>8, <1>9, <1>10, <1>11, <1>12, <1>13, <1>14,
     <1>15, <1>16, <1>17, <1>18, <1>19 DEF UserCall, UserStep

\* Every event of the reactor, the peer and the network.
LEMMA NetworkSocket ==
    ASSUME TypeOK, SocketInv, Network \/ EraseTimerExpire \/ (\E r \in Req : TimerExpire(r))
    PROVE  SocketInv'
<1> USE DEF queuevars, msgvars, sweepvars, calls, uservars, netvars
<1>0. /\ conn \in Conn /\ closes \in Nat /\ OpsOk(conn, closes)
      /\ conn.status = "CONN" => Trying(conn) \/ \E v \in Users : pc[v] = "start"
  BY DEF TypeOK, SocketInv
<1>z. 0 \in 0..MaxReq
  BY ClientLoopAssumption
<1>f. ASSUME Reactor PROVE closes' = closes /\ pc' = pc /\ crash = "none"
  BY <1>f DEF Reactor, IoIdle, IoRuns
<1>k. ASSUME closes' = closes, pc' = pc, OpsOk(conn', closes),
             conn'.status = conn.status, Trying(conn) => Trying(conn')
      PROVE  SocketInv'
  BY <1>0, <1>k, SocketKept
<1>c. ASSUME NEW ok \in BOOLEAN, NEW s \in {"connected", "dead"},
             conn' = Post([conn EXCEPT !.sock = s], H("connect", 0, ok))
      PROVE  OpsOk(conn', closes) /\ conn'.status = conn.status /\ Trying(conn')
  <2> DEFINE d == [conn EXCEPT !.sock = s]
             h == H("connect", 0, ok)
  <2>1. h \in Handler /\ WellMade(h, closes) /\ h.h = "connect"
    BY <1>z DEF H, Handler, WellMade
  <2>2. /\ d \in Conn /\ d.ready = conn.ready /\ d.rops = conn.rops /\ d.wops = conn.wops
        /\ d.status = conn.status
    BY <1>0 DEF Conn
  <2>3. conn' = Post(d, h)
    BY <1>c
  <2> HIDE DEF d, h
  <2>4. OpsOk(d, closes)
    BY <1>0, <2>2 DEF OpsOk
  <2> QED
    BY <1>0, <2>1, <2>2, <2>3, <2>4, PostOps, PostFacts
<1>1. CASE ConnectOk
  BY <1>1, <1>c, <1>f, <1>k DEF ConnectOk
<1>2. CASE ConnectFail
  BY <1>2, <1>c, <1>f, <1>k DEF ConnectFail
<1>o. ASSUME NEW ops \in Seq(Handler), ops # <<>>
      PROVE  /\ Head(ops) \in Range(ops) /\ Head(ops) \in Handler
             /\ Range(Tail(ops)) \subseteq Range(ops)
             /\ Tail(ops) \in Seq(Handler)
             /\ [Head(ops) EXCEPT !.ok = FALSE] \in Handler
             /\ [Head(ops) EXCEPT !.ok = FALSE].h = Head(ops).h
  <2>1. Head(ops) \in Handler /\ Tail(ops) \in Seq(Handler) /\ Range(ops) = {Head(ops)} \cup Range(Tail(ops))
    BY <1>o, HeadTailProperties, RangeTail
  <2>2. [Head(ops) EXCEPT !.ok = FALSE] \in Handler /\ [Head(ops) EXCEPT !.ok = FALSE].h = Head(ops).h
    BY <2>1 DEF Handler
  <2> QED
    BY <2>1, <2>2
<1>p. ASSUME NEW d \in Conn, NEW h \in Handler, h.h \in {"head", "body", "written"},
             d.ready = conn.ready, d.status = conn.status, d.sock = conn.sock,
             Range(d.rops) \subseteq Range(conn.rops), Range(d.wops) \subseteq Range(conn.wops)
      PROVE  /\ OpsOk(d, closes) /\ (Trying(conn) => Trying(d))
             /\ OpsOk(Post(d, h), closes) /\ Post(d, h).status = conn.status
             /\ Trying(conn) => Trying(Post(d, h))
  <2>1. OpsOk(d, closes) /\ (Trying(conn) => Trying(d)) /\ WellMade(h, closes)
    BY <1>0, <1>p DEF OpsOk, Trying, WellMade
  <2> QED
    BY <1>0, <1>p, <2>1, PostOps, PostFacts
<1>3. CASE ReadComplete
  <2> DEFINE op == Head(conn.rops)
             f == Head(conn.inbox)
             c == [conn EXCEPT !.rops = Tail(@), !.inbox = Tail(@)]
  <2>1. /\ conn.rops \in Seq(Handler) /\ conn.rops # <<>>
        /\ f \in Fragment /\ Tail(conn.inbox) \in Seq(Fragment)
    BY <1>0, <1>3, ConnFields, HeadTailProperties DEF ReadComplete
  <2>2. /\ op \in Handler /\ op.h \in {"head", "body"} /\ Range(Tail(conn.rops)) \subseteq Range(conn.rops)
        /\ Tail(conn.rops) \in Seq(Handler)
    BY <1>0, <1>o, <2>1 DEF OpsOk
  <2>3. /\ c \in Conn /\ c.rops = Tail(conn.rops) /\ c.wops = conn.wops /\ c.ready = conn.ready
        /\ c.status = conn.status /\ c.sock = conn.sock
    BY <1>0, <2>1, <2>2 DEF Conn
  <2>4. H("head", f.id, TRUE) \in Handler /\ H("head", f.id, TRUE).h = "head"
    BY <2>1, ClientLoopAssumption, SMTT(30) DEF Fragment, Req, H, Handler
  <2>5. conn' = c \/ conn' = Post(c, H("head", f.id, TRUE)) \/ conn' = Post(c, op)
    BY <1>3 DEF ReadComplete
  <2>6. OpsOk(conn', closes) /\ conn'.status = conn.status /\ (Trying(conn) => Trying(conn'))
    <3> DEFINE g == H("head", f.id, TRUE)
    <3> HIDE DEF c, op, g
    <3>1. \A h \in {op, g} : h \in Handler /\ h.h \in {"head", "body", "written"}
      BY <2>2, <2>4 DEF g
    <3>2. conn' = c \/ \E h \in {op, g} : conn' = Post(c, h)
      BY <2>5 DEF g
    <3> QED
      BY <1>p, <2>2, <2>3, <3>1, <3>2
  <2> QED
    BY <1>3, <1>f, <1>k, <2>6 DEF ReadComplete
<1>4. CASE ReadFail
  <2> DEFINE d == [conn EXCEPT !.rops = Tail(@)]
             h == [Head(conn.rops) EXCEPT !.ok = FALSE]
  <2>1. conn.rops \in Seq(Handler) /\ conn.rops # <<>>
    BY <1>0, <1>4, ConnFields DEF ReadFail
  <2>2. /\ h \in Handler /\ h.h \in {"head", "body"} /\ Range(Tail(conn.rops)) \subseteq Range(conn.rops)
        /\ Tail(conn.rops) \in Seq(Handler)
    BY <1>0, <1>o, <2>1 DEF OpsOk
  <2>3. /\ d \in Conn /\ d.rops = Tail(conn.rops) /\ d.wops = conn.wops /\ d.ready = conn.ready
        /\ d.status = conn.status /\ d.sock = conn.sock
    BY <1>0, <2>2 DEF Conn
  <2>4. conn' = Post(d, h)
    BY <1>4 DEF ReadFail
  <2> HIDE DEF d, h
  <2> QED
    BY <1>4, <1>f, <1>k, <1>p, <2>2, <2>3, <2>4 DEF ReadFail
<1>5. CASE WriteComplete
  <2> DEFINE d == [conn EXCEPT !.wops = Tail(@)]
             h == Head(conn.wops)
             c == Post(d, h)
  <2>1. conn.wops \in Seq(Handler) /\ conn.wops # <<>>
    BY <1>0, <1>5, ConnFields DEF WriteComplete
  <2>2. /\ h \in Handler /\ h.h = "written" /\ Range(Tail(conn.wops)) \subseteq Range(conn.wops)
        /\ Tail(conn.wops) \in Seq(Handler)
    BY <1>0, <1>o, <2>1 DEF OpsOk
  <2>3. /\ d \in Conn /\ d.wops = Tail(conn.wops) /\ d.rops = conn.rops /\ d.ready = conn.ready
        /\ d.status = conn.status /\ d.sock = conn.sock
    BY <1>0, <2>2 DEF Conn
  <2>4. conn' = c \/ \E a : conn' = [c EXCEPT !.asked = a]
    BY <1>5 DEF WriteComplete
  <2> HIDE DEF d, h
  <2>5. c \in Conn /\ OpsOk(c, closes) /\ c.status = conn.status /\ (Trying(conn) => Trying(c))
    BY <1>p, <2>2, <2>3, PostType
  <2> HIDE DEF c
  <2>6. /\ conn'.ready = c.ready /\ conn'.rops = c.rops /\ conn'.wops = c.wops
        /\ conn'.status = c.status /\ conn'.sock = c.sock
    BY <2>4, <2>5 DEF Conn
  <2>7. OpsOk(conn', closes) /\ (Trying(conn) => Trying(conn'))
    BY <2>5, <2>6 DEF OpsOk, Trying
  <2> QED
    BY <1>5, <1>f, <1>k, <2>5, <2>6, <2>7 DEF WriteComplete
<1>6. CASE WriteFail
  <2> DEFINE d == [conn EXCEPT !.wops = Tail(@)]
             h == [Head(conn.wops) EXCEPT !.ok = FALSE]
  <2>1. conn.wops \in Seq(Handler) /\ conn.wops # <<>>
    BY <1>0, <1>6, ConnFields DEF WriteFail
  <2>2. /\ h \in Handler /\ h.h = "written" /\ Range(Tail(conn.wops)) \subseteq Range(conn.wops)
        /\ Tail(conn.wops) \in Seq(Handler)
    BY <1>0, <1>o, <2>1 DEF OpsOk
  <2>3. /\ d \in Conn /\ d.wops = Tail(conn.wops) /\ d.rops = conn.rops /\ d.ready = conn.ready
        /\ d.status = conn.status /\ d.sock = conn.sock
    BY <1>0, <2>2 DEF Conn
  <2>4. conn' = Post(d, h)
    BY <1>6 DEF WriteFail
  <2> HIDE DEF d, h
  <2> QED
    BY <1>6, <1>f, <1>k, <1>p, <2>2, <2>3, <2>4 DEF WriteFail
<1>7. CASE \E r \in Req : PeerReply(r)
  <2> PICK r \in Req : PeerReply(r)
    BY <1>7
  <2>1. \E q : conn' = [conn EXCEPT !.inbox = q]
    BY DEF PeerReply
  <2>2. /\ conn'.ready = conn.ready /\ conn'.rops = conn.rops /\ conn'.wops = conn.wops
        /\ conn'.status = conn.status /\ conn'.sock = conn.sock
    BY <1>0, <2>1 DEF Conn
  <2>3. OpsOk(conn', closes) /\ (Trying(conn) => Trying(conn'))
    BY <1>0, <2>2 DEF OpsOk, Trying
  <2> QED
    BY <1>k, <2>2, <2>3 DEF PeerReply
<1>8. CASE \E how \in Faults \ {"refused"} : NetBreak(how)
  <2> PICK how \in Faults \ {"refused"} : NetBreak(how)
    BY <1>8
  <2>1. \E q : conn' = [conn EXCEPT !.sock = how, !.asked = {}, !.inbox = q]
    BY DEF NetBreak
  <2>2. /\ conn'.ready = conn.ready /\ conn'.rops = conn.rops /\ conn'.wops = conn.wops
        /\ conn'.status = conn.status
    BY <1>0, <2>1 DEF Conn
  <2>3. conn.sock # "connecting"
    BY DEF NetBreak
  <2>4. OpsOk(conn', closes) /\ (Trying(conn) => Trying(conn'))
    BY <1>0, <2>2, <2>3 DEF OpsOk, Trying
  <2> QED
    BY <1>k, <2>2, <2>4 DEF NetBreak
<1>t. ASSUME NEW h \in {"timeout", "erase"}, NEW id \in 0..MaxReq, conn' = Post(conn, H(h, id, TRUE))
      PROVE  OpsOk(conn', closes) /\ conn'.status = conn.status /\ (Trying(conn) => Trying(conn'))
  <2> DEFINE g == H(h, id, TRUE)
  <2>1. g \in Handler /\ WellMade(g, closes)
    BY DEF H, Handler, WellMade
  <2>2. conn' = Post(conn, g)
    BY <1>t
  <2> HIDE DEF g
  <2> QED
    BY <1>0, <2>1, <2>2, PostOps, PostFacts
<1>9. CASE \E r \in Req : TimerExpire(r)
  <2> PICK r \in Req : TimerExpire(r)
    BY <1>9
  <2>1. r \in 0..MaxReq
    BY ClientLoopAssumption DEF Req
  <2> QED
    BY <1>f, <1>k, <1>t, <2>1 DEF TimerExpire
<1>10. CASE EraseTimerExpire
  BY <1>10, <1>f, <1>k, <1>t, <1>z DEF EraseTimerExpire
<1>11. CASE ReadGarbled
  <2> PICK op \in Range(conn.rops), d \in Conn, h \in Handler :
              /\ h = op \/ (op.h = "head" /\ h.h = "head" /\ h.ok)
              /\ d.ready = conn.ready /\ d.wops = conn.wops
              /\ d.status = conn.status /\ d.sock = conn.sock
              /\ Range(d.rops) \subseteq Range(conn.rops)
              /\ conn' = Post(d, h)
    BY <1>0, <1>11, GarbledFacts
  <2>1. h.h \in {"head", "body"}
    BY <1>0 DEF OpsOk
  <2> QED
    BY <1>11, <1>f, <1>k, <1>p, <2>1 DEF ReadGarbled
<1> QED
  BY <1>1, <1>2, <1>3, <1>4, <1>5, <1>6, <1>7, <1>8, <1>9, <1>10, <1>11 DEF Network

\* The socket's invariant holds in every state.
LEMMA SocketCorrect == Spec => [](TypeOK /\ SocketInv)
<1>1. Init => TypeOK /\ SocketInv
  BY InitType, InitSocket
<1>2. TypeOK /\ SocketInv /\ [Next]_vars => SocketInv'
  <2> SUFFICES ASSUME TypeOK, SocketInv, [Next]_vars PROVE SocketInv'
    OBVIOUS
  <2>1. CASE UNCHANGED vars
    BY <2>1 DEF vars, queuevars, msgvars, sweepvars, calls, uservars, netvars, SocketInv, OpsOk,
                Trying
  <2> QED
    BY <2>1, IoThreadSocket, UserSocket, NetworkSocket DEF Next
<1> QED
  BY <1>1, <1>2, TypeCorrect, PTL DEF Spec

\* While clietn_status is CT_CONN some handler or thread will still change it, so
\* the client can always connect again, whatever connections fail, are closed or
\* are started by users beside the io thread.
THEOREM ConnectOutstandingCorrect == Spec => []ConnectOutstanding
<1>1. TypeOK /\ SocketInv => ConnectOutstanding
  <2> SUFFICES ASSUME TypeOK, SocketInv, Trying(conn)
               PROVE  conn.sock = "connecting" \/ Queued("connect", 0)
    BY DEF SocketInv, ConnectOutstanding
  <2>1. \A h \in Range(conn.ready) : h.h = "connect" => h.id = 0
    BY DEF SocketInv, OpsOk, WellMade
  <2> QED
    BY <2>1, QueuedRange DEF Trying
<1> QED
  BY <1>1, SocketCorrect, PTL

-----------------------------------------------------------------------------
(* Where do_close() meets a socket that is gone *)

\* A do_close that throws found the socket without a descriptor or reset.
LEMMA CloseThrows ==
    ASSUME NEW c \in Conn, do_close(c), crash # "terminate", crash' = "terminate"
    PROVE  c.sock \in {"closed", "dead"}
BY DEF do_close

\* shutdown() throws only when the network has reset the connection, in the close()
\* a user called of a client that is not connected, or in destroy().  Handlers that
\* an earlier close() aborted do not close once more.
THEOREM ThrowsOnlyWhenGoneCorrect == Spec => ThrowsOnlyWhenGone
<1> DEFINE Gone == \/ conn.sock = "dead"
                   \/ Runs("close") /\ conn.sock = "closed"
                   \/ \E u \in Users : pc[u] = "drain" /\ pc'[u] = "delete"
<1>1. TypeOK /\ [Next]_vars => [crash # "terminate" /\ crash' = "terminate" => Gone]_vars
  <2> SUFFICES ASSUME TypeOK, Next, crash # "terminate", crash' = "terminate" PROVE Gone
    OBVIOUS
  <2>0. conn \in Conn /\ pc \in [Users -> {"idle", "check", "set", "start", "push", "insert",
                           "assign", "arm", "post", "get", "poll", "del", "drain", "delete", "stop",
                           "done", "gone"}]
    BY DEF TypeOK
  <2>t. ASSUME NEW h, Runs(h) PROVE Taken \in Conn /\ Taken.sock = conn.sock
    BY <2>0, <2>t, TakenType, TakenFacts DEF Runs
  <2>c. ASSUME NEW h, Runs(h), is_open(Taken), do_close(Taken) PROVE conn.sock = "dead"
    BY <2>c, <2>t, CloseThrows DEF is_open
  <2>1. CASE IoThread
    <3>1. CASE HandleReadHeaderError
      BY <3>1, <2>c DEF HandleReadHeaderError, GoesOn
    <3>2. CASE HandleReadMsg
      BY <3>2, <2>c DEF HandleReadMsg
    <3>3. CASE HandleWriteError
      BY <3>3, <2>c DEF HandleWriteError
    <3>4. CASE DoClose
      BY <3>4, <2>t, CloseThrows DEF DoClose
    <3>5. CASE SetTimeout
      BY <3>5 DEF SetTimeout
    <3>6. CASE HandleReadHeader \/ HandlerFindsNull
      BY <3>6 DEF HandleReadHeader, HandlerFindsNull
    <3>7. CASE HandlerFindsClosed \/ HandleConnectOk \/ HandleConnectError \/ EraseStart
      BY <3>7 DEF HandlerFindsClosed, HandleConnectOk, HandleConnectError, EraseStart
    <3>8. CASE DoWriteQueue \/ DoWriteDirect \/ HandleWrite
      BY <3>8 DEF DoWriteQueue, DoWriteDirect, HandleWrite
    <3>9. CASE SweepDrop \/ SweepErase \/ SweepMark \/ SweepEnd
      BY <3>9 DEF SweepDrop, SweepErase, SweepMark, SweepEnd, SweepRound
    <3> QED
      BY <2>1, <3>1, <3>2, <3>3, <3>4, <3>5, <3>6, <3>7, <3>8, <3>9 DEF IoThread
  <2>2. ASSUME NEW u \in Users, UserCall(u) \/ UserStep(u) PROVE Gone
    <3>1. CASE DestroyClose(u)
      BY <2>0, <3>1 DEF DestroyClose, UserAt
    <3>2. CASE UserCall(u)
      BY <3>2 DEF UserCall, IsOpen, WriteNew, ReadFind, UserClose, Destroy
    <3>3. CASE ReadGet(u)
      BY <3>3 DEF ReadGet
    <3>4. CASE DoConnectCheck(u) \/ DoConnectSet(u) \/ DoConnectStart(u) \/ ReadResult(u) \/ ReadReturn(u)
               \/ DestroyDelete(u) \/ DestroyStop(u)
      BY <3>4 DEF DoConnectCheck, DoConnectSet, DoConnectStart, ReadResult, ReadReturn,
                  DestroyDelete, DestroyStop
    <3>5. CASE WritePush(u) \/ WriteInsert(u) \/ WriteAssign(u) \/ WriteArm(u) \/ WritePost(u)
      BY <3>5 DEF WritePush, WriteInsert, WriteAssign, WriteArm, WritePost
    <3> QED
      BY <2>2, <3>1, <3>2, <3>3, <3>4, <3>5 DEF UserStep
  <2>3. CASE Network \/ EraseTimerExpire \/ \E r \in Req : TimerExpire(r)
    BY <2>3 DEF Network, ConnectOk, ConnectFail, ReadComplete, ReadGarbled, ReadFail, WriteComplete,
                WriteFail, PeerReply, NetBreak, EraseTimerExpire, TimerExpire
  <2> QED
    BY <2>1, <2>2, <2>3 DEF Next
<1>2. Spec => [][crash # "terminate" /\ crash' = "terminate" => Gone]_vars
  BY <1>1, TypeCorrect, PTL DEF Spec
<1> QED
  BY <1>2 DEF ThrowsOnlyWhenGone

=============================================================================
