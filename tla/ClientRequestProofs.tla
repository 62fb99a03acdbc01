------------------------- MODULE ClientRequestProofs -------------------------
(***************************************************************************)
(* Theorems about the requests of ClientLoop: who owns one, what its entry *)
(* in recv_msg_map_, its timer, its erase_flag and del_reqid_list say of   *)
(* each other (RequestInv), and which requests the peer may answer         *)
(* (SentInv).  Most handlers only move operations about; Quiet says what   *)
(* such a step does to the scheduler's queue, so that the invariants are   *)
(* argued once for all of them and action by action only for the rest.     *)
(***************************************************************************)
EXTENDS ClientLoopProofs

-----------------------------------------------------------------------------
(* What operations on the socket leave alone *)

\* A handler that starts nothing of its own: the error of an operation that was
\* aborted or never started, or the end of a read or a write.
Plain(h) ==
    /\ h.h \in {"connect", "head", "body", "written"}
    /\ h.h \in {"connect", "head"} => ~h.ok

\* Between c and d only plain handlers were queued, behind all others, nothing
\* arrived from the peer, and no writes were started but of the requests X.
Quiet(c, d, X) ==
    /\ \E p \in Seq(Handler) : d.ready = c.ready \o p /\ \A h \in Range(p) : Plain(h)
    /\ \A h \in Range(d.wops) : h \in Range(c.wops) \/ h.id \in X
    /\ d.asked \subseteq c.asked
    /\ Range(d.inbox) \subseteq Range(c.inbox)

\* A sequence of one element.
LEMMA RangeOne ==
    ASSUME NEW S, NEW e \in S
    PROVE  <<e>> \in Seq(S) /\ Range(<<e>>) = {e}
<1>1. <<e>> \in Seq(S) /\ Len(<<e>>) = 1 /\ <<e>>[1] = e
  OBVIOUS
<1>2. Range(<<e>>) = {<<e>>[i] : i \in 1..1}
  BY <1>1, RangeEquality
<1>3. 1..1 = {1}
  OBVIOUS
<1> QED
  BY <1>1, <1>2, <1>3

\* No handler was queued.
LEMMA QuietSame ==
    ASSUME NEW c \in Conn, NEW d, NEW X, d.ready = c.ready,
           \A h \in Range(d.wops) : h \in Range(c.wops) \/ h.id \in X,
           d.asked \subseteq c.asked, Range(d.inbox) \subseteq Range(c.inbox)
    PROVE  Quiet(c, d, X)
<1>1. c.ready \in Seq(Handler)
  BY ConnFields
<1>2. c.ready \o <<>> = c.ready /\ <<>> \in Seq(Handler) /\ \A h \in Range(<<>>) : Plain(h)
  BY <1>1, ConcatEmptySeq, EmptySeq, RangeEmpty
<1> QED
  BY <1>2 DEF Quiet

\* One plain handler was queued.
LEMMA QuietAppend ==
    ASSUME NEW c \in Conn, NEW d, NEW X, NEW h \in Handler, Plain(h), d.ready = Append(c.ready, h),
           \A g \in Range(d.wops) : g \in Range(c.wops) \/ g.id \in X,
           d.asked \subseteq c.asked, Range(d.inbox) \subseteq Range(c.inbox)
    PROVE  Quiet(c, d, X)
<1>1. c.ready \in Seq(Handler)
  BY ConnFields
<1>2. d.ready = c.ready \o <<h>>
  BY <1>1, AppendIsConcat
<1>3. <<h>> \in Seq(Handler) /\ \A g \in Range(<<h>>) : Plain(g)
  BY RangeOne
<1> QED
  BY <1>2, <1>3 DEF Quiet

\* Only the contents of the fields matter.
LEMMA QuietFields ==
    ASSUME NEW c, NEW b, NEW d, NEW X, Quiet(c, d, X), b.ready = c.ready, b.wops = c.wops,
           b.asked = c.asked, b.inbox = c.inbox
    PROVE  Quiet(b, d, X)
BY DEF Quiet

\* Post() of a plain handler.
LEMMA QuietPost ==
    ASSUME NEW c \in Conn, NEW h \in Handler, Plain(h)
    PROVE  Quiet(c, Post(c, h), {})
BY PostFacts, QuietAppend

\* Concatenation is associative.
LEMMA ConcatAssoc == \A r, x, a \in Seq(Handler) : (r \o x) \o a = r \o (x \o a)
BY ConcatAssociative

\* close() queues the handlers it aborts, all with an error.
LEMMA QuietCloseSocket ==
    ASSUME NEW n \in Nat, NEW c \in Conn, OpsOk(c, n)
    PROVE  Quiet(c, CloseSocket(c), {})
<1> DEFINE x == IF c.sock = "connecting" THEN <<H("connect", 0, FALSE)>> ELSE <<>>
           a == Aborted(c.rops)
           b == Aborted(c.wops)
           r == c.ready
           d == CloseSocket(c)
<1>1. d.ready = ((r \o x) \o a) \o b
  BY DEF CloseSocket, Conn
<1>2. d.wops = <<>> /\ d.inbox = <<>> /\ d.asked = {}
  BY CloseSocketFacts
<1>3. x \in Seq(Handler) /\ \A h \in Range(x) : Plain(h)
  <2> DEFINE g == H("connect", 0, FALSE)
  <2>1. g \in Handler /\ Plain(g)
    BY ConnectErrorType DEF H, Plain
  <2> HIDE DEF g
  <2>2. <<g>> \in Seq(Handler) /\ Range(<<g>>) = {g} /\ <<>> \in Seq(Handler) /\ Range(<<>>) = {}
    BY <2>1, RangeOne, EmptySeq, RangeEmpty
  <2>3. x = <<g>> \/ x = <<>>
    BY DEF g
  <2> HIDE DEF x
  <2> QED
    BY <2>1, <2>2, <2>3
<1>4. c.rops \in Seq(Handler) /\ c.wops \in Seq(Handler) /\ r \in Seq(Handler)
  BY ConnFields
<1>5. \A h \in Range(c.rops) \cup Range(c.wops) : h \in Handler /\ h.h \in {"head", "body", "written"}
  BY <1>4, RangeOfSeq DEF OpsOk
<1>6. ASSUME NEW h \in Handler, h.h \in {"head", "body", "written"} PROVE Plain([h EXCEPT !.ok = FALSE])
  <2>1. [h EXCEPT !.ok = FALSE].h = h.h /\ [h EXCEPT !.ok = FALSE].ok = FALSE
    BY DEF Handler
  <2> QED
    BY <1>6, <2>1 DEF Plain
<1>7. /\ a \in Seq(Handler) /\ \A h \in Range(a) : Plain(h)
      /\ b \in Seq(Handler) /\ \A h \in Range(b) : Plain(h)
  <2>1. a \in Seq(Handler) /\ b \in Seq(Handler)
    BY <1>4, AbortedType
  <2>2. /\ Range(a) = {[h EXCEPT !.ok = FALSE] : h \in Range(c.rops)}
        /\ Range(b) = {[h EXCEPT !.ok = FALSE] : h \in Range(c.wops)}
    BY <1>4, RangeAborted
  <2> HIDE DEF a, b
  <2> QED
    BY <1>5, <1>6, <2>1, <2>2
<1> HIDE DEF x, a, b, r, d
<1> DEFINE q == x \o a
           p == q \o b
<1>8. q \in Seq(Handler) /\ Range(q) = Range(x) \cup Range(a)
  BY <1>3, <1>7, ConcatProperties, RangeConcatenation
<1>9. (r \o x) \o a = r \o q
  <2>1. r \in Seq(Handler) /\ x \in Seq(Handler) /\ a \in Seq(Handler)
    BY <1>3, <1>4, <1>7
  <2> QED
    BY <2>1, ConcatAssoc, Zenon
<1> HIDE DEF q
<1>10. (r \o q) \o b = r \o p /\ p \in Seq(Handler) /\ Range(p) = Range(q) \cup Range(b)
  <2>1. p \in Seq(Handler) /\ Range(p) = Range(q) \cup Range(b)
    BY <1>7, <1>8, ConcatProperties, RangeConcatenation
  <2>2. (r \o q) \o b = r \o p
    BY <1>4, <1>7, <1>8, ConcatAssoc, SMTT(30)
  <2> QED
    BY <2>1, <2>2
<1>11. d.ready = r \o p
  BY <1>1, <1>9, <1>10
<1>12. \A h \in Range(p) : Plain(h)
  BY <1>3, <1>7, <1>8, <1>10
<1> HIDE DEF p
<1>13. Quiet(c, d, {})
  BY <1>2, <1>10, <1>11, <1>12, RangeEmpty DEF Quiet, r
<1> QED
  BY <1>13 DEF d

\* async_connect and do_connect() queue at most their own failure.
LEMMA QuietConnect ==
    ASSUME NEW c \in Conn
    PROVE  Quiet(c, AsyncConnect(c), {}) /\ Quiet(c, do_connect(c), {})
<1> DEFINE g == H("connect", 0, FALSE)
<1>1. g \in Handler /\ Plain(g)
  BY ConnectErrorType DEF H, Plain
<1>2. ASSUME NEW b \in Conn PROVE Quiet(b, AsyncConnect(b), {})
  <2>1. CASE b.sock = "closed"
    <3> DEFINE d == [b EXCEPT !.sock = "connecting"]
    <3>1. d.ready = b.ready /\ d.wops = b.wops /\ d.asked = b.asked /\ d.inbox = b.inbox
      BY DEF Conn
    <3> HIDE DEF d
    <3>2. Quiet(b, d, {})
      BY <3>1, QuietSame
    <3> QED
      BY <2>1, <3>2 DEF AsyncConnect, d
  <2>2. CASE b.sock # "closed"
    BY <1>1, <2>2, QuietPost DEF AsyncConnect
  <2> QED
    BY <2>1, <2>2
<1>3. Quiet(c, do_connect(c), {})
  <2> DEFINE d == [c EXCEPT !.status = "CONN"]
  <2>1. d \in Conn /\ d.ready = c.ready /\ d.wops = c.wops /\ d.asked = c.asked /\ d.inbox = c.inbox
    BY DEF Conn
  <2>2. do_connect(c) = c \/ do_connect(c) = AsyncConnect(d)
    BY DEF do_connect
  <2> HIDE DEF d
  <2>3. Quiet(c, c, {}) /\ Quiet(c, AsyncConnect(d), {})
    BY <1>2, <2>1, QuietSame, QuietFields
  <2> QED
    BY <2>2, <2>3
<1> QED
  BY <1>2, <1>3

\* async_read on a closed socket queues its failure.
LEMMA QuietRead ==
    ASSUME NEW n \in Nat, NEW c \in Conn, OpsOk(c, n), NEW h \in Handler, h.h \in {"head", "body"}
    PROVE  Quiet(c, AsyncRead(c, h), {})
<1> DEFINE d == AsyncRead(c, h)
           g == [h EXCEPT !.ok = FALSE]
<1>1. g \in Handler /\ Plain(g)
  BY DEF Handler, Plain
<1>2. /\ d.wops = c.wops /\ d.asked = c.asked /\ d.inbox = c.inbox
      /\ d.ready = c.ready \/ d.ready = Append(c.ready, g)
  BY AsyncReadFacts
<1> HIDE DEF d, g
<1>3. Quiet(c, d, {})
  BY <1>1, <1>2, QuietSame, QuietAppend
<1> QED
  BY <1>3 DEF d

\* async_write adds the write of its request, or queues its failure.
LEMMA QuietWrite ==
    ASSUME NEW n \in Nat, NEW c \in Conn, OpsOk(c, n), NEW r \in 0..MaxReq
    PROVE  Quiet(c, AsyncWrite(c, r), {r})
<1> DEFINE d == AsyncWrite(c, r)
           g == H("written", r, FALSE)
           t == H("written", r, TRUE)
<1>1. g \in Handler /\ Plain(g) /\ t \in Handler /\ t.id = r
  BY DEF H, Handler, Plain
<1>2. /\ d.asked = c.asked /\ d.inbox = c.inbox
      /\ \/ d.ready = c.ready /\ d.wops = Append(c.wops, t)
         \/ d.ready = Append(c.ready, g) /\ d.wops = c.wops
  BY AsyncWriteFacts
<1> HIDE DEF d, g, t
<1>3. Range(Append(c.wops, t)) = Range(c.wops) \cup {t}
  BY <1>1, ConnFields, RangeAppend
<1>4. Quiet(c, d, {r})
  BY <1>1, <1>2, <1>3, QuietSame, QuietAppend
<1> QED
  BY <1>4 DEF d

\* A store to clietn_status touches no operation.
LEMMA QuietStatus ==
    ASSUME NEW c \in Conn, NEW s
    PROVE  Quiet(c, [c EXCEPT !.status = s], {})
<1> DEFINE d == [c EXCEPT !.status = s]
<1>1. d.ready = c.ready /\ d.wops = c.wops /\ d.asked = c.asked /\ d.inbox = c.inbox
  BY DEF Conn
<1> HIDE DEF d
<1>2. Quiet(c, d, {})
  BY <1>1, QuietSame
<1> QED
  BY <1>2 DEF d

\* do_close(), in each of its outcomes.
LEMMA QuietDoClose ==
    ASSUME NEW n \in Nat, NEW c \in Conn, OpsOk(c, n), do_close(c)
    PROVE  Quiet(c, conn', {})
<1> DEFINE d == [c EXCEPT !.status = "CONN_CLOSE"]
<1>1. d \in Conn /\ OpsOk(d, n) /\ d.ready = c.ready /\ d.wops = c.wops /\ d.asked = c.asked /\ d.inbox = c.inbox
  <2>1. d \in Conn
    BY ConnExcept
  <2> QED
    BY <2>1, StatusOps
<1>2. conn' = c \/ conn' = d \/ conn' = CloseSocket(d)
  BY DEF do_close
<1> HIDE DEF d
<1>3. Quiet(c, c, {}) /\ Quiet(c, d, {})
  BY <1>1, QuietSame
<1>4. Quiet(c, CloseSocket(d), {})
  BY <1>1, QuietCloseSocket, QuietFields
<1> QED
  BY <1>2, <1>3, <1>4

\* A larger set of requests that may be written.
LEMMA QuietMore ==
    ASSUME NEW c, NEW d, NEW X, NEW Y, Quiet(c, d, X), X \subseteq Y
    PROVE  Quiet(c, d, Y)
BY DEF Quiet

\* The requests a handler may write: the one it is bound to, or any of the queue.
Writes(h) ==
    IF UseQueue THEN 0..MaxReq ELSE IF h.h = "dowrite" THEN {h.id} ELSE {}

\* The io thread runs a handler, or a step of erase_msg_timer.
LEMMA IoSteps ==
    ASSUME IoThread
    PROVE  \/ crash = "none" /\ ~sweep.on /\ conn.ready # <<>>
           \/ SweepRound
           \/ SweepEnd
BY DEF IoThread, HandlerFindsClosed, HandlerFindsNull, HandleConnectOk, HandleConnectError,
       HandleReadHeader, HandleReadHeaderError, HandleReadMsg, DoWriteQueue, DoWriteDirect,
       HandleWrite, HandleWriteError, SetTimeout, DoClose, EraseStart, SweepDrop, SweepErase,
       SweepMark, Runs, IoIdle, IoRuns

\* A handler adds plain handlers to the queue it was taken from.
LEMMA HandlerQuiet ==
    ASSUME TypeOK, SocketInv, IoThread, ~sweep.on
    PROVE  /\ crash = "none" /\ conn.ready # <<>> /\ Taken \in Conn /\ Job \in Handler
           /\ Quiet(Taken, conn', Writes(Job))
<1> USE DEF queuevars, msgvars, sweepvars, calls, uservars, netvars
<1>0. /\ crash = "none" /\ conn.ready # <<>> /\ conn \in Conn /\ closes \in Nat
      /\ OpsOk(conn, closes)
  BY IoSteps DEF TypeOK, SocketInv, SweepRound, SweepEnd
<1>t. /\ Taken \in Conn /\ Job \in Handler /\ OpsOk(Taken, closes)
      /\ Job.id \in 0..MaxReq
  BY <1>0, TakenType, TakenOps DEF Handler
<1>z. 0 \in 0..MaxReq
  BY ClientLoopAssumption
<1>r. ASSUME NEW h \in {"head", "body"}, NEW id \in 0..MaxReq, NEW c \in Conn, OpsOk(c, closes)
      PROVE  Quiet(c, AsyncRead(c, H(h, id, TRUE)), {})
  <2> DEFINE g == H(h, id, TRUE)
  <2>1. g \in Handler /\ g.h \in {"head", "body"}
    BY DEF H, Handler
  <2> HIDE DEF g
  <2>2. Quiet(c, AsyncRead(c, g), {})
    BY <1>0, <1>r, <2>1, QuietRead
  <2> QED
    BY <2>2 DEF g
<1>s. Quiet(Taken, Taken, {})
  BY <1>t, QuietSame
<1>q. ASSUME NEW X, X \subseteq Writes(Job), Quiet(Taken, conn', X)
      PROVE  Quiet(Taken, conn', Writes(Job))
  BY <1>q, QuietMore
<1> SUFFICES Quiet(Taken, conn', Writes(Job))
  BY <1>0, <1>t
<1>1. CASE HandlerFindsClosed
  BY <1>1, <1>q, <1>t, QuietConnect DEF HandlerFindsClosed
<1>2. CASE HandlerFindsNull
  BY <1>2, <1>q, <1>s, <1>t, QuietStatus DEF HandlerFindsNull, Connected
<1>3. CASE HandleConnectOk
  <2> DEFINE d == [Taken EXCEPT !.status = "CONN_OK"]
  <2>1. d \in Conn
    BY <1>t, ConnExcept
  <2>2. /\ OpsOk(d, closes) /\ d.ready = Taken.ready /\ d.wops = Taken.wops
        /\ d.asked = Taken.asked /\ d.inbox = Taken.inbox
    BY <1>t, StatusOps
  <2>3. conn' = AsyncRead(d, H("head", 0, TRUE))
    BY <1>3 DEF HandleConnectOk, Connected, do_read_head
  <2> HIDE DEF d
  <2>4. Quiet(d, conn', {})
    BY <1>r, <1>z, <2>1, <2>2, <2>3
  <2>5. Quiet(Taken, conn', {})
    BY <2>2, <2>4, QuietFields
  <2> QED
    BY <1>q, <2>5
<1>4. CASE HandleConnectError
  <2> DEFINE d == [Taken EXCEPT !.status = "ERROR"]
  <2>1. d \in Conn
    BY <1>t, ConnExcept
  <2>2. /\ OpsOk(d, closes) /\ d.ready = Taken.ready /\ d.wops = Taken.wops
        /\ d.asked = Taken.asked /\ d.inbox = Taken.inbox
    BY <1>t, StatusOps
  <2>3. conn' = CloseSocket(d)
    BY <1>4 DEF HandleConnectError, NotConnected
  <2> HIDE DEF d
  <2>4. Quiet(d, conn', {})
    BY <1>0, <2>1, <2>2, <2>3, QuietCloseSocket
  <2>5. Quiet(Taken, conn', {})
    BY <2>2, <2>4, QuietFields
  <2> QED
    BY <1>q, <2>5
<1>5. CASE HandleReadHeader
  <2>1. conn' = Taken \/ \E id \in 0..MaxReq : conn' = AsyncRead(Taken, H("body", id, TRUE))
    BY <1>5, <1>t, <1>z DEF HandleReadHeader, Into, do_read_msg
  <2> QED
    BY <1>q, <1>r, <1>s, <1>t, <2>1
<1>6. CASE HandleReadHeaderError \/ HandleWriteError \/ DoClose
  <2>1. do_close(Taken)
    BY <1>6 DEF HandleReadHeaderError, HandleWriteError, DoClose
  <2> QED
    BY <1>0, <1>q, <1>t, <2>1, QuietDoClose
<1>7. CASE HandleReadMsg
  <2>1. CASE do_close(Taken)
    BY <1>0, <1>q, <1>t, <2>1, QuietDoClose
  <2>2. CASE conn' = do_read_head(Taken)
    BY <1>q, <1>r, <1>t, <1>z, <2>2 DEF do_read_head
  <2> QED
    BY <1>7, <2>1, <2>2 DEF HandleReadMsg
<1>w. ASSUME UseQueue, do_write(Taken) PROVE Quiet(Taken, conn', Writes(Job))
  <2>1. write_msg_queue_ # <<>> => Head(write_msg_queue_) \in Req
    BY HeadTailProperties DEF TypeOK
  <2>2. write_msg_queue_ # <<>> => Head(write_msg_queue_) \in 0..MaxReq
    BY <2>1, ClientLoopAssumption DEF Req
  <2>3. conn' = Taken \/ \E r \in 0..MaxReq : conn' = AsyncWrite(Taken, r)
    BY <1>w, <2>2 DEF do_write
  <2>4. CASE conn' = Taken
    BY <1>q, <1>s, <2>4
  <2>5. ASSUME NEW r \in 0..MaxReq, conn' = AsyncWrite(Taken, r)
        PROVE  Quiet(Taken, conn', Writes(Job))
    <3>1. Quiet(Taken, conn', {r})
      BY <1>0, <1>t, <2>5, QuietWrite
    <3>2. {r} \subseteq Writes(Job)
      BY <1>w DEF Writes
    <3> QED
      BY <1>q, <3>1, <3>2
  <2> QED
    BY <2>3, <2>4, <2>5
<1>8. CASE DoWriteQueue
  BY <1>8, <1>w DEF DoWriteQueue
<1>9. CASE DoWriteDirect
  <2>1. {Job.id} \subseteq Writes(Job)
    BY <1>9 DEF DoWriteDirect, Writes, Runs, Job
  <2>2. CASE conn' = Taken
    BY <1>q, <1>s, <2>2
  <2>3. CASE conn' = AsyncWrite(Taken, Job.id)
    <3>1. Quiet(Taken, conn', {Job.id})
      BY <1>0, <1>t, <2>3, QuietWrite
    <3> QED
      BY <1>q, <2>1, <3>1
  <2> QED
    BY <1>9, <2>2, <2>3 DEF DoWriteDirect
<1>10. CASE HandleWrite
  <2>1. CASE conn' = Taken
    BY <1>q, <1>s, <2>1
  <2> QED
    BY <1>10, <1>w, <2>1 DEF HandleWrite
<1>11. CASE SetTimeout \/ EraseStart
  <2>1. conn' = Taken
    BY <1>11 DEF SetTimeout, EraseStart
  <2> QED
    BY <1>q, <1>s, <2>1
<1>12. CASE SweepDrop \/ SweepErase \/ SweepMark \/ SweepEnd
  BY <1>12 DEF SweepDrop, SweepErase, SweepMark, SweepEnd, SweepRound
<1> QED
  BY <1>1, <1>2, <1>3, <1>4, <1>5, <1>6, <1>7, <1>8, <1>9, <1>10, <1>11, <1>12 DEF IoThread

\* A user's step adds plain handlers, but for the posts of close() and write().
LEMMA UserQuiet ==
    ASSUME TypeOK, SocketInv, NEW u \in Users, UserCall(u) \/ UserStep(u)
    PROVE  \/ Quiet(conn, conn', {})
           \/ UserClose(u) /\ conn' = Post(conn, H("close", 0, TRUE))
           \/ WritePost(u) /\ conn' = PostWrite(conn, req[u])
<1> USE DEF queuevars, msgvars, sweepvars, calls, uservars, netvars
<1>0. conn \in Conn /\ closes \in Nat /\ OpsOk(conn, closes)
  BY DEF TypeOK, SocketInv
<1>1. CASE conn' = conn
  BY <1>0, <1>1, QuietSame
<1>2. CASE UserClose(u)
  BY <1>2 DEF UserClose
<1>3. CASE DoConnectSet(u)
  BY <1>0, <1>3, QuietStatus DEF DoConnectSet
<1>4. CASE DoConnectStart(u)
  BY <1>0, <1>4, QuietConnect DEF DoConnectStart
<1>5. CASE WritePost(u)
  BY <1>5 DEF WritePost
<1>6. CASE DestroyClose(u)
  BY <1>0, <1>6, QuietDoClose DEF DestroyClose
<1>7. CASE DestroyDelete(u)
  <2> DEFINE d == CloseSocket(conn)
  <2>1. d \in Conn /\ Quiet(conn, d, {})
    BY <1>0, CloseSocketType, QuietCloseSocket
  <2>2. conn' = [d EXCEPT !.sock = "null"]
    BY <1>7 DEF DestroyDelete
  <2> HIDE DEF d
  <2>3. conn'.ready = d.ready /\ conn'.wops = d.wops /\ conn'.asked = d.asked /\ conn'.inbox = d.inbox
    BY <2>1, <2>2 DEF Conn
  <2> QED
    BY <2>1, <2>3 DEF Quiet
<1> QED
  BY <1>1, <1>2, <1>3, <1>4, <1>5, <1>6, <1>7
  DEF UserCall, UserStep, IsOpen, WriteNew, ReadFind, Destroy, DoConnectCheck, WritePush,
      WriteInsert, WriteAssign, WriteArm, ReadGet, ReadResult, ReadReturn, DestroyStop

-----------------------------------------------------------------------------
(* The network *)

\* Requests the peer may still answer: their do_write is posted, their bytes are
\* being written or were received, or a reply is on its way or being read.
Sent(c) ==
    {r \in 0..MaxReq :
        \/ \E h \in Range(c.ready) : h.id = r /\ (h.h = "dowrite" \/ (h.h = "head" /\ h.ok))
        \/ \E h \in Range(c.wops) : h.id = r
        \/ r \in c.asked
        \/ \E f \in Range(c.inbox) : f.id = r}

\* What a quiet step keeps and what it may add.
LEMMA QuietFacts ==
    ASSUME NEW c \in Conn, NEW d, NEW X, Quiet(c, d, X)
    PROVE  /\ Range(c.ready) \subseteq Range(d.ready)
           /\ \A h \in Range(d.ready) : h \in Range(c.ready) \/ Plain(h)
           /\ Sent(d) \subseteq Sent(c) \cup X
<1>1. PICK p \in Seq(Handler) : d.ready = c.ready \o p /\ \A h \in Range(p) : Plain(h)
  BY DEF Quiet
<1>2. Range(d.ready) = Range(c.ready) \cup Range(p)
  BY <1>1, ConnFields, RangeConcatenation
<1>3. \A h \in Range(d.ready) : h \in Range(c.ready) \/ Plain(h)
  BY <1>1, <1>2
<1>4. ASSUME NEW r \in Sent(d) PROVE r \in Sent(c) \/ r \in X
  <2>1. CASE \E h \in Range(d.ready) : h.id = r /\ (h.h = "dowrite" \/ (h.h = "head" /\ h.ok))
    BY <1>3, <2>1 DEF Sent, Plain
  <2>2. CASE \E h \in Range(d.wops) : h.id = r
    BY <2>2 DEF Sent, Quiet
  <2>3. CASE r \in d.asked
    BY <2>3 DEF Sent, Quiet
  <2>4. CASE \E f \in Range(d.inbox) : f.id = r
    BY <2>4 DEF Sent, Quiet
  <2> QED
    BY <2>1, <2>2, <2>3, <2>4 DEF Sent
<1> QED
  BY <1>2, <1>3, <1>4

\* The first element, the others, and the first with an error.
LEMMA FirstOp ==
    ASSUME NEW ops \in Seq(Handler), ops # <<>>
    PROVE  /\ Head(ops) \in Range(ops) /\ Head(ops) \in Handler
           /\ Range(Tail(ops)) \subseteq Range(ops)
           /\ Tail(ops) \in Seq(Handler)
           /\ [Head(ops) EXCEPT !.ok = FALSE] \in Handler
           /\ [Head(ops) EXCEPT !.ok = FALSE].h = Head(ops).h
           /\ [Head(ops) EXCEPT !.ok = FALSE].ok = FALSE
<1>1. /\ Head(ops) \in Handler /\ Tail(ops) \in Seq(Handler)
      /\ Range(ops) = {Head(ops)} \cup Range(Tail(ops))
  BY HeadTailProperties, RangeTail
<1>2. /\ [Head(ops) EXCEPT !.ok = FALSE] \in Handler
      /\ [Head(ops) EXCEPT !.ok = FALSE].h = Head(ops).h
      /\ [Head(ops) EXCEPT !.ok = FALSE].ok = FALSE
  BY <1>1 DEF Handler
<1> QED
  BY <1>1, <1>2

\* The handlers of completed operations and expired timers.
Event(h) ==
    \/ h.h \in {"head", "body", "written"}
    \/ h = H("connect", 0, FALSE)
    \/ ConnectOk /\ h = H("connect", 0, TRUE)
    \/ EraseTimerExpire /\ h = H("erase", 0, TRUE)
    \/ \E r \in Req : TimerExpire(r) /\ h = H("timeout", r, TRUE)

\* Events queue at most one handler, and what the peer may answer only shrinks,
\* but for the ids a garbled stream makes up.
LEMMA NetworkQuiet ==
    ASSUME TypeOK, SocketInv, Network \/ EraseTimerExpire \/ (\E r \in Req : TimerExpire(r))
    PROVE  /\ crash = "none"
           /\ \/ conn'.ready = conn.ready
              \/ \E h \in Handler : conn'.ready = Append(conn.ready, h) /\ Event(h)
           /\ ReadGarbled \/ Sent(conn') \subseteq Sent(conn)
<1> USE DEF queuevars, msgvars, sweepvars, calls, uservars, netvars
<1>0. conn \in Conn /\ OpsOk(conn, closes)
  BY DEF TypeOK, SocketInv
<1>z. 0 \in 0..MaxReq
  BY ClientLoopAssumption
<1>f. Reactor => crash = "none"
  BY DEF Reactor, IoIdle, IoRuns
<1>a. ASSUME NEW d \in Conn, NEW h \in Handler, conn' = Post(d, h), d.ready = conn.ready,
             Range(d.wops) \subseteq Range(conn.wops), d.asked \subseteq conn.asked,
             Range(d.inbox) \subseteq Range(conn.inbox), h.h # "dowrite",
             h.h = "head" /\ h.ok => \E f \in Range(conn.inbox) : f.id = h.id
      PROVE  conn'.ready = Append(conn.ready, h) /\ Sent(conn') \subseteq Sent(conn)
  <2>1. /\ conn'.ready = Append(conn.ready, h) /\ Range(conn'.ready) = Range(conn.ready) \cup {h}
        /\ conn'.wops = d.wops /\ conn'.asked = d.asked /\ conn'.inbox = d.inbox
    BY <1>a, PostFacts
  <2> QED
    BY <1>a, <2>1 DEF Sent
<1>c. ASSUME NEW ok \in BOOLEAN, NEW s \in {"connected", "dead"},
             conn' = Post([conn EXCEPT !.sock = s], H("connect", 0, ok))
      PROVE  /\ H("connect", 0, ok) \in Handler
             /\ conn'.ready = Append(conn.ready, H("connect", 0, ok))
             /\ Sent(conn') \subseteq Sent(conn)
  <2> DEFINE d == [conn EXCEPT !.sock = s]
             h == H("connect", 0, ok)
  <2>1. h \in Handler /\ h.h = "connect"
    BY <1>z DEF H, Handler
  <2>2. /\ d \in Conn /\ d.ready = conn.ready /\ d.wops = conn.wops /\ d.asked = conn.asked
        /\ d.inbox = conn.inbox
    BY <1>0 DEF Conn
  <2>3. conn' = Post(d, h)
    BY <1>c
  <2> HIDE DEF d, h
  <2>4. conn'.ready = Append(conn.ready, h) /\ Sent(conn') \subseteq Sent(conn)
    BY <1>a, <2>1, <2>2, <2>3
  <2> QED
    BY <2>1, <2>4 DEF h
<1>1. CASE ConnectOk
  BY <1>1, <1>c, <1>f DEF ConnectOk, Event
<1>2. CASE ConnectFail
  BY <1>2, <1>c, <1>f DEF ConnectFail, Event
<1>3. CASE ReadComplete
  <2> DEFINE op == Head(conn.rops)
             f == Head(conn.inbox)
             g == H("head", f.id, TRUE)
             c == [conn EXCEPT !.rops = Tail(@), !.inbox = Tail(@)]
  <2>1. /\ conn.rops \in Seq(Handler) /\ conn.rops # <<>>
        /\ f \in Fragment /\ Tail(conn.inbox) \in Seq(Fragment)
        /\ Range(conn.inbox) = {f} \cup Range(Tail(conn.inbox))
    BY <1>0, <1>3, ConnFields, HeadTailProperties, RangeTail DEF ReadComplete
  <2>2. op \in Handler /\ op.h \in {"head", "body"} /\ Tail(conn.rops) \in Seq(Handler)
    BY <1>0, <2>1, FirstOp DEF OpsOk
  <2>3. /\ c \in Conn /\ c.wops = conn.wops /\ c.ready = conn.ready
        /\ c.asked = conn.asked /\ c.inbox = Tail(conn.inbox)
    BY <1>0, <2>1, <2>2 DEF Conn
  <2>4. g \in Handler /\ g.h = "head" /\ g.id = f.id
    BY <2>1, ClientLoopAssumption DEF Fragment, Req, H, Handler
  <2>5. conn' = c \/ conn' = Post(c, g) \/ (conn' = Post(c, op) /\ op.h # "head")
    BY <1>3 DEF ReadComplete
  <2> HIDE DEF op, f, g, c
  <2>6. CASE conn' = c
    <3>1. Sent(conn') \subseteq Sent(conn)
      BY <2>1, <2>3, <2>6 DEF Sent
    <3> QED
      BY <1>3, <1>f, <2>3, <2>6, <3>1 DEF ReadComplete
  <2>7. CASE conn' = Post(c, g)
    <3>1. conn'.ready = Append(conn.ready, g) /\ Sent(conn') \subseteq Sent(conn)
      BY <1>a, <2>1, <2>3, <2>4, <2>7
    <3> QED
      BY <1>3, <1>f, <2>4, <3>1 DEF ReadComplete, Event
  <2>8. CASE conn' = Post(c, op) /\ op.h # "head"
    <3>1. conn'.ready = Append(conn.ready, op) /\ Sent(conn') \subseteq Sent(conn)
      BY <1>a, <2>1, <2>2, <2>3, <2>8
    <3> QED
      BY <1>3, <1>f, <2>2, <3>1 DEF ReadComplete, Event
  <2> QED
    BY <2>5, <2>6, <2>7, <2>8
<1>4. CASE ReadFail
  <2> DEFINE d == [conn EXCEPT !.rops = Tail(@)]
             h == [Head(conn.rops) EXCEPT !.ok = FALSE]
  <2>1. conn.rops \in Seq(Handler) /\ conn.rops # <<>>
    BY <1>0, <1>4, ConnFields DEF ReadFail
  <2>2. h \in Handler /\ h.h \in {"head", "body"} /\ ~h.ok /\ Tail(conn.rops) \in Seq(Handler)
    BY <1>0, <2>1, FirstOp DEF OpsOk
  <2>3. /\ d \in Conn /\ d.wops = conn.wops /\ d.ready = conn.ready
        /\ d.asked = conn.asked /\ d.inbox = conn.inbox
    BY <1>0, <2>2 DEF Conn
  <2>4. conn' = Post(d, h)
    BY <1>4 DEF ReadFail
  <2> HIDE DEF d, h
  <2>5. conn'.ready = Append(conn.ready, h) /\ Sent(conn') \subseteq Sent(conn)
    BY <1>a, <2>2, <2>3, <2>4
  <2> QED
    BY <1>4, <1>f, <2>2, <2>5 DEF ReadFail, Event
<1>5. CASE WriteComplete
  <2> DEFINE d == [conn EXCEPT !.wops = Tail(@)]
             h == Head(conn.wops)
             c == Post(d, h)
  <2>1. conn.wops \in Seq(Handler) /\ conn.wops # <<>>
    BY <1>0, <1>5, ConnFields DEF WriteComplete
  <2>2. /\ h \in Handler /\ h.h = "written" /\ Range(Tail(conn.wops)) \subseteq Range(conn.wops)
        /\ Tail(conn.wops) \in Seq(Handler) /\ h \in Range(conn.wops)
    BY <1>0, <2>1, FirstOp DEF OpsOk
  <2>3. /\ d \in Conn /\ d.wops = Tail(conn.wops) /\ d.ready = conn.ready
        /\ d.asked = conn.asked /\ d.inbox = conn.inbox
    BY <1>0, <2>2 DEF Conn
  <2>4. conn' = c \/ conn' = [c EXCEPT !.asked = @ \cup {h.id}]
    BY <1>5 DEF WriteComplete
  <2> HIDE DEF d, h
  <2>5. /\ c \in Conn /\ c.ready = Append(conn.ready, h)
        /\ Range(c.ready) = Range(conn.ready) \cup {h}
        /\ c.wops = Tail(conn.wops) /\ c.asked = conn.asked /\ c.inbox = conn.inbox
    <3>1. c \in Conn
      BY <2>2, <2>3, PostType
    <3>2. /\ c.ready = Append(d.ready, h) /\ Range(c.ready) = Range(d.ready) \cup {h}
          /\ c.wops = d.wops /\ c.asked = d.asked /\ c.inbox = d.inbox
      BY <2>2, <2>3, PostFacts
    <3> HIDE DEF c
    <3> QED
      BY <2>3, <3>1, <3>2
  <2> HIDE DEF c
  <2>6. /\ conn'.ready = c.ready /\ conn'.wops = c.wops /\ conn'.inbox = c.inbox
        /\ conn'.asked \subseteq c.asked \cup {h.id}
    BY <2>4, <2>5 DEF Conn
  <2>7. Sent(conn') \subseteq Sent(conn)
    BY <2>2, <2>5, <2>6 DEF Sent
  <2> QED
    BY <1>5, <1>f, <2>2, <2>5, <2>6, <2>7 DEF WriteComplete, Event
<1>6. CASE WriteFail
  <2> DEFINE d == [conn EXCEPT !.wops = Tail(@)]
             h == [Head(conn.wops) EXCEPT !.ok = FALSE]
  <2>1. conn.wops \in Seq(Handler) /\ conn.wops # <<>>
    BY <1>0, <1>6, ConnFields DEF WriteFail
  <2>2. /\ h \in Handler /\ h.h = "written" /\ Range(Tail(conn.wops)) \subseteq Range(conn.wops)
        /\ Tail(conn.wops) \in Seq(Handler)
    BY <1>0, <2>1, FirstOp DEF OpsOk
  <2>3. /\ d \in Conn /\ d.wops = Tail(conn.wops) /\ d.ready = conn.ready
        /\ d.asked = conn.asked /\ d.inbox = conn.inbox
    BY <1>0, <2>2 DEF Conn
  <2>4. conn' = Post(d, h)
    BY <1>6 DEF WriteFail
  <2> HIDE DEF d, h
  <2>5. conn'.ready = Append(conn.ready, h) /\ Sent(conn') \subseteq Sent(conn)
    BY <1>a, <2>2, <2>3, <2>4
  <2> QED
    BY <1>6, <1>f, <2>2, <2>5 DEF WriteFail, Event
<1>7. CASE \E r \in Req : PeerReply(r)
  <2> PICK r \in Req : PeerReply(r)
    BY <1>7
  <2> DEFINE m == <<[part |-> "head", id |-> r], [part |-> "body", id |-> r]>>
             q == conn.inbox \o m
  <2>1. m \in Seq(Fragment) /\ \A f \in Range(m) : f.id = r
    <3> DEFINE x == [part |-> "head", id |-> r]
               y == [part |-> "body", id |-> r]
    <3>1. x \in Fragment /\ y \in Fragment /\ x.id = r /\ y.id = r
      BY DEF Fragment
    <3>2. m = <<x, y>>
      OBVIOUS
    <3> HIDE DEF x, y, m
    <3>3. m \in Seq(Fragment) /\ Len(m) = 2 /\ m[1] = x /\ m[2] = y
      BY <3>1, <3>2
    <3>4. \A i \in 1..2 : m[i].id = r
      BY <3>1, <3>3
    <3>5. Range(m) = {m[i] : i \in 1..2}
      BY <3>3, RangeEquality
    <3> QED
      BY <3>3, <3>4, <3>5
  <2>2. conn' = [conn EXCEPT !.inbox = q] /\ r \in conn.asked /\ crash = "none"
    BY DEF PeerReply
  <2> HIDE DEF m
  <2>3. Range(q) = Range(conn.inbox) \cup Range(m)
    BY <1>0, <2>1, ConnFields, RangeConcatenation
  <2> HIDE DEF q
  <2>4. /\ conn'.ready = conn.ready /\ conn'.wops = conn.wops /\ conn'.asked = conn.asked
        /\ conn'.inbox = q
    BY <1>0, <2>2 DEF Conn
  <2>5. Sent(conn') \subseteq Sent(conn)
    BY <2>1, <2>2, <2>3, <2>4 DEF Sent
  <2> QED
    BY <2>2, <2>4, <2>5
<1>8. CASE \E how \in Faults \ {"refused"} : NetBreak(how)
  <2> PICK how \in Faults \ {"refused"} : NetBreak(how)
    BY <1>8
  <2> PICK n \in 0..Len(conn.inbox) :
        conn' = [conn EXCEPT !.sock = how, !.asked = {}, !.inbox = SubSeq(@, 1, n)]
    BY DEF NetBreak
  <2> DEFINE q == SubSeq(conn.inbox, 1, n)
  <2>1. conn.inbox \in Seq(Fragment) /\ Len(conn.inbox) \in Nat
    BY <1>0, ConnFields, LenProperties
  <2>2. \A i \in 1..n : conn.inbox[i] \in Fragment
    BY <2>1
  <2>3. q \in Seq(Fragment) /\ Len(q) = n /\ \A i \in 1..n : q[i] = conn.inbox[i]
    BY <2>1, <2>2, SubSeqProperties
  <2>4. /\ conn'.ready = conn.ready /\ conn'.wops = conn.wops /\ conn'.asked = {}
        /\ conn'.inbox = q
    BY <1>0 DEF Conn
  <2> HIDE DEF q
  <2>5. Range(q) \subseteq Range(conn.inbox)
    <3>1. Range(q) = {q[i] : i \in 1..n} /\ Range(conn.inbox) = {conn.inbox[i] : i \in 1..Len(conn.inbox)}
      BY <2>1, <2>3, RangeEquality
    <3>2. \A i \in 1..n : i \in 1..Len(conn.inbox)
      BY <2>1
    <3> QED
      BY <2>3, <3>1, <3>2
  <2>6. Sent(conn') \subseteq Sent(conn)
    BY <2>4, <2>5 DEF Sent
  <2> QED
    BY <2>4, <2>6 DEF NetBreak
<1>9. CASE \E r \in Req : TimerExpire(r)
  <2> PICK r \in Req : TimerExpire(r)
    BY <1>9
  <2> DEFINE h == H("timeout", r, TRUE)
  <2>1. h \in Handler /\ h.h = "timeout"
    BY ClientLoopAssumption DEF Req, H, Handler
  <2>2. conn' = Post(conn, h) /\ crash = "none" /\ Event(h)
    BY <1>f DEF TimerExpire, Event
  <2> HIDE DEF h
  <2>3. conn'.ready = Append(conn.ready, h) /\ Sent(conn') \subseteq Sent(conn)
    BY <1>0, <1>a, <2>1, <2>2
  <2> QED
    BY <2>1, <2>2, <2>3
<1>10. CASE EraseTimerExpire
  <2> DEFINE h == H("erase", 0, TRUE)
  <2>1. h \in Handler /\ h.h = "erase"
    BY <1>z DEF H, Handler
  <2>2. conn' = Post(conn, h) /\ crash = "none" /\ Event(h)
    BY <1>10, <1>f DEF EraseTimerExpire, Event
  <2> HIDE DEF h
  <2>3. conn'.ready = Append(conn.ready, h) /\ Sent(conn') \subseteq Sent(conn)
    BY <1>0, <1>a, <2>1, <2>2
  <2> QED
    BY <2>1, <2>2, <2>3
<1>11. CASE ReadGarbled
  <2> PICK op \in Range(conn.rops), d \in Conn, h \in Handler :
              /\ h = op \/ (op.h = "head" /\ h.h = "head" /\ h.ok)
              /\ d.ready = conn.ready
              /\ conn' = Post(d, h)
    BY <1>0, <1>11, GarbledFacts
  <2>1. h.h \in {"head", "body"}
    BY <1>0 DEF OpsOk
  <2>2. conn'.ready = Append(conn.ready, h)
    BY PostFacts
  <2> QED
    BY <1>11, <1>f, <2>1, <2>2 DEF ReadGarbled, Event
<1> QED
  BY <1>1, <1>2, <1>3, <1>4, <1>5, <1>6, <1>7, <1>8, <1>9, <1>10, <1>11 DEF Network

-----------------------------------------------------------------------------
(* The requests *)

\* A request has at most one owner, the user that wrote it last.
OwnRequest ==
    /\ \A u \in Users : req[u] < msg_index_
    /\ \A u, v \in Users : u # v /\ req[u] # 0 => req[u] # req[v]

\* An entry is an empty pointer only between operator[] and the assignment.
NullWhileMade ==
    crash = "none" =>
        \A r \in Req : recv_msg_map_[r] = "null" => \E u \in Users : req[u] = r /\ pc[u] = "assign"

\* A request is read only after write() returned it.
ReadAfterWrite ==
    /\ \A r \in Req : r >= msg_index_ => reads[r] = 0
    /\ \A u \in Users : pc[u] \in {"push", "insert", "assign", "arm", "post"} => reads[req[u]] = 0
    /\ \A u \in Users : pc[u] \in {"get", "poll", "del"} => reads[req[u]] > 0

\* erase_flag is set by a read() that saw a result, and its first read() is over.
FlaggedIsRead ==
    \A r \in Req : erase_flag[r] # "UNKNOWN" =>
        /\ status[r] # "UNKNOWN"
        /\ reads[r] > 0
        /\ reads[r] = 1 => \A u \in Users : req[u] = r => pc[u] \notin {"get", "poll"}

\* From do_init_timer on, a request without a result has its timer armed or its
\* handler queued.
Armed ==
    \A r \in Req :
        /\ crash = "none" /\ r < msg_index_ /\ status[r] = "UNKNOWN"
        /\ \A u \in Users : req[u] = r => pc[u] \notin {"push", "insert", "assign", "arm"}
        => timer[r] \/ \E h \in Range(conn.ready) : h.h = "timeout" /\ h.id = r

\* What was taken is still in del_reqid_list, or about to be put there.
Listed ==
    \A r \in Req :
        recv_msg_map_[r] = "set" /\ erase_flag[r] # "UNKNOWN" =>
            r \in Range(del_reqid_list) \/ \E u \in Users : pc[u] = "del" /\ req[u] = r

\* The inductive invariant of the requests.
RequestInv ==
    OwnRequest /\ NullWhileMade /\ ReadAfterWrite /\ FlaggedIsRead /\ Armed /\ Listed

\* No request is made at first.
LEMMA InitRequest == Init => RequestInv
<1> SUFFICES ASSUME Init PROVE RequestInv
  OBVIOUS
<1> USE ClientLoopAssumption
<1>1. OwnRequest /\ NullWhileMade /\ ReadAfterWrite /\ FlaggedIsRead /\ Listed
  BY DEF Init, OwnRequest, NullWhileMade, ReadAfterWrite, FlaggedIsRead, Listed, Req
<1>2. Armed
  BY DEF Init, Armed, Req
<1> QED
  BY <1>1, <1>2 DEF RequestInv

\* The io thread.
LEMMA IoRequest ==
    ASSUME TypeOK, SocketInv, RequestInv, IoThread
    PROVE  RequestInv'
<1> USE DEF queuevars, msgvars, sweepvars, calls, uservars, netvars
<1>0. /\ conn \in Conn /\ timer \in [Req -> BOOLEAN]
      /\ recv_msg_map_ \in [Req -> {"none", "null", "set"}]
  BY DEF TypeOK
<1>1. /\ UNCHANGED uservars /\ crash = "none"
      /\ \/ UNCHANGED <<msgvars, del_reqid_list>>
         \/ HandleReadMsg \/ SetTimeout \/ SweepDrop \/ SweepErase \/ SweepMark
  BY DEF IoThread, HandlerFindsClosed, HandlerFindsNull, HandleConnectOk, HandleConnectError,
         HandleReadHeader, HandleReadHeaderError, HandleReadMsg, DoWriteQueue, DoWriteDirect,
         HandleWrite, HandleWriteError, SetTimeout, DoClose, EraseStart, SweepDrop, SweepErase,
         SweepMark, SweepEnd, SweepRound, Runs, IoIdle, IoRuns
<1>2. OwnRequest' /\ ReadAfterWrite'
  BY <1>1 DEF RequestInv, OwnRequest, ReadAfterWrite
\* Timeouts leave the queue only to run.
<1>3. \A h \in Range(conn.ready) : h.h = "timeout" => h \in Range(conn'.ready) \/ (SetTimeout /\ h = Job)
  <2>1. CASE sweep.on
    <3>1. conn' = conn \/ conn' = Post(conn, H("erase", 0, FALSE))
      BY <2>1, IoSteps DEF SweepRound, SweepEnd
    <3>2. H("erase", 0, FALSE) \in Handler
      BY ClientLoopAssumption DEF H, Handler
    <3> QED
      BY <1>0, <3>1, <3>2, PostFacts
  <2>2. CASE ~sweep.on
    <3>1. Taken \in Conn /\ Quiet(Taken, conn', Writes(Job)) /\ conn.ready # <<>>
      BY <2>2, HandlerQuiet
    <3>2. Range(conn.ready) = {Job} \cup Range(Taken.ready)
      BY <1>0, <3>1, TakenFacts
    <3>3. Range(Taken.ready) \subseteq Range(conn'.ready)
      BY <3>1, QuietFacts
    <3>4. Job.h = "timeout" => SetTimeout
      BY <2>2 DEF IoThread, HandlerFindsClosed, HandlerFindsNull, HandleConnectOk, HandleConnectError,
         HandleReadHeader, HandleReadHeaderError, HandleReadMsg, DoWriteQueue, DoWriteDirect,
         HandleWrite, HandleWriteError, DoClose, EraseStart, SweepDrop, SweepErase,
         SweepMark, SweepEnd, SweepRound, Runs, Job
    <3> QED
      BY <3>2, <3>3, <3>4
  <2> QED
    BY <2>1, <2>2 DEF TypeOK
<1>4. CASE UNCHANGED <<msgvars, del_reqid_list>> /\ ~SetTimeout
  <2>1. NullWhileMade' /\ FlaggedIsRead' /\ Listed'
    BY <1>1, <1>4 DEF RequestInv, NullWhileMade, FlaggedIsRead, Listed
  <2>2. Armed'
    BY <1>1, <1>3, <1>4 DEF RequestInv, Armed
  <2> QED
    BY <1>2, <2>1, <2>2 DEF RequestInv
<1>5. CASE HandleReadMsg
  <2>1. /\ set_status(Job.id, BodyStatus(Job.ok)) /\ BodyStatus(Job.ok) # "UNKNOWN" /\ ~SetTimeout
        /\ UNCHANGED del_reqid_list
    BY <1>5 DEF HandleReadMsg, BodyStatus, SetTimeout, Runs
  <2>2. NullWhileMade' /\ FlaggedIsRead' /\ Listed'
    BY <1>1, <2>1 DEF RequestInv, NullWhileMade, FlaggedIsRead, Listed, set_status, TypeOK
  <2>3. Armed'
    BY <1>1, <1>3, <2>1 DEF RequestInv, Armed, set_status
  <2> QED
    BY <1>2, <2>2, <2>3 DEF RequestInv
<1>6. CASE SetTimeout
  <2>1. UNCHANGED <<recv_msg_map_, erase_flag, del_reqid_list>>
    BY <1>6 DEF SetTimeout, set_status
  <2>2. \/ set_status(Job.id, "TIMEOUT") /\ crash' = crash
        \/ UNCHANGED msgvars /\ crash' = "dangling"
    BY <1>6 DEF SetTimeout
  <2>3. NullWhileMade' /\ Listed'
    BY <1>1, <2>1, <2>2 DEF RequestInv, NullWhileMade, Listed
  <2>4. FlaggedIsRead'
    BY <1>1, <2>1, <2>2 DEF RequestInv, FlaggedIsRead, set_status, TypeOK
  <2>5. Armed'
    <3>1. CASE crash' = "dangling"
      BY <3>1 DEF Armed
    <3>2. CASE set_status(Job.id, "TIMEOUT")
      BY <1>1, <1>3, <3>2 DEF RequestInv, Armed, set_status
    <3> QED
      BY <2>2, <3>1, <3>2
  <2> QED
    BY <1>2, <2>3, <2>4, <2>5 DEF RequestInv
<1>7. ASSUME SweepRound
      PROVE  /\ Oldest \in Req /\ del_reqid_list \in Seq(Req) /\ del_reqid_list # <<>>
             /\ Range(del_reqid_list) = {Oldest} \cup Range(Tail(del_reqid_list))
             /\ ~SetTimeout /\ crash' = crash /\ status' = status
  <2>1. del_reqid_list \in Seq(Req) /\ del_reqid_list # <<>>
    BY <1>7 DEF SweepRound, TypeOK
  <2> QED
    BY <1>7, <2>1, HeadTailProperties, RangeTail DEF SweepRound, SetTimeout, Runs, IoIdle, Oldest
<1>8. CASE SweepDrop
  <2>1. /\ SweepRound /\ UNCHANGED msgvars /\ recv_msg_map_[Oldest] = "none"
        /\ del_reqid_list' = Tail(del_reqid_list)
    BY <1>8 DEF SweepDrop, SweepRound
  <2>2. NullWhileMade' /\ FlaggedIsRead' /\ Listed'
    BY <1>1, <1>7, <2>1 DEF RequestInv, NullWhileMade, FlaggedIsRead, Listed
  <2>3. Armed'
    BY <1>1, <1>3, <1>7, <2>1 DEF RequestInv, Armed
  <2> QED
    BY <1>2, <2>2, <2>3 DEF RequestInv
<1>9. CASE SweepErase
  <2>1. /\ SweepRound /\ UNCHANGED erase_flag /\ erase_flag[Oldest] = "EXEC"
        /\ recv_msg_map_' = [recv_msg_map_ EXCEPT ![Oldest] = "none"]
        /\ timer' = [timer EXCEPT ![Oldest] = FALSE]
        /\ del_reqid_list' = Tail(del_reqid_list)
    BY <1>9 DEF SweepErase, Erasable
  <2>2. status[Oldest] # "UNKNOWN"
    BY <1>7, <2>1 DEF RequestInv, FlaggedIsRead
  <2>3. NullWhileMade' /\ FlaggedIsRead' /\ Listed'
    BY <1>1, <1>7, <2>1 DEF RequestInv, NullWhileMade, FlaggedIsRead, Listed, TypeOK
  <2>4. Armed'
    BY <1>0, <1>1, <1>3, <1>7, <2>1, <2>2 DEF RequestInv, Armed
  <2> QED
    BY <1>2, <2>3, <2>4 DEF RequestInv
<1>10. CASE SweepMark
  <2>1. /\ SweepRound /\ UNCHANGED <<recv_msg_map_, timer>>
        /\ \A r \in Req : erase_flag'[r] # "UNKNOWN" <=> erase_flag[r] # "UNKNOWN"
        /\ del_reqid_list' = PutBack(del_reqid_list)
    BY <1>10 DEF SweepMark, TypeOK
  <2>2. Range(del_reqid_list') = Range(del_reqid_list)
    <3>1. Tail(del_reqid_list) \in Seq(Req) /\ Oldest \in Req
      BY <1>7, <2>1, HeadTailProperties
    <3>2. del_reqid_list' = Append(Tail(del_reqid_list), Oldest)
      BY <2>1 DEF PutBack, Oldest
    <3>3. ASSUME NEW q \in Seq(Req), NEW r \in Req PROVE Range(Append(q, r)) = Range(q) \cup {r}
      BY RangeAppend
    <3>4. Range(Append(Tail(del_reqid_list), Oldest)) = Range(Tail(del_reqid_list)) \cup {Oldest}
      BY <3>1, <3>3
    <3> QED
      BY <1>7, <2>1, <3>2, <3>4
  <2>3. NullWhileMade' /\ FlaggedIsRead' /\ Listed'
    BY <1>1, <1>7, <2>1, <2>2 DEF RequestInv, NullWhileMade, FlaggedIsRead, Listed
  <2>4. Armed'
    BY <1>1, <1>3, <1>7, <2>1 DEF RequestInv, Armed
  <2> QED
    BY <1>2, <2>3, <2>4 DEF RequestInv
<1> QED
  BY <1>1, <1>4, <1>5, <1>6, <1>8, <1>9, <1>10

\* The reactor, the peer and the network.
LEMMA NetworkRequest ==
    ASSUME TypeOK, SocketInv, RequestInv,
           Network \/ EraseTimerExpire \/ (\E r \in Req : TimerExpire(r))
    PROVE  RequestInv'
<1> USE DEF queuevars, msgvars, sweepvars, calls, uservars, netvars
<1>0. /\ conn \in Conn /\ timer \in [Req -> BOOLEAN]
      /\ recv_msg_map_ \in [Req -> {"none", "null", "set"}]
  BY DEF TypeOK
<1>1. UNCHANGED <<uservars, recv_msg_map_, status, erase_flag, del_reqid_list>>
  BY DEF Network, EraseTimerExpire, TimerExpire, ConnectOk, ConnectFail, ReadComplete, ReadGarbled, ReadFail,
         WriteComplete, WriteFail, PeerReply, NetBreak, Reactor
<1>2. crash = "none" /\ Range(conn.ready) \subseteq Range(conn'.ready)
  <2>1. conn.ready \in Seq(Handler)
    BY <1>0, ConnFields
  <2>2. \A h \in Handler : Range(conn.ready) \subseteq Range(Append(conn.ready, h))
    BY <2>1, RangeAppend
  <2>3. /\ crash = "none"
        /\ conn'.ready = conn.ready \/ \E h \in Handler : conn'.ready = Append(conn.ready, h)
    BY NetworkQuiet
  <2> QED
    BY <2>2, <2>3
<1>3. OwnRequest' /\ NullWhileMade' /\ ReadAfterWrite' /\ FlaggedIsRead' /\ Listed'
  BY <1>1, <1>2 DEF RequestInv, OwnRequest, NullWhileMade, ReadAfterWrite, FlaggedIsRead, Listed
<1>4. ASSUME NEW r \in Req, timer[r], ~timer'[r]
      PROVE  \E h \in Range(conn'.ready) : h.h = "timeout" /\ h.id = r
  <2>1. TimerExpire(r)
    BY <1>4 DEF Network, EraseTimerExpire, TimerExpire, ConnectOk, ConnectFail, ReadComplete, ReadGarbled, ReadFail,
         WriteComplete, WriteFail, PeerReply, NetBreak, Reactor, TypeOK
  <2> DEFINE h == H("timeout", r, TRUE)
  <2>2. h \in Handler /\ h.h = "timeout" /\ h.id = r
    BY ClientLoopAssumption DEF Req, H, Handler
  <2>3. conn' = Post(conn, h)
    BY <2>1 DEF TimerExpire
  <2> HIDE DEF h
  <2> QED
    BY <1>0, <2>2, <2>3, PostFacts
<1>5. Armed'
  BY <1>1, <1>2, <1>4 DEF RequestInv, Armed
<1> QED
  BY <1>3, <1>5 DEF RequestInv

\* A user's step queues handlers and takes none.
LEMMA UserKeepsReady ==
    ASSUME TypeOK, SocketInv, NEW u \in Users, UserCall(u) \/ UserStep(u)
    PROVE  Range(conn.ready) \subseteq Range(conn'.ready)
<1>0. conn \in Conn /\ req[u] \in 0..MaxReq /\ 0 \in 0..MaxReq
  BY ClientLoopAssumption DEF TypeOK
<1>1. ASSUME NEW h \in Handler, conn' = Post(conn, h)
      PROVE  Range(conn.ready) \subseteq Range(conn'.ready)
  BY <1>0, <1>1, PostFacts
<1>2. /\ H("close", 0, TRUE) \in Handler
      /\ H("dowrite", IF UseQueue THEN 0 ELSE req[u], TRUE) \in Handler
  BY <1>0 DEF H, Handler
<1>3. CASE Quiet(conn, conn', {})
  BY <1>0, <1>3, QuietFacts
<1>4. CASE conn' = Post(conn, H("close", 0, TRUE))
  BY <1>1, <1>2, <1>4
<1>5. CASE conn' = PostWrite(conn, req[u])
  BY <1>1, <1>2, <1>5 DEF PostWrite
<1> QED
  BY <1>3, <1>4, <1>5, UserQuiet

\* A step that moves the program counter outside of write() and read().
LEMMA ElsewhereRequest ==
    ASSUME TypeOK, RequestInv, NEW u \in Users, NEW here, NEW there,
           here \notin {"push", "insert", "assign", "arm", "del"},
           there \notin {"push", "insert", "assign", "arm", "post", "get", "poll", "del"},
           crash = "none", pc[u] = here, pc' = [pc EXCEPT ![u] = there],
           UNCHANGED <<msg_index_, req, reads, msgvars, del_reqid_list>>,
           Range(conn.ready) \subseteq Range(conn'.ready)
    PROVE  RequestInv'
<1> USE DEF msgvars
<1>1. DOMAIN pc = Users
  BY DEF TypeOK
<1>2. OwnRequest' /\ NullWhileMade' /\ ReadAfterWrite' /\ FlaggedIsRead' /\ Listed'
  BY <1>1 DEF RequestInv, OwnRequest, NullWhileMade, ReadAfterWrite, FlaggedIsRead, Listed
<1>3. Armed'
  BY <1>1 DEF RequestInv, Armed
<1> QED
  BY <1>2, <1>3 DEF RequestInv

\* The steps of write().
LEMMA WriteRequest ==
    ASSUME TypeOK, RequestInv, NEW u \in Users,
           WriteNew(u) \/ WritePush(u) \/ WriteInsert(u) \/ WriteAssign(u) \/ WriteArm(u),
           Range(conn.ready) \subseteq Range(conn'.ready)
    PROVE  RequestInv'
<1> USE DEF queuevars, msgvars, sweepvars, calls, uservars, netvars
<1>0. /\ DOMAIN pc = Users /\ req \in [Users -> 0..MaxReq] /\ msg_index_ \in 1..(MaxReq + 1)
      /\ timer \in [Req -> BOOLEAN] /\ recv_msg_map_ \in [Req -> {"none", "null", "set"}]
      /\ MaxReq \in Nat /\ reads \in [Req -> Nat]
      /\ pc[u] \in {"push", "insert", "assign", "arm"} => req[u] \in Req
  BY ClientLoopAssumption DEF TypeOK
<1>1. CASE WriteNew(u)
  <2> DEFINE new == IF UseQueue THEN "push" ELSE "insert"
  <2>1. /\ pc[u] = "idle" /\ pc' = [pc EXCEPT ![u] = new] /\ req' = [req EXCEPT ![u] = msg_index_]
        /\ msg_index_ <= MaxReq /\ msg_index_' = msg_index_ + 1
        /\ UNCHANGED <<conn, msgvars, del_reqid_list, reads, crash>>
    BY <1>1 DEF WriteNew, WriteOrder, UserAt
  <2>2. new \in {"push", "insert"} /\ msg_index_ \in Req
    BY <1>0, <2>1 DEF Req
  <2> HIDE DEF new
  <2>3. OwnRequest'
    BY <1>0, <2>1, <2>2 DEF RequestInv, OwnRequest, Req
  <2>4. NullWhileMade' /\ Listed'
    BY <1>0, <2>1, <2>2 DEF RequestInv, NullWhileMade, Listed
  <2>5. ReadAfterWrite'
    BY <1>0, <2>1, <2>2 DEF RequestInv, ReadAfterWrite, Req
  <2>6. FlaggedIsRead'
    BY <1>0, <2>1, <2>2 DEF RequestInv, FlaggedIsRead
  <2>7. Armed'
    <3> SUFFICES ASSUME NEW r \in Req, crash' = "none", r < msg_index_', status'[r] = "UNKNOWN",
                        \A v \in Users : req'[v] = r => pc'[v] \notin {"push", "insert", "assign", "arm"}
                 PROVE  timer'[r] \/ \E h \in Range(conn'.ready) : h.h = "timeout" /\ h.id = r
      BY DEF Armed
    <3>1. r # msg_index_
      BY <1>0, <2>1, <2>2
    <3>2. r < msg_index_
      BY <1>0, <2>1, <3>1 DEF Req
    <3>3. \A v \in Users : req[v] = r => pc[v] \notin {"push", "insert", "assign", "arm"}
      BY <1>0, <2>1
    <3> QED
      BY <2>1, <3>2, <3>3 DEF RequestInv, Armed
  <2> QED
    BY <2>3, <2>4, <2>5, <2>6, <2>7 DEF RequestInv
<1>2. CASE WritePush(u)
  <2>1. /\ pc[u] = "push" /\ pc' = [pc EXCEPT ![u] = "insert"]
        /\ UNCHANGED <<conn, msgvars, del_reqid_list, reads, crash, req, msg_index_>>
    BY <1>2 DEF WritePush, WriteOrder, UserAt
  <2>2. OwnRequest' /\ NullWhileMade' /\ ReadAfterWrite' /\ FlaggedIsRead' /\ Listed'
    BY <1>0, <2>1 DEF RequestInv, OwnRequest, NullWhileMade, ReadAfterWrite, FlaggedIsRead, Listed
  <2>3. Armed'
    BY <1>0, <2>1 DEF RequestInv, Armed
  <2> QED
    BY <2>2, <2>3 DEF RequestInv
<1>3. CASE WriteInsert(u)
  <2>1. /\ pc[u] = "insert" /\ pc' = [pc EXCEPT ![u] = "assign"]
        /\ recv_msg_map_' = [recv_msg_map_ EXCEPT ![req[u]] = "null"]
        /\ UNCHANGED <<conn, status, erase_flag, timer, del_reqid_list, reads, crash, req, msg_index_>>
    BY <1>3 DEF WriteInsert, WriteOrder, UserAt
  <2>2. OwnRequest' /\ NullWhileMade' /\ ReadAfterWrite' /\ FlaggedIsRead' /\ Listed'
    BY <1>0, <2>1 DEF RequestInv, OwnRequest, NullWhileMade, ReadAfterWrite, FlaggedIsRead, Listed
  <2>3. Armed'
    BY <1>0, <2>1 DEF RequestInv, Armed
  <2> QED
    BY <2>2, <2>3 DEF RequestInv
<1>4. CASE WriteAssign(u)
  <2>1. /\ pc[u] = "assign" /\ pc' = [pc EXCEPT ![u] = "arm"] /\ req[u] \in Req
        /\ recv_msg_map_' = [recv_msg_map_ EXCEPT ![req[u]] = "set"]
        /\ UNCHANGED <<conn, status, erase_flag, timer, del_reqid_list, reads, crash, req, msg_index_>>
    BY <1>0, <1>4 DEF WriteAssign, WriteOrder, UserAt
  <2>2. erase_flag[req[u]] = "UNKNOWN"
    BY <1>0, <2>1 DEF RequestInv, FlaggedIsRead, ReadAfterWrite
  <2>3. OwnRequest' /\ ReadAfterWrite' /\ FlaggedIsRead'
    BY <1>0, <2>1 DEF RequestInv, OwnRequest, ReadAfterWrite, FlaggedIsRead
  <2>4. NullWhileMade' /\ Listed'
    BY <1>0, <2>1, <2>2 DEF RequestInv, NullWhileMade, Listed
  <2>5. Armed'
    BY <1>0, <2>1 DEF RequestInv, Armed
  <2> QED
    BY <2>3, <2>4, <2>5 DEF RequestInv
<1>5. CASE WriteArm(u)
  <2>1. /\ pc[u] = "arm" /\ pc' = [pc EXCEPT ![u] = "post"] /\ req[u] \in Req
        /\ timer' = [timer EXCEPT ![req[u]] = TRUE]
        /\ UNCHANGED <<conn, status, recv_msg_map_, erase_flag, del_reqid_list, reads, crash, req, msg_index_>>
    BY <1>0, <1>5 DEF WriteArm, WriteOrder, do_init_timer, UserAt
  <2>2. OwnRequest' /\ NullWhileMade' /\ ReadAfterWrite' /\ FlaggedIsRead' /\ Listed'
    BY <1>0, <2>1 DEF RequestInv, OwnRequest, NullWhileMade, ReadAfterWrite, FlaggedIsRead, Listed
  <2>3. Armed'
    BY <1>0, <2>1 DEF RequestInv, Armed
  <2> QED
    BY <2>2, <2>3 DEF RequestInv
<1> QED
  BY <1>1, <1>2, <1>3, <1>4, <1>5

\* The steps of read().
LEMMA ReadRequest ==
    ASSUME TypeOK, RequestInv, NEW u \in Users,
           ReadFind(u) \/ ReadGet(u) \/ ReadResult(u) \/ ReadReturn(u)
    PROVE  RequestInv'
<1> USE DEF queuevars, msgvars, sweepvars, calls, uservars, netvars
<1>0. /\ DOMAIN pc = Users /\ req \in [Users -> 0..MaxReq] /\ msg_index_ \in 1..(MaxReq + 1)
      /\ erase_flag \in [Req -> {"UNKNOWN", "STATE", "EXEC"}]
      /\ recv_msg_map_ \in [Req -> {"none", "null", "set"}]
      /\ reads \in [Req -> Nat] /\ del_reqid_list \in Seq(Req)
      /\ pc[u] \in {"get", "poll", "del"} => req[u] \in Req
      /\ req[u] # 0 => req[u] \in Req
  BY ClientLoopAssumption, SMTT(30) DEF TypeOK, Req
<1>1. CASE ReadFind(u)
  <2> DEFINE there == IF recv_msg_map_[req[u]] = "none" THEN "idle" ELSE "get"
  <2>1. /\ pc[u] = "idle" /\ pc' = [pc EXCEPT ![u] = there] /\ req[u] \in Req
        /\ reads' = [reads EXCEPT ![req[u]] = @ + 1]
        /\ UNCHANGED <<conn, msgvars, del_reqid_list, crash, req, msg_index_>>
    BY <1>0, <1>1 DEF ReadFind, UserAt
  <2>2. there \in {"idle", "get"} /\ req[u] < msg_index_
    BY DEF RequestInv, OwnRequest
  <2> HIDE DEF there
  <2>3. OwnRequest' /\ NullWhileMade' /\ Listed'
    BY <1>0, <2>1, <2>2 DEF RequestInv, OwnRequest, NullWhileMade, Listed
  <2>4. ReadAfterWrite'
    BY <1>0, <2>1, <2>2 DEF RequestInv, ReadAfterWrite, OwnRequest, Req
  <2>5. FlaggedIsRead'
    BY <1>0, <2>1, <2>2 DEF RequestInv, FlaggedIsRead
  <2>6. Armed'
    BY <1>0, <2>1, <2>2 DEF RequestInv, Armed
  <2> QED
    BY <2>3, <2>4, <2>5, <2>6 DEF RequestInv
<1>2. CASE ReadGet(u)
  <2>1. /\ pc[u] = "get" /\ pc' = [pc EXCEPT ![u] = "poll"] /\ req[u] \in Req
        /\ \/ UNCHANGED <<recv_msg_map_, crash>>
           \/ /\ recv_msg_map_' = [recv_msg_map_ EXCEPT ![req[u]] = "null"]
              /\ crash' = "nullref"
        /\ UNCHANGED <<conn, status, erase_flag, timer, del_reqid_list, reads, req, msg_index_>>
    BY <1>0, <1>2 DEF ReadGet, UserAt
  <2>2. OwnRequest' /\ ReadAfterWrite'
    BY <1>0, <2>1 DEF RequestInv, OwnRequest, ReadAfterWrite
  <2>3. FlaggedIsRead'
    BY <1>0, <2>1 DEF RequestInv, FlaggedIsRead
  <2>4. \A v \in Users : pc[v] \in {"assign", "del"} => pc'[v] = pc[v]
    BY <1>0, <2>1
  <2>5. NullWhileMade'
    BY <1>0, <2>1, <2>4 DEF RequestInv, NullWhileMade
  <2>6. \A r \in Req : recv_msg_map_'[r] = "set" => recv_msg_map_[r] = "set"
    BY <1>0, <2>1
  <2>7. Listed'
    BY <2>1, <2>4, <2>6 DEF RequestInv, Listed
  <2>8. Armed'
    BY <1>0, <2>1 DEF RequestInv, Armed
  <2> QED
    BY <2>2, <2>3, <2>5, <2>7, <2>8 DEF RequestInv
<1>3. CASE ReadResult(u)
  <2>1. /\ pc[u] = "poll" /\ pc' = [pc EXCEPT ![u] = "del"] /\ req[u] \in Req
        /\ status[req[u]] # "UNKNOWN" /\ erase_flag' = [erase_flag EXCEPT ![req[u]] = "STATE"]
        /\ UNCHANGED <<conn, status, recv_msg_map_, timer, del_reqid_list, reads, crash, req, msg_index_>>
    BY <1>0, <1>3 DEF ReadResult, IsResult, UserAt
  <2>2. OwnRequest' /\ NullWhileMade' /\ ReadAfterWrite' /\ Listed'
    BY <1>0, <2>1 DEF RequestInv, OwnRequest, NullWhileMade, ReadAfterWrite, Listed
  <2>3. FlaggedIsRead'
    BY <1>0, <2>1 DEF RequestInv, FlaggedIsRead, ReadAfterWrite, OwnRequest, Req
  <2>4. Armed'
    BY <1>0, <2>1 DEF RequestInv, Armed
  <2> QED
    BY <2>2, <2>3, <2>4 DEF RequestInv
<1>4. CASE ReadReturn(u)
  <2>1. /\ pc[u] = "del" /\ pc' = [pc EXCEPT ![u] = "idle"] /\ req[u] \in Req
        /\ del_reqid_list' = Append(del_reqid_list, req[u])
        /\ UNCHANGED <<conn, msgvars, reads, crash, req, msg_index_>>
    BY <1>0, <1>4 DEF ReadReturn, UserAt
  <2>2. OwnRequest' /\ NullWhileMade' /\ ReadAfterWrite' /\ FlaggedIsRead'
    BY <1>0, <2>1 DEF RequestInv, OwnRequest, NullWhileMade, ReadAfterWrite, FlaggedIsRead
  <2>3. Listed'
    <3>1. Range(Append(del_reqid_list, req[u])) = Range(del_reqid_list) \cup {req[u]}
      BY <1>0, <2>1, RangeAppend
    <3> QED
      BY <1>0, <2>1, <3>1 DEF RequestInv, Listed
  <2>4. Armed'
    BY <1>0, <2>1 DEF RequestInv, Armed
  <2> QED
    BY <2>2, <2>3, <2>4 DEF RequestInv
<1> QED
  BY <1>1, <1>2, <1>3, <1>4

\* Every step of a user thread.
LEMMA UserRequest ==
    ASSUME TypeOK, SocketInv, RequestInv, NEW u \in Users, UserCall(u) \/ UserStep(u)
    PROVE  RequestInv'
<1> USE DEF queuevars, msgvars, sweepvars, calls, uservars, netvars
<1>0. Range(conn.ready) \subseteq Range(conn'.ready)
  BY UserKeepsReady
<1>1. CASE WriteNew(u) \/ WritePush(u) \/ WriteInsert(u) \/ WriteAssign(u) \/ WriteArm(u)
  BY <1>0, <1>1, WriteRequest
<1>2. CASE ReadFind(u) \/ ReadGet(u) \/ ReadResult(u) \/ ReadReturn(u)
  BY <1>2, ReadRequest
<1>3. CASE IsOpen(u)
  BY <1>0, <1>3, ElsewhereRequest DEF IsOpen, UserAt
<1>4. CASE UserClose(u)
  BY <1>0, <1>4, ElsewhereRequest DEF UserClose, UserAt
<1>5. CASE Destroy(u)
  <2>1. /\ \A v \in Users : pc[v] = "idle" /\ pc'[v] \in {"drain", "gone"}
        /\ crash = "none" /\ UNCHANGED <<msg_index_, req, reads, msgvars, del_reqid_list, conn>>
    BY <1>5 DEF Destroy
  <2>2. OwnRequest' /\ NullWhileMade' /\ ReadAfterWrite' /\ FlaggedIsRead' /\ Listed'
    BY <2>1 DEF RequestInv, OwnRequest, NullWhileMade, ReadAfterWrite, FlaggedIsRead, Listed
  <2>3. Armed'
    BY <2>1 DEF RequestInv, Armed
  <2> QED
    BY <2>2, <2>3 DEF RequestInv
<1>6. CASE DoConnectCheck(u)
  <2> DEFINE there == IF conn.status = "CONN" THEN "idle" ELSE "set"
  <2>1. /\ pc[u] = "check" /\ pc' = [pc EXCEPT ![u] = there] /\ crash = "none"
        /\ UNCHANGED <<msg_index_, req, reads, msgvars, del_reqid_list>>
    BY <1>6 DEF DoConnectCheck, UserAt
  <2>2. there \in {"idle", "set"}
    OBVIOUS
  <2> HIDE DEF there
  <2> QED
    BY <1>0, <2>1, <2>2, ElsewhereRequest
<1>7. CASE DoConnectSet(u)
  BY <1>0, <1>7, ElsewhereRequest DEF DoConnectSet, UserAt
<1>8. CASE DoConnectStart(u)
  BY <1>0, <1>8, ElsewhereRequest DEF DoConnectStart, UserAt
<1>9. CASE WritePost(u)
  <2>1. /\ pc[u] = "post" /\ pc' = [pc EXCEPT ![u] = "idle"] /\ crash = "none"
        /\ UNCHANGED <<msg_index_, req, reads, msgvars, del_reqid_list>>
    BY <1>9 DEF WritePost, WriteOrder, UserAt
  <2> QED
    BY <1>0, <2>1, ElsewhereRequest
<1>10. CASE DestroyClose(u)
  BY <1>0, <1>10, ElsewhereRequest DEF DestroyClose, UserAt
<1>11. CASE DestroyDelete(u)
  BY <1>0, <1>11, ElsewhereRequest DEF DestroyDelete, UserAt
<1>12. CASE DestroyStop(u)
  BY <1>0, <1>12, ElsewhereRequest DEF DestroyStop, UserAt
<1> QED
  BY <1>1, <1>2, <1>3, <1>4, <1>5, <1>6, <1>7, <1>8, <1>9, <1>10, <1>11, <1>12
  DEF UserCall, UserStep

\* The invariants hold together, in every state.
LEMMA RequestCorrect == Spec => [](TypeOK /\ SocketInv /\ RequestInv)
<1>1. Init => RequestInv
  BY InitRequest
<1>2. TypeOK /\ SocketInv /\ RequestInv /\ [Next]_vars => RequestInv'
  <2> SUFFICES ASSUME TypeOK, SocketInv, RequestInv, [Next]_vars PROVE RequestInv'
    OBVIOUS
  <2>1. CASE UNCHANGED vars
    <3>1. UNCHANGED <<msg_index_, req, pc, reads, recv_msg_map_, status, erase_flag, timer,
                      del_reqid_list, conn, crash>>
      BY <2>1 DEF vars, msgvars, sweepvars, uservars
    <3>2. OwnRequest' /\ NullWhileMade' /\ ReadAfterWrite' /\ FlaggedIsRead'
      BY <3>1 DEF RequestInv, OwnRequest, NullWhileMade, ReadAfterWrite, FlaggedIsRead
    <3>3. Armed' /\ Listed'
      BY <3>1 DEF RequestInv, Armed, Listed
    <3> QED
      BY <3>2, <3>3 DEF RequestInv
  <2> QED
    BY <2>1, IoRequest, UserRequest, NetworkRequest DEF Next
<1> QED
  BY <1>1, <1>2, SocketCorrect, PTL DEF Spec

\* The loop in read() ends: while its request has no result, the timer that will
\* give it one is armed or its handler is in the scheduler's queue.
THEOREM WaiterWakeableCorrect == Spec => []WaiterWakeable
<1>1. TypeOK /\ RequestInv => WaiterWakeable
  <2> SUFFICES ASSUME TypeOK, RequestInv, NEW u \in Users, pc[u] = "poll",
                      status[req[u]] = "UNKNOWN", crash = "none"
               PROVE  timer[req[u]] \/ Queued("timeout", req[u])
    BY DEF WaiterWakeable
  <2>1. req[u] \in Req
    BY DEF TypeOK
  <2>2. req[u] < msg_index_ /\ \A v \in Users : req[v] = req[u] => v = u
    BY <2>1 DEF RequestInv, OwnRequest, Req
  <2>3. \A v \in Users : req[v] = req[u] => pc[v] \notin {"push", "insert", "assign", "arm"}
    BY <2>2
  <2>4. timer[req[u]] \/ \E h \in Range(conn.ready) : h.h = "timeout" /\ h.id = req[u]
    BY <2>1, <2>2, <2>3 DEF RequestInv, Armed
  <2> QED
    BY <2>4, QueuedRange
<1> QED
  BY <1>1, RequestCorrect, PTL

\* A request whose result was taken is never lost by the passes of
\* erase_msg_timer and the readers that push to del_reqid_list meanwhile.
THEOREM TakenIsListedCorrect == Spec => []TakenIsListed
<1>1. RequestInv => TakenIsListed
  BY DEF RequestInv, Listed, TakenIsListed, Range
<1> QED
  BY <1>1, RequestCorrect, PTL

\* erase_msg_timer erases an entry only when its request has a result that no
\* first read() still waits for; nothing else erases one.
THEOREM ErasedOnlyWhenTakenCorrect == Spec => ErasedOnlyWhenTaken
<1> DEFINE Erases(r) == recv_msg_map_[r] = "set" /\ recv_msg_map_'[r] = "none"
           Over(r) == /\ status[r] # "UNKNOWN"
                      /\ \A u \in Users : req[u] = r /\ reads[r] = 1 => pc[u] \notin {"get", "poll"}
<1>1. TypeOK /\ SocketInv /\ RequestInv /\ [Next]_vars => [\A r \in Req : Erases(r) => Over(r)]_vars
  <2> SUFFICES ASSUME TypeOK, RequestInv, Next, NEW r \in Req, Erases(r) PROVE Over(r)
    OBVIOUS
  <2>0. recv_msg_map_ \in [Req -> {"none", "null", "set"}]
    BY DEF TypeOK
  <2>1. SweepErase
    <3>1. recv_msg_map_' # recv_msg_map_
      OBVIOUS
    <3> USE DEF queuevars, msgvars, sweepvars, calls, uservars, netvars
    <3>2. IoThread \/ \E u \in Users : UserCall(u) \/ UserStep(u)
      BY <3>1 DEF Next, Network, EraseTimerExpire, TimerExpire, ConnectOk, ConnectFail, ReadComplete, ReadGarbled,
             ReadFail, WriteComplete, WriteFail, PeerReply, NetBreak, Reactor
    <3>3. CASE IoThread
      BY <3>1, <3>3 DEF IoThread, HandlerFindsClosed, HandlerFindsNull, HandleConnectOk,
             HandleConnectError, HandleReadHeader, HandleReadHeaderError, HandleReadMsg, DoWriteQueue,
             DoWriteDirect, HandleWrite, HandleWriteError, SetTimeout, DoClose, EraseStart, SweepDrop,
             SweepMark, SweepEnd, set_status
    <3>4. ASSUME NEW u \in Users, UserCall(u) \/ UserStep(u) PROVE FALSE
      <4>1. WriteInsert(u) \/ WriteAssign(u) \/ ReadGet(u)
        BY <3>1, <3>4 DEF UserCall, UserStep, IsOpen, WriteNew, ReadFind, UserClose, Destroy,
               DoConnectCheck, DoConnectSet, DoConnectStart, WritePush, WriteArm, WritePost,
               ReadResult, ReadReturn, DestroyClose, DestroyDelete, DestroyStop
      <4>2. \A q \in Req : recv_msg_map_'[q] = recv_msg_map_[q] \/ recv_msg_map_'[q] \in {"null", "set"}
        BY <2>0, <4>1 DEF WriteInsert, WriteAssign, ReadGet
      <4> QED
        BY <4>2
    <3> QED
      BY <3>2, <3>3, <3>4
  <2>2. r = Oldest /\ erase_flag[r] = "EXEC"
    BY <2>0, <2>1 DEF SweepErase, Erasable
  <2> QED
    BY <2>2 DEF RequestInv, FlaggedIsRead
<1> QED
  BY <1>1, RequestCorrect, PTL DEF Spec, ErasedOnlyWhenTaken

-----------------------------------------------------------------------------
(* Without the queue: a reply finds its record *)

\* What the peer may answer has a complete entry and its timer was armed: the
\* message was posted behind both, and no other write() has its id.
SentInv ==
    ~UseQueue =>
        /\ \A u \in Users : pc[u] # "push"
        /\ garbled = {} => \A r \in Sent(conn) :
              /\ r \in Req
              /\ r < msg_index_
              /\ \A u \in Users : req[u] = r => pc[u] \notin {"insert", "assign", "arm"}

\* A handler posted for no request is not one the peer may answer.
LEMMA SentPost ==
    ASSUME NEW c \in Conn, NEW h \in Handler
    PROVE  /\ h.h \notin {"dowrite", "head"} => Sent(Post(c, h)) \subseteq Sent(c)
           /\ Sent(Post(c, h)) \subseteq Sent(c) \cup {h.id}
<1> DEFINE d == Post(c, h)
<1>1. /\ Range(d.ready) = Range(c.ready) \cup {h}
      /\ d.wops = c.wops /\ d.asked = c.asked /\ d.inbox = c.inbox
  BY PostFacts
<1> HIDE DEF d
<1>2. /\ h.h \notin {"dowrite", "head"} => Sent(d) \subseteq Sent(c)
      /\ Sent(d) \subseteq Sent(c) \cup {h.id}
  BY <1>1 DEF Sent
<1> QED
  BY <1>2 DEF d

\* Nothing is sent at first.
LEMMA InitSent == Init => SentInv
<1> SUFFICES ASSUME Init PROVE SentInv
  OBVIOUS
<1> DEFINE z == [status |-> "UNKNOWN", sock |-> "closed", ready |-> <<>>, rops |-> <<>>,
                 wops |-> <<>>, inbox |-> <<>>, asked |-> {}]
<1>1. /\ conn = AsyncConnect([z EXCEPT !.status = "CONN"])
  BY DEF Init, do_connect
<1>2. conn.ready = <<>> /\ conn.wops = <<>> /\ conn.asked = {} /\ conn.inbox = <<>>
  BY <1>1 DEF AsyncConnect
<1>3. Sent(conn) = {}
  BY <1>2, RangeEmpty DEF Sent
<1> QED
  BY <1>3 DEF Init, SentInv

\* The io thread writes only what was posted; events add nothing.
LEMMA IoSent ==
    ASSUME TypeOK, SocketInv, SentInv, ~UseQueue,
           IoThread \/ Network \/ EraseTimerExpire \/ (\E r \in Req : TimerExpire(r))
    PROVE  SentInv'
<1> USE DEF queuevars, msgvars, sweepvars, calls, uservars, netvars
<1>0. conn \in Conn
  BY DEF TypeOK
<1>1. UNCHANGED uservars
  BY DEF Network, EraseTimerExpire, TimerExpire, ConnectOk, ConnectFail, ReadComplete, ReadGarbled, ReadFail,
         WriteComplete, WriteFail, PeerReply, NetBreak, Reactor,
         IoThread, HandlerFindsClosed, HandlerFindsNull, HandleConnectOk, HandleConnectError,
         HandleReadHeader, HandleReadHeaderError, HandleReadMsg, DoWriteQueue, DoWriteDirect,
         HandleWrite, HandleWriteError, SetTimeout, DoClose, EraseStart, SweepDrop, SweepErase,
         SweepMark, SweepEnd, SweepRound
<1>2. garbled' # {} \/ (garbled' = garbled /\ Sent(conn') \subseteq Sent(conn))
  <2>0. garbled' = garbled \/ ReadGarbled
    BY DEF Network, EraseTimerExpire, TimerExpire, ConnectOk, ConnectFail, ReadComplete, ReadFail,
           WriteComplete, WriteFail, PeerReply, NetBreak,
           IoThread, HandlerFindsClosed, HandlerFindsNull, HandleConnectOk, HandleConnectError,
           HandleReadHeader, HandleReadHeaderError, HandleReadMsg, DoWriteQueue, DoWriteDirect,
           HandleWrite, HandleWriteError, SetTimeout, DoClose, EraseStart, SweepDrop, SweepErase,
           SweepMark, SweepEnd, SweepRound
  <2>g. CASE ReadGarbled
    BY <2>g DEF ReadGarbled
  <2> SUFFICES ASSUME ~ReadGarbled PROVE Sent(conn') \subseteq Sent(conn)
    BY <2>0, <2>g
  <2>1. CASE IoThread /\ sweep.on
    <3>1. conn' = conn \/ conn' = Post(conn, H("erase", 0, FALSE))
      BY <2>1, IoSteps DEF SweepRound, SweepEnd
    <3>2. H("erase", 0, FALSE) \in Handler /\ H("erase", 0, FALSE).h = "erase"
      BY ClientLoopAssumption DEF H, Handler
    <3> QED
      BY <1>0, <3>1, <3>2, SentPost
  <2>2. CASE IoThread /\ ~sweep.on
    <3>1. Taken \in Conn /\ Job \in Handler /\ Quiet(Taken, conn', Writes(Job)) /\ conn.ready # <<>>
      BY <2>2, HandlerQuiet
    <3>2. Range(conn.ready) = {Job} \cup Range(Taken.ready)
      BY <1>0, <3>1, TakenFacts
    <3>3. Taken.wops = conn.wops /\ Taken.asked = conn.asked /\ Taken.inbox = conn.inbox
      BY <1>0 DEF Taken, Conn
    <3>4. Sent(Taken) \subseteq Sent(conn)
      BY <3>2, <3>3 DEF Sent
    <3>5. Job.id \in 0..MaxReq
      BY <3>1 DEF Handler
    <3>6. Writes(Job) \subseteq Sent(conn)
      BY <3>2, <3>5 DEF Sent, Writes
    <3>7. Sent(conn') \subseteq Sent(Taken) \cup Writes(Job)
      BY <3>1, QuietFacts
    <3> QED
      BY <3>4, <3>6, <3>7
  <2>3. CASE ~IoThread
    BY <2>3, NetworkQuiet
  <2> QED
    BY <2>1, <2>2, <2>3 DEF TypeOK
<1> QED
  BY <1>1, <1>2 DEF SentInv

\* A user posts only its own request, and only when its entry is complete.
LEMMA UserSent ==
    ASSUME TypeOK, SocketInv, RequestInv, SentInv, ~UseQueue, NEW u \in Users, UserCall(u) \/ UserStep(u)
    PROVE  SentInv'
<1> USE DEF queuevars, msgvars, sweepvars, calls, uservars, netvars
<1>0. /\ conn \in Conn /\ DOMAIN pc = Users /\ DOMAIN req = Users /\ msg_index_ \in 1..(MaxReq + 1)
      /\ req[u] \in 0..MaxReq /\ 0 \in 0..MaxReq
      /\ pc[u] = "post" => req[u] \in Req
  BY ClientLoopAssumption DEF TypeOK
\* Where a user goes, and the ids that are taken.
<1>1. /\ \A v \in Users : pc'[v] # "push"
      /\ \A v \in Users : pc'[v] \in {"insert", "assign", "arm"} =>
            \/ req'[v] = req[v] /\ pc[v] \in {"insert", "assign", "arm"}
            \/ req'[v] = msg_index_
      /\ msg_index_' \in {msg_index_, msg_index_ + 1}
  <2>0. \A v \in Users : pc[v] # "push"
    BY DEF SentInv
  <2>1. CASE WriteNew(u)
    <3>1. /\ pc' = [pc EXCEPT ![u] = "insert"] /\ req' = [req EXCEPT ![u] = msg_index_]
          /\ msg_index_' = msg_index_ + 1
      BY <2>1 DEF WriteNew, UserAt, WriteOrder
    <3> QED
      BY <1>0, <2>0, <3>1
  <2>2. CASE WriteInsert(u) \/ WriteAssign(u) \/ WriteArm(u) \/ WritePost(u)
    <3>1. /\ UNCHANGED <<req, msg_index_>>
          /\ \/ pc[u] = "insert" /\ pc' = [pc EXCEPT ![u] = "assign"]
             \/ pc[u] = "assign" /\ pc' = [pc EXCEPT ![u] = "arm"]
             \/ pc' = [pc EXCEPT ![u] = "post"]
             \/ pc' = [pc EXCEPT ![u] = "idle"]
      BY <2>2 DEF WriteInsert, WriteAssign, WriteArm, WritePost, UserAt, WriteOrder
    <3> QED
      BY <1>0, <2>0, <3>1
  <2>3. CASE Destroy(u)
    BY <2>3 DEF Destroy
  <2>4. CASE /\ ~(WriteInsert(u) \/ WriteAssign(u) \/ WriteArm(u) \/ WritePost(u) \/ WriteNew(u))
             /\ ~Destroy(u)
    <3>1. /\ UNCHANGED <<req, msg_index_>>
          /\ \E there \in {"idle", "check", "set", "start", "get", "poll", "del", "delete", "stop", "done"} :
                pc' = [pc EXCEPT ![u] = there]
      BY <2>0, <2>4 DEF UserCall, UserStep, IsOpen, ReadFind, UserClose, DoConnectCheck, DoConnectSet,
            DoConnectStart, WritePush, ReadGet, ReadResult, ReadReturn, DestroyClose, DestroyDelete,
            DestroyStop, UserAt
    <3> QED
      BY <1>0, <2>0, <3>1
  <2> QED
    BY <2>1, <2>2, <2>3, <2>4
<1>g. garbled' = garbled
  BY DEF UserCall, UserStep, IsOpen, ReadFind, UserClose, Destroy, DoConnectCheck, DoConnectSet,
         DoConnectStart, WriteNew, WritePush, WriteInsert, WriteAssign, WriteArm, WritePost, ReadGet,
         ReadResult, ReadReturn, DestroyClose, DestroyDelete, DestroyStop, UserAt
<1> SUFFICES ASSUME garbled = {} PROVE SentInv'
  BY <1>1, <1>g DEF SentInv
<1>2. \A r \in Sent(conn) :
         /\ r \in Req /\ r < msg_index_'
         /\ \A v \in Users : req'[v] = r => pc'[v] \notin {"insert", "assign", "arm"}
  BY <1>0, <1>1 DEF SentInv, Req
<1>3. CASE Sent(conn') \subseteq Sent(conn)
  BY <1>1, <1>2, <1>3 DEF SentInv
<1>4. CASE Quiet(conn, conn', {})
  BY <1>0, <1>3, <1>4, QuietFacts
<1>5. CASE UserClose(u) /\ conn' = Post(conn, H("close", 0, TRUE))
  <2>1. H("close", 0, TRUE) \in Handler /\ H("close", 0, TRUE).h = "close"
    BY <1>0 DEF H, Handler
  <2> QED
    BY <1>0, <1>3, <1>5, <2>1, SentPost
<1>6. CASE WritePost(u) /\ conn' = PostWrite(conn, req[u])
  <2> DEFINE h == H("dowrite", req[u], TRUE)
  <2>1. conn' = Post(conn, h) /\ h \in Handler /\ h.id = req[u]
    BY <1>0, <1>6 DEF PostWrite, H, Handler
  <2> HIDE DEF h
  <2>2. Sent(conn') \subseteq Sent(conn) \cup {req[u]}
    BY <1>0, <2>1, SentPost
  <2>3. /\ pc[u] = "post" /\ pc' = [pc EXCEPT ![u] = "idle"] /\ UNCHANGED <<req, msg_index_>>
    BY <1>6 DEF WritePost, UserAt, WriteOrder
  <2>4. req[u] \in Req /\ req[u] < msg_index_ /\ \A v \in Users : req[v] = req[u] => v = u
    BY <1>0, <2>3 DEF RequestInv, OwnRequest, Req
  <2>5. \A v \in Users : req'[v] = req[u] => pc'[v] \notin {"insert", "assign", "arm"}
    BY <1>0, <2>3, <2>4
  <2> QED
    BY <1>1, <1>2, <2>2, <2>3, <2>4, <2>5 DEF SentInv
<1> QED
  BY <1>4, <1>5, <1>6, UserQuiet

\* What the peer may answer, together with what it rests on.
LEMMA SentCorrect == Spec => [](TypeOK /\ SocketInv /\ RequestInv /\ SentInv)
<1>1. TypeOK /\ SocketInv /\ RequestInv /\ SentInv /\ [Next]_vars => SentInv'
  <2> SUFFICES ASSUME TypeOK, SocketInv, RequestInv, SentInv, [Next]_vars, ~UseQueue PROVE SentInv'
    BY DEF SentInv
  <2>1. CASE UNCHANGED vars
    BY <2>1 DEF vars, uservars, netvars, SentInv, Sent
  <2> QED
    BY <2>1, IoSent, UserSent DEF Next
<1> QED
  BY <1>1, InitSent, RequestCorrect, PTL DEF Spec

\* Without the queue, a reply whose header was read finds no empty pointer: its
\* entry was complete before do_write could send the request.
THEOREM ReplyFindsRecordCorrect == Spec => []ReplyFindsRecord
<1>1. TypeOK /\ RequestInv /\ SentInv => ReplyFindsRecord
  <2> SUFFICES ASSUME TypeOK, RequestInv, SentInv, ~UseQueue, garbled = {}, Runs("head"), Job.ok,
                      recv_msg_map_[Job.id] = "null"
               PROVE  FALSE
    BY DEF ReplyFindsRecord, Entry
  <2>1. /\ conn \in Conn /\ conn.ready # <<>> /\ crash = "none" /\ Job.h = "head"
    BY DEF TypeOK, Runs, IoIdle, IoRuns, Job
  <2>2. Job \in Handler /\ Job \in Range(conn.ready)
    BY <2>1, TakenType, TakenFacts
  <2>3. Job.id \in Sent(conn)
    BY <2>1, <2>2 DEF Sent, Handler
  <2>4. Job.id \in Req /\ \A u \in Users : req[u] = Job.id => pc[u] # "assign"
    BY <2>3 DEF SentInv
  <2> QED
    BY <2>1, <2>4 DEF RequestInv, NullWhileMade
<1> QED
  BY <1>1, SentCorrect, PTL

=============================================================================
