-------------------------- MODULE ClientQueueProofs --------------------------
(***************************************************************************)
(* Theorems about ClientLoop that look into the scheduler's queue: the     *)
(* chains of passes of erase_msg_timer, one per connection, so one in all  *)
(* on the first; the messages                                              *)
(* that wait in write_msg_queue_ against the calls of do_write that will   *)
(* send them; the chains of reads, one per connection at most, and which   *)
(* reply each is reading; and the handlers of expired timers against the   *)
(* passes that erase their records.  The first three rest on what a step   *)
(* does to the number of handlers of one kind, the last on their order.    *)
(***************************************************************************)
EXTENDS ClientRequestProofs

-----------------------------------------------------------------------------
(* Counting the elements of a sequence *)

\* Where q has an element of S, and how often.
Places(q, S) == {i \in DOMAIN q : q[i] \in S}
Times(q, S) == Cardinality(Places(q, S))

\* 1 for a member, 0 for another.
One(e, S) == IF e \in S THEN 1 ELSE 0

\* A sequence has finitely many places.
LEMMA PlacesFinite ==
    ASSUME NEW T, NEW q \in Seq(T), NEW S
    PROVE  IsFiniteSet(Places(q, S)) /\ Times(q, S) \in Nat
<1>1. DOMAIN q = 1..Len(q) /\ Len(q) \in Nat
  BY LenProperties
<1>2. IsFiniteSet(1..Len(q))
  BY <1>1, FS_Interval
<1>3. Places(q, S) \in SUBSET (1..Len(q))
  BY <1>1 DEF Places
<1>4. IsFiniteSet(Places(q, S))
  BY <1>2, <1>3, FS_Subset
<1> QED
  BY <1>4, FS_CardinalityType DEF Times

\* Append adds the new element.
LEMMA TimesAppend ==
    ASSUME NEW T, NEW q \in Seq(T), NEW e \in T, NEW S
    PROVE  Times(Append(q, e), S) = Times(q, S) + One(e, S)
<1> DEFINE n == Len(q) + 1
           a == Append(q, e)
<1>1. Len(q) \in Nat /\ DOMAIN q = 1..Len(q)
  BY LenProperties
<1>2. /\ DOMAIN a = 1..n /\ a[n] = e /\ \A i \in 1..Len(q) : a[i] = q[i]
  <2>1. a \in Seq(T) /\ Len(a) = n
    BY AppendProperties
  <2> QED
    BY <1>1, <2>1, AppendProperties, LenProperties
<1> HIDE DEF a
<1>3. Places(a, S) = IF e \in S THEN Places(q, S) \cup {n} ELSE Places(q, S)
  BY <1>1, <1>2 DEF Places
<1>4. n \notin Places(q, S)
  BY <1>1 DEF Places
<1>5. IsFiniteSet(Places(q, S)) /\ Times(q, S) \in Nat
  BY PlacesFinite
<1>6. Cardinality(Places(q, S) \cup {n}) = Cardinality(Places(q, S)) + 1
  BY <1>4, <1>5, FS_AddElement
<1>7. Times(a, S) = Times(q, S) + One(e, S)
  BY <1>3, <1>5, <1>6 DEF Times, One
<1> QED
  BY <1>7 DEF a

\* Tail takes the first element away.
LEMMA TimesTail ==
    ASSUME NEW T, NEW q \in Seq(T), q # <<>>, NEW S
    PROVE  Times(q, S) = Times(Tail(q), S) + One(Head(q), S)
<1> DEFINE t == Tail(q)
           n == Len(q)
           P == Places(t, S)
           R == Places(q, S) \ {1}
           f == [i \in P |-> i + 1]
<1>1. n \in Nat /\ n > 0 /\ DOMAIN q = 1..n
  BY LenProperties, EmptySeq
<1>2. /\ t \in Seq(T) /\ DOMAIN t = 1..(n - 1) /\ Head(q) = q[1]
      /\ \A i \in 1..(n - 1) : t[i] = q[i + 1]
  <2>1. t \in Seq(T) /\ Len(t) = n - 1
    BY HeadTailProperties
  <2> QED
    BY <1>1, <2>1, HeadTailProperties, LenProperties
<1> HIDE DEF t, n
<1>3. IsFiniteSet(P) /\ Times(t, S) \in Nat /\ IsFiniteSet(Places(q, S)) /\ Times(q, S) \in Nat
  BY <1>2, PlacesFinite
<1>4. P = {i \in 1..(n - 1) : q[i + 1] \in S}
  BY <1>2 DEF Places
<1>5. R = {i \in 2..n : q[i] \in S}
  BY <1>1 DEF Places
<1>6. f \in Bijection(P, R)
  <2>1. f \in [P -> R]
    BY <1>1, <1>4, <1>5
  <2>2. \A i, j \in P : f[i] = f[j] => i = j
    BY <1>1, <1>4
  <2>3. \A j \in R : \E i \in P : f[i] = j
    <3> SUFFICES ASSUME NEW j \in R PROVE \E i \in P : f[i] = j
      OBVIOUS
    <3>1. j - 1 \in P
      BY <1>1, <1>4, <1>5
    <3>2. f[j - 1] = j
      BY <1>1, <1>5, <3>1
    <3> QED
      BY <3>1, <3>2
  <2> QED
    BY <2>1, <2>2, <2>3 DEF Bijection, Injection, Surjection, IsInjective
<1> HIDE DEF f
<1>7. ExistsBijection(P, R)
  BY <1>6 DEF ExistsBijection
<1>8. Cardinality(R) = Times(t, S)
  BY <1>3, <1>7, FS_Bijection DEF Times
<1>9. 1 \in Places(q, S) <=> Head(q) \in S
  BY <1>1, <1>2 DEF Places
<1>10. Cardinality(R) = IF 1 \in Places(q, S) THEN Times(q, S) - 1 ELSE Times(q, S)
  BY <1>3, FS_RemoveElement DEF Times
<1>11. Times(q, S) = Times(t, S) + One(Head(q), S)
  BY <1>3, <1>8, <1>9, <1>10 DEF One
<1> QED
  BY <1>11 DEF t

\* A sequence without elements of S adds none.
LEMMA TimesConcat ==
    ASSUME NEW T, NEW q \in Seq(T), NEW p \in Seq(T), NEW S, \A e \in Range(p) : e \notin S
    PROVE  Times(q \o p, S) = Times(q, S)
<1> DEFINE c == q \o p
<1>1. Len(q) \in Nat /\ Len(p) \in Nat /\ DOMAIN q = 1..Len(q) /\ DOMAIN p = 1..Len(p)
  BY LenProperties
<1>2. /\ DOMAIN c = 1..(Len(q) + Len(p))
      /\ \A i \in 1..(Len(q) + Len(p)) : c[i] = IF i <= Len(q) THEN q[i] ELSE p[i - Len(q)]
  <2>1. c \in Seq(T) /\ Len(c) = Len(q) + Len(p)
    BY ConcatProperties
  <2> QED
    BY <2>1, ConcatProperties, LenProperties
<1> HIDE DEF c
<1>3. \A i \in 1..Len(p) : p[i] \notin S
  BY <1>1 DEF Range
<1>4. Places(c, S) = Places(q, S)
  BY <1>1, <1>2, <1>3 DEF Places
<1> QED
  BY <1>4 DEF Times, c

-----------------------------------------------------------------------------
(* The scheduler's queue *)

\* The handlers of one name, and the connect handlers that found a connection.
Named(h) == {x \in Handler : x.h = h}
ConnectsOk == {x \in Handler : x.h = "connect" /\ x.ok}

\* Count, in these terms.
LEMMA CountTimes ==
    ASSUME conn \in Conn
    PROVE  /\ \A h : Count(h) = Times(conn.ready, Named(h))
           /\ Cardinality({i \in DOMAIN conn.ready : conn.ready[i].h = "connect" /\ conn.ready[i].ok})
              = Times(conn.ready, ConnectsOk)
<1>1. conn.ready \in Seq(Handler)
  BY ConnFields
<1>2. \A i \in DOMAIN conn.ready : conn.ready[i] \in Handler
  BY <1>1
<1>3. \A h : {i \in DOMAIN conn.ready : conn.ready[i].h = h} = Places(conn.ready, Named(h))
  BY <1>2 DEF Places, Named
<1>4. {i \in DOMAIN conn.ready : conn.ready[i].h = "connect" /\ conn.ready[i].ok}
      = Places(conn.ready, ConnectsOk)
  BY <1>2 DEF Places, ConnectsOk
<1> QED
  BY <1>3, <1>4 DEF Count, Times

\* A quiet step queues no handler of a kind that is not plain.
LEMMA TimesQuiet ==
    ASSUME NEW c \in Conn, NEW d, NEW X, Quiet(c, d, X), NEW S, \A h \in S : ~Plain(h)
    PROVE  Times(d.ready, S) = Times(c.ready, S)
<1>1. PICK p \in Seq(Handler) : d.ready = c.ready \o p /\ \A h \in Range(p) : Plain(h)
  BY DEF Quiet
<1>2. \A h \in Range(p) : h \notin S
  BY <1>1
<1>3. c.ready \in Seq(Handler)
  BY ConnFields
<1>4. Times(c.ready \o p, S) = Times(c.ready, S)
  BY <1>2, <1>3, TimesConcat
<1> QED
  BY <1>1, <1>4

\* The kinds that are counted are not plain.
LEMMA CountedNotPlain ==
    /\ \A h \in Named("erase") : ~Plain(h)
    /\ \A h \in Named("dowrite") : ~Plain(h)
    /\ \A h \in ConnectsOk : ~Plain(h)
BY DEF Named, ConnectsOk, Plain

\* Post counts its handler.
LEMMA TimesPost ==
    ASSUME NEW c \in Conn, NEW h \in Handler, NEW S
    PROVE  Times(Post(c, h).ready, S) = Times(c.ready, S) + One(h, S)
<1>1. Post(c, h).ready = Append(c.ready, h) /\ c.ready \in Seq(Handler)
  BY PostFacts, ConnFields
<1>2. Times(Append(c.ready, h), S) = Times(c.ready, S) + One(h, S)
  BY <1>1, TimesAppend
<1> QED
  BY <1>1, <1>2

\* A handler of the io thread takes itself away and queues only plain ones.
LEMMA TimesHandler ==
    ASSUME TypeOK, SocketInv, IoThread, ~sweep.on, NEW S, \A h \in S : ~Plain(h)
    PROVE  /\ Times(conn'.ready, S) = Times(Taken.ready, S)
           /\ Times(conn.ready, S) = Times(Taken.ready, S) + One(Job, S)
           /\ Times(Taken.ready, S) \in Nat
<1>1. conn \in Conn /\ conn.ready # <<>> /\ Taken \in Conn /\ Quiet(Taken, conn', Writes(Job))
  BY HandlerQuiet DEF TypeOK
<1>2. Times(conn'.ready, S) = Times(Taken.ready, S)
  BY <1>1, TimesQuiet
<1>3. conn.ready \in Seq(Handler) /\ Taken.ready = Tail(conn.ready)
  BY <1>1, ConnFields DEF Taken, Conn
<1>4. Times(conn.ready, S) = Times(Tail(conn.ready), S) + One(Head(conn.ready), S)
  BY <1>1, <1>3, TimesTail
<1>5. Taken.ready \in Seq(Handler)
  BY <1>1, ConnFields
<1>6. Times(Taken.ready, S) \in Nat
  BY <1>5, PlacesFinite
<1> QED
  BY <1>2, <1>3, <1>4, <1>6 DEF Job

\* The reactor, the timers and the network queue at most one handler.
LEMMA TimesNetwork ==
    ASSUME TypeOK, SocketInv, Network \/ EraseTimerExpire \/ (\E r \in Req : TimerExpire(r)), NEW S
    PROVE  \/ Times(conn'.ready, S) = Times(conn.ready, S)
           \/ \E h \in Handler : Event(h) /\ Times(conn'.ready, S) = Times(conn.ready, S) + One(h, S)
<1>1. conn.ready \in Seq(Handler)
  BY ConnFields DEF TypeOK
<1>2. \A h \in Handler : Times(Append(conn.ready, h), S) = Times(conn.ready, S) + One(h, S)
  BY <1>1, TimesAppend
<1> QED
  BY <1>2, NetworkQuiet

\* A user's step queues handlers of no kind that is counted, but for do_write.
LEMMA TimesUser ==
    ASSUME TypeOK, SocketInv, NEW u \in Users, UserCall(u) \/ UserStep(u), NEW S,
           \A h \in S : ~Plain(h) /\ h.h # "close"
    PROVE  \/ Times(conn'.ready, S) = Times(conn.ready, S)
           \/ /\ WritePost(u) /\ H("dowrite", IF UseQueue THEN 0 ELSE req[u], TRUE) \in Handler
              /\ Times(conn'.ready, S) = Times(conn.ready, S)
                                         + One(H("dowrite", IF UseQueue THEN 0 ELSE req[u], TRUE), S)
<1>0. conn \in Conn /\ req[u] \in 0..MaxReq /\ 0 \in 0..MaxReq /\ conn.ready \in Seq(Handler)
  BY ClientLoopAssumption, ConnFields DEF TypeOK
<1>n. Times(conn.ready, S) \in Nat
  BY <1>0, PlacesFinite
<1>1. CASE Quiet(conn, conn', {})
  BY <1>0, <1>1, TimesQuiet
<1>2. CASE UserClose(u) /\ conn' = Post(conn, H("close", 0, TRUE))
  <2> DEFINE h == H("close", 0, TRUE)
  <2>1. h \in Handler /\ h.h = "close" /\ conn' = Post(conn, h)
    BY <1>0, <1>2 DEF H, Handler
  <2> HIDE DEF h
  <2>2. Times(Post(conn, h).ready, S) = Times(conn.ready, S) + One(h, S)
    BY <1>0, <2>1, TimesPost
  <2>3. One(h, S) = 0
    BY <2>1 DEF One
  <2>4. Times(conn.ready, S) + 0 = Times(conn.ready, S)
    BY <1>n
  <2>5. Times(conn'.ready, S) = Times(conn.ready, S)
    BY <2>1, <2>2, <2>3, <2>4
  <2> QED
    BY <2>5
<1>3. CASE WritePost(u) /\ conn' = PostWrite(conn, req[u])
  <2> DEFINE h == H("dowrite", IF UseQueue THEN 0 ELSE req[u], TRUE)
  <2>1. h \in Handler /\ conn' = Post(conn, h)
    BY <1>0, <1>3 DEF H, Handler, PostWrite
  <2> HIDE DEF h
  <2>2. Times(Post(conn, h).ready, S) = Times(conn.ready, S) + One(h, S)
    BY <1>0, <2>1, TimesPost
  <2>3. WritePost(u) /\ h \in Handler /\ Times(conn'.ready, S) = Times(conn.ready, S) + One(h, S)
    BY <1>3, <2>1, <2>2
  <2> QED
    BY <2>3 DEF h
<1> QED
  BY <1>1, <1>2, <1>3, UserQuiet

-----------------------------------------------------------------------------
(* The chains of passes *)

\* 1 for true, 0 for false.
Bit(b) == IF b THEN 1 ELSE 0

\* Every connection has started one chain, and none has ended or forked.
ChainsInv ==
    crash = "none" =>
        conns = Bit(sweep.on) + Bit(e_timer) + Times(conn.ready, Named("erase"))
                + Times(conn.ready, ConnectsOk)

\* The chains, with the counts of the proofs.
LEMMA ChainsAreCounted == TypeOK /\ ChainsInv => OneEraseChain
<1> SUFFICES ASSUME TypeOK, ChainsInv, crash = "none" PROVE Chains = conns
  BY DEF OneEraseChain
<1>1. \A b \in BOOLEAN : Cardinality({x \in {1} : b}) = Bit(b)
  <2> SUFFICES ASSUME NEW b \in BOOLEAN PROVE Cardinality({x \in {1} : b}) = Bit(b)
    OBVIOUS
  <2>1. CASE b
    <3>1. {x \in {1} : b} = {1}
      BY <2>1
    <3> QED
      BY <2>1, <3>1, FS_Singleton DEF Bit
  <2>2. CASE ~b
    <3>1. {x \in {1} : b} = {}
      BY <2>2
    <3> QED
      BY <2>2, <3>1, FS_EmptySet DEF Bit
  <2> QED
    BY <2>1, <2>2
<1>2. conn \in Conn /\ sweep.on \in BOOLEAN /\ e_timer \in BOOLEAN
  BY DEF TypeOK
<1> QED
  BY <1>1, <1>2, CountTimes DEF ChainsInv, Chains

\* No step of the io thread ends or forks a chain.
LEMMA IoChains ==
    ASSUME TypeOK, SocketInv, ChainsInv, IoThread
    PROVE  ChainsInv'
<1> USE DEF queuevars, msgvars, sweepvars, calls, uservars, netvars
<1> DEFINE E(c) == Times(c.ready, Named("erase"))
           C(c) == Times(c.ready, ConnectsOk)
<1>0. /\ conn \in Conn /\ conns \in Nat /\ sweep.on \in BOOLEAN /\ e_timer \in BOOLEAN
      /\ conn.ready \in Seq(Handler)
  BY ConnFields DEF TypeOK
<1>n. E(conn) \in Nat /\ C(conn) \in Nat
  BY <1>0, PlacesFinite
<1>c. /\ crash = "none" /\ conns' = conns
      /\ conns = Bit(sweep.on) + Bit(e_timer) + E(conn) + C(conn)
  BY DEF IoThread, HandlerFindsClosed, HandlerFindsNull, HandleConnectOk, HandleConnectError,
         HandleReadHeader, HandleReadHeaderError, HandleReadMsg, DoWriteQueue, DoWriteDirect,
         HandleWrite, HandleWriteError, SetTimeout, DoClose, EraseStart, SweepDrop, SweepErase,
         SweepMark, SweepEnd, SweepRound, Runs, IoIdle, IoRuns, ChainsInv
<1>1. CASE ~sweep.on
  <2>1. /\ E(conn') = E(Taken) /\ E(conn) = E(Taken) + One(Job, Named("erase")) /\ E(Taken) \in Nat
        /\ C(conn') = C(Taken) /\ C(conn) = C(Taken) + One(Job, ConnectsOk) /\ C(Taken) \in Nat
    BY <1>1, CountedNotPlain, TimesHandler
  <2>2. Job \in Handler
    BY <1>1, HandlerQuiet
  <2>3. e_timer' = e_timer /\ ~SweepEnd /\ ~SweepRound
    BY <1>1 DEF IoThread, HandlerFindsClosed, HandlerFindsNull, HandleConnectOk, HandleConnectError,
         HandleReadHeader, HandleReadHeaderError, HandleReadMsg, DoWriteQueue, DoWriteDirect,
         HandleWrite, HandleWriteError, SetTimeout, DoClose, EraseStart, SweepDrop, SweepErase,
         SweepMark, SweepEnd, SweepRound
  <2>4. CASE HandleConnectOk
    <3>1. Job.h = "connect" /\ Job.ok /\ sweep'.on
      BY <2>4 DEF HandleConnectOk, Runs, Job
    <3>2. One(Job, Named("erase")) = 0 /\ One(Job, ConnectsOk) = 1
      BY <2>2, <3>1 DEF One, Named, ConnectsOk
    <3> HIDE DEF E, C
    <3>3. conns' = Bit(sweep'.on) + Bit(e_timer') + E(conn') + C(conn')
      BY <1>1, <1>c, <2>1, <2>3, <3>1, <3>2 DEF Bit
    <3> QED
      BY <3>3 DEF ChainsInv, E, C
  <2>5. CASE EraseStart
    <3>1. Job.h = "erase" /\ sweep'.on
      BY <2>5 DEF EraseStart, Runs, Job
    <3>2. One(Job, Named("erase")) = 1 /\ One(Job, ConnectsOk) = 0
      BY <2>2, <3>1 DEF One, Named, ConnectsOk
    <3> HIDE DEF E, C
    <3>3. conns' = Bit(sweep'.on) + Bit(e_timer') + E(conn') + C(conn')
      BY <1>1, <1>c, <2>1, <2>3, <3>1, <3>2 DEF Bit
    <3> QED
      BY <3>3 DEF ChainsInv, E, C
  <2>6. CASE ~HandleConnectOk /\ ~EraseStart
    <3>1. /\ sweep' = sweep
          /\ crash' # "none" \/ (Job.h # "erase" /\ (Job.h # "connect" \/ ~Job.ok))
      BY <2>3, <2>6 DEF IoThread, HandlerFindsClosed, HandlerFindsNull, HandleConnectError,
         HandleReadHeader, HandleReadHeaderError, HandleReadMsg, DoWriteQueue, DoWriteDirect,
         HandleWrite, HandleWriteError, SetTimeout, DoClose, SweepDrop, SweepErase,
         SweepMark, Runs, Job
    <3>2. CASE crash' # "none"
      BY <3>2 DEF ChainsInv
    <3>3. CASE crash' = "none"
      <4>1. One(Job, Named("erase")) = 0 /\ One(Job, ConnectsOk) = 0
        BY <2>2, <3>1, <3>3 DEF One, Named, ConnectsOk
      <4> HIDE DEF E, C
      <4>2. conns' = Bit(sweep'.on) + Bit(e_timer') + E(conn') + C(conn')
        BY <1>c, <2>1, <2>3, <3>1, <4>1
      <4> QED
        BY <4>2 DEF ChainsInv, E, C
    <3> QED
      BY <3>2, <3>3
  <2> QED
    BY <2>4, <2>5, <2>6
<1>2. CASE sweep.on
  <2>1. CASE SweepRound
    <3>1. conn' = conn /\ e_timer' = e_timer /\ sweep'.on = sweep.on /\ crash' = crash
      BY <2>1 DEF SweepRound, TypeOK
    <3> QED
      BY <1>c, <3>1 DEF ChainsInv
  <2>2. CASE SweepEnd
    <3> DEFINE h == H("erase", 0, FALSE)
    <3>1. h \in Handler /\ h.h = "erase"
      BY ClientLoopAssumption DEF H, Handler
    <3>2. ~sweep'.on /\ e_timer' = TRUE /\ conn' = IF e_timer THEN Post(conn, h) ELSE conn
      BY <2>2 DEF SweepEnd, WaitsAgain
    <3> HIDE DEF h
    <3>3. E(Post(conn, h)) = E(conn) + One(h, Named("erase")) /\ C(Post(conn, h)) = C(conn) + One(h, ConnectsOk)
      BY <1>0, <3>1, TimesPost
    <3>4. One(h, Named("erase")) = 1 /\ One(h, ConnectsOk) = 0
      BY <3>1 DEF One, Named, ConnectsOk
    <3> HIDE DEF E, C
    <3>5. conns' = Bit(sweep'.on) + Bit(e_timer') + E(conn') + C(conn')
      BY <1>2, <1>c, <1>n, <3>2, <3>3, <3>4 DEF Bit
    <3> QED
      BY <3>5 DEF ChainsInv, E, C
  <2> QED
    BY <1>2, <2>1, <2>2, IoSteps
<1> QED
  BY <1>0, <1>1, <1>2

\* Nor does an event, which only adds a chain with its connection.
LEMMA NetworkChains ==
    ASSUME TypeOK, SocketInv, ChainsInv,
           Network \/ EraseTimerExpire \/ (\E r \in Req : TimerExpire(r))
    PROVE  ChainsInv'
<1> USE DEF queuevars, msgvars, sweepvars, calls, uservars, netvars
<1> DEFINE E(c) == Times(c.ready, Named("erase"))
           C(c) == Times(c.ready, ConnectsOk)
<1>0. /\ conn \in Conn /\ conns \in Nat /\ e_timer \in BOOLEAN /\ conn.ready \in Seq(Handler)
  BY ConnFields DEF TypeOK
<1>n. E(conn) \in Nat /\ C(conn) \in Nat
  BY <1>0, PlacesFinite
<1>c. /\ crash = "none" /\ sweep' = sweep
      /\ conns = Bit(sweep.on) + Bit(e_timer) + E(conn) + C(conn)
  BY DEF Network, EraseTimerExpire, TimerExpire, ConnectOk, ConnectFail, ReadComplete, ReadGarbled, ReadFail,
         WriteComplete, WriteFail, PeerReply, NetBreak, Reactor, IoIdle, IoRuns, ChainsInv
<1>z. 0 \in 0..MaxReq
  BY ClientLoopAssumption
<1>1. CASE ConnectOk
  <2> DEFINE d == [conn EXCEPT !.sock = "connected"]
             h == H("connect", 0, TRUE)
  <2>1. h \in Handler /\ h.h = "connect" /\ h.ok
    BY <1>z DEF H, Handler
  <2>2. d \in Conn /\ d.ready = conn.ready
    BY <1>0 DEF Conn
  <2>3. conn' = Post(d, h) /\ conns' = conns + 1 /\ e_timer' = e_timer
    BY <1>1 DEF ConnectOk
  <2> HIDE DEF d, h
  <2>4. E(conn') = E(conn) + One(h, Named("erase")) /\ C(conn') = C(conn) + One(h, ConnectsOk)
    BY <2>1, <2>2, <2>3, TimesPost
  <2>5. One(h, Named("erase")) = 0 /\ One(h, ConnectsOk) = 1
    BY <2>1 DEF One, Named, ConnectsOk
  <2> HIDE DEF E, C
  <2>6. conns' = Bit(sweep'.on) + Bit(e_timer') + E(conn') + C(conn')
    BY <1>c, <1>n, <2>3, <2>4, <2>5 DEF Bit
  <2> QED
    BY <2>6 DEF ChainsInv, E, C
<1>2. CASE EraseTimerExpire
  <2> DEFINE h == H("erase", 0, TRUE)
  <2>1. h \in Handler /\ h.h = "erase"
    BY <1>z DEF H, Handler
  <2>2. conn' = Post(conn, h) /\ conns' = conns /\ e_timer /\ e_timer' = FALSE
    BY <1>2 DEF EraseTimerExpire
  <2> HIDE DEF h
  <2>3. E(conn') = E(conn) + One(h, Named("erase")) /\ C(conn') = C(conn) + One(h, ConnectsOk)
    BY <1>0, <2>1, <2>2, TimesPost
  <2>4. One(h, Named("erase")) = 1 /\ One(h, ConnectsOk) = 0
    BY <2>1 DEF One, Named, ConnectsOk
  <2> HIDE DEF E, C
  <2>5. conns' = Bit(sweep'.on) + Bit(e_timer') + E(conn') + C(conn')
    BY <1>c, <1>n, <2>2, <2>3, <2>4 DEF Bit
  <2> QED
    BY <2>5 DEF ChainsInv, E, C
<1>3. CASE ~ConnectOk /\ ~EraseTimerExpire
  <2>1. conns' = conns /\ e_timer' = e_timer
    BY <1>3 DEF Network, TimerExpire, ConnectFail, ReadComplete, ReadGarbled, ReadFail,
         WriteComplete, WriteFail, PeerReply, NetBreak
  <2>2. \A h \in Handler : Event(h) => One(h, Named("erase")) = 0 /\ One(h, ConnectsOk) = 0
    BY <1>3 DEF Event, H, One, Named, ConnectsOk
  <2>3. /\ \/ E(conn') = E(conn)
           \/ \E h \in Handler : Event(h) /\ E(conn') = E(conn) + One(h, Named("erase"))
        /\ \/ C(conn') = C(conn)
           \/ \E h \in Handler : Event(h) /\ C(conn') = C(conn) + One(h, ConnectsOk)
    BY TimesNetwork
  <2> HIDE DEF E, C
  <2>4. E(conn') = E(conn) /\ C(conn') = C(conn)
    BY <1>n, <2>2, <2>3
  <2>5. conns' = Bit(sweep'.on) + Bit(e_timer') + E(conn') + C(conn')
    BY <1>c, <2>1, <2>4
  <2> QED
    BY <2>5 DEF ChainsInv, E, C
<1> QED
  BY <1>1, <1>2, <1>3

\* Users leave the chains alone.
LEMMA UserChains ==
    ASSUME TypeOK, SocketInv, ChainsInv, NEW u \in Users, UserCall(u) \/ UserStep(u)
    PROVE  ChainsInv'
<1> USE DEF queuevars, msgvars, sweepvars, calls, uservars, netvars
<1> DEFINE E(c) == Times(c.ready, Named("erase"))
           C(c) == Times(c.ready, ConnectsOk)
<1>0. conn.ready \in Seq(Handler)
  BY ConnFields DEF TypeOK
<1>n. E(conn) \in Nat /\ C(conn) \in Nat
  BY <1>0, PlacesFinite
<1>1. crash = "none" /\ UNCHANGED <<sweep, e_timer, conns>>
  BY DEF UserCall, UserStep, UserAt, IsOpen, WriteNew, ReadFind, UserClose, Destroy, DoConnectCheck,
         DoConnectSet, DoConnectStart, WritePush, WriteInsert, WriteAssign, WriteArm, WritePost,
         ReadGet, ReadResult, ReadReturn, DestroyClose, DestroyDelete, DestroyStop
<1>2. /\ \A h \in Named("erase") : ~Plain(h) /\ h.h # "close"
      /\ \A h \in ConnectsOk : ~Plain(h) /\ h.h # "close"
  BY CountedNotPlain DEF Named, ConnectsOk
<1> DEFINE w == H("dowrite", IF UseQueue THEN 0 ELSE req[u], TRUE)
<1>3. One(w, Named("erase")) = 0 /\ One(w, ConnectsOk) = 0
  BY DEF One, Named, ConnectsOk, H
<1>4. /\ E(conn') = E(conn) \/ E(conn') = E(conn) + One(w, Named("erase"))
      /\ C(conn') = C(conn) \/ C(conn') = C(conn) + One(w, ConnectsOk)
  BY <1>2, TimesUser
<1> HIDE DEF E, C, w
<1>5. E(conn') = E(conn) /\ C(conn') = C(conn)
  BY <1>n, <1>3, <1>4
<1> QED
  BY <1>1, <1>5 DEF ChainsInv, E, C

\* The count, together with what it rests on.
LEMMA ChainsCorrect == Spec => [](TypeOK /\ SocketInv /\ ChainsInv)
<1>1. Init => ChainsInv
  <2> SUFFICES ASSUME Init PROVE ChainsInv
    OBVIOUS
  <2>1. conn.ready = <<>>
    BY DEF Init, do_connect, AsyncConnect
  <2>2. \A S : Places(<<>>, S) = {}
    BY DEF Places
  <2>3. \A S : Times(<<>>, S) = 0
    BY <2>2, FS_EmptySet DEF Times
  <2> QED
    BY <2>1, <2>3 DEF Init, ChainsInv, Bit
<1>2. TypeOK /\ SocketInv /\ ChainsInv /\ [Next]_vars => ChainsInv'
  <2> SUFFICES ASSUME TypeOK, SocketInv, ChainsInv, [Next]_vars PROVE ChainsInv'
    OBVIOUS
  <2>1. CASE UNCHANGED vars
    BY <2>1 DEF vars, sweepvars, netvars, ChainsInv
  <2> QED
    BY <2>1, IoChains, UserChains, NetworkChains DEF Next
<1> QED
  BY <1>1, <1>2, SocketCorrect, PTL DEF Spec

\* Throughout the first connection the passes of erase_msg_timer are one chain,
\* which neither ends nor forks: the count of the chains is that of the
\* connections, and the next connection starts another.
THEOREM OneEraseChainCorrect == Spec => []OneEraseChain
BY ChainsCorrect, ChainsAreCounted, PTL

-----------------------------------------------------------------------------
(* The messages that wait to be sent *)

\* Users between the push and the post of write().
Writers == {u \in Users : pc[u] \in {"insert", "assign", "arm", "post"}}

\* The inductive invariant: a do_write that was called in vain leaves at most one
\* message behind that none is posted for; with no such call this is
\* QueuedIsPosted, with the counts of the proofs.  And the queue stays empty when
\* it is not used.
PostedInv ==
    /\ Len(write_msg_queue_) <= Times(conn.ready, Named("dowrite")) + dropped + Cardinality(Writers)
    /\ ~UseQueue => write_msg_queue_ = <<>> /\ \A u \in Users : pc[u] # "push"

\* Some users are writing, at most all.
LEMMA WritersFinite == IsFiniteSet(Writers) /\ Cardinality(Writers) \in Nat
<1>1. Writers \in SUBSET Users
  BY DEF Writers
<1>2. IsFiniteSet(Writers)
  BY <1>1, ClientLoopAssumption, FS_Subset
<1> QED
  BY <1>2, FS_CardinalityType

\* A handler sends the oldest message, drops its turn, or finds the queue empty.
LEMMA IoPosted ==
    ASSUME TypeOK, SocketInv, PostedInv, IoThread
    PROVE  PostedInv'
<1> USE DEF queuevars, msgvars, sweepvars, calls, uservars, netvars
<1> DEFINE D(c) == Times(c.ready, Named("dowrite"))
           q == write_msg_queue_
<1>0. /\ conn \in Conn /\ q \in Seq(Req) /\ dropped \in Nat /\ conn.ready \in Seq(Handler)
      /\ Cardinality(Writers) \in Nat
  BY ConnFields, WritersFinite DEF TypeOK
<1>n. D(conn) \in Nat /\ Len(q) \in Nat
  BY <1>0, PlacesFinite, LenProperties
<1>1. pc' = pc /\ Writers' = Writers
  BY DEF IoThread, HandlerFindsClosed, HandlerFindsNull, HandleConnectOk, HandleConnectError,
         HandleReadHeader, HandleReadHeaderError, HandleReadMsg, DoWriteQueue, DoWriteDirect,
         HandleWrite, HandleWriteError, SetTimeout, DoClose, EraseStart, SweepDrop, SweepErase,
         SweepMark, SweepEnd, SweepRound, Writers
<1>2. CASE sweep.on
  <2> DEFINE h == H("erase", 0, FALSE)
  <2>1. h \in Handler /\ h.h = "erase"
    BY ClientLoopAssumption DEF H, Handler
  <2>2. UNCHANGED queuevars /\ (conn' = conn \/ conn' = Post(conn, h))
    BY <1>2, IoSteps DEF SweepRound, SweepEnd
  <2> HIDE DEF h
  <2>3. D(Post(conn, h)) = D(conn) + One(h, Named("dowrite")) /\ One(h, Named("dowrite")) = 0
    BY <1>0, <2>1, TimesPost DEF One, Named
  <2> HIDE DEF D
  <2>4. D(conn') = D(conn)
    BY <1>n, <2>2, <2>3
  <2> QED
    BY <1>1, <2>2, <2>4 DEF PostedInv, D
<1>3. CASE ~sweep.on
  <2>1. D(conn') = D(Taken) /\ D(conn) = D(Taken) + One(Job, Named("dowrite")) /\ D(Taken) \in Nat
    BY <1>3, CountedNotPlain, TimesHandler
  <2>2. Job \in Handler
    BY <1>3, HandlerQuiet
  <2> HIDE DEF D
  <2>3. CASE DoWriteQueue
    <3>1. UseQueue /\ Job.h = "dowrite" /\ do_write(Taken)
      BY <2>3 DEF DoWriteQueue, Runs, Job
    <3>2. D(conn) = D(conn') + 1
      BY <2>1, <2>2, <3>1 DEF One, Named
    <3>3. \/ q = <<>> /\ q' = q /\ dropped' \in {dropped, dropped + 1}
          \/ q' = q /\ dropped' = dropped + 1
          \/ q # <<>> /\ q' = Tail(q) /\ dropped' = dropped
      BY <3>1 DEF do_write
    <3>4. q # <<>> => Len(Tail(q)) = Len(q) - 1
      BY <1>0, HeadTailProperties
    <3>5. q = <<>> => Len(q) = 0
      BY EmptySeq
    <3>6. Len(q') <= D(conn') + dropped' + Cardinality(Writers)
      BY <1>0, <1>n, <2>1, <3>2, <3>3, <3>4, <3>5 DEF PostedInv, D
    <3> QED
      BY <1>1, <3>1, <3>6 DEF PostedInv, D
  <2>4. CASE DoWriteDirect
    <3>1. ~UseQueue /\ UNCHANGED queuevars
      BY <2>4 DEF DoWriteDirect
    <3>2. q = <<>> /\ Len(q) = 0
      BY <3>1, EmptySeq DEF PostedInv
    <3>3. Len(q') <= D(conn') + dropped' + Cardinality(Writers)
      BY <1>0, <2>1, <3>1, <3>2
    <3> QED
      BY <1>1, <3>1, <3>3 DEF PostedInv, D
  <2>5. CASE ~DoWriteQueue /\ ~DoWriteDirect
    <3>1. /\ Job.h # "dowrite"
          /\ UNCHANGED queuevars \/ (UseQueue /\ do_write(Taken))
      BY <1>3, <2>5 DEF IoThread, HandlerFindsClosed, HandlerFindsNull, HandleConnectOk,
         HandleConnectError, HandleReadHeader, HandleReadHeaderError, HandleReadMsg,
         HandleWrite, HandleWriteError, SetTimeout, DoClose, EraseStart, SweepDrop, SweepErase,
         SweepMark, SweepEnd, SweepRound, Runs, Job
    <3>2. D(conn') = D(conn)
      BY <2>1, <2>2, <3>1 DEF One, Named
    <3>3. \/ q' = q /\ dropped' = dropped
          \/ UseQueue /\ q # <<>> /\ q' = Tail(q) /\ dropped' = dropped
      BY <3>1 DEF do_write
    <3>4. q # <<>> => Len(Tail(q)) = Len(q) - 1
      BY <1>0, HeadTailProperties
    <3>5. Len(q') <= D(conn') + dropped' + Cardinality(Writers)
      BY <1>0, <1>n, <3>2, <3>3, <3>4 DEF PostedInv, D
    <3> QED
      BY <1>1, <3>3, <3>5 DEF PostedInv, D
  <2> QED
    BY <2>3, <2>4, <2>5
<1> QED
  BY <1>2, <1>3 DEF TypeOK

\* Events touch neither the queue nor the calls of do_write.
LEMMA NetworkPosted ==
    ASSUME TypeOK, SocketInv, PostedInv,
           Network \/ EraseTimerExpire \/ (\E r \in Req : TimerExpire(r))
    PROVE  PostedInv'
<1> USE DEF queuevars, msgvars, sweepvars, calls, uservars, netvars
<1> DEFINE D(c) == Times(c.ready, Named("dowrite"))
<1>0. conn.ready \in Seq(Handler)
  BY ConnFields DEF TypeOK
<1>n. D(conn) \in Nat
  BY <1>0, PlacesFinite
<1>1. UNCHANGED queuevars /\ pc' = pc /\ Writers' = Writers
  BY DEF Network, EraseTimerExpire, TimerExpire, ConnectOk, ConnectFail, ReadComplete, ReadGarbled, ReadFail,
         WriteComplete, WriteFail, PeerReply, NetBreak, Reactor, Writers
<1>2. \A h \in Handler : Event(h) => One(h, Named("dowrite")) = 0
  BY DEF Event, H, One, Named
<1>3. \/ D(conn') = D(conn)
      \/ \E h \in Handler : Event(h) /\ D(conn') = D(conn) + One(h, Named("dowrite"))
  BY TimesNetwork
<1> HIDE DEF D
<1>4. D(conn') = D(conn)
  BY <1>n, <1>2, <1>3
<1> QED
  BY <1>1, <1>4 DEF PostedInv, D

\* write() counts as a writer from its push to its post.
LEMMA UserPosted ==
    ASSUME TypeOK, SocketInv, PostedInv, NEW u \in Users, UserCall(u) \/ UserStep(u)
    PROVE  PostedInv'
<1> USE DEF queuevars, msgvars, sweepvars, calls, uservars, netvars
<1> DEFINE D(c) == Times(c.ready, Named("dowrite"))
           q == write_msg_queue_
           W == Cardinality(Writers)
<1>0. /\ q \in Seq(Req) /\ dropped \in Nat /\ conn.ready \in Seq(Handler) /\ DOMAIN pc = Users
      /\ IsFiniteSet(Writers) /\ W \in Nat
      /\ pc[u] = "push" => req[u] \in Req
  BY ConnFields, WritersFinite DEF TypeOK
<1>n. D(conn) \in Nat /\ Len(q) \in Nat
  BY <1>0, PlacesFinite, LenProperties
<1> DEFINE w == H("dowrite", IF UseQueue THEN 0 ELSE req[u], TRUE)
<1>1. \A h \in Named("dowrite") : ~Plain(h) /\ h.h # "close"
  BY CountedNotPlain DEF Named
<1>2. \/ D(conn') = D(conn)
      \/ WritePost(u) /\ w \in Handler /\ D(conn') = D(conn) + One(w, Named("dowrite"))
  BY <1>1, TimesUser
<1>3. w \in Handler => One(w, Named("dowrite")) = 1
  BY DEF One, Named, H
<1> HIDE DEF D, w
<1>4. ~UseQueue => \A v \in Users : pc[v] # "push"
  BY DEF PostedInv
<1>5. CASE WriteNew(u)
  <2>1. /\ pc[u] = "idle" /\ UNCHANGED queuevars /\ conn' = conn
        /\ \/ UseQueue /\ pc' = [pc EXCEPT ![u] = "push"]
           \/ ~UseQueue /\ pc' = [pc EXCEPT ![u] = "insert"]
    BY <1>5 DEF WriteNew, UserAt, WriteOrder
  <2>2. Writers' = Writers \/ Writers' = Writers \cup {u}
    BY <1>0, <2>1 DEF Writers
  <2>3. Cardinality(Writers') \in Nat /\ Cardinality(Writers') >= W
    <3>1. Cardinality(Writers \cup {u}) \in {W, W + 1}
      BY <1>0, FS_AddElement
    <3>2. Cardinality(Writers') \in {W, W + 1}
      BY <2>2, <3>1
    <3> QED
      BY <1>0, <3>2
  <2>4. Len(q') <= D(conn') + dropped' + Cardinality(Writers')
    BY <1>0, <1>n, <2>1, <2>3 DEF PostedInv, D
  <2>5. ~UseQueue => q' = <<>> /\ \A v \in Users : pc'[v] # "push"
    BY <1>0, <1>4, <2>1 DEF PostedInv
  <2> QED
    BY <2>4, <2>5 DEF PostedInv, D
<1>6. CASE WritePush(u)
  <2>1. /\ pc[u] = "push" /\ pc' = [pc EXCEPT ![u] = "insert"] /\ UNCHANGED <<conn, dropped>>
        /\ q' = Append(q, req[u])
    BY <1>6 DEF WritePush, UserAt, WriteOrder
  <2>2. Writers' = Writers \cup {u} /\ u \notin Writers
    BY <1>0, <2>1 DEF Writers
  <2>3. Cardinality(Writers') = W + 1
    BY <1>0, <2>2, FS_AddElement
  <2>4. Len(q') = Len(q) + 1
    BY <1>0, <2>1, AppendProperties
  <2>5. Len(q') <= D(conn') + dropped' + Cardinality(Writers')
    BY <1>0, <1>n, <2>1, <2>3, <2>4 DEF PostedInv, D
  <2> QED
    BY <1>4, <2>1, <2>5 DEF PostedInv, D
<1>7. CASE WriteInsert(u) \/ WriteAssign(u) \/ WriteArm(u)
  <2>1. /\ UNCHANGED queuevars /\ conn' = conn
        /\ pc[u] \in {"insert", "assign", "arm"}
        /\ \E there \in {"assign", "arm", "post"} : pc' = [pc EXCEPT ![u] = there]
    BY <1>7 DEF WriteInsert, WriteAssign, WriteArm, UserAt, WriteOrder
  <2>2. Writers' = Writers
    BY <1>0, <2>1 DEF Writers
  <2>3. ~UseQueue => q' = <<>> /\ \A v \in Users : pc'[v] # "push"
    BY <1>0, <1>4, <2>1 DEF PostedInv
  <2> QED
    BY <2>1, <2>2, <2>3 DEF PostedInv
<1>8. CASE WritePost(u)
  <2>1. /\ pc[u] = "post" /\ pc' = [pc EXCEPT ![u] = "idle"] /\ UNCHANGED queuevars
        /\ conn' = PostWrite(conn, req[u])
    BY <1>8 DEF WritePost, UserAt, WriteOrder
  <2>2. Writers' = Writers \ {u} /\ u \in Writers
    BY <1>0, <2>1 DEF Writers
  <2>3. Cardinality(Writers') = W - 1
    BY <1>0, <2>2, FS_RemoveElement
  <2>4. D(conn') = D(conn) + 1
    <3>1. conn \in Conn /\ req[u] \in 0..MaxReq /\ 0 \in 0..MaxReq
      BY ClientLoopAssumption DEF TypeOK
    <3>2. w \in Handler /\ conn' = Post(conn, w)
      BY <2>1, <3>1 DEF w, H, Handler, PostWrite
    <3>3. Times(Post(conn, w).ready, Named("dowrite")) = Times(conn.ready, Named("dowrite")) + One(w, Named("dowrite"))
      BY <3>1, <3>2, TimesPost
    <3> QED
      BY <1>3, <3>2, <3>3 DEF D
  <2>5. Len(q') <= D(conn') + dropped' + Cardinality(Writers')
    BY <1>0, <1>n, <2>1, <2>3, <2>4 DEF PostedInv, D
  <2>6. ~UseQueue => q' = <<>> /\ \A v \in Users : pc'[v] # "push"
    BY <1>0, <1>4, <2>1 DEF PostedInv
  <2> QED
    BY <2>5, <2>6 DEF PostedInv, D
<1>9. CASE /\ ~WriteNew(u) /\ ~WritePush(u) /\ ~WritePost(u)
           /\ ~(WriteInsert(u) \/ WriteAssign(u) \/ WriteArm(u))
  <2>1. UNCHANGED queuevars
    BY <1>9 DEF UserCall, UserStep, IsOpen, ReadFind, UserClose, Destroy, DoConnectCheck,
         DoConnectSet, DoConnectStart, ReadGet, ReadResult, ReadReturn, DestroyClose,
         DestroyDelete, DestroyStop
  <2>2. Writers' = Writers /\ (~UseQueue => \A v \in Users : pc'[v] # "push")
    <3>1. CASE Destroy(u)
      BY <3>1 DEF Destroy, Writers
    <3>2. CASE ~Destroy(u)
      <4>1. /\ pc[u] \notin {"insert", "assign", "arm", "post"}
            /\ \E there \in {"idle", "check", "set", "start", "get", "poll", "del", "delete", "stop", "done"} :
                  pc' = [pc EXCEPT ![u] = there]
        BY <1>9, <3>2 DEF UserCall, UserStep, IsOpen, ReadFind, UserClose, DoConnectCheck, DoConnectSet,
              DoConnectStart, ReadGet, ReadResult, ReadReturn, DestroyClose, DestroyDelete,
              DestroyStop, UserAt
      <4> QED
        BY <1>0, <1>4, <4>1 DEF Writers
    <3> QED
      BY <3>1, <3>2
  <2>3. D(conn') = D(conn)
    BY <1>2, <1>9
  <2> QED
    BY <2>1, <2>2, <2>3 DEF PostedInv, D
<1> QED
  BY <1>5, <1>6, <1>7, <1>8, <1>9

\* While the client was connected whenever do_write ran, a message waits in the
\* send queue only for a do_write that is posted or about to be.
THEOREM QueuedIsPostedCorrect == Spec => []QueuedIsPosted
<1>1. Init => PostedInv
  <2> SUFFICES ASSUME Init PROVE PostedInv
    OBVIOUS
  <2>1. conn.ready = <<>> /\ write_msg_queue_ = <<>> /\ dropped = 0 /\ \A u \in Users : pc[u] = "idle"
    BY DEF Init, do_connect, AsyncConnect
  <2>2. Places(<<>>, Named("dowrite")) = {} /\ Writers = {}
    BY <2>1 DEF Places, Writers
  <2>3. Times(<<>>, Named("dowrite")) = 0 /\ Cardinality(Writers) = 0 /\ Len(write_msg_queue_) = 0
    BY <2>1, <2>2, FS_EmptySet, EmptySeq DEF Times
  <2>4. 0 <= 0 + 0 + 0
    OBVIOUS
  <2>5. Len(write_msg_queue_) <= Times(conn.ready, Named("dowrite")) + dropped + Cardinality(Writers)
    BY <2>1, <2>3, <2>4
  <2> QED
    BY <2>1, <2>5 DEF PostedInv
<1>2. TypeOK /\ SocketInv /\ PostedInv /\ [Next]_vars => PostedInv'
  <2> SUFFICES ASSUME TypeOK, SocketInv, PostedInv, [Next]_vars PROVE PostedInv'
    OBVIOUS
  <2>1. CASE UNCHANGED vars
    <3>1. UNCHANGED <<conn, write_msg_queue_, dropped, pc>> /\ Writers' = Writers
      BY <2>1 DEF vars, queuevars, uservars, Writers
    <3> QED
      BY <3>1 DEF PostedInv
  <2> QED
    BY <2>1, IoPosted, UserPosted, NetworkPosted DEF Next
<1>3. TypeOK /\ PostedInv => QueuedIsPosted
  <2> SUFFICES ASSUME TypeOK, PostedInv PROVE QueuedIsPosted
    OBVIOUS
  <2>1. Count("dowrite") = Times(conn.ready, Named("dowrite"))
    BY CountTimes DEF TypeOK
  <2> DEFINE t == Times(conn.ready, Named("dowrite"))
             w == Cardinality(Writers)
             l == Len(write_msg_queue_)
  <2>2. t \in Nat /\ w \in Nat /\ l \in Nat /\ l <= t + dropped + w
    BY ConnFields, PlacesFinite, WritersFinite, LenProperties DEF TypeOK, PostedInv
  <2>3. QueuedIsPosted <=> (dropped = 0 => l <= t + w)
    BY <2>1 DEF QueuedIsPosted, Writers
  <2> HIDE DEF t, w, l
  <2>4. dropped = 0 => l <= t + w
    BY <2>2
  <2> QED
    BY <2>3, <2>4
<1> QED
  BY <1>1, <1>2, <1>3, SocketCorrect, PTL DEF Spec

-----------------------------------------------------------------------------
(* More counting *)

\* Concatenation adds the counts.
LEMMA TimesJoin ==
    ASSUME NEW T, NEW q \in Seq(T), NEW p \in Seq(T), NEW S
    PROVE  Times(q \o p, S) = Times(q, S) + Times(p, S)
<1> DEFINE c == q \o p
           n == Len(q)
           m == Len(p)
           P == Places(p, S)
           R == {i \in (n + 1)..(n + m) : p[i - n] \in S}
           f == [i \in P |-> i + n]
<1>1. n \in Nat /\ m \in Nat /\ DOMAIN q = 1..n /\ DOMAIN p = 1..m
  BY LenProperties
<1>2. DOMAIN c = 1..(n + m) /\ \A i \in 1..(n + m) : c[i] = IF i <= n THEN q[i] ELSE p[i - n]
  <2>1. c \in Seq(T) /\ Len(c) = n + m
    BY ConcatProperties
  <2> QED
    BY <2>1, ConcatProperties, LenProperties
<1> HIDE DEF c, n, m
<1>3. IsFiniteSet(P) /\ Times(p, S) \in Nat /\ IsFiniteSet(Places(q, S)) /\ Times(q, S) \in Nat
  BY PlacesFinite
<1>4. Places(c, S) = Places(q, S) \cup R
  BY <1>1, <1>2 DEF Places
<1>5. Places(q, S) \cap R = {}
  BY <1>1 DEF Places
<1>6. f \in Bijection(P, R)
  <2>1. P = {i \in 1..m : p[i] \in S}
    BY <1>1 DEF Places
  <2>2. f \in [P -> R]
    BY <1>1, <2>1
  <2>3. \A i, j \in P : f[i] = f[j] => i = j
    BY <1>1, <2>1
  <2>4. \A j \in R : \E i \in P : f[i] = j
    <3> SUFFICES ASSUME NEW j \in R PROVE \E i \in P : f[i] = j
      OBVIOUS
    <3>1. j - n \in P
      BY <1>1, <2>1
    <3>2. f[j - n] = j
      BY <1>1, <3>1
    <3> QED
      BY <3>1, <3>2
  <2> QED
    BY <2>2, <2>3, <2>4 DEF Bijection, Injection, Surjection, IsInjective
<1> HIDE DEF f
<1>7. ExistsBijection(P, R)
  BY <1>6 DEF ExistsBijection
<1>8. IsFiniteSet(R) /\ Cardinality(R) = Times(p, S)
  BY <1>3, <1>7, FS_Bijection DEF Times
<1>9. Cardinality(Places(q, S) \cup R)
      = Cardinality(Places(q, S)) + Cardinality(R) - Cardinality(Places(q, S) \cap R)
  BY <1>3, <1>8, FS_Union
<1>10. Cardinality(Places(q, S) \cap R) = 0
  BY <1>5, FS_EmptySet
<1>11. Times(c, S) = Times(q, S) + Times(p, S)
  BY <1>3, <1>4, <1>8, <1>9, <1>10 DEF Times
<1> QED
  BY <1>11 DEF c

\* No count exceeds the length; it is 0 when there is no element to count, and at
\* least 2 when there are two.
LEMMA TimesBounds ==
    ASSUME NEW T, NEW q \in Seq(T), NEW S
    PROVE  /\ Times(q, S) \in 0..Len(q)
           /\ Times(q, S) = 0 <=> \A e \in Range(q) : e \notin S
           /\ \A i, j \in DOMAIN q : i # j /\ q[i] \in S /\ q[j] \in S => Times(q, S) >= 2
<1>1. Len(q) \in Nat /\ DOMAIN q = 1..Len(q)
  BY LenProperties
<1>2. IsFiniteSet(Places(q, S)) /\ Times(q, S) \in Nat
  BY PlacesFinite
<1>3. IsFiniteSet(1..Len(q)) /\ Cardinality(1..Len(q)) = Len(q)
  BY <1>1, FS_Interval
<1>4. Places(q, S) \in SUBSET (1..Len(q))
  BY <1>1 DEF Places
<1>5. Times(q, S) <= Len(q)
  BY <1>3, <1>4, FS_Subset DEF Times
<1>6. Times(q, S) = 0 <=> Places(q, S) = {}
  BY <1>2, FS_EmptySet DEF Times
<1>7. Places(q, S) = {} <=> \A e \in Range(q) : e \notin S
  BY DEF Places, Range
<1>8. ASSUME NEW i \in DOMAIN q, NEW j \in DOMAIN q, i # j, q[i] \in S, q[j] \in S
      PROVE  Times(q, S) >= 2
  <2>1. {i} \cup {j} \in SUBSET Places(q, S)
    BY <1>8 DEF Places
  <2>2. Cardinality({i} \cup {j}) = 2
    <3>1. IsFiniteSet({i}) /\ Cardinality({i}) = 1 /\ j \notin {i}
      BY <1>8, FS_Singleton
    <3>2. Cardinality({i} \cup {j}) = Cardinality({i}) + 1
      BY <3>1, FS_AddElement
    <3>3. 1 + 1 = 2
      OBVIOUS
    <3> QED
      BY <3>1, <3>2, <3>3, Zenon
  <2>3. Cardinality({i} \cup {j}) <= Times(q, S)
    BY <1>2, <2>1, FS_Subset DEF Times
  <2> QED
    BY <1>2, <2>2, <2>3
<1> QED
  BY <1>1, <1>2, <1>5, <1>6, <1>7, <1>8

-----------------------------------------------------------------------------
(* The chains of reads *)

\* A chain of reads is at any time one connect handler that will start it, or one
\* read that is outstanding or whose handler is queued.
Reading == {x \in Handler : x.h \in {"head", "body"} \/ (x.h = "connect" /\ x.ok)}
Chained(c) == Times(c.ready, Reading) + Len(c.rops)

\* Headers that were read and whose body was not.
HeadersRead == {x \in Handler : x.h = "head" /\ x.ok}
Pending(c) == Times(c.ready, HeadersRead) + Times(c.rops, Named("body"))

\* What a connection brings is one reply after the other.
Whole(q) ==
    \A i \in 1..(Len(q) - 1) :
        IF q[i].part = "head" THEN q[i + 1].part = "body" /\ q[i + 1].id = q[i].id
                              ELSE q[i + 1].part = "head"

\* The next to be read is a header, or the body that belongs to a header.
Between(c) == IF c.inbox = <<>> THEN c.sock = "connected" ELSE Head(c.inbox).part = "head"
Amid(c) == c.inbox # <<>> /\ Head(c.inbox).part = "body"

\* A header read that comes first has no older header before it, and an older
\* header's handler runs before those that start a header read.
InTurn(c) ==
    /\ c.rops # <<>> /\ Head(c.rops).h = "head" => Pending(c) = 0
    /\ \A i, j \in DOMAIN c.ready :
          j < i /\ c.ready[i] \in HeadersRead => ~(c.ready[j].ok /\ c.ready[j].h \in {"connect", "body"})

\* The only header read is the one of the body that comes next.
InReply(c) ==
    /\ Pending(c) <= 1
    /\ \A h \in Range(c.ready) : h \in HeadersRead => h.id = Head(c.inbox).id
    /\ \A h \in Range(c.rops) : h.h = "body" => h.id \in {0, Head(c.inbox).id}

\* A body that was read is its request's (R: those received).
Got(c, R) == \A h \in Range(c.ready) : h.h = "body" /\ h.ok => h.id = 0 \/ h.id \in R

\* The state of the reads after n connections.
ReadsOk(c, n, R) ==
    /\ Chained(c) <= n
    /\ Whole(c.inbox)
    /\ c.inbox # <<>> => c.sock \in {"connected", "eof", "dead"}
    /\ c.inbox # <<>> /\ c.sock = "connected" => c.inbox[Len(c.inbox)].part = "body"
    /\ Between(c) => InTurn(c)
    /\ Amid(c) => InReply(c)
    /\ Got(c, R)

\* One chain alone: the header of a reply was read, and only it, when its body is next.
OneReply(c) == (Amid(c) => Pending(c) = 1) /\ (Between(c) => Pending(c) = 0)

-----------------------------------------------------------------------------
(* Steps that read nothing *)

\* A handler that is not the success of a connection or a read.
Barren(h) == ~(h.ok /\ h.h \in {"connect", "head", "body"})

\* The requests whose bodies are being read or were.
InBodies(c, id) == \E h \in Range(c.ready) \cup Range(c.rops) : h.h = "body" /\ h.id = id

\* Between c and d barren handlers were queued and no chain was started; the
\* reads and what is there to be read are the same, or there is no connection.
Calm(c, d) ==
    /\ \E p \in Seq(Handler) : d.ready = c.ready \o p /\ \A h \in Range(p) : Barren(h)
    /\ Chained(d) <= Chained(c)
    /\ \/ d.rops = c.rops /\ d.inbox = c.inbox /\ d.sock = c.sock
       \/ d.inbox = <<>> /\ d.sock # "connected"
    /\ \A id : InBodies(d, id) => InBodies(c, id)

\* The counts are numbers.
LEMMA ChainedType ==
    ASSUME NEW c \in Conn
    PROVE  /\ Chained(c) \in Nat /\ Times(c.ready, Reading) \in Nat /\ Len(c.rops) \in Nat
           /\ Pending(c) \in Nat /\ Times(c.ready, HeadersRead) \in Nat
           /\ Times(c.rops, Named("body")) \in Nat
<1>1. c.ready \in Seq(Handler) /\ c.rops \in Seq(Handler) /\ Len(c.rops) \in Nat
  BY ConnFields, LenProperties
<1>2. /\ Times(c.ready, Reading) \in Nat /\ Times(c.ready, HeadersRead) \in Nat
      /\ Times(c.rops, Named("body")) \in Nat
  BY <1>1, PlacesFinite
<1> QED
  BY <1>1, <1>2 DEF Chained, Pending

\* Such steps keep the state of the reads.
LEMMA CalmKeeps ==
    ASSUME NEW c \in Conn, NEW d \in Conn, NEW n \in Nat, NEW R, ReadsOk(c, n, R), Calm(c, d)
    PROVE  ReadsOk(d, n, R)
<1>1. PICK p \in Seq(Handler) : d.ready = c.ready \o p /\ \A h \in Range(p) : Barren(h)
  BY DEF Calm
<1>2. c.ready \in Seq(Handler) /\ d.ready \in Seq(Handler)
  BY ConnFields
<1>3. Range(d.ready) = Range(c.ready) \cup Range(p)
  BY <1>1, <1>2, RangeConcatenation
<1>4. Got(d, R)
  BY <1>1, <1>3 DEF Got, Barren, ReadsOk
<1>5. Chained(d) <= n
  BY ChainedType DEF Calm, ReadsOk
<1>6. CASE d.inbox = <<>> /\ d.sock # "connected"
  <2>1. Whole(d.inbox) /\ ~Between(d) /\ ~Amid(d)
    BY <1>6 DEF Whole, Between, Amid
  <2> QED
    BY <1>4, <1>5, <1>6, <2>1 DEF ReadsOk
<1>7. CASE d.rops = c.rops /\ d.inbox = c.inbox /\ d.sock = c.sock
  <2>1. Times(d.ready, HeadersRead) = Times(c.ready, HeadersRead)
    <3>1. \A h \in Range(p) : h \notin HeadersRead
      BY <1>1 DEF Barren, HeadersRead
    <3> QED
      BY <1>1, <1>2, <3>1, TimesConcat
  <2>2. Pending(d) = Pending(c) /\ (Between(d) <=> Between(c)) /\ (Amid(d) <=> Amid(c))
    BY <1>7, <2>1 DEF Pending, Between, Amid
  <2>3. Between(d) => InTurn(d)
    <3> SUFFICES ASSUME InTurn(c) PROVE InTurn(d)
      BY <2>2 DEF ReadsOk
    <3>1. ASSUME NEW i \in DOMAIN d.ready, NEW j \in DOMAIN d.ready, j < i, d.ready[i] \in HeadersRead
          PROVE  ~(d.ready[j].ok /\ d.ready[j].h \in {"connect", "body"})
      <4>1. /\ Len(c.ready) \in Nat /\ Len(p) \in Nat /\ DOMAIN c.ready = 1..Len(c.ready)
            /\ DOMAIN p = 1..Len(p) /\ DOMAIN d.ready = 1..(Len(c.ready) + Len(p))
        BY <1>1, <1>2, ConcatProperties, LenProperties
      <4>2. \A k \in 1..(Len(c.ready) + Len(p)) :
               d.ready[k] = IF k <= Len(c.ready) THEN c.ready[k] ELSE p[k - Len(c.ready)]
        BY <1>1, <1>2, ConcatProperties
      <4>3. CASE i <= Len(c.ready)
        <5>1. /\ i \in DOMAIN c.ready /\ j \in DOMAIN c.ready
              /\ d.ready[i] = c.ready[i] /\ d.ready[j] = c.ready[j]
          BY <3>1, <4>1, <4>2, <4>3
        <5> QED
          BY <3>1, <5>1 DEF InTurn
      <4>4. CASE i > Len(c.ready)
        <5>1. d.ready[i] = p[i - Len(c.ready)] /\ i - Len(c.ready) \in DOMAIN p
          <6> DEFINE k == Len(c.ready)
                     l == Len(p)
          <6>1. k \in Nat /\ l \in Nat /\ i \in 1..(k + l) /\ i > k /\ DOMAIN p = 1..l
            BY <4>1, <4>4
          <6>2. d.ready[i] = IF i <= k THEN c.ready[i] ELSE p[i - k]
            BY <4>2, <6>1
          <6> HIDE DEF k, l
          <6>3. ~(i <= k) /\ i - k \in 1..l
            BY <6>1
          <6>4. d.ready[i] = p[i - k] /\ i - k \in DOMAIN p
            BY <6>1, <6>2, <6>3
          <6> QED
            BY <6>4 DEF k
        <5>2. d.ready[i] \in Range(p)
          BY <5>1 DEF Range
        <5> QED
          BY <1>1, <3>1, <5>2 DEF HeadersRead, Barren
      <4> QED
        BY <4>1, <4>3, <4>4
    <3>2. d.rops # <<>> /\ Head(d.rops).h = "head" => Pending(d) = 0
      BY <1>7, <2>2 DEF InTurn
    <3> QED
      BY <3>1, <3>2 DEF InTurn
  <2>4. Amid(d) => InReply(d)
    <3> SUFFICES ASSUME InReply(c) PROVE InReply(d)
      BY <2>2 DEF ReadsOk
    <3>1. \A h \in Range(d.ready) : h \in HeadersRead => h \in Range(c.ready)
      BY <1>1, <1>3 DEF HeadersRead, Barren
    <3> QED
      BY <1>7, <2>2, <3>1 DEF InReply
  <2> QED
    BY <1>4, <1>5, <1>7, <2>3, <2>4 DEF ReadsOk
<1> QED
  BY <1>6, <1>7 DEF Calm

\* They keep the one chain's state too.
LEMMA CalmReply ==
    ASSUME NEW c \in Conn, NEW d \in Conn, OneReply(c), Calm(c, d)
    PROVE  OneReply(d)
<1>1. PICK p \in Seq(Handler) : d.ready = c.ready \o p /\ \A h \in Range(p) : Barren(h)
  BY DEF Calm
<1>2. Times(d.ready, HeadersRead) = Times(c.ready, HeadersRead)
  <2>1. \A h \in Range(p) : h \notin HeadersRead
    BY <1>1 DEF Barren, HeadersRead
  <2>2. c.ready \in Seq(Handler)
    BY ConnFields
  <2> QED
    BY <1>1, <2>1, <2>2, TimesConcat
<1>3. CASE d.inbox = <<>> /\ d.sock # "connected"
  BY <1>3 DEF OneReply, Between, Amid
<1>4. CASE d.rops = c.rops /\ d.inbox = c.inbox /\ d.sock = c.sock
  <2>1. Pending(d) = Pending(c) /\ (Between(d) <=> Between(c)) /\ (Amid(d) <=> Amid(c))
    BY <1>2, <1>4 DEF Pending, Between, Amid
  <2> QED
    BY <2>1 DEF OneReply
<1> QED
  BY <1>3, <1>4 DEF Calm

\* No handler was queued.
LEMMA CalmSame ==
    ASSUME NEW c \in Conn, NEW d, d.ready = c.ready, d.rops = c.rops,
           \/ d.inbox = c.inbox /\ d.sock = c.sock
           \/ d.inbox = <<>> /\ d.sock # "connected"
    PROVE  Calm(c, d)
<1>1. c.ready \in Seq(Handler)
  BY ConnFields
<1>2. c.ready \o <<>> = c.ready /\ <<>> \in Seq(Handler) /\ \A h \in Range(<<>>) : Barren(h)
  BY <1>1, ConcatEmptySeq, EmptySeq, RangeEmpty
<1>3. Chained(d) = Chained(c) /\ Chained(c) \in Nat
  BY ChainedType DEF Chained
<1>4. Chained(d) <= Chained(c)
  BY <1>3
<1>5. \A id : InBodies(d, id) => InBodies(c, id)
  BY DEF InBodies
<1> QED
  BY <1>2, <1>4, <1>5 DEF Calm

\* A handler of another kind was queued.
LEMMA CalmAppend ==
    ASSUME NEW c \in Conn, NEW d, NEW h \in Handler, h.h \notin {"head", "body"}, Barren(h),
           d.ready = Append(c.ready, h), d.rops = c.rops,
           \/ d.inbox = c.inbox /\ d.sock = c.sock
           \/ d.inbox = <<>> /\ d.sock # "connected"
    PROVE  Calm(c, d)
<1>1. c.ready \in Seq(Handler)
  BY ConnFields
<1>2. d.ready = c.ready \o <<h>>
  BY <1>1, AppendIsConcat
<1>3. <<h>> \in Seq(Handler) /\ \A g \in Range(<<h>>) : Barren(g)
  BY RangeOne
<1>4. Times(d.ready, Reading) = Times(c.ready, Reading) + One(h, Reading)
  BY <1>1, TimesAppend
<1>5. One(h, Reading) = 0
  BY DEF One, Reading, Barren
<1>6. Chained(d) <= Chained(c)
  BY <1>4, <1>5, ChainedType DEF Chained
<1>7. Range(d.ready) = Range(c.ready) \cup {h}
  BY <1>1, RangeAppend
<1>8. \A id : InBodies(d, id) => InBodies(c, id)
  BY <1>7 DEF InBodies
<1> QED
  BY <1>2, <1>3, <1>6, <1>8 DEF Calm

\* Only the contents of the fields matter.
LEMMA CalmFields ==
    ASSUME NEW c, NEW b, NEW d, Calm(c, d), b.ready = c.ready, b.rops = c.rops,
           b.inbox = c.inbox, b.sock = c.sock
    PROVE  Calm(b, d)
<1>1. Chained(b) = Chained(c) /\ \A id : InBodies(c, id) => InBodies(b, id)
  BY DEF Chained, InBodies
<1> QED
  BY <1>1 DEF Calm

\* Post() of a handler of another kind.
LEMMA CalmPost ==
    ASSUME NEW c \in Conn, NEW h \in Handler, h.h \notin {"head", "body"}, Barren(h)
    PROVE  Calm(c, Post(c, h))
BY PostFacts, CalmAppend

\* close() turns every outstanding read into a failed handler.
LEMMA CalmCloseSocket ==
    ASSUME NEW n \in Nat, NEW c \in Conn, OpsOk(c, n), NEW s \in {"closed", "null"}
    PROVE  Calm(c, [CloseSocket(c) EXCEPT !.sock = s])
<1> DEFINE x == IF c.sock = "connecting" THEN <<H("connect", 0, FALSE)>> ELSE <<>>
           a == Aborted(c.rops)
           b == Aborted(c.wops)
           r == c.ready
           d == [CloseSocket(c) EXCEPT !.sock = s]
<1>1. d.ready = ((r \o x) \o a) \o b /\ d.rops = <<>> /\ d.inbox = <<>> /\ d.sock # "connected"
  <2>1. /\ CloseSocket(c) \in Conn /\ CloseSocket(c).ready = ((r \o x) \o a) \o b
        /\ CloseSocket(c).rops = <<>> /\ CloseSocket(c).inbox = <<>>
    <3>1. CloseSocket(c) \in Conn
      BY CloseSocketType
    <3> QED
      BY <3>1 DEF CloseSocket, Conn
  <2> QED
    BY <2>1 DEF Conn
<1>3. x \in Seq(Handler) /\ \A h \in Range(x) : Barren(h) /\ h \notin Reading /\ h.h # "body"
  <2> DEFINE g == H("connect", 0, FALSE)
  <2>1. g \in Handler /\ Barren(g) /\ g \notin Reading /\ g.h # "body"
    BY ConnectErrorType DEF H, Barren, Reading
  <2> HIDE DEF g
  <2>2. <<g>> \in Seq(Handler) /\ Range(<<g>>) = {g} /\ <<>> \in Seq(Handler) /\ Range(<<>>) = {}
    BY <2>1, RangeOne, EmptySeq, RangeEmpty
  <2>3. x = <<g>> \/ x = <<>>
    BY DEF g
  <2> HIDE DEF x
  <2> QED
    BY <2>1, <2>2, <2>3
<1>4. c.rops \in Seq(Handler) /\ c.wops \in Seq(Handler) /\ r \in Seq(Handler)
  BY ConnFields
<1>5. /\ \A h \in Range(c.rops) : h \in Handler /\ h.h \in {"head", "body"}
      /\ \A h \in Range(c.wops) : h \in Handler /\ h.h = "written"
  BY <1>4, RangeOfSeq DEF OpsOk
<1>6. ASSUME NEW h \in Handler
      PROVE  LET g == [h EXCEPT !.ok = FALSE] IN Barren(g) /\ g.h = h.h /\ g.id = h.id
  BY DEF Handler, Barren
<1>7. /\ a \in Seq(Handler) /\ Len(a) = Len(c.rops) /\ b \in Seq(Handler)
      /\ Range(a) = {[h EXCEPT !.ok = FALSE] : h \in Range(c.rops)}
      /\ Range(b) = {[h EXCEPT !.ok = FALSE] : h \in Range(c.wops)}
  BY <1>4, AbortedType, RangeAborted
<1> HIDE DEF x, a, b, r, d
<1>8. /\ \A h \in Range(a) : Barren(h) /\ \E g \in Range(c.rops) : g.h = h.h /\ g.id = h.id
      /\ \A h \in Range(b) : Barren(h) /\ h.h = "written"
  <2>1. ASSUME NEW h \in Range(a)
        PROVE  Barren(h) /\ \E g \in Range(c.rops) : g.h = h.h /\ g.id = h.id
    <3> PICK g \in Range(c.rops) : h = [g EXCEPT !.ok = FALSE]
      BY <1>7
    <3>1. Barren(h) /\ g.h = h.h /\ g.id = h.id
      BY <1>5, <1>6
    <3> QED
      BY <3>1
  <2>2. ASSUME NEW h \in Range(b) PROVE Barren(h) /\ h.h = "written"
    <3> PICK g \in Range(c.wops) : h = [g EXCEPT !.ok = FALSE]
      BY <1>7
    <3> QED
      BY <1>5, <1>6
  <2> QED
    BY <2>1, <2>2
<1>9. \A h \in Range(b) : h \notin Reading
  BY <1>8 DEF Reading
<1> DEFINE q == x \o a
           p == q \o b
<1>10. q \in Seq(Handler) /\ Range(q) = Range(x) \cup Range(a)
  BY <1>3, <1>7, ConcatProperties, RangeConcatenation
<1>11. (r \o x) \o a = r \o q
  <2>1. r \in Seq(Handler) /\ x \in Seq(Handler) /\ a \in Seq(Handler)
    BY <1>3, <1>4, <1>7
  <2> QED
    BY <2>1, ConcatAssoc, Zenon
<1>12. Times(r \o q, Reading) <= Times(r, Reading) + Len(c.rops)
  <2> DEFINE t == r \o x
  <2>1. t \in Seq(Handler) /\ Times(t, Reading) = Times(r, Reading)
    BY <1>3, <1>4, ConcatProperties, TimesConcat
  <2> HIDE DEF t
  <2>2. Times(t \o a, Reading) = Times(t, Reading) + Times(a, Reading)
    BY <1>7, <2>1, TimesJoin
  <2>3. Times(a, Reading) \in 0..Len(a) /\ Len(a) \in Nat
    BY <1>7, TimesBounds, LenProperties
  <2>4. Times(t, Reading) \in Nat
    BY <2>1, PlacesFinite
  <2>5. t \o a = r \o q
    BY <1>11 DEF t
  <2> HIDE DEF q
  <2> QED
    BY <1>7, <2>1, <2>2, <2>3, <2>4, <2>5
<1> HIDE DEF q
<1>13. p \in Seq(Handler) /\ Range(p) = Range(q) \cup Range(b)
  BY <1>7, <1>10, ConcatProperties, RangeConcatenation
<1>14. (r \o q) \o b = r \o p
  <2>1. r \in Seq(Handler) /\ q \in Seq(Handler) /\ b \in Seq(Handler)
    BY <1>4, <1>7, <1>10
  <2> QED
    BY <2>1, ConcatAssoc, Zenon
<1>15. Times((r \o q) \o b, Reading) = Times(r \o q, Reading)
  <2> DEFINE t == r \o q
  <2>1. t \in Seq(Handler)
    BY <1>4, <1>10, ConcatProperties
  <2> HIDE DEF t
  <2>2. Times(t \o b, Reading) = Times(t, Reading)
    BY <1>7, <1>9, <2>1, TimesConcat
  <2> QED
    BY <2>2 DEF t
<1>16. d.ready = r \o p
  BY <1>1, <1>11, <1>14
<1> HIDE DEF p
<1>17. Chained(d) <= Chained(c)
  <2>1. Times(d.ready, Reading) = Times(r \o q, Reading)
    BY <1>14, <1>15, <1>16
  <2>2. Len(d.rops) = 0 /\ Len(c.rops) \in Nat /\ Times(r, Reading) \in Nat
    BY <1>1, <1>4, PlacesFinite, EmptySeq, LenProperties
  <2>3. Times(r \o q, Reading) \in Nat
    BY <1>4, <1>10, ConcatProperties, PlacesFinite
  <2> QED
    BY <1>12, <2>1, <2>2, <2>3 DEF Chained, r
<1>18. Range(d.ready) = Range(r) \cup Range(p)
  BY <1>4, <1>13, <1>16, RangeConcatenation
<1>19. ASSUME NEW id, InBodies(d, id) PROVE InBodies(c, id)
  <2>1. PICK h \in Range(d.ready) : h.h = "body" /\ h.id = id
    BY <1>1, <1>19, RangeEmpty DEF InBodies
  <2>2. h \in Range(r) \/ h \in Range(a)
    BY <1>3, <1>8, <1>10, <1>13, <1>18, <2>1
  <2> QED
    BY <1>8, <2>1, <2>2 DEF InBodies, r
<1>20. \A h \in Range(p) : Barren(h)
  BY <1>3, <1>8, <1>10, <1>13
<1>21. Calm(c, d)
  BY <1>1, <1>13, <1>16, <1>17, <1>19, <1>20 DEF Calm, r
<1> QED
  BY <1>21 DEF d

\* A socket that was never connected has nothing to be read.
LEMMA CalmConnect ==
    ASSUME NEW c \in Conn, c.inbox # <<>> => c.sock \in {"connected", "eof", "dead"}
    PROVE  Calm(c, AsyncConnect(c)) /\ Calm(c, do_connect(c))
<1> DEFINE g == H("connect", 0, FALSE)
<1>1. g \in Handler /\ Barren(g) /\ g.h = "connect"
  BY ConnectErrorType DEF H, Barren
<1>2. ASSUME NEW b \in Conn, b.sock = "closed" => b.inbox = <<>> PROVE Calm(b, AsyncConnect(b))
  <2>1. CASE b.sock = "closed"
    <3> DEFINE d == [b EXCEPT !.sock = "connecting"]
    <3>1. d.ready = b.ready /\ d.rops = b.rops /\ d.inbox = b.inbox /\ d.sock = "connecting"
      BY DEF Conn
    <3> HIDE DEF d
    <3>2. Calm(b, d)
      BY <1>2, <2>1, <3>1, CalmSame
    <3> QED
      BY <2>1, <3>2 DEF AsyncConnect, d
  <2>2. CASE b.sock # "closed"
    BY <1>1, <2>2, CalmPost DEF AsyncConnect
  <2> QED
    BY <2>1, <2>2
<1>3. Calm(c, do_connect(c))
  <2> DEFINE d == [c EXCEPT !.status = "CONN"]
  <2>1. d \in Conn /\ d.ready = c.ready /\ d.rops = c.rops /\ d.sock = c.sock /\ d.inbox = c.inbox
    BY DEF Conn
  <2>2. do_connect(c) = c \/ do_connect(c) = AsyncConnect(d)
    BY DEF do_connect
  <2> HIDE DEF d
  <2>3. Calm(d, AsyncConnect(d))
    BY <1>2, <2>1
  <2>4. Calm(c, c) /\ Calm(c, AsyncConnect(d))
    BY <2>1, <2>3, CalmSame, CalmFields
  <2> QED
    BY <2>2, <2>4
<1> QED
  BY <1>2, <1>3

\* A store to clietn_status.
LEMMA CalmStatus ==
    ASSUME NEW c \in Conn, NEW s
    PROVE  Calm(c, [c EXCEPT !.status = s])
<1> DEFINE d == [c EXCEPT !.status = s]
<1>1. d.ready = c.ready /\ d.rops = c.rops /\ d.sock = c.sock /\ d.inbox = c.inbox
  BY DEF Conn
<1> HIDE DEF d
<1>2. Calm(c, d)
  BY <1>1, CalmSame
<1> QED
  BY <1>2 DEF d

\* Closing, after a store to clietn_status.
LEMMA CalmCloseStatus ==
    ASSUME NEW n \in Nat, NEW c \in Conn, OpsOk(c, n),
           NEW s \in {"UNKNOWN", "CONN", "CONN_OK", "CONN_CLOSE", "ERROR"}
    PROVE  Calm(c, CloseSocket([c EXCEPT !.status = s]))
<1> DEFINE d == [c EXCEPT !.status = s]
           e == CloseSocket(d)
<1>1. d \in Conn
  BY ConnExcept
<1>2. OpsOk(d, n) /\ d.ready = c.ready /\ d.rops = c.rops /\ d.sock = c.sock /\ d.inbox = c.inbox
  BY StatusOps
<1> HIDE DEF d
<1>3. Calm(d, [e EXCEPT !.sock = "closed"])
  BY <1>1, <1>2, CalmCloseSocket
<1>4. e \in Conn /\ e.sock = "closed"
  BY <1>1, CloseSocketType, CloseSocketFacts
<1>5. [e EXCEPT !.sock = "closed"] = e
  <2> HIDE DEF e
  <2> QED
    BY <1>4 DEF Conn
<1>6. Calm(d, e)
  BY <1>3, <1>5
<1>7. Calm(c, e)
  BY <1>2, <1>6, CalmFields
<1> QED
  BY <1>7 DEF d

\* do_close(), in each of its outcomes.
LEMMA CalmDoClose ==
    ASSUME NEW n \in Nat, NEW c \in Conn, OpsOk(c, n), do_close(c)
    PROVE  Calm(c, conn')
<1> DEFINE d == [c EXCEPT !.status = "CONN_CLOSE"]
<1>1. conn' = c \/ conn' = d \/ conn' = CloseSocket(d)
  BY DEF do_close
<1>2. Calm(c, c) /\ Calm(c, d) /\ Calm(c, CloseSocket(d))
  BY CalmSame, CalmStatus, CalmCloseStatus
<1> QED
  BY <1>1, <1>2

\* async_write.
LEMMA CalmWrite ==
    ASSUME NEW n \in Nat, NEW c \in Conn, OpsOk(c, n), NEW r \in 0..MaxReq
    PROVE  Calm(c, AsyncWrite(c, r))
<1> DEFINE d == AsyncWrite(c, r)
           g == H("written", r, FALSE)
<1>1. g \in Handler /\ Barren(g) /\ g.h = "written"
  BY DEF H, Handler, Barren
<1>2. /\ d.rops = c.rops /\ d.inbox = c.inbox /\ d.sock = c.sock
      /\ d.ready = c.ready \/ d.ready = Append(c.ready, g)
  BY AsyncWriteFacts
<1> HIDE DEF d, g
<1>3. Calm(c, d)
  BY <1>1, <1>2, CalmSame, CalmAppend
<1> QED
  BY <1>3 DEF d

-----------------------------------------------------------------------------
(* Steps that read *)

\* The queue without its first handler.
LEMMA TakenReads ==
    ASSUME NEW n \in Nat, NEW R, conn \in Conn, conn.ready # <<>>, ReadsOk(conn, n, R)
    PROVE  /\ ReadsOk(Taken, n, R)
           /\ Chained(conn) = Chained(Taken) + One(Job, Reading)
           /\ Pending(conn) = Pending(Taken) + One(Job, HeadersRead)
           /\ Between(conn) /\ Job.ok /\ Job.h \in {"connect", "body"} =>
                 \A h \in Range(Taken.ready) : h \notin HeadersRead
<1>1. /\ Range(conn.ready) = {Job} \cup Range(Taken.ready) /\ Taken.ready = Tail(conn.ready)
      /\ Taken.sock = conn.sock /\ Taken.rops = conn.rops /\ Taken.inbox = conn.inbox
  BY TakenFacts
<1>2. conn.ready \in Seq(Handler) /\ Taken.ready \in Seq(Handler) /\ Taken \in Conn
  BY TakenType, ConnFields
<1>3. /\ Times(conn.ready, Reading) = Times(Taken.ready, Reading) + One(Job, Reading)
      /\ Times(conn.ready, HeadersRead) = Times(Taken.ready, HeadersRead) + One(Job, HeadersRead)
  BY <1>1, <1>2, TimesTail DEF Job
<1>4. /\ Chained(conn) = Chained(Taken) + One(Job, Reading)
      /\ Pending(conn) = Pending(Taken) + One(Job, HeadersRead)
  <2>1. One(Job, Reading) \in Nat /\ One(Job, HeadersRead) \in Nat
    BY DEF One
  <2>2. /\ Times(Taken.ready, Reading) \in Nat /\ Times(Taken.ready, HeadersRead) \in Nat
        /\ Len(Taken.rops) \in Nat /\ Times(Taken.rops, Named("body")) \in Nat
    BY <1>2, ChainedType
  <2> QED
    BY <1>1, <1>3, <2>1, <2>2 DEF Chained, Pending
<1>5. One(Job, Reading) \in Nat /\ One(Job, HeadersRead) \in Nat
  BY DEF One
<1>6. Chained(Taken) <= n /\ Pending(Taken) <= Pending(conn) /\ Pending(Taken) \in Nat
  <2>1. Chained(Taken) \in Nat /\ Pending(Taken) \in Nat
    BY <1>2, ChainedType
  <2>2. Chained(conn) <= n
    BY DEF ReadsOk
  <2> QED
    BY <1>4, <1>5, <2>1, <2>2
<1>7. (Between(Taken) <=> Between(conn)) /\ (Amid(Taken) <=> Amid(conn))
  BY <1>1 DEF Between, Amid
<1>8. /\ Len(conn.ready) \in Nat \ {0} /\ DOMAIN conn.ready = 1..Len(conn.ready)
      /\ DOMAIN Taken.ready = 1..(Len(conn.ready) - 1) /\ Job = conn.ready[1]
      /\ \A i \in 1..(Len(conn.ready) - 1) : Taken.ready[i] = conn.ready[i + 1]
  <2>1. Len(Taken.ready) = Len(conn.ready) - 1
    BY <1>1, <1>2, HeadTailProperties
  <2>2. /\ Len(conn.ready) \in Nat \ {0} /\ DOMAIN conn.ready = 1..Len(conn.ready)
        /\ DOMAIN Taken.ready = 1..Len(Taken.ready) /\ Job = conn.ready[1]
    BY <1>2, LenProperties, EmptySeq, HeadTailProperties DEF Job
  <2>3. \A i \in 1..(Len(conn.ready) - 1) : Taken.ready[i] = conn.ready[i + 1]
    BY <1>1, <1>2, <2>1, HeadTailProperties
  <2> QED
    BY <2>1, <2>2, <2>3
<1>9. Between(Taken) => InTurn(Taken)
  <2> SUFFICES ASSUME InTurn(conn) PROVE InTurn(Taken)
    BY <1>7 DEF ReadsOk
  <2>1. ASSUME NEW i \in DOMAIN Taken.ready, NEW j \in DOMAIN Taken.ready, j < i,
               Taken.ready[i] \in HeadersRead
        PROVE  ~(Taken.ready[j].ok /\ Taken.ready[j].h \in {"connect", "body"})
    <3>1. /\ i + 1 \in DOMAIN conn.ready /\ j + 1 \in DOMAIN conn.ready /\ j + 1 < i + 1
          /\ Taken.ready[i] = conn.ready[i + 1] /\ Taken.ready[j] = conn.ready[j + 1]
      <4> DEFINE k == Len(conn.ready)
      <4>1. k \in Nat /\ i \in 1..(k - 1) /\ j \in 1..(k - 1) /\ DOMAIN conn.ready = 1..k
        BY <1>8, <2>1
      <4>2. Taken.ready[i] = conn.ready[i + 1] /\ Taken.ready[j] = conn.ready[j + 1]
        BY <1>8, <4>1
      <4> HIDE DEF k
      <4>3. i + 1 \in 1..k /\ j + 1 \in 1..k /\ j + 1 < i + 1
        BY <2>1, <4>1
      <4> QED
        BY <4>1, <4>2, <4>3
    <3> QED
      BY <2>1, <3>1 DEF InTurn
  <2>2. Taken.rops # <<>> /\ Head(Taken.rops).h = "head" => Pending(Taken) = 0
    BY <1>1, <1>6 DEF InTurn
  <2> QED
    BY <2>1, <2>2 DEF InTurn
<1>10. Amid(Taken) => InReply(Taken)
  <2> SUFFICES ASSUME InReply(conn) PROVE InReply(Taken)
    BY <1>7 DEF ReadsOk
  <2>1. Pending(Taken) <= 1
    BY <1>2, <1>6, ChainedType DEF InReply
  <2> QED
    BY <1>1, <2>1 DEF InReply
<1>11. ReadsOk(Taken, n, R)
  BY <1>1, <1>6, <1>9, <1>10 DEF ReadsOk, Got
<1>12. ASSUME Between(conn), Job.ok, Job.h \in {"connect", "body"}, NEW h \in Range(Taken.ready)
       PROVE  h \notin HeadersRead
  <2>1. Range(Taken.ready) = {Taken.ready[i] : i \in 1..Len(Taken.ready)}
    BY <1>2, RangeEquality
  <2>2. PICK i \in DOMAIN Taken.ready : h = Taken.ready[i]
    BY <1>2, <2>1, LenProperties
  <2>3. i + 1 \in DOMAIN conn.ready /\ 1 \in DOMAIN conn.ready /\ 1 < i + 1 /\ h = conn.ready[i + 1]
    BY <1>8, <2>2
  <2> QED
    BY <1>8, <1>12, <2>3 DEF ReadsOk, InTurn
<1> QED
  BY <1>4, <1>11, <1>12

\* A chain goes on with a header read, or with the body of the header it read.
LEMMA ReadStarts ==
    ASSUME NEW n \in Nat, NEW m \in Nat, NEW R, NEW c \in Conn, OpsOk(c, m), ReadsOk(c, n, R),
           Chained(c) + 1 <= n, NEW k \in {"head", "body"}, NEW id \in 0..MaxReq,
           k = "head" /\ Between(c) /\ c.rops = <<>> => \A h \in Range(c.ready) : h \notin HeadersRead,
           k = "body" /\ Between(c) /\ c.rops # <<>> => Head(c.rops).h # "head",
           k = "body" /\ Amid(c) => Pending(c) = 0 /\ id \in {0, Head(c.inbox).id}
    PROVE  ReadsOk(AsyncRead(c, H(k, id, TRUE)), n, R)
<1> DEFINE h == H(k, id, TRUE)
           d == AsyncRead(c, h)
<1>1. h \in Handler /\ h.h = k /\ h.id = id
  BY DEF H, Handler
<1>2. c.ready \in Seq(Handler) /\ c.rops \in Seq(Handler)
  BY ConnFields
<1> HIDE DEF h
<1>3. CASE c.sock = "closed"
  <2> DEFINE g == [h EXCEPT !.ok = FALSE]
  <2>1. g \in Handler /\ g.h = h.h /\ ~g.ok
    BY <1>1 DEF Handler
  <2>2. d = Post(c, g)
    BY <1>3 DEF AsyncRead
  <2> HIDE DEF g, d
  <2>3. /\ d.ready = Append(c.ready, g) /\ Range(d.ready) = Range(c.ready) \cup {g}
        /\ d.sock = c.sock /\ d.rops = c.rops /\ d.inbox = c.inbox
    BY <2>1, <2>2, PostFacts
  <2>4. d.inbox = <<>> /\ ~Between(d) /\ ~Amid(d)
    BY <1>3, <2>3 DEF ReadsOk, Between, Amid
  <2>5. Chained(d) <= n
    <3>1. Times(d.ready, Reading) = Times(c.ready, Reading) + One(g, Reading)
      BY <1>2, <2>1, <2>3, TimesAppend
    <3>2. One(g, Reading) \in 0..1
      BY DEF One
    <3> DEFINE t == Times(c.ready, Reading)
               l == Len(c.rops)
               o == One(g, Reading)
    <3>3. Chained(d) = (t + o) + l /\ Chained(c) = t + l /\ t \in Nat /\ l \in Nat /\ o \in 0..1
      BY <2>3, <3>1, <3>2, ChainedType DEF Chained
    <3> HIDE DEF t, l, o
    <3> QED
      BY <3>3
  <2>6. Got(d, R)
    BY <2>1, <2>3 DEF Got, ReadsOk
  <2> QED
    BY <2>3, <2>4, <2>5, <2>6 DEF ReadsOk, d, h
<1>4. CASE c.sock # "closed"
  <2>1. d = [c EXCEPT !.rops = Append(c.rops, h)]
    BY <1>4 DEF AsyncRead
  <2>2. /\ d.ready = c.ready /\ d.rops = Append(c.rops, h) /\ d.sock = c.sock /\ d.inbox = c.inbox
    BY <2>1 DEF Conn
  <2> HIDE DEF d
  <2>3. /\ Range(d.rops) = Range(c.rops) \cup {h} /\ Len(d.rops) = Len(c.rops) + 1
        /\ Head(d.rops) = (IF c.rops = <<>> THEN h ELSE Head(c.rops))
    BY <1>1, <1>2, <2>2, RangeAppend, AppendProperties, HeadTailAppend
  <2>4. Chained(d) <= n
    BY <2>2, <2>3, ChainedType DEF Chained
  <2>5. Pending(d) = Pending(c) + (IF k = "body" THEN 1 ELSE 0)
    <3>1. Times(d.rops, Named("body")) = Times(c.rops, Named("body")) + One(h, Named("body"))
      BY <1>1, <1>2, <2>2, TimesAppend
    <3>2. One(h, Named("body")) = IF k = "body" THEN 1 ELSE 0
      BY <1>1 DEF One, Named
    <3> QED
      BY <2>2, <3>1, <3>2, ChainedType DEF Pending
  <2>6. Pending(c) \in Nat
    BY ChainedType
  <2>7. (Between(d) <=> Between(c)) /\ (Amid(d) <=> Amid(c))
    BY <2>2 DEF Between, Amid
  <2>8. ASSUME Between(d) PROVE InTurn(d)
    <3>1. InTurn(c) /\ Between(c)
      BY <2>7, <2>8 DEF ReadsOk
    <3>2. ASSUME Head(d.rops).h = "head" PROVE Pending(d) = 0
      <4>1. k = "head"
        BY <1>1, <2>3, <3>1, <3>2
      <4>2. CASE c.rops # <<>>
        BY <2>3, <2>5, <2>6, <3>1, <3>2, <4>1, <4>2 DEF InTurn
      <4>3. CASE c.rops = <<>>
        <5>1. Times(c.ready, HeadersRead) = 0
          BY <1>2, <3>1, <4>1, <4>3, TimesBounds
        <5>2. Times(c.rops, Named("body")) = 0
          BY <1>2, <4>3, RangeEmpty, TimesBounds
        <5> QED
          BY <2>5, <4>1, <5>1, <5>2 DEF Pending
      <4> QED
        BY <4>2, <4>3
    <3> QED
      BY <2>2, <3>1, <3>2 DEF InTurn
  <2>9. ASSUME Amid(d) PROVE InReply(d)
    <3>1. InReply(c) /\ Amid(c)
      BY <2>7, <2>9 DEF ReadsOk
    <3>2. Pending(d) <= 1
      BY <2>5, <2>6, <3>1 DEF InReply
    <3> QED
      BY <1>1, <2>2, <2>3, <3>1, <3>2 DEF InReply
  <2> QED
    BY <2>2, <2>4, <2>8, <2>9 DEF ReadsOk, Got, d, h
<1> QED
  BY <1>3, <1>4

\* In d there are m more headers without a body than in c, or no connection.
More(c, d, m) ==
    \/ ~Between(d) /\ ~Amid(d)
    \/ Pending(d) = Pending(c) + m /\ (Between(d) <=> Between(c)) /\ (Amid(d) <=> Amid(c))

\* A body read that is started counts.
LEMMA ReadPending ==
    ASSUME NEW c \in Conn, c.inbox # <<>> => c.sock \in {"connected", "eof", "dead"},
           NEW k \in {"head", "body"}, NEW id \in 0..MaxReq
    PROVE  More(c, AsyncRead(c, H(k, id, TRUE)), IF k = "body" THEN 1 ELSE 0)
<1> DEFINE h == H(k, id, TRUE)
           d == AsyncRead(c, h)
<1>1. h \in Handler /\ h.h = k
  BY DEF H, Handler
<1>2. c.rops \in Seq(Handler)
  BY ConnFields
<1> HIDE DEF h
<1> SUFFICES More(c, d, IF k = "body" THEN 1 ELSE 0)
  BY DEF h
<1>3. CASE c.sock = "closed"
  <2> DEFINE g == [h EXCEPT !.ok = FALSE]
  <2>1. g \in Handler
    BY <1>1 DEF Handler
  <2>2. d = Post(c, g)
    BY <1>3 DEF AsyncRead
  <2> HIDE DEF g, d
  <2>3. d.sock = c.sock /\ d.inbox = c.inbox
    BY <2>1, <2>2, PostFacts
  <2> QED
    BY <1>3, <2>3 DEF More, Between, Amid
<1>4. CASE c.sock # "closed"
  <2>0. d = [c EXCEPT !.rops = Append(c.rops, h)]
    BY <1>4 DEF AsyncRead
  <2>1. /\ d.ready = c.ready /\ d.rops = Append(c.rops, h) /\ d.sock = c.sock /\ d.inbox = c.inbox
    BY <2>0 DEF Conn
  <2> HIDE DEF d
  <2>2. Times(d.rops, Named("body")) = Times(c.rops, Named("body")) + One(h, Named("body"))
    BY <1>1, <1>2, <2>1, TimesAppend
  <2>3. One(h, Named("body")) = IF k = "body" THEN 1 ELSE 0
    BY <1>1 DEF One, Named
  <2>4. Pending(d) = Pending(c) + (IF k = "body" THEN 1 ELSE 0)
    BY <2>1, <2>2, <2>3, ChainedType DEF Pending
  <2>5. (Between(d) <=> Between(c)) /\ (Amid(d) <=> Amid(c))
    BY <2>1 DEF Between, Amid
  <2> QED
    BY <2>4, <2>5 DEF More
<1> QED
  BY <1>3, <1>4

\* A new connection: its handler comes behind the one chain that there may be.
LEMMA ReadsConnect ==
    ASSUME NEW n \in 0..1, NEW R, NEW c \in Conn, ReadsOk(c, n, R), c.sock = "connecting"
    PROVE  /\ ReadsOk(Post([c EXCEPT !.sock = "connected"], H("connect", 0, TRUE)), n + 1, R)
           /\ n = 0 => OneReply(Post([c EXCEPT !.sock = "connected"], H("connect", 0, TRUE)))
<1> DEFINE b == [c EXCEPT !.sock = "connected"]
           h == H("connect", 0, TRUE)
           d == Post(b, h)
<1>1. h \in Handler /\ h.h = "connect" /\ h.ok
  BY ClientLoopAssumption DEF H, Handler
<1>2. b \in Conn /\ b.ready = c.ready /\ b.rops = c.rops /\ b.inbox = c.inbox /\ b.sock = "connected"
  BY DEF Conn
<1> HIDE DEF b, h
<1>3. /\ d.ready = Append(c.ready, h) /\ Range(d.ready) = Range(c.ready) \cup {h}
      /\ d.rops = c.rops /\ d.inbox = c.inbox /\ d.sock = "connected"
  <2>1. /\ d.ready = Append(b.ready, h) /\ Range(d.ready) = Range(b.ready) \cup {h}
        /\ d.rops = b.rops /\ d.inbox = b.inbox /\ d.sock = b.sock
    BY <1>1, <1>2, PostFacts
  <2> QED
    BY <1>2, <2>1
<1> HIDE DEF d
<1>4. c.inbox = <<>> /\ Chained(c) <= n
  BY DEF ReadsOk
<1>5. c.ready \in Seq(Handler) /\ c.rops \in Seq(Handler)
  BY ConnFields
<1>6. /\ Times(d.ready, Reading) = Times(c.ready, Reading) + One(h, Reading)
      /\ Times(d.ready, HeadersRead) = Times(c.ready, HeadersRead) + One(h, HeadersRead)
  BY <1>1, <1>3, <1>5, TimesAppend
<1>7. One(h, Reading) = 1 /\ One(h, HeadersRead) = 0
  BY <1>1 DEF One, Reading, HeadersRead
<1>8. Chained(d) <= n + 1 /\ Pending(d) = Pending(c)
  <2>1. /\ Times(c.ready, Reading) \in Nat /\ Times(c.ready, HeadersRead) \in Nat
        /\ Len(c.rops) \in Nat /\ Times(c.rops, Named("body")) \in Nat
    BY ChainedType
  <2>2. Chained(d) = Chained(c) + 1
    <3> DEFINE k == Times(c.ready, Reading)
               l == Len(c.rops)
    <3>1. Chained(d) = (k + 1) + l
      BY <1>3, <1>6, <1>7 DEF Chained
    <3>2. Chained(c) = k + l /\ k \in Nat /\ l \in Nat
      BY <2>1 DEF Chained
    <3> HIDE DEF k, l
    <3> QED
      BY <3>1, <3>2
  <2>3. Pending(d) = Pending(c)
    BY <1>3, <1>6, <1>7, <2>1 DEF Pending
  <2>4. Chained(c) \in Nat
    BY ChainedType
  <2> QED
    BY <1>4, <2>2, <2>3, <2>4
<1>9. ASSUME c.rops # <<>>, Head(c.rops).h = "head" PROVE Pending(c) = 0
  <2>1. Len(c.rops) \in Nat /\ Len(c.rops) > 0
    BY <1>5, <1>9, LenProperties, EmptySeq
  <2>2. Len(c.rops) = 1 /\ Times(c.ready, Reading) = 0
    <3>1. /\ Times(c.ready, Reading) \in Nat /\ Chained(c) = Times(c.ready, Reading) + Len(c.rops)
          /\ Chained(c) <= n /\ n <= 1
      BY <1>4, ChainedType DEF Chained
    <3>2. \A t, l \in Nat : l > 0 /\ t + l <= 1 => l = 1 /\ t = 0
      OBVIOUS
    <3>3. n \in Int /\ Chained(c) \in Int
      BY ChainedType
    <3>4. Times(c.ready, Reading) + Len(c.rops) <= 1
      BY <3>1, <3>3
    <3> QED
      BY <2>1, <3>1, <3>2, <3>4
  <2>3. \A x \in Range(c.ready) : x \notin HeadersRead
    <3>1. \A x \in Range(c.ready) : x \notin Reading
      BY <1>5, <2>2, TimesBounds
    <3> QED
      BY <3>1 DEF Reading, HeadersRead
  <2>4. Range(c.rops) = {Head(c.rops)}
    <3>1. Range(c.rops) = {Head(c.rops)} \cup Range(Tail(c.rops))
      BY <1>5, <1>9, RangeTail
    <3>2. Tail(c.rops) \in Seq(Handler) /\ Len(Tail(c.rops)) = 0
      BY <1>5, <1>9, <2>2, HeadTailProperties
    <3>3. Tail(c.rops) = <<>>
      BY <3>2, EmptySeq
    <3> QED
      BY <3>1, <3>3, RangeEmpty
  <2>5. \A x \in Range(c.rops) : x \notin Named("body")
    BY <1>9, <2>4 DEF Named
  <2>6. Times(c.ready, HeadersRead) = 0 /\ Times(c.rops, Named("body")) = 0
    BY <1>5, <2>3, <2>5, TimesBounds
  <2> QED
    BY <2>6 DEF Pending
<1>10. ASSUME NEW i \in DOMAIN d.ready, NEW j \in DOMAIN d.ready, j < i, d.ready[i] \in HeadersRead
       PROVE  ~(d.ready[j].ok /\ d.ready[j].h \in {"connect", "body"})
  <2>1. /\ Len(c.ready) \in Nat /\ DOMAIN c.ready = 1..Len(c.ready)
        /\ DOMAIN d.ready = 1..(Len(c.ready) + 1) /\ d.ready[Len(c.ready) + 1] = h
        /\ \A k \in 1..Len(c.ready) : d.ready[k] = c.ready[k]
    <3>1. d.ready \in Seq(Handler) /\ Len(d.ready) = Len(c.ready) + 1
      BY <1>1, <1>3, <1>5, AppendProperties
    <3> QED
      BY <1>1, <1>3, <1>5, <3>1, AppendProperties, LenProperties
  <2>2. i # Len(c.ready) + 1
    BY <1>1, <1>10, <2>1 DEF HeadersRead
  <2>3. /\ i \in DOMAIN c.ready /\ j \in DOMAIN c.ready /\ i # j
        /\ d.ready[i] = c.ready[i] /\ d.ready[j] = c.ready[j]
    <3> DEFINE k == Len(c.ready)
    <3>1. k \in Nat /\ i \in 1..(k + 1) /\ j \in 1..(k + 1) /\ j < i /\ i # k + 1
      BY <1>10, <2>1, <2>2
    <3> HIDE DEF k
    <3>2. i \in 1..k /\ j \in 1..k /\ i # j
      BY <3>1
    <3> QED
      BY <2>1, <3>2 DEF k
  <2>4. SUFFICES ASSUME d.ready[j].ok, d.ready[j].h \in {"connect", "body"} PROVE FALSE
    OBVIOUS
  <2>5. c.ready[i] \in Reading /\ c.ready[j] \in Reading
    <3>1. c.ready[j] \in Handler
      BY <1>5, <2>3
    <3> QED
      BY <1>10, <2>3, <2>4, <3>1 DEF HeadersRead, Reading
  <2>6. Times(c.ready, Reading) >= 2
    BY <1>5, <2>3, <2>5, TimesBounds
  <2> QED
    BY <1>4, <2>6, ChainedType DEF Chained
<1>11. InTurn(d) /\ ~Amid(d)
  BY <1>3, <1>4, <1>8, <1>9, <1>10 DEF InTurn, Amid
<1>12. Got(d, R)
  BY <1>1, <1>3 DEF Got, ReadsOk
<1>13. ReadsOk(d, n + 1, R)
  BY <1>3, <1>4, <1>8, <1>11, <1>12 DEF ReadsOk
<1>14. ASSUME n = 0 PROVE Pending(c) = 0
  <2>1. Times(c.ready, Reading) = 0 /\ Len(c.rops) = 0
    BY <1>4, <1>14, ChainedType DEF Chained
  <2>2. \A x \in Range(c.ready) : x \notin HeadersRead
    <3>1. \A x \in Range(c.ready) : x \notin Reading
      BY <1>5, <2>1, TimesBounds
    <3> QED
      BY <3>1 DEF Reading, HeadersRead
  <2>3. \A x \in Range(c.rops) : x \notin Named("body")
    BY <1>5, <2>1, EmptySeq, RangeEmpty
  <2> QED
    BY <1>5, <2>2, <2>3, TimesBounds DEF Pending
<1>15. n = 0 => OneReply(d)
  BY <1>8, <1>11, <1>14 DEF OneReply
<1> QED
  BY <1>13, <1>15 DEF d, b, h

\* The rest of what a connection brings.
LEMMA WholeTail ==
    ASSUME NEW q \in Seq(Fragment), q # <<>>, Whole(q)
    PROVE  /\ Tail(q) \in Seq(Fragment) /\ Whole(Tail(q)) /\ Head(q) \in Fragment
           /\ Tail(q) = <<>> => q[Len(q)] = Head(q)
           /\ Tail(q) # <<>> =>
                 /\ Tail(q)[Len(Tail(q))] = q[Len(q)]
                 /\ Head(q).part = "head" => Head(Tail(q)).part = "body" /\ Head(Tail(q)).id = Head(q).id
                 /\ Head(q).part = "body" => Head(Tail(q)).part = "head"
<1> DEFINE t == Tail(q)
           n == Len(q)
<1>1. /\ t \in Seq(Fragment) /\ n \in Nat \ {0} /\ Len(t) = n - 1
      /\ \A i \in 1..(n - 1) : t[i] = q[i + 1]
      /\ Head(q) = q[1] /\ q[1] \in Fragment
  <2>1. t \in Seq(Fragment) /\ n \in Nat \ {0} /\ Len(t) = n - 1 /\ Head(q) = q[1] /\ Head(q) \in Fragment
    BY HeadTailProperties, LenProperties, EmptySeq
  <2>2. \A i \in 1..Len(t) : t[i] = q[i + 1]
    BY HeadTailProperties
  <2> QED
    BY <2>1, <2>2
<1>2. t = <<>> => n = 1
  <2>1. t = <<>> => Len(t) = 0
    BY EmptySeq
  <2> HIDE DEF t, n
  <2> QED
    BY <1>1, <2>1
<1>3. t # <<>> => n > 1 /\ Head(t) = t[1] /\ t[1] = q[2] /\ t[n - 1] = q[n]
  <2>1. t # <<>> => Len(t) \in Nat \ {0} /\ Head(t) = t[1]
    BY <1>1, EmptySeq, HeadTailProperties
  <2> HIDE DEF t, n
  <2> QED
    BY <1>1, <2>1
<1> HIDE DEF t, n
<1>4. Whole(t)
  <2> SUFFICES ASSUME NEW i \in 1..(Len(t) - 1)
               PROVE  IF t[i].part = "head" THEN t[i + 1].part = "body" /\ t[i + 1].id = t[i].id
                                            ELSE t[i + 1].part = "head"
    BY DEF Whole
  <2>1. i + 1 \in 1..(n - 1) /\ t[i] = q[i + 1] /\ t[i + 1] = q[(i + 1) + 1]
    BY <1>1
  <2> QED
    BY <2>1 DEF Whole, n
<1>5. t # <<>> => IF q[1].part = "head" THEN q[2].part = "body" /\ q[2].id = q[1].id ELSE q[2].part = "head"
  <2>1. ASSUME t # <<>> PROVE 1 \in 1..(n - 1) /\ 1 + 1 = 2
    BY <1>1, <1>3, <2>1
  <2> QED
    BY <2>1 DEF Whole, n
<1>6. t # <<>> => /\ t[Len(t)] = q[n]
                  /\ Head(q).part = "head" => Head(t).part = "body" /\ Head(t).id = Head(q).id
                  /\ Head(q).part = "body" => Head(t).part = "head"
  BY <1>1, <1>3, <1>5
<1> QED
  BY <1>1, <1>2, <1>4, <1>6 DEF t, n

\* The oldest read gets the next part.
LEMMA ReadsComplete ==
    ASSUME NEW n \in Nat, NEW m \in Nat, conn \in Conn, OpsOk(conn, m), ReadsOk(conn, n, received),
           ReadComplete
    PROVE  ReadsOk(conn', n, received') /\ OneReply(conn')
<1> DEFINE op == Head(conn.rops)
           f == Head(conn.inbox)
           c == [conn EXCEPT !.rops = Tail(@), !.inbox = Tail(@)]
           g == IF op.h = "head" THEN H("head", f.id, TRUE) ELSE op
           q == conn.inbox
           t == Tail(conn.inbox)
           s == Tail(conn.rops)
<1>1. /\ conn.rops \in Seq(Handler) /\ conn.rops # <<>> /\ q \in Seq(Fragment) /\ q # <<>>
      /\ conn.ready \in Seq(Handler)
  BY ConnFields DEF ReadComplete
<1>2. op \in Handler /\ op.h \in {"head", "body"} /\ s \in Seq(Handler)
  BY <1>1, FirstOp DEF OpsOk
<1>3. /\ t \in Seq(Fragment) /\ Whole(t) /\ f \in Fragment
      /\ t = <<>> => q[Len(q)] = f
      /\ t # <<>> => /\ t[Len(t)] = q[Len(q)]
                     /\ f.part = "head" => Head(t).part = "body" /\ Head(t).id = f.id
                     /\ f.part = "body" => Head(t).part = "head"
  BY <1>1, WholeTail DEF ReadsOk
<1>4. /\ c \in Conn /\ c.ready = conn.ready /\ c.rops = s /\ c.inbox = t /\ c.sock = conn.sock
  BY <1>2, <1>3 DEF Conn
<1>5. g \in Handler
  <2>1. op \in Handler /\ f.id \in 1..MaxReq /\ MaxReq \in Nat
    BY <1>2, <1>3, ClientLoopAssumption DEF Fragment, Req
  <2>2. H("head", f.id, TRUE) \in Handler
    BY <2>1 DEF H, Handler
  <2> QED
    BY <2>1, <2>2
<1>6. /\ op.h = f.part /\ conn' = Post(c, g)
      /\ received' = IF op.h = "body" THEN received \cup {f.id} ELSE received
  BY DEF ReadComplete
<1>7. op.h = "head" => g.h = "head" /\ g.id = f.id /\ g.ok
  BY DEF H
<1>8. op.h = "body" => g = op
  OBVIOUS
<1>9. /\ Times(conn.rops, Named("body")) = Times(s, Named("body")) + One(op, Named("body"))
      /\ Len(s) = Len(conn.rops) - 1 /\ Len(conn.rops) \in Nat
      /\ Range(conn.rops) = {op} \cup Range(s)
  BY <1>1, TimesTail, HeadTailProperties, LenProperties, RangeTail
<1>10. ReadsOk(conn, n, received)
  OBVIOUS
<1>11. (f.part = "head" => Between(conn)) /\ (f.part = "body" => Amid(conn))
  BY <1>1 DEF Between, Amid
<1> HIDE DEF op, f, c, g, q, t, s
<1>12. /\ conn'.ready = Append(conn.ready, g) /\ Range(conn'.ready) = Range(conn.ready) \cup {g}
       /\ conn'.rops = s /\ conn'.inbox = t /\ conn'.sock = conn.sock
  <2>1. /\ conn'.ready = Append(c.ready, g) /\ Range(conn'.ready) = Range(c.ready) \cup {g}
        /\ conn'.rops = c.rops /\ conn'.inbox = c.inbox /\ conn'.sock = c.sock
    BY <1>4, <1>5, <1>6, PostFacts
  <2> QED
    BY <1>4, <2>1
<1>13. /\ Times(conn'.ready, Reading) = Times(conn.ready, Reading) + One(g, Reading)
       /\ Times(conn'.ready, HeadersRead) = Times(conn.ready, HeadersRead) + One(g, HeadersRead)
  BY <1>1, <1>5, <1>12, TimesAppend
<1>14. Chained(conn') <= n
  <2>1. One(g, Reading) \in 0..1
    BY DEF One
  <2>2. /\ Chained(conn) <= n /\ Times(conn.ready, Reading) \in Nat
        /\ Chained(conn) = Times(conn.ready, Reading) + Len(conn.rops)
    BY <1>10, ChainedType DEF ReadsOk, Chained
  <2>3. Chained(conn') = Times(conn'.ready, Reading) + Len(s)
    BY <1>12 DEF Chained
  <2> QED
    BY <1>9, <1>13, <2>1, <2>2, <2>3
<1>15. /\ t # <<>> => conn.sock \in {"connected", "eof", "dead"}
       /\ t # <<>> /\ conn.sock = "connected" => t[Len(t)].part = "body"
       /\ t = <<>> /\ conn.sock = "connected" => f.part = "body"
  BY <1>1, <1>3, <1>10 DEF ReadsOk, q
<1>16. CASE op.h = "head"
  <2>1. Pending(conn) = 0
    BY <1>1, <1>6, <1>10, <1>11, <1>16 DEF ReadsOk, InTurn, op
  <2>2. Times(conn.ready, HeadersRead) = 0 /\ Times(conn.rops, Named("body")) = 0
    BY <2>1, ChainedType DEF Pending
  <2>3. /\ \A h \in Range(conn.ready) : h \notin HeadersRead
        /\ \A h \in Range(conn.rops) : h \notin Named("body")
    BY <1>1, <2>2, TimesBounds
  <2>4. ~Between(conn')
    BY <1>3, <1>6, <1>12, <1>15, <1>16 DEF Between
  <2>7. Pending(conn') = 1
    <3>1. /\ One(g, HeadersRead) = 1 /\ One(op, Named("body")) \in 0..1
          /\ Times(s, Named("body")) \in Nat
      BY <1>2, <1>5, <1>7, <1>16, PlacesFinite DEF One, HeadersRead
    <3>2. Pending(conn') = Times(conn'.ready, HeadersRead) + Times(s, Named("body"))
      BY <1>12 DEF Pending
    <3> QED
      BY <1>9, <1>13, <2>2, <3>1, <3>2
  <2>5. ASSUME Amid(conn') PROVE InReply(conn')
    <3>1. Head(conn'.inbox).id = f.id
      BY <1>3, <1>6, <1>12, <1>16, <2>5 DEF Amid
    <3>2. \A h \in Range(conn'.ready) : h \in HeadersRead => h.id = f.id
      BY <1>7, <1>12, <1>16, <2>3
    <3>3. \A h \in Range(conn'.rops) : h.h # "body"
      <4>1. s \in Seq(Handler)
        BY <1>2
      <4>2. \A h \in Range(s) : h \in Handler
        BY <4>1, RangeOfSeq
      <4> QED
        BY <1>9, <1>12, <2>3, <4>2 DEF Named
    <3> QED
      BY <2>7, <3>1, <3>2, <3>3 DEF InReply
  <2>6. Got(conn', received')
    BY <1>6, <1>7, <1>10, <1>12, <1>16 DEF ReadsOk, Got
  <2> QED
    BY <1>3, <1>12, <1>14, <1>15, <2>4, <2>5, <2>6, <2>7 DEF ReadsOk, OneReply
<1>17. CASE op.h = "body"
  <2>1. InReply(conn) /\ Head(conn.inbox) = f /\ f.id \in received'
    BY <1>6, <1>10, <1>11, <1>17 DEF ReadsOk, f
  <2>2. op.id \in {0, f.id}
    BY <1>9, <1>17, <2>1 DEF InReply
  <2>3. One(op, Named("body")) = 1 /\ One(g, HeadersRead) = 0
    BY <1>2, <1>8, <1>17 DEF One, Named, HeadersRead
  <2>4. Times(conn'.ready, HeadersRead) = 0 /\ Times(s, Named("body")) = 0
    <3>1. /\ Pending(conn) <= 1 /\ Pending(conn) = Times(conn.ready, HeadersRead) + Times(conn.rops, Named("body"))
          /\ Times(conn.ready, HeadersRead) \in Nat
      BY <2>1, ChainedType DEF InReply, Pending
    <3>2. Times(s, Named("body")) \in Nat
      BY <1>2, PlacesFinite
    <3> QED
      BY <1>9, <1>13, <2>3, <3>1, <3>2
  <2>5. Pending(conn') = 0
    BY <1>12, <2>4 DEF Pending
  <2>6. \A h \in Range(conn'.ready) : h \notin HeadersRead
    <3>1. conn'.ready \in Seq(Handler)
      BY <1>1, <1>5, <1>12, AppendProperties
    <3> QED
      BY <2>4, <3>1, TimesBounds
  <2>7. InTurn(conn')
    <3>1. \A i \in DOMAIN conn'.ready : conn'.ready[i] \in Range(conn'.ready)
      BY DEF Range
    <3> QED
      BY <2>5, <2>6, <3>1 DEF InTurn
  <2>8. ~Amid(conn')
    BY <1>3, <1>6, <1>12, <1>17 DEF Amid
  <2>9. Got(conn', received')
    BY <1>6, <1>8, <1>10, <1>12, <1>17, <2>1, <2>2 DEF ReadsOk, Got
  <2> QED
    BY <1>3, <1>12, <1>14, <1>15, <2>5, <2>7, <2>8, <2>9 DEF ReadsOk, OneReply
<1> QED
  BY <1>2, <1>16, <1>17

\* A handler of a completed operation or an expired timer that reads nothing.
LEMMA CalmEvent ==
    ASSUME NEW m \in Nat, conn \in Conn, OpsOk(conn, m),
           conn.inbox # <<>> => conn.sock \in {"connected", "eof", "dead"},
           \/ ConnectFail \/ ReadFail \/ WriteComplete \/ WriteFail \/ EraseTimerExpire
           \/ \E r \in Req : TimerExpire(r)
    PROVE  Calm(conn, conn')
<1>z. 0 \in 0..MaxReq
  BY ClientLoopAssumption
<1>1. CASE ConnectFail
  <2> DEFINE d == [conn EXCEPT !.sock = "dead"]
             h == H("connect", 0, FALSE)
  <2>1. h \in Handler /\ h.h = "connect" /\ Barren(h)
    BY <1>z DEF H, Handler, Barren
  <2>2. /\ d \in Conn /\ d.ready = conn.ready /\ d.rops = conn.rops /\ d.inbox = conn.inbox /\ d.sock = "dead"
    BY DEF Conn
  <2>3. conn' = Post(d, h) /\ conn.sock = "connecting"
    BY <1>1 DEF ConnectFail
  <2> HIDE DEF d, h
  <2>4. /\ conn'.ready = Append(conn.ready, h) /\ conn'.rops = conn.rops
        /\ conn'.inbox = conn.inbox /\ conn'.sock = "dead"
    BY <2>1, <2>2, <2>3, PostFacts
  <2>5. conn'.inbox = <<>>
    BY <2>3, <2>4
  <2> QED
    BY <2>1, <2>4, <2>5, CalmAppend
<1>2. CASE ReadFail
  <2> DEFINE d == [conn EXCEPT !.rops = Tail(@)]
             op == Head(conn.rops)
             h == [op EXCEPT !.ok = FALSE]
  <2>1. conn.rops \in Seq(Handler) /\ conn.rops # <<>> /\ conn.ready \in Seq(Handler)
    BY <1>2, ConnFields DEF ReadFail
  <2>2. /\ h \in Handler /\ h.h = op.h /\ h.h \in {"head", "body"} /\ ~h.ok /\ op \in Handler
        /\ Tail(conn.rops) \in Seq(Handler) /\ op \in Range(conn.rops)
        /\ Range(Tail(conn.rops)) \subseteq Range(conn.rops)
    BY <2>1, FirstOp DEF OpsOk
  <2>3. h.id = op.id
    BY <2>2 DEF Handler
  <2>4. d \in Conn /\ d.ready = conn.ready /\ d.rops = Tail(conn.rops) /\ d.inbox = conn.inbox /\ d.sock = conn.sock
    BY <2>2 DEF Conn
  <2>5. conn' = Post(d, h) /\ conn.inbox = <<>> /\ conn.sock \in {"eof", "dead"}
    BY <1>2 DEF ReadFail
  <2> HIDE DEF d, h, op
  <2>6. /\ conn'.ready = Append(conn.ready, h) /\ conn'.rops = Tail(conn.rops)
        /\ conn'.inbox = conn.inbox /\ conn'.sock = conn.sock
        /\ Range(conn'.ready) = Range(conn.ready) \cup {h}
    BY <2>2, <2>4, <2>5, PostFacts
  <2>7. conn'.ready = conn.ready \o <<h>> /\ <<h>> \in Seq(Handler) /\ \A g \in Range(<<h>>) : Barren(g)
    <3>1. conn.ready \o <<h>> = Append(conn.ready, h)
      BY <2>1, <2>2, AppendIsConcat
    <3>2. <<h>> \in Seq(Handler) /\ Range(<<h>>) = {h}
      BY <2>2, RangeOne
    <3> QED
      BY <2>2, <2>6, <3>1, <3>2 DEF Barren
  <2>8. Chained(conn') <= Chained(conn)
    <3>1. Times(conn'.ready, Reading) = Times(conn.ready, Reading) + One(h, Reading)
      BY <2>1, <2>2, <2>6, TimesAppend
    <3>2. One(h, Reading) \in 0..1 /\ Len(Tail(conn.rops)) = Len(conn.rops) - 1
      BY <2>1, HeadTailProperties DEF One
    <3>3. Times(conn.ready, Reading) \in Nat /\ Len(conn.rops) \in Nat
      BY ChainedType
    <3> QED
      BY <2>6, <3>1, <3>2, <3>3 DEF Chained
  <2>9. ASSUME NEW id, InBodies(conn', id) PROVE InBodies(conn, id)
    <3>1. PICK x \in Range(conn'.ready) \cup Range(conn'.rops) : x.h = "body" /\ x.id = id
      BY <2>9 DEF InBodies
    <3>2. CASE x = h
      BY <2>2, <2>3, <3>1, <3>2 DEF InBodies
    <3>3. CASE x # h
      BY <2>2, <2>6, <3>1, <3>3 DEF InBodies
    <3> QED
      BY <3>2, <3>3
  <2> QED
    BY <2>5, <2>6, <2>7, <2>8, <2>9 DEF Calm
<1>3. ASSUME conn.wops # <<>>, NEW h \in Handler, h.h = "written",
             NEW d, d = [conn EXCEPT !.wops = Tail(@)],
             conn' = Post(d, h) \/ \E r : conn' = [Post(d, h) EXCEPT !.asked = @ \cup {r}]
      PROVE  Calm(conn, conn')
  <2>1. conn.wops \in Seq(Handler)
    BY ConnFields
  <2>2. Tail(conn.wops) \in Seq(Handler)
    BY <1>3, <2>1, FirstOp
  <2>3. d \in Conn /\ d.ready = conn.ready /\ d.rops = conn.rops /\ d.inbox = conn.inbox /\ d.sock = conn.sock
    BY <1>3, <2>2 DEF Conn
  <2> DEFINE c == Post(d, h)
  <2>4. /\ c \in Conn /\ c.ready = Append(conn.ready, h) /\ c.rops = conn.rops
        /\ c.inbox = conn.inbox /\ c.sock = conn.sock
    BY <2>3, PostFacts, PostType
  <2>5. conn' = c \/ \E r : conn' = [c EXCEPT !.asked = @ \cup {r}]
    BY <1>3
  <2> HIDE DEF c
  <2>6. conn'.ready = c.ready /\ conn'.rops = c.rops /\ conn'.inbox = c.inbox /\ conn'.sock = c.sock
    BY <2>4, <2>5 DEF Conn
  <2>7. Barren(h)
    BY <1>3 DEF Barren
  <2> QED
    BY <1>3, <2>4, <2>6, <2>7, CalmAppend
<1>4. CASE WriteComplete \/ WriteFail
  <2> DEFINE d == [conn EXCEPT !.wops = Tail(@)]
             a == Head(conn.wops)
             b == [a EXCEPT !.ok = FALSE]
  <2>1. conn.wops \in Seq(Handler) /\ conn.wops # <<>>
    BY <1>4, ConnFields DEF WriteComplete, WriteFail
  <2>2. a \in Handler /\ b \in Handler /\ a.h = "written" /\ b.h = "written"
    BY <2>1, FirstOp DEF OpsOk
  <2>3. \/ conn' = Post(d, b) \/ conn' = Post(d, a)
        \/ \E r : conn' = [Post(d, a) EXCEPT !.asked = @ \cup {r}]
    BY <1>4 DEF WriteComplete, WriteFail
  <2> HIDE DEF a, b
  <2> QED
    BY <1>3, <2>1, <2>2, <2>3
<1>5. CASE EraseTimerExpire
  <2> DEFINE h == H("erase", 0, TRUE)
  <2>1. h \in Handler /\ h.h \notin {"head", "body"} /\ Barren(h) /\ conn' = Post(conn, h)
    BY <1>5, <1>z DEF H, Handler, Barren, EraseTimerExpire
  <2> HIDE DEF h
  <2> QED
    BY <2>1, CalmPost
<1>6. ASSUME NEW r \in Req, TimerExpire(r) PROVE Calm(conn, conn')
  <2> DEFINE h == H("timeout", r, TRUE)
  <2>1. h \in Handler /\ h.h \notin {"head", "body"} /\ Barren(h) /\ conn' = Post(conn, h)
    BY <1>6, ClientLoopAssumption DEF Req, H, Handler, Barren, TimerExpire
  <2> HIDE DEF h
  <2> QED
    BY <2>1, CalmPost
<1> QED
  BY <1>1, <1>2, <1>4, <1>5, <1>6

\* What the peer sent goes on, or is cut.
LEMMA ReadsInbox ==
    ASSUME NEW n, NEW R, NEW c \in Conn, NEW d, ReadsOk(c, n, R), d.ready = c.ready, d.rops = c.rops,
           Whole(d.inbox),
           d.inbox # <<>> => d.sock \in {"connected", "eof", "dead"},
           d.inbox # <<>> /\ d.sock = "connected" => d.inbox[Len(d.inbox)].part = "body",
           d.inbox = <<>> => d.sock # "connected",
           d.inbox # <<>> /\ c.inbox # <<>> => Head(d.inbox) = Head(c.inbox),
           d.inbox # <<>> /\ c.inbox = <<>> => Head(d.inbox).part = "head" /\ c.sock = "connected"
    PROVE  ReadsOk(d, n, R) /\ (OneReply(c) => OneReply(d))
<1>1. Chained(d) = Chained(c) /\ Pending(d) = Pending(c) /\ (Got(c, R) <=> Got(d, R))
  BY DEF Chained, Pending, Got
<1>2. InTurn(c) => InTurn(d)
  BY <1>1 DEF InTurn
<1>3. Between(d) => Between(c)
  BY DEF Between
<1>4. Amid(d) => Amid(c) /\ Head(d.inbox) = Head(c.inbox)
  BY DEF Amid
<1>5. InReply(c) /\ Head(d.inbox) = Head(c.inbox) => InReply(d)
  BY <1>1 DEF InReply
<1> QED
  BY <1>1, <1>2, <1>3, <1>4, <1>5 DEF ReadsOk, OneReply

\* One reply more.
LEMMA ReadsReply ==
    ASSUME NEW n, NEW R, conn \in Conn, ReadsOk(conn, n, R), NEW r \in Req, PeerReply(r)
    PROVE  ReadsOk(conn', n, R) /\ (OneReply(conn) => OneReply(conn'))
<1> DEFINE x == [part |-> "head", id |-> r]
           y == [part |-> "body", id |-> r]
           m == <<x, y>>
           q == conn.inbox
           p == q \o m
           k == Len(q)
<1>1. /\ x \in Fragment /\ y \in Fragment /\ x.id = r /\ y.id = r /\ x.part = "head" /\ y.part = "body"
  BY DEF Fragment
<1>2. conn' = [conn EXCEPT !.inbox = p] /\ conn.sock = "connected"
  BY DEF PeerReply
<1> HIDE DEF x, y
<1>3. m \in Seq(Fragment) /\ Len(m) = 2 /\ m[1] = x /\ m[2] = y
  BY <1>1
<1> HIDE DEF m
<1>4. q \in Seq(Fragment) /\ k \in Nat
  BY ConnFields, LenProperties
<1>5. p \in Seq(Fragment) /\ Len(p) = k + 2 /\ \A i \in 1..(k + 2) : p[i] = IF i <= k THEN q[i] ELSE m[i - k]
  <2>1. /\ p \in Seq(Fragment) /\ Len(p) = Len(q) + Len(m)
        /\ \A i \in 1..(Len(q) + Len(m)) : p[i] = IF i <= Len(q) THEN q[i] ELSE m[i - Len(q)]
    BY <1>3, <1>4, ConcatProperties
  <2> HIDE DEF p
  <2> QED
    BY <1>3, <1>4, <2>1
<1> HIDE DEF p
<1>6. conn'.inbox = p /\ conn'.ready = conn.ready /\ conn'.rops = conn.rops /\ conn'.sock = "connected"
  BY <1>2 DEF Conn
<1>7. q = <<>> <=> k = 0
  BY <1>4, EmptySeq
<1>8. q # <<>> => q[k].part = "body" /\ Head(q) = q[1]
  BY <1>2, <1>4, HeadTailProperties DEF ReadsOk
<1>9. p # <<>> /\ Head(p) = p[1]
  <2>1. Len(p) # 0
    BY <1>4, <1>5
  <2>2. p # <<>>
    BY <2>1, EmptySeq
  <2> QED
    BY <1>5, <2>2, HeadTailProperties
<1>w. Whole(q)
  BY DEF ReadsOk
<1> HIDE DEF q, k
<1>10. p[k + 1] = x /\ p[k + 2] = y /\ \A i \in 1..k : p[i] = q[i]
  BY <1>3, <1>4, <1>5
<1>11. Whole(p)
  <2> SUFFICES ASSUME NEW i \in 1..(k + 1)
               PROVE  IF p[i].part = "head" THEN p[i + 1].part = "body" /\ p[i + 1].id = p[i].id
                                            ELSE p[i + 1].part = "head"
    BY <1>4, <1>5 DEF Whole
  <2>1. CASE i <= k - 1
    <3>1. i \in 1..(k - 1) /\ i + 1 \in 1..k /\ i \in 1..k
      BY <1>4, <2>1
    <3>2. IF q[i].part = "head" THEN q[i + 1].part = "body" /\ q[i + 1].id = q[i].id
                                ELSE q[i + 1].part = "head"
      BY <1>w, <3>1 DEF Whole, k
    <3> QED
      BY <1>10, <3>1, <3>2
  <2>2. CASE i = k
    <3>1. p[i] = q[k] /\ p[i + 1] = x /\ q # <<>>
      BY <1>4, <1>7, <1>10, <2>2
    <3> QED
      BY <1>1, <1>8, <3>1
  <2>3. CASE i = k + 1
    <3>1. p[i] = x /\ p[i + 1] = y
      BY <1>4, <1>10, <2>3
    <3> QED
      BY <1>1, <3>1
  <2> QED
    BY <1>4, <2>1, <2>2, <2>3
<1>12. p[Len(p)].part = "body"
  BY <1>1, <1>5, <1>10
<1>13. q # <<>> => Head(p) = Head(q)
  BY <1>4, <1>7, <1>8, <1>9, <1>10
<1>14. q = <<>> => Head(p) = x
  BY <1>4, <1>7, <1>9, <1>10
<1>15. conn.inbox = q
  BY DEF q
<1> QED
  BY <1>1, <1>2, <1>6, <1>9, <1>11, <1>12, <1>13, <1>14, <1>15, ReadsInbox

\* The connection ends after any part of what was sent.
LEMMA ReadsBreak ==
    ASSUME NEW n, NEW R, conn \in Conn, ReadsOk(conn, n, R), NEW how \in {"eof", "dead"}, NetBreak(how)
    PROVE  ReadsOk(conn', n, R) /\ (OneReply(conn) => OneReply(conn'))
<1> DEFINE q == conn.inbox
           k == Len(q)
<1> PICK j \in 0..Len(conn.inbox) :
        conn' = [conn EXCEPT !.sock = how, !.asked = {}, !.inbox = SubSeq(@, 1, j)]
  BY DEF NetBreak
<1> DEFINE p == SubSeq(q, 1, j)
<1>1. q \in Seq(Fragment) /\ k \in Nat
  BY ConnFields, LenProperties
<1>2. \A i \in 1..j : q[i] \in Fragment
  BY <1>1
<1>3. p \in Seq(Fragment) /\ Len(p) = j /\ \A i \in 1..j : p[i] = q[i]
  BY <1>1, <1>2, SubSeqProperties
<1>4. conn'.inbox = p /\ conn'.ready = conn.ready /\ conn'.rops = conn.rops /\ conn'.sock = how
  BY DEF Conn
<1>5. /\ p # <<>> => j # 0 /\ Head(p) = p[1]
      /\ q # <<>> => Head(q) = q[1]
      /\ q = <<>> => k = 0
  BY <1>1, <1>3, EmptySeq, HeadTailProperties
<1>w. Whole(q) /\ j \in 0..k
  BY DEF ReadsOk
<1>15. conn.inbox = q
  BY DEF q
<1> HIDE DEF p
<1>6. Whole(p)
  <2> SUFFICES ASSUME NEW i \in 1..(j - 1)
               PROVE  IF p[i].part = "head" THEN p[i + 1].part = "body" /\ p[i + 1].id = p[i].id
                                            ELSE p[i + 1].part = "head"
    BY <1>3 DEF Whole
  <2>1. i \in 1..(k - 1) /\ i \in 1..j /\ i + 1 \in 1..j
    BY <1>1, <1>w
  <2>2. IF q[i].part = "head" THEN q[i + 1].part = "body" /\ q[i + 1].id = q[i].id
                              ELSE q[i + 1].part = "head"
    BY <1>w, <2>1 DEF Whole
  <2> QED
    BY <1>3, <2>1, <2>2
<1> HIDE DEF q, k
<1>7. p # <<>> => q # <<>> /\ Head(p) = Head(q)
  BY <1>1, <1>3, <1>5, <1>w
<1>8. /\ conn'.ready = conn.ready /\ conn'.rops = conn.rops /\ Whole(conn'.inbox)
      /\ conn'.sock \in {"eof", "dead"} /\ conn'.sock # "connected"
      /\ conn'.inbox # <<>> => conn.inbox # <<>> /\ Head(conn'.inbox) = Head(conn.inbox)
  BY <1>4, <1>6, <1>7, <1>15
<1>9. Chained(conn') = Chained(conn) /\ Pending(conn') = Pending(conn) /\ (Got(conn, R) => Got(conn', R))
  BY <1>8 DEF Chained, Pending, Got
<1>10. Between(conn') => Between(conn)
  BY <1>8 DEF Between
<1>11. Amid(conn') => Amid(conn) /\ Head(conn'.inbox) = Head(conn.inbox)
  BY <1>8 DEF Amid
<1>12. InTurn(conn) => InTurn(conn')
  BY <1>8, <1>9 DEF InTurn
<1>13. InReply(conn) /\ Head(conn'.inbox) = Head(conn.inbox) => InReply(conn')
  BY <1>8, <1>9 DEF InReply
<1> QED
  BY <1>8, <1>9, <1>10, <1>11, <1>12, <1>13 DEF ReadsOk, OneReply

\* A handler of the io thread reads nothing, or goes on with the chain it belongs to.
LEMMA HandlerReading ==
    ASSUME TypeOK, SocketInv, conn.inbox # <<>> => conn.sock \in {"connected", "eof", "dead"},
           IoThread, ~sweep.on
    PROVE  \/ Calm(Taken, conn')
           \/ /\ HandleConnectOk /\ Job.h = "connect" /\ Job.ok
              /\ conn' = AsyncRead([Taken EXCEPT !.status = "CONN_OK"], H("head", 0, TRUE))
           \/ /\ HandleReadHeader /\ Job.h = "head" /\ Job.ok
              /\ \E id \in {0, Job.id} : conn' = AsyncRead(Taken, H("body", id, TRUE))
           \/ /\ HandleReadMsg /\ Job.h = "body" /\ Job.ok
              /\ conn' = AsyncRead(Taken, H("head", 0, TRUE))
<1> USE DEF queuevars, msgvars, sweepvars, calls, uservars, netvars
<1>0. /\ conn.ready # <<>> /\ conn \in Conn /\ closes \in Nat /\ OpsOk(conn, closes)
  BY IoSteps DEF TypeOK, SocketInv, SweepRound, SweepEnd
<1>t. /\ Taken \in Conn /\ Job \in Handler /\ OpsOk(Taken, closes) /\ Job.id \in 0..MaxReq
      /\ Taken.inbox = conn.inbox /\ Taken.sock = conn.sock
  BY <1>0, TakenType, TakenOps, TakenFacts DEF Handler
<1>s. Calm(Taken, Taken)
  BY <1>t, CalmSame
<1>1. CASE HandlerFindsClosed
  BY <1>1, <1>t, CalmConnect DEF HandlerFindsClosed
<1>2. CASE HandlerFindsNull
  BY <1>2, <1>s, <1>t, CalmStatus DEF HandlerFindsNull, Connected
<1>3. CASE HandleConnectOk
  BY <1>3 DEF HandleConnectOk, Connected, do_read_head, Runs, Job
<1>4. CASE HandleConnectError
  BY <1>0, <1>4, <1>t, CalmCloseStatus DEF HandleConnectError, NotConnected
<1>5. CASE HandleReadHeader
  <2>1. conn' = Taken \/ \E id \in {0, Job.id} : conn' = AsyncRead(Taken, H("body", id, TRUE))
    BY <1>5 DEF HandleReadHeader, do_read_msg, Into
  <2>2. Job.h = "head" /\ Job.ok
    BY <1>5 DEF HandleReadHeader, Runs, Job
  <2> QED
    BY <1>5, <1>s, <2>1, <2>2
<1>6. CASE HandleReadHeaderError \/ HandleWriteError \/ DoClose
  <2>1. do_close(Taken)
    BY <1>6 DEF HandleReadHeaderError, HandleWriteError, DoClose
  <2> QED
    BY <1>0, <1>t, <2>1, CalmDoClose
<1>7. CASE HandleReadMsg
  <2>1. CASE do_close(Taken)
    BY <1>0, <1>t, <2>1, CalmDoClose
  <2>2. CASE Job.ok /\ conn' = do_read_head(Taken)
    BY <1>7, <2>2 DEF HandleReadMsg, do_read_head, Runs, Job
  <2> QED
    BY <1>7, <2>1, <2>2 DEF HandleReadMsg
<1>w. ASSUME UseQueue, do_write(Taken) PROVE Calm(Taken, conn')
  <2>1. write_msg_queue_ # <<>> => Head(write_msg_queue_) \in Req
    BY HeadTailProperties DEF TypeOK
  <2>2. write_msg_queue_ # <<>> => Head(write_msg_queue_) \in 0..MaxReq
    BY <2>1, ClientLoopAssumption DEF Req
  <2>3. conn' = Taken \/ \E r \in 0..MaxReq : conn' = AsyncWrite(Taken, r)
    BY <1>w, <2>2 DEF do_write
  <2> QED
    BY <1>0, <1>s, <1>t, <2>3, CalmWrite
<1>8. CASE DoWriteQueue
  BY <1>8, <1>w DEF DoWriteQueue
<1>9. CASE DoWriteDirect
  <2>1. conn' = Taken \/ conn' = AsyncWrite(Taken, Job.id)
    BY <1>9 DEF DoWriteDirect
  <2> QED
    BY <1>0, <1>s, <1>t, <2>1, CalmWrite
<1>10. CASE HandleWrite
  BY <1>10, <1>s, <1>w DEF HandleWrite
<1>11. CASE SetTimeout \/ EraseStart
  <2>1. conn' = Taken
    BY <1>11 DEF SetTimeout, EraseStart
  <2> QED
    BY <1>s, <2>1
<1>12. CASE SweepDrop \/ SweepErase \/ SweepMark \/ SweepEnd
  BY <1>12 DEF SweepDrop, SweepErase, SweepMark, SweepEnd, SweepRound
<1> QED
  BY <1>1, <1>2, <1>3, <1>4, <1>5, <1>6, <1>7, <1>8, <1>9, <1>10, <1>11, <1>12 DEF IoThread

\* Every step of the io thread keeps the state of the reads.
LEMMA IoReads ==
    ASSUME TypeOK, SocketInv, TypeOK', NEW n \in Nat, NEW R, ReadsOk(conn, n, R), IoThread
    PROVE  ReadsOk(conn', n, R)
<1> USE DEF queuevars, msgvars, sweepvars, calls, uservars, netvars
<1>0. conn \in Conn /\ closes \in Nat /\ OpsOk(conn, closes) /\ conn' \in Conn /\ 0 \in 0..MaxReq
  BY ClientLoopAssumption DEF TypeOK, SocketInv
<1>i. conn.inbox # <<>> => conn.sock \in {"connected", "eof", "dead"}
  BY DEF ReadsOk
<1>1. CASE SweepRound
  <2>1. conn' = conn
    BY <1>1 DEF SweepRound
  <2> QED
    BY <2>1
<1>2. CASE SweepEnd
  <2> DEFINE h == H("erase", 0, FALSE)
  <2>1. h \in Handler /\ h.h = "erase" /\ Barren(h) /\ (conn' = conn \/ conn' = Post(conn, h))
    BY <1>0, <1>2 DEF H, Handler, Barren, SweepEnd
  <2> HIDE DEF h
  <2>2. conn' = conn \/ Calm(conn, conn')
    BY <1>0, <2>1, CalmPost
  <2> QED
    BY <1>0, <2>2, CalmKeeps
<1>3. CASE ~sweep.on
  <2>0. conn.ready # <<>>
    BY <1>3, IoSteps DEF SweepRound, SweepEnd
  <2>t. /\ Taken \in Conn /\ Job \in Handler /\ OpsOk(Taken, closes) /\ Job.id \in 0..MaxReq
        /\ Taken.rops = conn.rops /\ Taken.inbox = conn.inbox /\ Taken.sock = conn.sock
    BY <1>0, <2>0, TakenType, TakenOps, TakenFacts DEF Handler
  <2>r. /\ ReadsOk(Taken, n, R)
        /\ Chained(conn) = Chained(Taken) + One(Job, Reading)
        /\ Pending(conn) = Pending(Taken) + One(Job, HeadersRead)
        /\ Between(conn) /\ Job.ok /\ Job.h \in {"connect", "body"} =>
                 \A h \in Range(Taken.ready) : h \notin HeadersRead
    BY <1>0, <2>0, TakenReads
  <2>b. (Between(Taken) <=> Between(conn)) /\ (Amid(Taken) <=> Amid(conn))
    BY <2>t DEF Between, Amid
  <2>n. Chained(conn) <= n /\ Chained(Taken) \in Nat /\ Pending(Taken) \in Nat
    BY <2>t, ChainedType DEF ReadsOk
  <2>g. ASSUME One(Job, Reading) = 1 PROVE Chained(Taken) + 1 <= n
    BY <2>g, <2>n, <2>r
  <2>1. CASE Calm(Taken, conn')
    BY <1>0, <2>1, <2>r, <2>t, CalmKeeps
  <2>2. CASE /\ Job.h = "connect" /\ Job.ok
             /\ conn' = AsyncRead([Taken EXCEPT !.status = "CONN_OK"], H("head", 0, TRUE))
    <3> DEFINE d == [Taken EXCEPT !.status = "CONN_OK"]
    <3>1. d \in Conn
      BY <2>t, ConnExcept
    <3>2. /\ OpsOk(d, closes) /\ d.ready = Taken.ready /\ d.rops = Taken.rops /\ d.sock = Taken.sock
          /\ d.inbox = Taken.inbox
      BY <2>t, StatusOps
    <3>3. Calm(Taken, d)
      BY <2>t, CalmStatus
    <3> HIDE DEF d
    <3>4. ReadsOk(d, n, R)
      BY <2>r, <2>t, <3>1, <3>3, CalmKeeps
    <3>5. Chained(d) = Chained(Taken) /\ (Between(d) <=> Between(Taken))
      BY <3>2 DEF Chained, Between
    <3>6. One(Job, Reading) = 1
      BY <2>2, <2>t DEF One, Reading
    <3>7. Between(d) => \A h \in Range(d.ready) : h \notin HeadersRead
      BY <2>2, <2>b, <2>r, <3>2, <3>5
    <3>8. Chained(d) + 1 <= n
      BY <2>g, <3>5, <3>6
    <3>9. ReadsOk(AsyncRead(d, H("head", 0, TRUE)), n, R)
      BY <1>0, <3>1, <3>2, <3>4, <3>7, <3>8, ReadStarts
    <3> QED
      BY <2>2, <3>9 DEF d
  <2>3. ASSUME Job.h = "head", Job.ok, NEW id \in {0, Job.id},
               conn' = AsyncRead(Taken, H("body", id, TRUE))
        PROVE  ReadsOk(conn', n, R)
    <3>1. Job \in HeadersRead /\ One(Job, Reading) = 1 /\ One(Job, HeadersRead) = 1
      BY <2>3, <2>t DEF One, Reading, HeadersRead
    <3>2. Pending(conn) >= 1 /\ Pending(conn) # 0 /\ (Pending(conn) <= 1 => Pending(Taken) = 0)
      BY <2>n, <2>r, <3>1
    <3>3. Between(Taken) /\ Taken.rops # <<>> => Head(Taken.rops).h # "head"
      BY <2>b, <2>t, <3>2 DEF ReadsOk, InTurn
    <3>4. Amid(Taken) => Pending(Taken) = 0 /\ id \in {0, Head(Taken.inbox).id}
      <4>1. Job \in Range(conn.ready)
        BY <1>0, <2>0, TakenFacts
      <4> QED
        BY <2>3, <2>b, <2>t, <3>1, <3>2, <4>1 DEF ReadsOk, InReply
    <3>5. id \in 0..MaxReq /\ Chained(Taken) + 1 <= n
      BY <1>0, <2>g, <2>t, <3>1
    <3>6. ReadsOk(AsyncRead(Taken, H("body", id, TRUE)), n, R)
      BY <1>0, <2>r, <2>t, <3>3, <3>4, <3>5, ReadStarts
    <3> QED
      BY <2>3, <3>6
  <2>4. CASE /\ Job.h = "body" /\ Job.ok
             /\ conn' = AsyncRead(Taken, H("head", 0, TRUE))
    <3>1. One(Job, Reading) = 1
      BY <2>4, <2>t DEF One, Reading
    <3>2. Between(Taken) => \A h \in Range(Taken.ready) : h \notin HeadersRead
      BY <2>4, <2>b, <2>r
    <3>3. Chained(Taken) + 1 <= n
      BY <2>g, <3>1
    <3>4. ReadsOk(AsyncRead(Taken, H("head", 0, TRUE)), n, R)
      BY <1>0, <2>r, <2>t, <3>2, <3>3, ReadStarts
    <3> QED
      BY <2>4, <3>4
  <2> QED
    BY <1>3, <1>i, <2>1, <2>2, <2>3, <2>4, HandlerReading
<1> QED
  BY <1>1, <1>2, <1>3, IoSteps

\* They keep the one chain's state: a header that is taken is followed by its body.
LEMMA IoReply ==
    ASSUME TypeOK, SocketInv, TypeOK', NEW n \in Nat, NEW R, ReadsOk(conn, n, R), OneReply(conn),
           IoThread, crash' = "none"
    PROVE  OneReply(conn')
<1> USE DEF queuevars, msgvars, sweepvars, calls, uservars, netvars
<1>0. conn \in Conn /\ conn' \in Conn /\ 0 \in 0..MaxReq
  BY ClientLoopAssumption DEF TypeOK
<1>i. conn.inbox # <<>> => conn.sock \in {"connected", "eof", "dead"}
  BY DEF ReadsOk
<1>1. CASE SweepRound
  <2>1. conn' = conn
    BY <1>1 DEF SweepRound
  <2> QED
    BY <2>1
<1>2. CASE SweepEnd
  <2> DEFINE h == H("erase", 0, FALSE)
  <2>1. h \in Handler /\ h.h = "erase" /\ Barren(h) /\ (conn' = conn \/ conn' = Post(conn, h))
    BY <1>0, <1>2 DEF H, Handler, Barren, SweepEnd
  <2> HIDE DEF h
  <2>2. conn' = conn \/ Calm(conn, conn')
    BY <1>0, <2>1, CalmPost
  <2> QED
    BY <1>0, <2>2, CalmReply
<1>3. CASE ~sweep.on
  <2>0. conn.ready # <<>>
    BY <1>3, IoSteps DEF SweepRound, SweepEnd
  <2>t. /\ Taken \in Conn /\ Job \in Handler /\ Job.id \in 0..MaxReq
        /\ Taken.rops = conn.rops /\ Taken.inbox = conn.inbox /\ Taken.sock = conn.sock
    BY <1>0, <2>0, TakenType, TakenFacts DEF Handler
  <2>r. Pending(conn) = Pending(Taken) + One(Job, HeadersRead) /\ Pending(Taken) \in Nat
    BY <1>0, <2>0, <2>t, TakenReads, ChainedType
  <2>b. (Between(Taken) <=> Between(conn)) /\ (Amid(Taken) <=> Amid(conn))
    BY <2>t DEF Between, Amid
  <2>k. ASSUME Job \notin HeadersRead PROVE OneReply(Taken)
    <3>1. Pending(conn) = Pending(Taken)
      BY <2>k, <2>r DEF One
    <3> QED
      BY <2>b, <3>1 DEF OneReply
  <2>h. ASSUME Job \in HeadersRead
        PROVE  HandlerFindsClosed \/ \E id \in {0, Job.id} : conn' = AsyncRead(Taken, H("body", id, TRUE))
    <3>1. \A x : Runs(x) => x = "head"
      BY <2>h DEF Runs, Job, HeadersRead
    <3>2. HandlerFindsClosed \/ HandlerFindsNull \/ HandleReadHeader \/ HandleReadHeaderError
      BY <1>3, <3>1
      DEF IoThread, HandleConnectOk, HandleConnectError, HandleReadMsg, DoWriteQueue, DoWriteDirect,
          HandleWrite, HandleWriteError, SetTimeout, DoClose, EraseStart, SweepDrop, SweepErase,
          SweepMark, SweepEnd, SweepRound
    <3>3. CASE HandleReadHeader
      BY <3>3 DEF HandleReadHeader, do_read_msg, Into
    <3> QED
      BY <2>h, <3>2, <3>3 DEF HandlerFindsNull, HandleReadHeaderError, HeadersRead
  <2>1. ASSUME Calm(Taken, conn'), Job \notin HeadersRead \/ HandlerFindsClosed
        PROVE  OneReply(conn')
    <3>1. HandlerFindsClosed => OneReply(Taken)
      BY <1>i, <2>t DEF HandlerFindsClosed, OneReply, Between, Amid
    <3> QED
      BY <1>0, <2>1, <2>k, <2>t, <3>1, CalmReply
  <2>2. CASE /\ Job.h = "connect" /\ Job.ok
             /\ conn' = AsyncRead([Taken EXCEPT !.status = "CONN_OK"], H("head", 0, TRUE))
    <3> DEFINE d == [Taken EXCEPT !.status = "CONN_OK"]
    <3>1. d \in Conn /\ Calm(Taken, d)
      BY <2>t, ConnExcept, CalmStatus
    <3>2. d.inbox = Taken.inbox /\ d.sock = Taken.sock /\ conn' = AsyncRead(d, H("head", 0, TRUE))
      BY <2>2, <2>t DEF Conn
    <3> HIDE DEF d
    <3>3. OneReply(d)
      BY <2>2, <2>k, <2>t, <3>1, CalmReply DEF HeadersRead
    <3>4. Pending(d) \in Nat
      BY <3>1, ChainedType
    <3>5. More(d, conn', 0)
      BY <1>0, <1>i, <2>t, <3>1, <3>2, ReadPending
    <3>6. Pending(d) + 0 = Pending(d)
      BY <3>4
    <3> QED
      BY <3>3, <3>5, <3>6 DEF OneReply, More
  <2>3. ASSUME NEW id \in {0, Job.id}, conn' = AsyncRead(Taken, H("body", id, TRUE)), Job \in HeadersRead
        PROVE  OneReply(conn')
    <3>1. Pending(conn) = Pending(Taken) + 1
      BY <2>3, <2>r DEF One
    <3>2. More(Taken, conn', 1)
      BY <1>0, <1>i, <2>3, <2>t, ReadPending
    <3> QED
      BY <2>b, <3>1, <3>2 DEF OneReply, More
  <2>4. CASE /\ Job.h = "body" /\ Job.ok
             /\ conn' = AsyncRead(Taken, H("head", 0, TRUE))
    <3>1. OneReply(Taken)
      BY <2>4, <2>k DEF HeadersRead
    <3>2. More(Taken, conn', 0)
      BY <1>0, <1>i, <2>4, <2>t, ReadPending
    <3>3. Pending(Taken) + 0 = Pending(Taken)
      BY <2>r
    <3> QED
      BY <3>1, <3>2, <3>3 DEF OneReply, More
  <2>5. Job.h = "head" /\ Job.ok => Job \in HeadersRead
    BY <2>t DEF HeadersRead
  <2> QED
    BY <1>3, <1>i, <2>1, <2>2, <2>3, <2>4, <2>5, <2>h, HandlerReading
<1> QED
  BY <1>1, <1>2, <1>3, IoSteps

\* A user's step reads nothing.
LEMMA UserCalm ==
    ASSUME TypeOK, SocketInv, conn.inbox # <<>> => conn.sock \in {"connected", "eof", "dead"},
           NEW u \in Users, UserCall(u) \/ UserStep(u)
    PROVE  Calm(conn, conn')
<1> USE DEF queuevars, msgvars, sweepvars, calls, uservars, netvars
<1>0. conn \in Conn /\ closes \in Nat /\ OpsOk(conn, closes) /\ 0 \in 0..MaxReq /\ req[u] \in 0..MaxReq
  BY ClientLoopAssumption DEF TypeOK, SocketInv
<1>1. CASE conn' = conn
  BY <1>0, <1>1, CalmSame
<1>2. CASE UserClose(u)
  <2> DEFINE h == H("close", 0, TRUE)
  <2>1. h \in Handler /\ h.h \notin {"head", "body"} /\ Barren(h) /\ conn' = Post(conn, h)
    BY <1>0, <1>2 DEF H, Handler, Barren, UserClose
  <2> HIDE DEF h
  <2> QED
    BY <1>0, <2>1, CalmPost
<1>3. CASE DoConnectSet(u)
  BY <1>0, <1>3, CalmStatus DEF DoConnectSet
<1>4. CASE DoConnectStart(u)
  BY <1>0, <1>4, CalmConnect DEF DoConnectStart
<1>5. CASE WritePost(u)
  <2> DEFINE h == H("dowrite", IF UseQueue THEN 0 ELSE req[u], TRUE)
  <2>1. h \in Handler /\ h.h \notin {"head", "body"} /\ Barren(h) /\ conn' = Post(conn, h)
    BY <1>0, <1>5 DEF H, Handler, Barren, WritePost, PostWrite
  <2> HIDE DEF h
  <2> QED
    BY <1>0, <2>1, CalmPost
<1>6. CASE DestroyClose(u)
  BY <1>0, <1>6, CalmDoClose DEF DestroyClose
<1>7. CASE DestroyDelete(u)
  BY <1>0, <1>7, CalmCloseSocket DEF DestroyDelete
<1> QED
  BY <1>1, <1>2, <1>3, <1>4, <1>5, <1>6, <1>7
  DEF UserCall, UserStep, IsOpen, WriteNew, ReadFind, Destroy, DoConnectCheck, WritePush,
      WriteInsert, WriteAssign, WriteArm, ReadGet, ReadResult, ReadReturn, DestroyStop

\* The reads, as long as there were two connections at most and no stream was
\* shared, which the first one's never is; and their results.
ReadsInv ==
    /\ crash = "none" /\ conns <= 2 /\ garbled = {} => ReadsOk(conn, conns, received)
    /\ crash = "none" /\ conns <= 1 => OneReply(conn)
    /\ ReadOkWasReceived

\* The one chain of the first connection has its stream for itself.
LEMMA NotGarbled ==
    ASSUME TypeOK, SocketInv, ReadsOk(conn, conns, received), OneReply(conn), conns <= 1, garbled = {}
    PROVE  ~ReadGarbled
<1> SUFFICES ASSUME ReadGarbled PROVE FALSE
  OBVIOUS
<1>1. /\ conn \in Conn /\ conn.rops \in Seq(Handler) /\ conn.ready \in Seq(Handler)
      /\ conn.inbox \in Seq(Fragment) /\ conn.rops # <<>> /\ conn.inbox # <<>> /\ conns \in Nat
  BY ConnFields DEF ReadGarbled, TypeOK
<1> DEFINE op == Head(conn.rops)
           f == Head(conn.inbox)
<1>2. /\ op \in Handler /\ op.h \in {"head", "body"} /\ f \in Fragment
  BY <1>1, FirstOp, HeadTailProperties DEF OpsOk, SocketInv
<1>3. Len(conn.rops) = 1 /\ Times(conn.ready, Reading) = 0
  <2>1. Len(conn.rops) \in Nat /\ Len(conn.rops) # 0
    BY <1>1, LenProperties, EmptySeq
  <2>2. Times(conn.ready, Reading) \in Nat /\ Times(conn.ready, Reading) + Len(conn.rops) <= conns
    BY <1>1, ChainedType DEF ReadsOk, Chained
  <2> DEFINE t == Times(conn.ready, Reading)
             l == Len(conn.rops)
  <2>3. t \in Nat /\ l \in Nat /\ l # 0 /\ conns \in Nat /\ conns <= 1 /\ t + l <= conns
    BY <1>1, <2>1, <2>2
  <2> HIDE DEF t, l
  <2>4. l = 1 /\ t = 0
    BY <2>3
  <2> QED
    BY <2>4 DEF t, l
<1>4. Times(conn.ready, HeadersRead) = 0
  <2>1. \A x \in Range(conn.ready) : x \notin Reading
    BY <1>1, <1>3, TimesBounds
  <2>2. \A x \in Range(conn.ready) : x \notin HeadersRead
    BY <2>1 DEF Reading, HeadersRead
  <2> QED
    BY <1>1, <2>2, TimesBounds
<1>5. Pending(conn) = One(op, Named("body"))
  <2>1. Tail(conn.rops) \in Seq(Handler) /\ Len(Tail(conn.rops)) = 0
    BY <1>1, <1>3, HeadTailProperties
  <2>2. Range(Tail(conn.rops)) = {}
    BY <2>1, EmptySeq, RangeEmpty
  <2>3. Times(Tail(conn.rops), Named("body")) = 0
    BY <2>1, <2>2, TimesBounds
  <2>4. Times(conn.rops, Named("body")) = Times(Tail(conn.rops), Named("body")) + One(op, Named("body"))
    BY <1>1, TimesTail
  <2>5. One(op, Named("body")) \in Nat
    BY DEF One
  <2> QED
    BY <1>4, <2>3, <2>4, <2>5 DEF Pending
<1>6. op.h # f.part
  BY <1>3 DEF ReadGarbled
<1>7. f.part = "head" => Pending(conn) = 0 /\ op.h = "body"
  BY <1>1, <1>2, <1>6 DEF OneReply, Between
<1>8. f.part = "body" => Pending(conn) = 1 /\ op.h = "head"
  BY <1>1, <1>2, <1>6 DEF OneReply, Amid
<1>9. f.part \in {"head", "body"}
  BY <1>2 DEF Fragment
<1> HIDE DEF op, f
<1> QED
  BY <1>2, <1>5, <1>7, <1>8, <1>9 DEF One, Named

\* What an event of the network does to the reads.
LEMMA NetworkReads ==
    ASSUME TypeOK, SocketInv, TypeOK', ReadsOk(conn, conns, received), conns' <= 2, ~ReadGarbled,
           Network \/ EraseTimerExpire \/ (\E r \in Req : TimerExpire(r))
    PROVE  /\ ReadsOk(conn', conns', received')
           /\ conns' <= 1 /\ OneReply(conn) => OneReply(conn')
<1> USE DEF queuevars, msgvars, sweepvars, calls, uservars, netvars
<1>0. conn \in Conn /\ closes \in Nat /\ OpsOk(conn, closes) /\ conn' \in Conn /\ conns \in Nat
  BY DEF TypeOK, SocketInv
<1>i. conn.inbox # <<>> => conn.sock \in {"connected", "eof", "dead"}
  BY DEF ReadsOk
<1>1. CASE ConnectOk
  <2>1. /\ conns' = conns + 1 /\ conn.sock = "connecting" /\ received' = received
        /\ conn' = Post([conn EXCEPT !.sock = "connected"], H("connect", 0, TRUE))
    BY <1>1 DEF ConnectOk
  <2>2. conns \in 0..1
    BY <1>0, <2>1
  <2>3. conns' <= 1 => conns = 0
    BY <1>0, <2>1
  <2> QED
    BY <1>0, <2>1, <2>2, <2>3, ReadsConnect
<1>2. CASE ReadComplete
  <2>1. conns' = conns
    BY <1>2 DEF ReadComplete
  <2> QED
    BY <1>0, <1>2, <2>1, ReadsComplete
<1>3. CASE \E r \in Req : PeerReply(r)
  <2>1. conns' = conns /\ received' = received
    BY <1>3 DEF PeerReply
  <2> QED
    BY <1>0, <1>3, <2>1, ReadsReply
<1>4. CASE \E how \in Faults \ {"refused"} : NetBreak(how)
  <2>1. conns' = conns /\ received' = received
    BY <1>4 DEF NetBreak
  <2>2. \A how \in Faults \ {"refused"} : how \in {"eof", "dead"}
    BY ClientLoopAssumption
  <2> QED
    BY <1>0, <1>4, <2>1, <2>2, ReadsBreak
<1>5. CASE \/ ConnectFail \/ ReadFail \/ WriteComplete \/ WriteFail \/ EraseTimerExpire
           \/ \E r \in Req : TimerExpire(r)
  <2>1. conns' = conns /\ received' = received
    BY <1>5 DEF ConnectFail, ReadFail, WriteComplete, WriteFail, EraseTimerExpire, TimerExpire
  <2>2. Calm(conn, conn')
    BY <1>0, <1>5, <1>i, CalmEvent
  <2> QED
    BY <1>0, <2>1, <2>2, CalmKeeps, CalmReply
<1> QED
  BY <1>1, <1>2, <1>3, <1>4, <1>5 DEF Network

\* A step that stores no CT_READ_OK, and forgets no reply.
LEMMA ResultKept ==
    ASSUME TypeOK, ReadsInv, conns' >= conns, conns' \in Nat, received \subseteq received',
           garbled \subseteq garbled', conns' <= 1 => garbled' = {},
           \A r \in Req : status'[r] = "READ_OK" => status[r] = "READ_OK"
    PROVE  ReadOkWasReceived'
<1>1. conns' <= 2 => conns <= 2
  BY DEF TypeOK
<1>2. garbled' = {} => garbled = {}
  OBVIOUS
<1> QED
  BY <1>1, <1>2 DEF ReadsInv, ReadOkWasReceived

\* The io thread: a result is stored by the handler of a body.
LEMMA IoResults ==
    ASSUME TypeOK, SocketInv, TypeOK', ReadsInv, IoThread
    PROVE  ReadsInv'
<1> USE DEF queuevars, msgvars, sweepvars, calls, uservars, netvars
<1>0. crash = "none" /\ conns' = conns /\ received' = received /\ garbled' = garbled /\ conns \in Nat
  BY DEF IoThread, HandlerFindsClosed, HandlerFindsNull, HandleConnectOk, HandleConnectError,
         HandleReadHeader, HandleReadHeaderError, HandleReadMsg, DoWriteQueue, DoWriteDirect,
         HandleWrite, HandleWriteError, SetTimeout, DoClose, EraseStart, SweepDrop, SweepErase,
         SweepMark, SweepEnd, SweepRound, Runs, IoIdle, IoRuns, TypeOK
<1>g. conns <= 1 => garbled = {} /\ conns <= 2
  BY <1>0 DEF ReadsInv, ReadOkWasReceived
<1>1. crash' = "none" /\ conns' <= 2 /\ garbled' = {} => ReadsOk(conn', conns', received')
  BY <1>0, IoReads DEF ReadsInv
<1>r. crash' = "none" /\ conns' <= 1 => OneReply(conn')
  BY <1>0, <1>g, IoReply DEF ReadsInv
<1>2. CASE HandleReadMsg /\ Job.ok
  <2>1. /\ Job.h = "body" /\ conn.ready # <<>> /\ conn \in Conn
        /\ status' = [r \in Req |-> IF r = Job.id THEN "READ_OK" ELSE status[r]]
    BY <1>2 DEF HandleReadMsg, set_status, BodyStatus, Runs, Job, TypeOK
  <2>2. Job \in Range(conn.ready)
    BY <2>1, TakenFacts
  <2>3. conns <= 2 /\ garbled = {} => Job.id = 0 \/ Job.id \in received
    BY <1>0, <1>2, <2>1, <2>2 DEF ReadsInv, ReadsOk, Got
  <2>4. \A r \in Req : r # 0
    BY ClientLoopAssumption DEF Req
  <2>5. ReadOkWasReceived'
    BY <1>0, <1>g, <2>1, <2>3, <2>4 DEF ReadsInv, ReadOkWasReceived
  <2> QED
    BY <1>1, <1>r, <2>5 DEF ReadsInv
<1>3. CASE ~(HandleReadMsg /\ Job.ok)
  <2>1. \A r \in Req : status'[r] = "READ_OK" => status[r] = "READ_OK"
    <3>1. CASE \E v \in {"ERROR", "TIMEOUT"} : set_status(Job.id, v)
      BY <3>1 DEF set_status
    <3>2. CASE status' = status
      BY <3>2
    <3> QED
      BY <1>3, <3>1, <3>2 DEF IoThread, HandlerFindsClosed, HandlerFindsNull, HandleConnectOk,
         HandleConnectError, HandleReadHeader, HandleReadHeaderError, HandleReadMsg, DoWriteQueue,
         DoWriteDirect, HandleWrite, HandleWriteError, SetTimeout, DoClose, EraseStart, SweepDrop,
         SweepErase, SweepMark, SweepEnd, SweepRound, BodyStatus
  <2>2. conns' >= conns /\ conns' \in Nat
    BY <1>0
  <2>3. ReadOkWasReceived'
    BY <1>0, <1>g, <2>1, <2>2, ResultKept
  <2> QED
    BY <1>1, <1>r, <2>3 DEF ReadsInv
<1> QED
  BY <1>2, <1>3

\* Events and users store no result.
LEMMA OtherResults ==
    ASSUME TypeOK, SocketInv, TypeOK', ReadsInv,
           \/ Network \/ EraseTimerExpire \/ (\E r \in Req : TimerExpire(r))
           \/ \E u \in Users : UserCall(u) \/ UserStep(u)
    PROVE  ReadsInv'
<1> USE DEF queuevars, msgvars, sweepvars, calls, uservars, netvars
<1>0. conns \in Nat /\ conn \in Conn /\ conn' \in Conn /\ conns' \in Nat
  BY DEF TypeOK
<1>g. conns <= 1 => garbled = {} /\ conns <= 2
  BY <1>0 DEF ReadsInv, ReadOkWasReceived
<1>1. CASE \E u \in Users : UserCall(u) \/ UserStep(u)
  <2> PICK u \in Users : UserCall(u) \/ UserStep(u)
    BY <1>1
  <2>1. /\ conns' = conns /\ received' = received /\ garbled' = garbled /\ status' = status
        /\ crash = "none"
    BY DEF UserCall, UserStep, IsOpen, WriteNew, ReadFind, UserClose, Destroy, DoConnectCheck,
         DoConnectSet, DoConnectStart, WritePush, WriteInsert, WriteAssign, WriteArm, WritePost,
         ReadGet, ReadResult, ReadReturn, DestroyClose, DestroyDelete, DestroyStop, UserAt
  <2>2. ReadOkWasReceived'
    BY <2>1 DEF ReadsInv, ReadOkWasReceived
  <2>3. ASSUME conns <= 2, garbled = {}
        PROVE  ReadsOk(conn', conns, received) /\ (OneReply(conn) => OneReply(conn'))
    <3>1. ReadsOk(conn, conns, received)
      BY <2>1, <2>3 DEF ReadsInv
    <3>2. conn.inbox # <<>> => conn.sock \in {"connected", "eof", "dead"}
      BY <3>1 DEF ReadsOk
    <3>3. Calm(conn, conn')
      BY <3>2, UserCalm
    <3> QED
      BY <1>0, <3>1, <3>3, CalmKeeps, CalmReply
  <2> QED
    BY <1>g, <2>1, <2>2, <2>3 DEF ReadsInv
<1>2. CASE Network \/ EraseTimerExpire \/ (\E r \in Req : TimerExpire(r))
  <2>1. /\ conns' \in {conns, conns + 1} /\ received \subseteq received' /\ status' = status
        /\ crash = "none" /\ garbled \subseteq garbled'
        /\ garbled' = garbled \/ (ReadGarbled /\ conns' = conns /\ conns \in garbled')
    BY <1>2 DEF Network, EraseTimerExpire, TimerExpire, ConnectOk, ConnectFail, ReadComplete,
         ReadGarbled, ReadFail, WriteComplete, WriteFail, PeerReply, NetBreak, Reactor, IoIdle, IoRuns
  <2>2. conns' >= conns
    BY <1>0, <2>1
  <2>3. ASSUME conns <= 2, garbled = {} PROVE ReadsOk(conn, conns, received)
    BY <2>1, <2>3 DEF ReadsInv
  <2>4. ASSUME conns' <= 1 PROVE conns <= 1 /\ conns' <= 2 /\ ~ReadGarbled /\ garbled' = {} /\ OneReply(conn)
    <3>1. conns <= 1 /\ conns' <= 2
      BY <1>0, <2>2, <2>4
    <3>2. OneReply(conn)
      BY <2>1, <3>1 DEF ReadsInv
    <3>3. ~ReadGarbled
      BY <1>g, <2>3, <3>1, <3>2, NotGarbled
    <3> QED
      BY <1>g, <2>1, <3>1, <3>2, <3>3
  <2>5. ReadOkWasReceived'
    BY <1>0, <2>1, <2>2, <2>4, ResultKept
  <2>6. ASSUME conns' <= 2, garbled' = {}
        PROVE  ReadsOk(conn', conns', received') /\ (conns' <= 1 => OneReply(conn'))
    <3>1. conns <= 2 /\ garbled = {}
      BY <1>0, <2>1, <2>2, <2>6
    <3>2. ~ReadGarbled
      BY <2>6 DEF ReadGarbled
    <3> QED
      BY <1>2, <2>3, <2>4, <2>6, <3>1, <3>2, NetworkReads
  <2> QED
    BY <2>4, <2>5, <2>6 DEF ReadsInv
<1> QED
  BY <1>1, <1>2

\* Nothing is read at first.
LEMMA InitReads == Init => ReadsInv
<1> SUFFICES ASSUME Init PROVE ReadsInv
  OBVIOUS
<1>1. /\ conn.ready = <<>> /\ conn.rops = <<>> /\ conn.inbox = <<>> /\ conn.sock = "connecting"
      /\ conns = 0
  BY DEF Init, do_connect, AsyncConnect
<1>2. Places(<<>>, Reading) = {} /\ Len(<<>>) = 0
  BY EmptySeq DEF Places
<1>3. Times(<<>>, Reading) = 0
  BY <1>2, FS_EmptySet DEF Times
<1>4. Chained(conn) = 0 + 0
  BY <1>1, <1>2, <1>3 DEF Chained
<1>5. Got(conn, received) /\ Whole(conn.inbox) /\ ~Between(conn) /\ ~Amid(conn)
  <2>1. Whole(<<>>)
    BY <1>2 DEF Whole
  <2> QED
    BY <1>1, <2>1, RangeEmpty DEF Got, Between, Amid
<1>6. ReadsOk(conn, conns, received)
  <2>1. Chained(conn) <= conns
    BY <1>1, <1>4
  <2> QED
    BY <1>1, <1>5, <2>1 DEF ReadsOk
<1>7. ReadOkWasReceived
  BY DEF Init, ReadOkWasReceived
<1> QED
  BY <1>5, <1>6, <1>7 DEF ReadsInv, OneReply

\* The state of the reads, together with what it rests on.
LEMMA ReadsCorrect == Spec => [](TypeOK /\ SocketInv /\ ReadsInv)
<1>1. TypeOK /\ SocketInv /\ TypeOK' /\ ReadsInv /\ [Next]_vars => ReadsInv'
  <2> SUFFICES ASSUME TypeOK, SocketInv, TypeOK', ReadsInv, [Next]_vars PROVE ReadsInv'
    OBVIOUS
  <2>1. CASE UNCHANGED vars
    <3>1. UNCHANGED <<conn, conns, received, garbled, status, crash>>
      BY <2>1 DEF vars, msgvars, netvars
    <3> QED
      BY <3>1 DEF ReadsInv, ReadOkWasReceived
  <2> QED
    BY <2>1, IoResults, OtherResults DEF Next
<1> QED
  BY <1>1, InitReads, SocketCorrect, PTL DEF Spec

\* The first connection's stream is never shared by two reads, so CT_READ_OK is
\* the truth there: the reply to that very request was read to its end.  On the
\* second it is as long as its stream was not shared, whatever handlers of the
\* first ran after it was made.
THEOREM ReadOkWasReceivedCorrect == Spec => []ReadOkWasReceived
<1>1. ReadsInv => ReadOkWasReceived
  BY DEF ReadsInv
<1> QED
  BY <1>1, ReadsCorrect, PTL

-----------------------------------------------------------------------------
(* The bodies and the timeouts that are on their way *)

\* A read is started for the request it is bound to.
LEMMA BodiesRead ==
    ASSUME NEW c \in Conn, NEW h \in Handler, NEW id, InBodies(AsyncRead(c, h), id)
    PROVE  InBodies(c, id) \/ (h.h = "body" /\ h.id = id)
<1> DEFINE d == AsyncRead(c, h)
           g == [h EXCEPT !.ok = FALSE]
<1>1. g \in Handler /\ g.h = h.h /\ g.id = h.id
  BY DEF Handler
<1>2. CASE c.sock = "closed"
  <2>1. d = Post(c, g)
    BY <1>2 DEF AsyncRead
  <2> HIDE DEF g
  <2>2. Range(d.ready) = Range(c.ready) \cup {g} /\ d.rops = c.rops
    BY <1>1, <2>1, PostFacts
  <2>3. InBodies(d, id)
    OBVIOUS
  <2> HIDE DEF d
  <2> QED
    BY <1>1, <2>2, <2>3 DEF InBodies
<1>3. CASE c.sock # "closed"
  <2>1. d = [c EXCEPT !.rops = Append(c.rops, h)]
    BY <1>3 DEF AsyncRead
  <2>2. d.ready = c.ready /\ d.rops = Append(c.rops, h)
    BY <2>1 DEF Conn
  <2>3. Range(d.rops) = Range(c.rops) \cup {h}
    BY <2>2, ConnFields, RangeAppend
  <2>4. InBodies(d, id)
    OBVIOUS
  <2> HIDE DEF d
  <2> QED
    BY <2>2, <2>3, <2>4 DEF InBodies
<1> QED
  BY <1>2, <1>3

\* The body of a request is read only when a header with its id was.
LEMMA BodiesKept ==
    ASSUME TypeOK, SocketInv, conn.inbox # <<>> => conn.sock \in {"connected", "eof", "dead"},
           Next, NEW id, InBodies(conn', id)
    PROVE  \/ InBodies(conn, id)
           \/ HandleReadHeader /\ Job.h = "head" /\ Job.ok /\ id \in {0, Job.id}
<1> USE DEF queuevars, msgvars, sweepvars, calls, uservars, netvars
<1>0. conn \in Conn /\ closes \in Nat /\ OpsOk(conn, closes) /\ 0 \in 0..MaxReq
  BY ClientLoopAssumption DEF TypeOK, SocketInv
<1>1. CASE Calm(conn, conn')
  BY <1>1 DEF Calm
<1>2. CASE IoThread /\ sweep.on
  <2> DEFINE h == H("erase", 0, FALSE)
  <2>1. conn' = conn \/ conn' = Post(conn, h)
    BY <1>2, IoSteps DEF SweepRound, SweepEnd
  <2>2. h \in Handler /\ h.h \notin {"head", "body"} /\ Barren(h)
    BY <1>0 DEF H, Handler, Barren
  <2> HIDE DEF h
  <2> QED
    BY <1>0, <1>1, <2>1, <2>2, CalmPost
<1>3. CASE IoThread /\ ~sweep.on
  <2>0. conn.ready # <<>>
    BY <1>3, IoSteps DEF SweepRound, SweepEnd
  <2>1. Taken \in Conn /\ Job.id \in 0..MaxReq
    BY <1>0, <2>0, TakenType DEF Handler
  <2>2. ASSUME InBodies(Taken, id) PROVE InBodies(conn, id)
    BY <1>0, <2>0, <2>2, TakenFacts DEF InBodies
  <2>h. ASSUME NEW k \in {"head", "body"}, NEW a \in 0..MaxReq
        PROVE  H(k, a, TRUE) \in Handler /\ H(k, a, TRUE).h = k /\ H(k, a, TRUE).id = a
    BY DEF H, Handler
  <2>3. CASE Calm(Taken, conn')
    BY <2>2, <2>3 DEF Calm
  <2>4. CASE conn' = AsyncRead([Taken EXCEPT !.status = "CONN_OK"], H("head", 0, TRUE))
    <3> DEFINE d == [Taken EXCEPT !.status = "CONN_OK"]
               g == H("head", 0, TRUE)
    <3>1. d \in Conn
      BY <2>1, ConnExcept
    <3>2. d.ready = Taken.ready /\ d.rops = Taken.rops
      BY <2>1, StatusOps
    <3>3. g \in Handler /\ g.h = "head"
      BY <1>0, <2>h
    <3>4. conn' = AsyncRead(d, g)
      BY <2>4
    <3> HIDE DEF d, g
    <3>5. InBodies(AsyncRead(d, g), id)
      BY <3>4
    <3>6. InBodies(d, id)
      BY <3>1, <3>3, <3>5, BodiesRead
    <3> QED
      BY <2>2, <3>2, <3>6 DEF InBodies
  <2>5. ASSUME NEW a \in {0, Job.id}, HandleReadHeader, Job.h = "head", Job.ok,
               conn' = AsyncRead(Taken, H("body", a, TRUE))
        PROVE  InBodies(conn, id) \/ id \in {0, Job.id}
    <3> DEFINE g == H("body", a, TRUE)
    <3>1. g \in Handler /\ g.id = a /\ conn' = AsyncRead(Taken, g)
      BY <1>0, <2>1, <2>5, <2>h
    <3> HIDE DEF g
    <3>2. InBodies(AsyncRead(Taken, g), id)
      BY <3>1
    <3>3. InBodies(Taken, id) \/ g.id = id
      BY <2>1, <3>1, <3>2, BodiesRead
    <3> QED
      BY <2>2, <3>1, <3>3
  <2>6. CASE conn' = AsyncRead(Taken, H("head", 0, TRUE))
    <3> DEFINE g == H("head", 0, TRUE)
    <3>1. g \in Handler /\ g.h = "head" /\ conn' = AsyncRead(Taken, g)
      BY <1>0, <2>6, <2>h
    <3> HIDE DEF g
    <3>2. InBodies(AsyncRead(Taken, g), id)
      BY <3>1
    <3>3. InBodies(Taken, id)
      BY <2>1, <3>1, <3>2, BodiesRead
    <3> QED
      BY <2>2, <3>3
  <2> QED
    BY <1>3, <2>3, <2>4, <2>5, <2>6, HandlerReading
<1>4. CASE \E u \in Users : UserCall(u) \/ UserStep(u)
  BY <1>1, <1>4, UserCalm
<1>5. CASE \/ ConnectFail \/ ReadFail \/ WriteComplete \/ WriteFail \/ EraseTimerExpire
           \/ \E r \in Req : TimerExpire(r)
  BY <1>0, <1>1, <1>5, CalmEvent
<1>6. CASE ConnectOk
  <2> DEFINE d == [conn EXCEPT !.sock = "connected"]
             h == H("connect", 0, TRUE)
  <2>1. h \in Handler /\ h.h = "connect"
    BY <1>0 DEF H, Handler
  <2>2. d \in Conn /\ d.ready = conn.ready /\ d.rops = conn.rops
    BY <1>0 DEF Conn
  <2>3. conn' = Post(d, h)
    BY <1>6 DEF ConnectOk
  <2> HIDE DEF d, h
  <2>4. Range(conn'.ready) = Range(conn.ready) \cup {h} /\ conn'.rops = conn.rops
    BY <2>1, <2>2, <2>3, PostFacts
  <2> QED
    BY <2>1, <2>4 DEF InBodies
<1>7. CASE ReadComplete
  <2> DEFINE op == Head(conn.rops)
             f == Head(conn.inbox)
             g == H("head", f.id, TRUE)
             c == [conn EXCEPT !.rops = Tail(@), !.inbox = Tail(@)]
  <2>1. /\ conn.rops \in Seq(Handler) /\ conn.rops # <<>>
        /\ f \in Fragment /\ Tail(conn.inbox) \in Seq(Fragment)
    BY <1>0, <1>7, ConnFields, HeadTailProperties DEF ReadComplete
  <2>2. /\ op \in Handler /\ Tail(conn.rops) \in Seq(Handler) /\ op \in Range(conn.rops)
        /\ Range(Tail(conn.rops)) \subseteq Range(conn.rops)
    BY <2>1, FirstOp
  <2>3. c \in Conn /\ c.ready = conn.ready /\ c.rops = Tail(conn.rops)
    BY <1>0, <2>1, <2>2 DEF Conn
  <2>4. g \in Handler /\ g.h = "head"
    BY <2>1, ClientLoopAssumption DEF Fragment, Req, H, Handler
  <2>5. conn' = c \/ conn' = Post(c, g) \/ conn' = Post(c, op)
    BY <1>7 DEF ReadComplete
  <2> HIDE DEF op, f, g, c
  <2>6. Range(conn'.ready) \subseteq Range(conn.ready) \cup {g, op} /\ conn'.rops = Tail(conn.rops)
    <3>1. \A x \in Handler : Range(Post(c, x).ready) = Range(c.ready) \cup {x} /\ Post(c, x).rops = c.rops
      BY <2>3, PostFacts
    <3>2. CASE conn' = c
      BY <2>3, <3>2
    <3>3. CASE conn' = Post(c, g)
      BY <2>3, <2>4, <3>1, <3>3
    <3>4. CASE conn' = Post(c, op)
      BY <2>2, <2>3, <3>1, <3>4
    <3> QED
      BY <2>5, <3>2, <3>3, <3>4
  <2> QED
    BY <2>2, <2>4, <2>6 DEF InBodies
<1>g. CASE ReadGarbled
  <2>1. PICK op \in Range(conn.rops), d \in Conn, h \in Handler :
              /\ op \in Handler
              /\ h = op \/ (op.h = "head" /\ h.h = "head" /\ h.ok)
              /\ d.ready = conn.ready /\ Range(d.rops) \subseteq Range(conn.rops)
              /\ conn' = Post(d, h)
    BY <1>0, <1>g, GarbledFacts
  <2>2. Range(conn'.ready) = Range(conn.ready) \cup {h} /\ Range(conn'.rops) \subseteq Range(conn.rops)
    BY <2>1, PostFacts
  <2> QED
    BY <2>1, <2>2 DEF InBodies
<1>8. CASE (\E r \in Req : PeerReply(r)) \/ (\E how \in Faults \ {"refused"} : NetBreak(how))
  <2>1. conn'.ready = conn.ready /\ conn'.rops = conn.rops
    <3>1. ASSUME NEW r \in Req, PeerReply(r) PROVE conn'.ready = conn.ready /\ conn'.rops = conn.rops
      BY <1>0, <3>1 DEF PeerReply, Conn
    <3>2. ASSUME NEW how, NetBreak(how) PROVE conn'.ready = conn.ready /\ conn'.rops = conn.rops
      <4> PICK n \in 0..Len(conn.inbox) :
             conn' = [conn EXCEPT !.sock = how, !.asked = {}, !.inbox = SubSeq(@, 1, n)]
        BY <3>2 DEF NetBreak
      <4> QED
        BY <1>0 DEF Conn
    <3> QED
      BY <1>8, <3>1, <3>2
  <2> QED
    BY <2>1 DEF InBodies
<1>9. sweep.on \in BOOLEAN
  BY DEF TypeOK
<1> QED
  BY <1>2, <1>3, <1>4, <1>5, <1>6, <1>7, <1>g, <1>8, <1>9 DEF Next, Network

\* There is a pass to come before the handler at place i.
Behind(q, i) == \E j \in 1..(i - 1) : q[j].h = "erase"

\* Handlers that were queued behind change no place before them.
LEMMA BehindConcat ==
    ASSUME NEW q \in Seq(Handler), NEW p \in Seq(Handler), NEW i \in DOMAIN (q \o p),
           (q \o p)[i].h = "timeout", \A h \in Range(p) : h.h # "timeout"
    PROVE  /\ i \in DOMAIN q /\ q[i] = (q \o p)[i]
           /\ Behind(q \o p, i) => Behind(q, i)
<1> DEFINE c == q \o p
<1>1. Len(q) \in Nat /\ Len(p) \in Nat /\ DOMAIN q = 1..Len(q) /\ DOMAIN p = 1..Len(p)
  BY LenProperties
<1>2. /\ DOMAIN c = 1..(Len(q) + Len(p))
      /\ \A k \in 1..(Len(q) + Len(p)) : c[k] = IF k <= Len(q) THEN q[k] ELSE p[k - Len(q)]
  <2>1. c \in Seq(Handler) /\ Len(c) = Len(q) + Len(p)
    BY ConcatProperties
  <2> QED
    BY <2>1, ConcatProperties, LenProperties
<1>3. i \in DOMAIN c /\ c[i].h = "timeout"
  OBVIOUS
<1> HIDE DEF c
<1>4. i <= Len(q)
  <2> SUFFICES ASSUME i > Len(q) PROVE FALSE
    BY <1>1, <1>2, <1>3
  <2>1. i - Len(q) \in DOMAIN p /\ c[i] = p[i - Len(q)]
    BY <1>1, <1>2, <1>3
  <2>2. p[i - Len(q)] \in Range(p)
    BY <2>1 DEF Range
  <2> QED
    BY <1>3, <2>1, <2>2
<1>5. i \in DOMAIN q /\ q[i] = c[i] /\ \A j \in 1..(i - 1) : c[j] = q[j]
  BY <1>1, <1>2, <1>3, <1>4
<1>6. Behind(c, i) => Behind(q, i)
  BY <1>5 DEF Behind
<1> QED
  BY <1>5, <1>6 DEF c

\* The first handler was taken.
LEMMA BehindTail ==
    ASSUME NEW q \in Seq(Handler), q # <<>>, NEW i \in DOMAIN Tail(q)
    PROVE  /\ i + 1 \in DOMAIN q /\ q[i + 1] = Tail(q)[i]
           /\ Behind(Tail(q), i) => Behind(q, i + 1)
           /\ Head(q).h = "erase" => Behind(q, i + 1)
<1> DEFINE t == Tail(q)
<1>1. /\ Len(q) \in Nat \ {0} /\ DOMAIN q = 1..Len(q) /\ Head(q) = q[1]
      /\ t \in Seq(Handler) /\ Len(t) = Len(q) - 1 /\ DOMAIN t = 1..Len(t)
  BY HeadTailProperties, LenProperties, EmptySeq
<1>2. \A k \in 1..Len(t) : t[k] = q[k + 1]
  BY HeadTailProperties
<1>3. i \in DOMAIN t
  OBVIOUS
<1> HIDE DEF t
<1>4. i + 1 \in DOMAIN q /\ q[i + 1] = t[i] /\ i \in 1..Len(t)
  BY <1>1, <1>2, <1>3
<1>5. ASSUME Behind(t, i) PROVE Behind(q, i + 1)
  <2>1. PICK j \in 1..(i - 1) : t[j].h = "erase"
    BY <1>5 DEF Behind
  <2>2. j \in 1..Len(t) /\ j + 1 \in 1..((i + 1) - 1)
    BY <1>1, <1>4
  <2>3. q[j + 1].h = "erase"
    BY <1>2, <2>1, <2>2
  <2> QED
    BY <2>2, <2>3 DEF Behind
<1>6. ASSUME Head(q).h = "erase" PROVE Behind(q, i + 1)
  <2>1. 1 \in 1..((i + 1) - 1)
    BY <1>1, <1>4
  <2> QED
    BY <1>1, <1>6, <2>1 DEF Behind
<1> QED
  BY <1>4, <1>5, <1>6 DEF t

\* A timer's handler was queued before, with no fewer passes to come before it,
\* or its timer has just expired.
LEMMA TimeoutPlaces ==
    ASSUME TypeOK, SocketInv, Next, NEW i \in DOMAIN conn'.ready, conn'.ready[i].h = "timeout"
    PROVE  \/ \E k \in DOMAIN conn.ready :
                 /\ conn.ready[k] = conn'.ready[i]
                 /\ Behind(conn'.ready, i) => Behind(conn.ready, k)
                 /\ EraseStart => Behind(conn.ready, k)
           \/ \E r \in Req : TimerExpire(r) /\ conn'.ready[i] = H("timeout", r, TRUE)
<1> USE DEF queuevars, msgvars, sweepvars, calls, uservars, netvars
<1>0. /\ conn \in Conn /\ conn.ready \in Seq(Handler) /\ 0 \in 0..MaxReq
  BY ClientLoopAssumption, ConnFields DEF TypeOK
<1>1. ASSUME NEW p \in Seq(Handler), conn'.ready = conn.ready \o p, \A h \in Range(p) : h.h # "timeout",
             ~EraseStart
      PROVE  \E k \in DOMAIN conn.ready :
                 /\ conn.ready[k] = conn'.ready[i]
                 /\ Behind(conn'.ready, i) => Behind(conn.ready, k)
                 /\ EraseStart => Behind(conn.ready, k)
  <2>1. i \in DOMAIN (conn.ready \o p) /\ (conn.ready \o p)[i].h = "timeout"
    BY <1>1
  <2>2. /\ i \in DOMAIN conn.ready /\ conn.ready[i] = (conn.ready \o p)[i]
        /\ Behind(conn.ready \o p, i) => Behind(conn.ready, i)
    BY <1>0, <1>1, <2>1, BehindConcat
  <2> QED
    BY <1>1, <2>2
<1>2. ASSUME NEW h \in Handler, conn'.ready = Append(conn.ready, h), h.h # "timeout", ~EraseStart
      PROVE  \E k \in DOMAIN conn.ready :
                 /\ conn.ready[k] = conn'.ready[i]
                 /\ Behind(conn'.ready, i) => Behind(conn.ready, k)
                 /\ EraseStart => Behind(conn.ready, k)
  <2>1. Append(conn.ready, h) = conn.ready \o <<h>> /\ <<h>> \in Seq(Handler) /\ Range(<<h>>) = {h}
    BY <1>0, <1>2, AppendIsConcat, RangeOne
  <2> QED
    BY <1>1, <1>2, <2>1
<1>3. CASE conn'.ready = conn.ready /\ ~EraseStart
  BY <1>3
<1>4. CASE IoThread /\ sweep.on
  <2> DEFINE h == H("erase", 0, FALSE)
  <2>1. conn' = conn \/ conn' = Post(conn, h)
    BY <1>4, IoSteps DEF SweepRound, SweepEnd
  <2>2. h \in Handler /\ h.h = "erase"
    BY <1>0 DEF H, Handler
  <2>3. ~EraseStart
    BY <1>4 DEF EraseStart, Runs, IoIdle
  <2> HIDE DEF h
  <2>4. conn'.ready = conn.ready \/ conn'.ready = Append(conn.ready, h)
    BY <1>0, <2>1, <2>2, PostFacts
  <2> QED
    BY <1>2, <1>3, <2>2, <2>3, <2>4
<1>5. CASE IoThread /\ ~sweep.on
  <2>1. conn.ready # <<>> /\ Taken \in Conn /\ Quiet(Taken, conn', Writes(Job))
    BY <1>5, HandlerQuiet
  <2>2. PICK p \in Seq(Handler) : conn'.ready = Taken.ready \o p /\ \A h \in Range(p) : Plain(h)
    BY <2>1 DEF Quiet
  <2>3. \A h \in Range(p) : h.h # "timeout"
    BY <2>2 DEF Plain
  <2> DEFINE t == Tail(conn.ready)
  <2>4. Taken.ready = t /\ t \in Seq(Handler)
    BY <1>0, <2>1, TakenFacts, ConnFields
  <2>5. i \in DOMAIN (t \o p) /\ (t \o p)[i].h = "timeout" /\ conn'.ready = t \o p
    BY <2>2, <2>4
  <2> HIDE DEF t
  <2>6. i \in DOMAIN t /\ t[i] = conn'.ready[i] /\ (Behind(conn'.ready, i) => Behind(t, i))
    BY <2>3, <2>4, <2>5, BehindConcat
  <2>7. /\ i + 1 \in DOMAIN conn.ready /\ conn.ready[i + 1] = t[i]
        /\ Behind(t, i) => Behind(conn.ready, i + 1)
        /\ Head(conn.ready).h = "erase" => Behind(conn.ready, i + 1)
    BY <1>0, <2>1, <2>6, BehindTail DEF t
  <2>8. EraseStart => Head(conn.ready).h = "erase"
    BY DEF EraseStart, Runs
  <2> QED
    BY <2>6, <2>7, <2>8
<1>6. ASSUME ~IoThread PROVE ~EraseStart
  BY <1>6 DEF IoThread
<1>7. ASSUME NEW u \in Users, UserCall(u) \/ UserStep(u), ~EraseStart
      PROVE  \E k \in DOMAIN conn.ready :
                 /\ conn.ready[k] = conn'.ready[i]
                 /\ Behind(conn'.ready, i) => Behind(conn.ready, k)
                 /\ EraseStart => Behind(conn.ready, k)
  <2>0. req[u] \in 0..MaxReq
    BY DEF TypeOK
  <2>1. CASE Quiet(conn, conn', {})
    <3>1. PICK p \in Seq(Handler) : conn'.ready = conn.ready \o p /\ \A h \in Range(p) : Plain(h)
      BY <2>1 DEF Quiet
    <3>2. \A h \in Range(p) : h.h # "timeout"
      BY <3>1 DEF Plain
    <3> QED
      BY <1>1, <1>7, <3>1, <3>2
  <2>2. ASSUME NEW h \in Handler, conn' = Post(conn, h), h.h # "timeout"
        PROVE  \E k \in DOMAIN conn.ready :
                 /\ conn.ready[k] = conn'.ready[i]
                 /\ Behind(conn'.ready, i) => Behind(conn.ready, k)
                 /\ EraseStart => Behind(conn.ready, k)
    <3>1. conn'.ready = Append(conn.ready, h)
      BY <1>0, <2>2, PostFacts
    <3> QED
      BY <1>2, <1>7, <2>2, <3>1
  <2>3. /\ H("close", 0, TRUE) \in Handler /\ H("close", 0, TRUE).h # "timeout"
        /\ H("dowrite", IF UseQueue THEN 0 ELSE req[u], TRUE) \in Handler
        /\ H("dowrite", IF UseQueue THEN 0 ELSE req[u], TRUE).h # "timeout"
    BY <1>0, <2>0 DEF H, Handler
  <2> QED
    BY <1>7, <2>1, <2>2, <2>3, UserQuiet DEF PostWrite
<1>8. CASE /\ Network \/ EraseTimerExpire \/ (\E r \in Req : TimerExpire(r))
           /\ ~EraseStart
  <2>1. \/ conn'.ready = conn.ready
        \/ \E h \in Handler : conn'.ready = Append(conn.ready, h) /\ Event(h)
    BY <1>8, NetworkQuiet
  <2>2. ASSUME NEW h \in Handler, conn'.ready = Append(conn.ready, h), Event(h), h.h = "timeout"
        PROVE  \/ \E k \in DOMAIN conn.ready :
                    /\ conn.ready[k] = conn'.ready[i]
                    /\ Behind(conn'.ready, i) => Behind(conn.ready, k)
                    /\ EraseStart => Behind(conn.ready, k)
               \/ \E r \in Req : TimerExpire(r) /\ conn'.ready[i] = H("timeout", r, TRUE)
    <3>1. \E r \in Req : TimerExpire(r) /\ h = H("timeout", r, TRUE)
      BY <2>2 DEF Event, H
    <3> DEFINE q == conn.ready
               a == Append(q, h)
               n == Len(q)
    <3>2. n \in Nat /\ DOMAIN q = 1..n
      BY <1>0, LenProperties
    <3>3. /\ DOMAIN a = 1..(n + 1) /\ a[n + 1] = h /\ \A j \in 1..n : a[j] = q[j]
      <4>1. a \in Seq(Handler) /\ Len(a) = n + 1
        BY <1>0, <2>2, AppendProperties
      <4> QED
        BY <1>0, <2>2, <4>1, AppendProperties, LenProperties
    <3>4. conn'.ready = a /\ i \in DOMAIN a
      BY <2>2
    <3> HIDE DEF a, n
    <3>5. CASE i = n + 1
      BY <3>1, <3>3, <3>4, <3>5
    <3>6. CASE i # n + 1
      <4>1. i \in DOMAIN q /\ a[i] = q[i] /\ \A j \in 1..(i - 1) : a[j] = q[j]
        BY <3>2, <3>3, <3>4, <3>6
      <4>2. Behind(a, i) => Behind(q, i)
        BY <4>1 DEF Behind
      <4> QED
        BY <1>8, <3>4, <4>1, <4>2
    <3> QED
      BY <3>5, <3>6
  <2> QED
    BY <1>2, <1>3, <1>8, <2>1, <2>2
<1>9. sweep.on \in BOOLEAN
  BY DEF TypeOK
<1> QED
  BY <1>4, <1>5, <1>6, <1>7, <1>8, <1>9 DEF Next

-----------------------------------------------------------------------------
(* Without the queue: nothing happens to a request before its timer is armed *)

\* write() has not come to do_init_timer, or was not called.
Unmade(r) ==
    \/ r >= msg_index_
    \/ \E u \in Users : req[u] = r /\ pc[u] \in {"push", "insert", "assign", "arm"}

\* No result, and nothing on its way that would be one.
Untouched(r) ==
    /\ status[r] = "UNKNOWN"
    /\ ~timer[r]
    /\ ~InBodies(conn, r)
    /\ \A h \in Range(conn.ready) : h.h = "timeout" => h.id # r

\* A timer is armed only on a record that is in the map and has no result.
TimerOk(r) == timer[r] => recv_msg_map_[r] = "set" /\ status[r] = "UNKNOWN"

\* On the first connection no body read is left over that could be taken for the
\* reply of a request made later.
MadeInv ==
    crash = "none" /\ conns <= 1 /\ ~UseQueue =>
        /\ \A r \in Req : Unmade(r) => Untouched(r)
        /\ \A r \in Req : TimerOk(r)
        /\ \A u \in Users : pc[u] = "arm" => recv_msg_map_[req[u]] = "set"

\* Every step happens in a process that runs, and connections are only made.
LEMMA StepRuns ==
    ASSUME TypeOK, Next
    PROVE  crash = "none" /\ conns \in Nat /\ conns' \in Nat /\ conns <= conns'
<1> USE DEF queuevars, msgvars, sweepvars, calls, uservars, netvars
<1>0. conns \in Nat
  BY DEF TypeOK
<1>1. CASE IoThread
  <2>1. crash = "none" /\ conns' = conns
    BY <1>1 DEF IoThread, HandlerFindsClosed, HandlerFindsNull, HandleConnectOk, HandleConnectError,
         HandleReadHeader, HandleReadHeaderError, HandleReadMsg, DoWriteQueue, DoWriteDirect,
         HandleWrite, HandleWriteError, SetTimeout, DoClose, EraseStart, SweepDrop, SweepErase,
         SweepMark, SweepEnd, SweepRound, Runs, IoIdle, IoRuns
  <2> QED
    BY <1>0, <2>1
<1>2. CASE \E u \in Users : UserCall(u) \/ UserStep(u)
  <2>1. crash = "none" /\ conns' = conns
    BY <1>2 DEF UserCall, UserStep, IsOpen, WriteNew, ReadFind, UserClose, Destroy, DoConnectCheck,
         DoConnectSet, DoConnectStart, WritePush, WriteInsert, WriteAssign, WriteArm, WritePost,
         ReadGet, ReadResult, ReadReturn, DestroyClose, DestroyDelete, DestroyStop, UserAt
  <2> QED
    BY <1>0, <2>1
<1>3. CASE Network \/ EraseTimerExpire \/ (\E r \in Req : TimerExpire(r))
  <2>1. crash = "none" /\ (conns' = conns \/ conns' = conns + 1)
    BY <1>3 DEF Network, EraseTimerExpire, TimerExpire, ConnectOk, ConnectFail, ReadComplete, ReadGarbled, ReadFail,
         WriteComplete, WriteFail, PeerReply, NetBreak, Reactor, IoIdle, IoRuns
  <2> QED
    BY <1>0, <2>1
<1> QED
  BY <1>1, <1>2, <1>3 DEF Next

\* Nothing gets on its way for a request that is not made.
LEMMA UntouchedKept ==
    ASSUME TypeOK, SocketInv, SentInv, ReadsInv, MadeInv, Next, conns <= 1, ~UseQueue,
           NEW r \in Req, Unmade(r)
    PROVE  /\ ~InBodies(conn', r)
           /\ \A h \in Range(conn'.ready) : h.h = "timeout" => h.id # r
<1>0. crash = "none" /\ conn \in Conn
  BY StepRuns DEF TypeOK
<1>1. Untouched(r) /\ \A q \in Req : TimerOk(q)
  BY <1>0 DEF MadeInv
<1>g. garbled = {} /\ conns <= 2
  BY DEF ReadsInv, ReadOkWasReceived, TypeOK
<1>2. conn.inbox # <<>> => conn.sock \in {"connected", "eof", "dead"}
  BY <1>0, <1>g DEF ReadsInv, ReadsOk
<1>3. ASSUME InBodies(conn', r) PROVE FALSE
  <2>1. HandleReadHeader /\ Job.h = "head" /\ Job.ok /\ r \in {0, Job.id}
    BY <1>1, <1>2, <1>3, BodiesKept DEF Untouched
  <2>2. conn.ready # <<>> /\ r = Job.id
    BY <2>1, ClientLoopAssumption DEF HandleReadHeader, Runs, Req
  <2>3. Job \in Handler /\ Job \in Range(conn.ready)
    BY <1>0, <2>2, TakenType, TakenFacts
  <2>4. r \in Sent(conn)
    BY <2>1, <2>2, <2>3 DEF Sent, Handler
  <2>5. /\ r < msg_index_
        /\ \A u \in Users : pc[u] # "push" /\ (req[u] = r => pc[u] \notin {"insert", "assign", "arm"})
    BY <1>g, <2>4 DEF SentInv
  <2>6. msg_index_ \in Int /\ r \in Int
    BY DEF TypeOK, Req
  <2> QED
    BY <2>5, <2>6 DEF Unmade
<1>4. ASSUME NEW h \in Range(conn'.ready), h.h = "timeout", h.id = r PROVE FALSE
  <2>1. PICK i \in DOMAIN conn'.ready : conn'.ready[i] = h
    BY DEF Range
  <2>2. \/ \E k \in DOMAIN conn.ready : conn.ready[k] = h
        \/ \E q \in Req : TimerExpire(q) /\ h = H("timeout", q, TRUE)
    BY <1>4, <2>1, TimeoutPlaces
  <2>3. ASSUME NEW k \in DOMAIN conn.ready, conn.ready[k] = h PROVE FALSE
    BY <1>1, <1>4, <2>3 DEF Untouched, Range
  <2>4. ASSUME NEW q \in Req, TimerExpire(q), h = H("timeout", q, TRUE) PROVE FALSE
    <3>1. q = r /\ timer[r]
      BY <1>4, <2>4 DEF H, TimerExpire
    <3> QED
      BY <1>1, <3>1 DEF Untouched
  <2> QED
    BY <2>2, <2>3, <2>4
<1> QED
  BY <1>3, <1>4

\* What a step must do for the invariant to hold behind it.
LEMMA MadeKept ==
    ASSUME TypeOK, SocketInv, SentInv, ReadsInv, MadeInv, Next, conns <= 1, ~UseQueue,
           \A r \in Req : Unmade(r)' => Unmade(r) /\ status'[r] = status[r] /\ ~timer'[r],
           \A r \in Req : TimerOk(r)',
           \A u \in Users : pc'[u] = "arm" => recv_msg_map_'[req'[u]] = "set"
    PROVE  MadeInv'
<1>1. ASSUME NEW r \in Req, Unmade(r)' PROVE Untouched(r)'
  <2>1. Unmade(r) /\ status'[r] = status[r] /\ ~timer'[r]
    BY <1>1
  <2>2. status[r] = "UNKNOWN"
    BY <2>1, StepRuns DEF MadeInv, Untouched
  <2>3. ~InBodies(conn', r) /\ \A h \in Range(conn'.ready) : h.h = "timeout" => h.id # r
    BY <2>1, UntouchedKept
  <2> QED
    BY <2>1, <2>2, <2>3 DEF Untouched, InBodies
<1> QED
  BY <1>1 DEF MadeInv

\* The io thread stores results of bodies that were read and timers that expired.
LEMMA IoMade ==
    ASSUME TypeOK, SocketInv, RequestInv, SentInv, ReadsInv, MadeInv, IoThread, conns <= 1, ~UseQueue
    PROVE  MadeInv'
<1> USE DEF queuevars, msgvars, sweepvars, calls, uservars, netvars
<1>0. /\ Next /\ crash = "none" /\ conn \in Conn /\ timer \in [Req -> BOOLEAN]
      /\ recv_msg_map_ \in [Req -> {"none", "null", "set"}]
      /\ status \in [Req -> {"UNKNOWN", "READ_OK", "TIMEOUT", "ERROR"}]
      /\ \A u \in Users : pc[u] = "arm" => req[u] \in Req
  BY StepRuns DEF TypeOK, Next
<1>1. UNCHANGED uservars
  BY DEF IoThread, HandlerFindsClosed, HandlerFindsNull, HandleConnectOk, HandleConnectError,
         HandleReadHeader, HandleReadHeaderError, HandleReadMsg, DoWriteQueue, DoWriteDirect,
         HandleWrite, HandleWriteError, SetTimeout, DoClose, EraseStart, SweepDrop, SweepErase,
         SweepMark, SweepEnd, SweepRound
<1>2. \A r \in Req : Unmade(r)' <=> Unmade(r)
  BY <1>1 DEF Unmade
<1>3. /\ \A r \in Req : Unmade(r) => Untouched(r)
      /\ \A r \in Req : TimerOk(r)
      /\ \A u \in Users : pc[u] = "arm" => recv_msg_map_[req[u]] = "set"
  BY <1>0 DEF MadeInv
<1>4. CASE UNCHANGED <<status, timer, recv_msg_map_>>
  <2>1. \A r \in Req : Unmade(r)' => Unmade(r) /\ status'[r] = status[r] /\ ~timer'[r]
    BY <1>2, <1>3, <1>4 DEF Untouched
  <2>2. \A r \in Req : TimerOk(r)'
    BY <1>3, <1>4 DEF TimerOk
  <2> QED
    BY <1>0, <1>1, <1>3, <1>4, <2>1, <2>2, MadeKept
<1>5. ASSUME NEW v, set_status(Job.id, v), Job.h \in {"body", "timeout"}, conn.ready # <<>>
      PROVE  MadeInv'
  <2>0. Job \in Range(conn.ready)
    BY <1>0, <1>5, TakenFacts
  <2>1. ASSUME NEW r \in Req, Unmade(r) PROVE r # Job.id
    BY <1>3, <1>5, <2>0, <2>1 DEF Untouched, InBodies
  <2>2. /\ \A r \in Req : status'[r] = IF r = Job.id THEN v ELSE status[r]
        /\ \A r \in Req : timer'[r] <=> timer[r] /\ r # Job.id
        /\ recv_msg_map_' = recv_msg_map_
    BY <1>5 DEF set_status
  <2>3. \A r \in Req : Unmade(r)' => Unmade(r) /\ status'[r] = status[r] /\ ~timer'[r]
    BY <1>2, <1>3, <2>1, <2>2 DEF Untouched
  <2>4. \A r \in Req : TimerOk(r)'
    BY <1>3, <2>2 DEF TimerOk
  <2> QED
    BY <1>0, <1>1, <1>3, <2>2, <2>3, <2>4, MadeKept
<1>6. CASE SweepErase
  <2>1. /\ erase_flag[Oldest] = "EXEC" /\ status' = status
        /\ recv_msg_map_' = [recv_msg_map_ EXCEPT ![Oldest] = "none"]
        /\ timer' = [timer EXCEPT ![Oldest] = FALSE]
    BY <1>6 DEF SweepErase, SweepRound, Erasable
  <2>2. \A u \in Users : pc[u] = "arm" => req[u] # Oldest
    <3> SUFFICES ASSUME NEW u \in Users, pc[u] = "arm", req[u] = Oldest PROVE FALSE
      OBVIOUS
    <3>1. Oldest \in Req /\ reads[Oldest] = 0
      BY <1>0 DEF RequestInv, ReadAfterWrite
    <3> QED
      BY <2>1, <3>1 DEF RequestInv, FlaggedIsRead
  <2>3. \A r \in Req : Unmade(r)' => Unmade(r) /\ status'[r] = status[r] /\ ~timer'[r]
    BY <1>0, <1>2, <1>3, <2>1 DEF Untouched
  <2>4. \A r \in Req : TimerOk(r)'
    BY <1>0, <1>3, <2>1 DEF TimerOk
  <2>5. \A u \in Users : pc'[u] = "arm" => recv_msg_map_'[req'[u]] = "set"
    BY <1>0, <1>1, <1>3, <2>1, <2>2
  <2> QED
    BY <1>0, <2>3, <2>4, <2>5, MadeKept
<1>7. \/ UNCHANGED <<status, timer, recv_msg_map_>>
      \/ SweepErase
      \/ \E v : set_status(Job.id, v) /\ Job.h \in {"body", "timeout"} /\ conn.ready # <<>>
  BY DEF IoThread, HandlerFindsClosed, HandlerFindsNull, HandleConnectOk, HandleConnectError,
         HandleReadHeader, HandleReadHeaderError, HandleReadMsg, DoWriteQueue, DoWriteDirect,
         HandleWrite, HandleWriteError, SetTimeout, DoClose, EraseStart, SweepDrop,
         SweepMark, SweepEnd, SweepRound, Runs, Job
<1> QED
  BY <1>4, <1>5, <1>6, <1>7

\* Events leave the records alone, but for the timer that expires.
LEMMA NetworkMade ==
    ASSUME TypeOK, SocketInv, SentInv, ReadsInv, MadeInv, conns <= 1, ~UseQueue,
           Network \/ EraseTimerExpire \/ (\E r \in Req : TimerExpire(r))
    PROVE  MadeInv'
<1> USE DEF queuevars, msgvars, sweepvars, calls, uservars, netvars
<1>0. Next /\ crash = "none" /\ timer \in [Req -> BOOLEAN]
  BY StepRuns DEF TypeOK, Next
<1>1. UNCHANGED <<uservars, status, recv_msg_map_>>
  BY DEF Network, EraseTimerExpire, TimerExpire, ConnectOk, ConnectFail, ReadComplete, ReadGarbled, ReadFail,
         WriteComplete, WriteFail, PeerReply, NetBreak, Reactor
<1>2. \A r \in Req : timer'[r] => timer[r]
  <2>1. timer' = timer \/ \E r \in Req : timer' = [timer EXCEPT ![r] = FALSE]
    BY DEF Network, EraseTimerExpire, TimerExpire, ConnectOk, ConnectFail, ReadComplete, ReadGarbled, ReadFail,
         WriteComplete, WriteFail, PeerReply, NetBreak, Reactor
  <2> QED
    BY <1>0, <2>1
<1>3. /\ \A r \in Req : Unmade(r) => Untouched(r)
      /\ \A r \in Req : TimerOk(r)
      /\ \A u \in Users : pc[u] = "arm" => recv_msg_map_[req[u]] = "set"
  BY <1>0 DEF MadeInv
<1>4. \A r \in Req : Unmade(r)' => Unmade(r) /\ status'[r] = status[r] /\ ~timer'[r]
  BY <1>1, <1>2, <1>3 DEF Unmade, Untouched
<1>5. \A r \in Req : TimerOk(r)'
  BY <1>1, <1>2, <1>3 DEF TimerOk
<1> QED
  BY <1>0, <1>1, <1>3, <1>4, <1>5, MadeKept

\* Users make requests, and arm the timer of one that is made.
LEMMA UserMade ==
    ASSUME TypeOK, SocketInv, RequestInv, SentInv, ReadsInv, MadeInv, conns <= 1, ~UseQueue,
           NEW u \in Users, UserCall(u) \/ UserStep(u), crash' = "none"
    PROVE  MadeInv'
<1> USE DEF queuevars, msgvars, sweepvars, calls, uservars, netvars
<1>0. /\ Next /\ crash = "none" /\ timer \in [Req -> BOOLEAN] /\ DOMAIN pc = Users /\ DOMAIN req = Users
      /\ recv_msg_map_ \in [Req -> {"none", "null", "set"}] /\ msg_index_ \in 1..(MaxReq + 1)
      /\ \A v \in Users : pc[v] \in {"push", "insert", "assign", "arm"} => req[v] \in Req
  BY StepRuns DEF TypeOK, Next
<1>1. /\ \A r \in Req : Unmade(r) => Untouched(r)
      /\ \A r \in Req : TimerOk(r)
      /\ \A v \in Users : pc[v] = "arm" => recv_msg_map_[req[v]] = "set"
  BY <1>0 DEF MadeInv
<1>p. \A v \in Users : pc[v] # "push"
  BY DEF SentInv
<1>o. \A v \in Users : req[u] \in Req /\ req[v] = req[u] => v = u
  BY DEF RequestInv, OwnRequest, Req
<1>i. \A r \in Req : r \in Int /\ msg_index_ \in Int
  BY <1>0 DEF Req
<1>2. CASE WriteNew(u)
  <2>1. /\ pc' = [pc EXCEPT ![u] = "insert"] /\ req' = [req EXCEPT ![u] = msg_index_]
        /\ msg_index_' = msg_index_ + 1 /\ UNCHANGED msgvars
    BY <1>2 DEF WriteNew, UserAt, WriteOrder
  <2>2. ASSUME NEW r \in Req, Unmade(r)' PROVE Unmade(r)
    <3>1. CASE r >= msg_index_'
      BY <1>i, <2>1, <3>1 DEF Unmade
    <3>2. ASSUME NEW v \in Users, req'[v] = r, pc'[v] \in {"push", "insert", "assign", "arm"}
          PROVE  Unmade(r)
      <4>1. CASE v = u
        <5>1. r = msg_index_
          BY <1>0, <2>1, <3>2, <4>1
        <5> QED
          BY <1>i, <5>1 DEF Unmade
      <4>2. CASE v # u
        BY <1>0, <2>1, <3>2, <4>2 DEF Unmade
      <4> QED
        BY <4>1, <4>2
    <3> QED
      BY <2>2, <3>1, <3>2 DEF Unmade
  <2>3. \A r \in Req : Unmade(r)' => Unmade(r) /\ status'[r] = status[r] /\ ~timer'[r]
    BY <1>1, <2>1, <2>2 DEF Untouched
  <2>4. \A r \in Req : TimerOk(r)'
    BY <1>1, <2>1 DEF TimerOk
  <2>5. \A v \in Users : pc'[v] = "arm" => recv_msg_map_'[req'[v]] = "set"
    BY <1>0, <1>1, <2>1
  <2> QED
    BY <1>0, <2>3, <2>4, <2>5, MadeKept
<1>3. CASE WriteInsert(u)
  <2>1. /\ pc[u] = "insert" /\ pc' = [pc EXCEPT ![u] = "assign"]
        /\ recv_msg_map_' = [recv_msg_map_ EXCEPT ![req[u]] = "null"]
        /\ UNCHANGED <<status, timer, req, msg_index_>>
    BY <1>3 DEF WriteInsert, UserAt, WriteOrder
  <2>2. \A r \in Req : Unmade(r)' => Unmade(r)
    BY <1>0, <2>1 DEF Unmade
  <2>3. \A r \in Req : Unmade(r)' => Unmade(r) /\ status'[r] = status[r] /\ ~timer'[r]
    BY <1>1, <2>1, <2>2 DEF Untouched
  <2>4. req[u] \in Req /\ ~timer[req[u]]
    BY <1>0, <1>1, <2>1 DEF Unmade, Untouched
  <2>5. \A r \in Req : TimerOk(r)'
    BY <1>0, <1>1, <2>1, <2>4 DEF TimerOk
  <2>6. \A v \in Users : pc'[v] = "arm" => recv_msg_map_'[req'[v]] = "set"
    BY <1>0, <1>1, <1>o, <2>1, <2>4
  <2> QED
    BY <1>0, <2>3, <2>5, <2>6, MadeKept
<1>4. CASE WriteAssign(u)
  <2>1. /\ pc[u] = "assign" /\ pc' = [pc EXCEPT ![u] = "arm"]
        /\ recv_msg_map_' = [recv_msg_map_ EXCEPT ![req[u]] = "set"]
        /\ UNCHANGED <<status, timer, req, msg_index_>> /\ req[u] \in Req
    BY <1>0, <1>4 DEF WriteAssign, UserAt, WriteOrder
  <2>2. \A r \in Req : Unmade(r)' => Unmade(r)
    BY <1>0, <2>1 DEF Unmade
  <2>3. \A r \in Req : Unmade(r)' => Unmade(r) /\ status'[r] = status[r] /\ ~timer'[r]
    BY <1>1, <2>1, <2>2 DEF Untouched
  <2>4. \A r \in Req : TimerOk(r)'
    BY <1>0, <1>1, <2>1 DEF TimerOk
  <2>5. \A v \in Users : pc'[v] = "arm" => recv_msg_map_'[req'[v]] = "set"
    BY <1>0, <1>1, <2>1
  <2> QED
    BY <1>0, <2>3, <2>4, <2>5, MadeKept
<1>5. CASE WriteArm(u)
  <2>1. /\ pc[u] = "arm" /\ pc' = [pc EXCEPT ![u] = "post"]
        /\ timer' = [timer EXCEPT ![req[u]] = TRUE]
        /\ UNCHANGED <<status, recv_msg_map_, req, msg_index_>> /\ req[u] \in Req
    BY <1>0, <1>5 DEF WriteArm, UserAt, WriteOrder, do_init_timer
  <2>2. \A r \in Req : Unmade(r)' => Unmade(r) /\ r # req[u]
    <3>1. \A r \in Req : Unmade(r)' => Unmade(r)
      BY <1>0, <2>1 DEF Unmade
    <3>2. ~Unmade(req[u])'
      <4>1. ~(req[u] >= msg_index_)
        BY <1>i, <2>1 DEF RequestInv, OwnRequest
      <4>2. \A v \in Users : req'[v] = req[u] => pc'[v] = "post"
        BY <1>0, <1>o, <2>1
      <4> QED
        BY <2>1, <4>1, <4>2 DEF Unmade
    <3>3. ASSUME NEW r \in Req, r = req[u] PROVE ~Unmade(r)'
      <4>1. Unmade(r)' <=> Unmade(req[u])'
        BY <2>1, <3>3 DEF Unmade
      <4> QED
        BY <3>2, <4>1
    <3> QED
      BY <3>1, <3>3
  <2>3. \A r \in Req : Unmade(r)' => Unmade(r) /\ status'[r] = status[r] /\ ~timer'[r]
    BY <1>0, <1>1, <2>1, <2>2 DEF Untouched
  <2>4. recv_msg_map_[req[u]] = "set" /\ status[req[u]] = "UNKNOWN"
    BY <1>1, <2>1 DEF Unmade, Untouched
  <2>5. \A r \in Req : TimerOk(r)'
    BY <1>0, <1>1, <2>1, <2>4 DEF TimerOk
  <2>6. \A v \in Users : pc'[v] = "arm" => recv_msg_map_'[req'[v]] = "set"
    BY <1>0, <1>1, <2>1
  <2> QED
    BY <1>0, <2>3, <2>5, <2>6, MadeKept
<1>6. CASE ~(WriteNew(u) \/ WriteInsert(u) \/ WriteAssign(u) \/ WriteArm(u))
  <2>1. UNCHANGED <<status, timer, recv_msg_map_, req, msg_index_>>
    BY <1>6 DEF UserCall, UserStep, IsOpen, ReadFind, UserClose, Destroy, DoConnectCheck,
         DoConnectSet, DoConnectStart, WritePush, WritePost,
         ReadGet, ReadResult, ReadReturn, DestroyClose, DestroyDelete, DestroyStop
  <2>2. \A v \in Users : pc'[v] \in {"push", "insert", "assign", "arm"} => pc[v] = pc'[v]
    <3>1. CASE Destroy(u)
      BY <3>1 DEF Destroy
    <3>2. CASE ~Destroy(u)
      <4>1. \E there \in {"idle", "check", "set", "start", "get", "poll", "del", "delete", "stop", "done"} :
                  pc' = [pc EXCEPT ![u] = there]
        BY <1>6, <1>p, <3>2 DEF UserCall, UserStep, IsOpen, ReadFind, UserClose, DoConnectCheck, DoConnectSet,
              DoConnectStart, WritePush, WritePost, WriteOrder, ReadGet, ReadResult, ReadReturn, DestroyClose,
              DestroyDelete, DestroyStop, UserAt
      <4> QED
        BY <1>0, <4>1
    <3> QED
      BY <3>1, <3>2
  <2>3. \A r \in Req : Unmade(r)' => Unmade(r)
    BY <2>1, <2>2 DEF Unmade
  <2>4. \A r \in Req : Unmade(r)' => Unmade(r) /\ status'[r] = status[r] /\ ~timer'[r]
    BY <1>1, <2>1, <2>3 DEF Untouched
  <2>5. \A r \in Req : TimerOk(r)'
    BY <1>1, <2>1 DEF TimerOk
  <2>6. \A v \in Users : pc'[v] = "arm" => recv_msg_map_'[req'[v]] = "set"
    BY <1>1, <2>1, <2>2
  <2> QED
    BY <1>0, <2>4, <2>5, <2>6, MadeKept
<1> QED
  BY <1>2, <1>3, <1>4, <1>5, <1>6

\* No request is made at first.
LEMMA InitMade == Init => MadeInv
<1> SUFFICES ASSUME Init PROVE MadeInv
  OBVIOUS
<1>1. conn.ready = <<>> /\ conn.rops = <<>>
  BY DEF Init, do_connect, AsyncConnect
<1>2. /\ \A r \in Req : status[r] = "UNKNOWN" /\ ~timer[r]
      /\ \A u \in Users : pc[u] # "arm"
  BY DEF Init
<1>3. \A r \in Req : ~InBodies(conn, r)
  BY <1>1, RangeEmpty DEF InBodies
<1>4. \A r \in Req : Untouched(r) /\ TimerOk(r)
  BY <1>1, <1>2, <1>3, RangeEmpty DEF Untouched, TimerOk
<1> QED
  BY <1>2, <1>4 DEF MadeInv

\* What nothing happened to yet, together with what it rests on.
LEMMA MadeCorrect == Spec => [](TypeOK /\ SocketInv /\ RequestInv /\ SentInv /\ ReadsInv /\ MadeInv)
<1>1. TypeOK /\ SocketInv /\ RequestInv /\ SentInv /\ ReadsInv /\ MadeInv /\ [Next]_vars => MadeInv'
  <2> SUFFICES ASSUME TypeOK, SocketInv, RequestInv, SentInv, ReadsInv, MadeInv, [Next]_vars,
                      crash' = "none", conns' <= 1, ~UseQueue
               PROVE  MadeInv'
    BY DEF MadeInv
  <2>1. CASE UNCHANGED vars
    <3>1. UNCHANGED <<conn, crash, conns, msg_index_, req, pc, status, timer, recv_msg_map_>>
      BY <2>1 DEF vars, msgvars, uservars, netvars
    <3> QED
      BY <3>1 DEF MadeInv, Unmade, Untouched, TimerOk, InBodies
  <2>2. CASE Next
    <3>1. conns <= 1
      <4>1. conns \in Nat /\ conns' \in Nat /\ conns <= conns'
        BY <2>2, StepRuns
      <4> QED
        BY <4>1
    <3> QED
      BY <2>2, <3>1, IoMade, UserMade, NetworkMade DEF Next
  <2> QED
    BY <2>1, <2>2
<1> QED
  BY <1>1, InitMade, SentCorrect, ReadsCorrect, PTL DEF Spec

-----------------------------------------------------------------------------
(* One chain of passes, one request, one read() of it: the list of results *)

\* As far as TimerFindsRecord goes.
Within == ~UseQueue /\ conns <= 1 /\ msg_index_ <= 2 /\ \A r \in Req : reads[r] <= 1

\* A user inside read(), with an entry found.
Reader(u) == pc[u] \in {"get", "poll", "del"}

\* The result is put in del_reqid_list once, by the one read(), when it ends.
TakenOnce ==
    crash = "none" /\ Within =>
        /\ Len(del_reqid_list) <= 1
        /\ del_reqid_list # <<>> => \A u \in Users : ~Reader(u)
        /\ (\A r \in Req : reads[r] = 0) => del_reqid_list = <<>>
        /\ \A u \in Users : Reader(u) => erase_flag[req[u]] # "EXEC"

\* A step that touches neither the list, nor the entries, nor the passes.
Still == UNCHANGED <<del_reqid_list, erase_flag, recv_msg_map_, sweep>>

\* The steps that do.
LEMMA StepKinds ==
    ASSUME Next
    PROVE  \/ Still
           \/ SweepDrop \/ SweepErase \/ SweepMark \/ SweepEnd \/ EraseStart \/ HandleConnectOk
           \/ \E u \in Users : \/ WriteInsert(u) \/ WriteAssign(u) \/ ReadGet(u)
                               \/ ReadResult(u) \/ ReadReturn(u)
<1> USE DEF queuevars, msgvars, sweepvars, calls, uservars, netvars, Still
<1>1. CASE IoThread
  BY <1>1 DEF IoThread, HandlerFindsClosed, HandlerFindsNull, HandleConnectError,
         HandleReadHeader, HandleReadHeaderError, HandleReadMsg, DoWriteQueue, DoWriteDirect,
         HandleWrite, HandleWriteError, SetTimeout, DoClose, set_status
<1>2. ASSUME NEW u \in Users, UserCall(u) \/ UserStep(u)
      PROVE  Still \/ WriteInsert(u) \/ WriteAssign(u) \/ ReadGet(u) \/ ReadResult(u) \/ ReadReturn(u)
  BY <1>2 DEF UserCall, UserStep, IsOpen, WriteNew, ReadFind, UserClose, Destroy, DoConnectCheck,
         DoConnectSet, DoConnectStart, WritePush, WriteArm, WritePost,
         DestroyClose, DestroyDelete, DestroyStop, UserAt
<1>3. CASE Network \/ EraseTimerExpire \/ (\E r \in Req : TimerExpire(r))
  BY <1>3 DEF Network, EraseTimerExpire, TimerExpire, ConnectOk, ConnectFail, ReadComplete, ReadGarbled, ReadFail,
         WriteComplete, WriteFail, PeerReply, NetBreak, Reactor
<1> QED
  BY <1>1, <1>2, <1>3 DEF Next

\* Who is inside read() was so before, or has just found the entry.
LEMMA ReadersStep ==
    ASSUME TypeOK, Next, NEW u \in Users, Reader(u)'
    PROVE  req'[u] = req[u] /\ (Reader(u) \/ ReadFind(u))
<1> USE DEF queuevars, msgvars, sweepvars, calls, uservars, netvars
<1>0. DOMAIN pc = Users /\ DOMAIN req = Users
  BY DEF TypeOK
<1>1. CASE UNCHANGED <<pc, req>>
  BY <1>1 DEF Reader
<1>2. CASE IoThread
  <2>1. UNCHANGED <<pc, req>>
    BY <1>2 DEF IoThread, HandlerFindsClosed, HandlerFindsNull, HandleConnectOk, HandleConnectError,
         HandleReadHeader, HandleReadHeaderError, HandleReadMsg, DoWriteQueue, DoWriteDirect,
         HandleWrite, HandleWriteError, SetTimeout, DoClose, EraseStart, SweepDrop, SweepErase,
         SweepMark, SweepEnd, SweepRound
  <2> QED
    BY <1>1, <2>1
<1>3. CASE Network \/ EraseTimerExpire \/ (\E r \in Req : TimerExpire(r))
  <2>1. UNCHANGED <<pc, req>>
    BY <1>3 DEF Network, EraseTimerExpire, TimerExpire, ConnectOk, ConnectFail, ReadComplete, ReadGarbled, ReadFail,
         WriteComplete, WriteFail, PeerReply, NetBreak, Reactor
  <2> QED
    BY <1>1, <2>1
<1>4. ASSUME NEW v \in Users, UserCall(v) \/ UserStep(v) PROVE req'[u] = req[u] /\ (Reader(u) \/ ReadFind(u))
  <2>1. CASE Destroy(v)
    BY <2>1 DEF Destroy, Reader
  <2>2. CASE WriteNew(v)
    <3>1. pc' = [pc EXCEPT ![v] = WriteOrder.new] /\ req' = [req EXCEPT ![v] = msg_index_]
      BY <2>2 DEF WriteNew, UserAt
    <3>2. WriteOrder.new \notin {"get", "poll", "del"}
      BY DEF WriteOrder
    <3> QED
      BY <1>0, <3>1, <3>2 DEF Reader
  <2>3. CASE ReadFind(v)
    <3>1. req' = req /\ \E there : pc' = [pc EXCEPT ![v] = there]
      BY <2>3 DEF ReadFind, UserAt
    <3> QED
      BY <1>0, <2>3, <3>1 DEF Reader
  <2>4. CASE ReadGet(v) \/ ReadResult(v)
    <3>1. req' = req /\ pc[v] \in {"get", "poll"} /\ \E there : pc' = [pc EXCEPT ![v] = there]
      BY <2>4 DEF ReadGet, ReadResult, UserAt
    <3> QED
      BY <1>0, <3>1 DEF Reader
  <2>5. CASE ~(Destroy(v) \/ WriteNew(v) \/ ReadFind(v) \/ ReadGet(v) \/ ReadResult(v))
    <3>1. req' = req
      BY <1>4, <2>5 DEF UserCall, UserStep, IsOpen, UserClose, DoConnectCheck, DoConnectSet, DoConnectStart,
           WritePush, WriteInsert, WriteAssign, WriteArm, WritePost, ReadReturn, DestroyClose,
           DestroyDelete, DestroyStop
    <3>2. \E there \in {"idle", "check", "set", "start", "insert", "assign", "arm", "post",
                       "delete", "stop", "done"} :
               pc' = [pc EXCEPT ![v] = there]
      BY <1>4, <2>5 DEF UserCall, UserStep, IsOpen, UserClose, DoConnectCheck, DoConnectSet, DoConnectStart,
           WritePush, WriteInsert, WriteAssign, WriteArm, WritePost, WriteOrder, ReadReturn, DestroyClose,
           DestroyDelete, DestroyStop, UserAt
    <3> QED
      BY <1>0, <3>1, <3>2 DEF Reader
  <2> QED
    BY <2>1, <2>2, <2>3, <2>4, <2>5
<1> QED
  BY <1>2, <1>3, <1>4 DEF Next

\* Connections, requests and calls of read() are only added.
LEMMA WithinBefore ==
    ASSUME TypeOK, TypeOK', Next, Within'
    PROVE  /\ Within
           /\ \A r \in Req : reads[r] <= reads'[r]
           /\ \A u \in Users : ReadFind(u) => reads'[req[u]] = reads[req[u]] + 1
<1> USE DEF queuevars, msgvars, sweepvars, calls, uservars, netvars
<1>0. /\ reads \in [Req -> Nat] /\ reads' \in [Req -> Nat]
      /\ msg_index_ \in Int /\ msg_index_' \in Int /\ req \in [Users -> 0..MaxReq]
  <2>1. msg_index_ \in 1..(MaxReq + 1) /\ msg_index_' \in 1..(MaxReq + 1)
    BY DEF TypeOK
  <2>2. reads \in [Req -> Nat] /\ reads' \in [Req -> Nat] /\ req \in [Users -> 0..MaxReq]
    BY DEF TypeOK
  <2> QED
    BY <2>1, <2>2
<1>1. (msg_index_' = msg_index_ \/ msg_index_' = msg_index_ + 1)
      /\ (reads' = reads \/ \E u \in Users : ReadFind(u))
  <2>1. CASE IoThread
    BY <2>1 DEF IoThread, HandlerFindsClosed, HandlerFindsNull, HandleConnectOk, HandleConnectError,
         HandleReadHeader, HandleReadHeaderError, HandleReadMsg, DoWriteQueue, DoWriteDirect,
         HandleWrite, HandleWriteError, SetTimeout, DoClose, EraseStart, SweepDrop, SweepErase,
         SweepMark, SweepEnd, SweepRound
  <2>2. CASE Network \/ EraseTimerExpire \/ (\E r \in Req : TimerExpire(r))
    BY <2>2 DEF Network, EraseTimerExpire, TimerExpire, ConnectOk, ConnectFail, ReadComplete, ReadGarbled, ReadFail,
         WriteComplete, WriteFail, PeerReply, NetBreak, Reactor
  <2>3. ASSUME NEW v \in Users, UserCall(v) \/ UserStep(v)
        PROVE  (msg_index_' = msg_index_ \/ msg_index_' = msg_index_ + 1) /\ (reads' = reads \/ ReadFind(v))
    BY <2>3 DEF UserCall, UserStep, IsOpen, WriteNew, ReadFind, UserClose, Destroy, DoConnectCheck,
         DoConnectSet, DoConnectStart, WritePush, WriteInsert, WriteAssign, WriteArm, WritePost,
         ReadGet, ReadResult, ReadReturn, DestroyClose, DestroyDelete, DestroyStop, UserAt
  <2> QED
    BY <2>1, <2>2, <2>3 DEF Next
<1>2. ASSUME NEW u \in Users, ReadFind(u)
      PROVE  /\ reads'[req[u]] = reads[req[u]] + 1 
             /\ \A r \in Req : reads[r] <= reads'[r]
  <2>1. req[u] \in Req
    BY <1>0, <1>2 DEF ReadFind, Req
  <2>2. reads' = [reads EXCEPT ![req[u]] = @ + 1]
    BY <1>2 DEF ReadFind
  <2> QED
    BY <1>0, <2>1, <2>2
<1>3. \A r \in Req : reads[r] <= reads'[r]
  BY <1>0, <1>1, <1>2
<1>4. conns <= 1
  <2>1. conns \in Nat /\ conns' \in Nat /\ conns <= conns'
    BY StepRuns
  <2> QED
    BY <2>1 DEF Within
<1>5. msg_index_ <= 2
  BY <1>0, <1>1 DEF Within
<1>6. \A r \in Req : reads[r] <= 1
  BY <1>0, <1>3 DEF Within
<1> QED
  BY <1>2, <1>3, <1>4, <1>5, <1>6 DEF Within

\* There is one request, if it is read.
LEMMA OneRequest ==
    ASSUME TypeOK, RequestInv, Within
    PROVE  /\ \A r \in Req : reads[r] # 0 => r = 1
           /\ \A u \in Users : req[u] # 0 => req[u] = 1
           /\ \A u, v \in Users : Reader(u) /\ Reader(v) => u = v
           /\ \A u \in Users : Reader(u) => req[u] = 1 /\ 1 \in Req /\ reads[1] # 0
<1>0. msg_index_ \in Int /\ req \in [Users -> 0..MaxReq] /\ reads \in [Req -> Nat] /\ MaxReq \in Nat
      /\ \A u \in Users : Reader(u) => req[u] \in Req
  BY ClientLoopAssumption DEF TypeOK, Reader
<1>1. ASSUME NEW r \in Req, reads[r] # 0 PROVE r = 1
  <2>1. ~(r >= msg_index_) /\ r \in Int /\ r >= 1
    BY <1>1 DEF RequestInv, ReadAfterWrite, Req
  <2> QED
    BY <1>0, <2>1 DEF Within
<1>2. ASSUME NEW u \in Users, req[u] # 0 PROVE req[u] = 1
  <2>1. req[u] < msg_index_ /\ req[u] \in Nat
    BY <1>0 DEF RequestInv, OwnRequest
  <2> QED
    BY <1>0, <1>2, <2>1 DEF Within
<1>3. ASSUME NEW u \in Users, Reader(u) PROVE req[u] = 1 /\ 1 \in Req /\ reads[1] # 0
  <2>1. req[u] \in Req /\ reads[req[u]] > 0
    BY <1>0, <1>3 DEF Reader, RequestInv, ReadAfterWrite
  <2>2. reads[req[u]] # 0
    BY <1>0, <2>1
  <2> QED
    BY <1>1, <2>1, <2>2
<1>4. ASSUME NEW u \in Users, NEW v \in Users, Reader(u), Reader(v) PROVE u = v
  BY <1>3, <1>4 DEF RequestInv, OwnRequest
<1> QED
  BY <1>1, <1>2, <1>3, <1>4

\* A first read() finds the list empty and the request unmarked.
LEMMA FirstRead ==
    ASSUME TypeOK, TypeOK', RequestInv, TakenOnce, Next, Within', NEW u \in Users, ReadFind(u)
    PROVE  del_reqid_list = <<>> /\ erase_flag[req[u]] = "UNKNOWN"
<1>0. /\ reads \in [Req -> Nat] /\ crash = "none" /\ Within /\ req \in [Users -> 0..MaxReq]
  BY StepRuns, WithinBefore DEF TypeOK
<1>1. req[u] \in Req /\ req[u] = 1
  BY <1>0, OneRequest DEF ReadFind, Req
<1>2. reads[1] = 0
  <2>1. reads'[1] = reads[1] + 1 /\ reads'[1] <= 1 /\ reads[1] \in Nat
    BY <1>0, <1>1, WithinBefore DEF Within
  <2> QED
    BY <2>1
<1>3. \A r \in Req : reads[r] = 0
  BY <1>0, <1>2, OneRequest
<1>4. del_reqid_list = <<>>
  BY <1>0, <1>3 DEF TakenOnce
<1>5. erase_flag[req[u]] = "UNKNOWN"
  BY <1>0, <1>1, <1>3 DEF RequestInv, FlaggedIsRead
<1> QED
  BY <1>4, <1>5

\* What a step does to the list.
LEMMA ListStep ==
    ASSUME TypeOK, Next
    PROVE  \/ del_reqid_list' = del_reqid_list
           \/ /\ del_reqid_list # <<>>
              /\ Len(del_reqid_list') \in Nat
              /\ Len(del_reqid_list') <= Len(del_reqid_list)
           \/ \E u \in Users : ReadReturn(u)
<1> DEFINE q == del_reqid_list
<1>0. q \in Seq(Req) /\ Len(q) \in Nat
  BY LenProperties DEF TypeOK
<1>1. CASE SweepDrop \/ SweepErase \/ SweepMark
  <2>1. q # <<>> /\ (q' = Tail(q) \/ q' = Append(Tail(q), Head(q)))
    <3>1. SweepRound /\ (q' = Tail(q) \/ q' = Append(Tail(q), Head(q)))
      BY <1>1 DEF SweepDrop, SweepErase, SweepMark, PutBack
    <3>2. sweep.i < Len(q) /\ sweep.i \in Nat
      BY <3>1 DEF SweepRound, TypeOK
    <3>3. q # <<>>
      BY <1>0, <3>2, EmptySeq
    <3> QED
      BY <3>1, <3>3
  <2> HIDE DEF q
  <2>2. Tail(q) \in Seq(Req) /\ Len(Tail(q)) = Len(q) - 1 /\ Head(q) \in Req
    BY <1>0, <2>1, HeadTailProperties
  <2>3. Len(Append(Tail(q), Head(q))) = Len(q)
    <3>1. Len(Append(Tail(q), Head(q))) = Len(Tail(q)) + 1
      BY <2>2, AppendProperties
    <3> QED
      BY <1>0, <2>2, <3>1
  <2>4. Len(q') = Len(q) - 1 \/ Len(q') = Len(q)
    <3>1. CASE q' = Tail(q)
      BY <2>2, <3>1
    <3>2. CASE q' = Append(Tail(q), Head(q))
      BY <2>3, <3>2, Zenon
    <3> QED
      BY <2>1, <3>1, <3>2
  <2>5. Len(q) # 0
    BY <1>0, <2>1, EmptySeq
  <2>6. Len(q') \in Nat /\ Len(q') <= Len(q)
    BY <1>0, <2>4, <2>5
  <2> QED
    BY <2>1, <2>6 DEF q
<1>2. CASE SweepEnd \/ EraseStart \/ HandleConnectOk
  BY <1>2 DEF SweepEnd, EraseStart, HandleConnectOk
<1>3. ASSUME NEW u \in Users, WriteInsert(u) \/ WriteAssign(u) \/ ReadGet(u) \/ ReadResult(u)
      PROVE  q' = q
  BY <1>3 DEF WriteInsert, WriteAssign, ReadGet, ReadResult
<1> QED
  BY <1>1, <1>2, <1>3, StepKinds DEF Still

\* Only a pass marks EXEC.
LEMMA MarkStep ==
    ASSUME TypeOK, Next, NEW r \in Req, erase_flag'[r] = "EXEC"
    PROVE  erase_flag[r] = "EXEC" \/ (SweepMark /\ r = Oldest)
<1>0. erase_flag \in [Req -> {"UNKNOWN", "STATE", "EXEC"}]
  BY DEF TypeOK
<1>1. CASE SweepMark
  <2>1. \E v : erase_flag' = [erase_flag EXCEPT ![Oldest] = v]
    BY <1>1 DEF SweepMark
  <2> QED
    BY <1>0, <1>1, <2>1
<1>2. ASSUME NEW u \in Users, ReadResult(u) PROVE erase_flag[r] = "EXEC"
  <2>1. erase_flag' = [erase_flag EXCEPT ![req[u]] = "STATE"]
    BY <1>2 DEF ReadResult
  <2> QED
    BY <1>0, <2>1
<1>3. CASE SweepDrop \/ SweepErase \/ SweepEnd \/ EraseStart \/ HandleConnectOk
  BY <1>3 DEF SweepDrop, SweepErase, SweepEnd, EraseStart, HandleConnectOk, msgvars
<1>4. ASSUME NEW u \in Users, WriteInsert(u) \/ WriteAssign(u) \/ ReadGet(u) \/ ReadReturn(u)
      PROVE  erase_flag' = erase_flag
  BY <1>4 DEF WriteInsert, WriteAssign, ReadGet, ReadReturn, msgvars
<1> QED
  BY <1>1, <1>2, <1>3, <1>4, StepKinds DEF Still

\* The one read() ends with an empty list, so the list gets one element.
LEMMA TakenKept ==
    ASSUME TypeOK, TypeOK', RequestInv, TakenOnce, Next
    PROVE  TakenOnce'
<1> SUFFICES ASSUME crash' = "none", Within' PROVE TakenOnce'
  BY DEF TakenOnce
<1> DEFINE q == del_reqid_list
<1>0. /\ crash = "none" /\ Within /\ q \in Seq(Req) /\ Len(q) \in Nat /\ q' \in Seq(Req)
      /\ reads \in [Req -> Nat] /\ reads' \in [Req -> Nat]
  BY StepRuns, WithinBefore, LenProperties DEF TypeOK
<1>1. /\ Len(q) <= 1
      /\ q # <<>> => \A u \in Users : ~Reader(u)
      /\ (\A r \in Req : reads[r] = 0) => q = <<>>
      /\ \A u \in Users : Reader(u) => erase_flag[req[u]] # "EXEC"
  BY <1>0 DEF TakenOnce
<1>2. \A u \in Users :
          Reader(u)' => /\ req'[u] = req[u]
                        /\ Reader(u) \/ (q = <<>> /\ erase_flag[req[u]] = "UNKNOWN")
  BY ReadersStep, FirstRead
<1>3. \A u \in Users : Reader(u)' => erase_flag'[req'[u]] # "EXEC"
  <2> SUFFICES ASSUME NEW u \in Users, Reader(u)', erase_flag'[req'[u]] = "EXEC" PROVE FALSE
    OBVIOUS
  <2>1. req'[u] = req[u] /\ req'[u] \in Req
    BY <1>2 DEF TypeOK, Reader
  <2>2. erase_flag[req[u]] # "EXEC"
    BY <1>1, <1>2
  <2>3. SweepMark
    BY <2>1, <2>2, MarkStep
  <2>4. sweep.i < Len(q) /\ sweep.i \in Nat /\ pc' = pc
    BY <2>3 DEF SweepMark, SweepRound, TypeOK, uservars
  <2>5. q # <<>>
    BY <1>0, <2>4, EmptySeq
  <2>6. Reader(u)
    BY <2>4 DEF Reader
  <2> QED
    BY <1>1, <2>5, <2>6
<1>4. ASSUME NEW v \in Users, ReadReturn(v)
      PROVE  /\ Len(q') <= 1 /\ \A u \in Users : ~Reader(u)'
             /\ \E r \in Req : reads'[r] # 0
  <2>1. /\ Reader(v) /\ q' = Append(q, req[v]) /\ pc' = [pc EXCEPT ![v] = "idle"] /\ reads' = reads
        /\ DOMAIN pc = Users
    BY <1>4 DEF ReadReturn, UserAt, Reader, TypeOK
  <2>2. q = <<>>
    BY <1>1, <2>1
  <2>3. req[v] \in Req /\ reads[req[v]] # 0
    BY <1>0, <2>1, OneRequest
  <2>4. Len(q') = Len(q) + 1 /\ Len(q) = 0
    BY <1>0, <2>1, <2>2, <2>3, AppendProperties, EmptySeq
  <2>5. \A u \in Users : ~Reader(u)'
    BY <1>0, <2>1, OneRequest DEF Reader
  <2>6. Len(q') <= 1
    BY <2>4
  <2> QED
    BY <2>1, <2>3, <2>5, <2>6
<1>5. CASE q' = q
  <2>1. q' # <<>> => \A u \in Users : ~Reader(u)'
    BY <1>1, <1>2, <1>5
  <2>2. (\A r \in Req : reads'[r] = 0) => q' = <<>>
    <3> SUFFICES ASSUME \A r \in Req : reads'[r] = 0 PROVE q = <<>>
      BY <1>5
    <3>1. \A r \in Req : reads[r] <= reads'[r]
      BY WithinBefore
    <3>2. \A r \in Req : reads[r] = 0
      BY <1>0, <3>1
    <3> QED
      BY <1>1, <3>2
  <2> QED
    BY <1>1, <1>3, <1>5, <2>1, <2>2 DEF TakenOnce
<1>6. CASE q # <<>> /\ Len(q') \in Nat /\ Len(q') <= Len(q)
  <2>1. \A u \in Users : ~Reader(u)'
    BY <1>1, <1>2, <1>6
  <2>2. ~(\A r \in Req : reads'[r] = 0)
    <3> SUFFICES ASSUME \A r \in Req : reads'[r] = 0 PROVE FALSE
      OBVIOUS
    <3>1. \A r \in Req : reads[r] <= reads'[r]
      BY WithinBefore
    <3>2. \A r \in Req : reads[r] = 0
      BY <1>0, <3>1
    <3> QED
      BY <1>1, <1>6, <3>2
  <2>3. Len(q') <= 1
    BY <1>0, <1>1, <1>6
  <2> QED
    BY <1>3, <2>1, <2>2, <2>3 DEF TakenOnce
<1>7. CASE \E v \in Users : ReadReturn(v)
  BY <1>3, <1>4, <1>7 DEF TakenOnce
<1> QED
  BY <1>5, <1>6, <1>7, ListStep

-----------------------------------------------------------------------------
(* One chain of passes: a timer's handler runs before its record is erased *)

\* The handler of a timer at place i finds its record: once the entry is marked
\* EXEC no pass that would erase it is under way or comes before the handler.
Survives(i) ==
    LET r == conn.ready[i].id
    IN  /\ r \in Req
        /\ recv_msg_map_[r] = "set"
        /\ erase_flag[r] = "EXEC" =>
              ~Behind(conn.ready, i) /\ (sweep.on => sweep.i >= Len(del_reqid_list))

\* A request is marked by the pass of the only connection, and no other
\* connection starts one out of turn.
TimerInv ==
    crash = "none" /\ Within =>
        /\ \A r \in Req : erase_flag[r] = "EXEC" => conns = 1 /\ Times(conn.ready, ConnectsOk) = 0
        /\ \A i \in DOMAIN conn.ready : conn.ready[i].h = "timeout" => Survives(i)

\* Only ConnectOk queues the handler of a connection.
LEMMA ConnectsKept ==
    ASSUME TypeOK, SocketInv, Next, ~ConnectOk, Times(conn.ready, ConnectsOk) = 0
    PROVE  Times(conn'.ready, ConnectsOk) = 0
<1>0. conn \in Conn /\ 0 \in 0..MaxReq /\ sweep.on \in BOOLEAN
  BY ClientLoopAssumption DEF TypeOK
<1>1. CASE IoThread /\ ~sweep.on
  <2>1. /\ Times(conn'.ready, ConnectsOk) = Times(Taken.ready, ConnectsOk)
        /\ Times(conn.ready, ConnectsOk) = Times(Taken.ready, ConnectsOk) + One(Job, ConnectsOk)
        /\ Times(Taken.ready, ConnectsOk) \in Nat
    BY <1>1, CountedNotPlain, TimesHandler
  <2>2. One(Job, ConnectsOk) \in {0, 1}
    BY DEF One
  <2> QED
    BY <2>1, <2>2
<1>2. CASE IoThread /\ sweep.on
  <2> DEFINE h == H("erase", 0, FALSE)
  <2>1. conn' = conn \/ conn' = Post(conn, h)
    BY <1>2, IoSteps DEF SweepRound, SweepEnd
  <2>2. h \in Handler /\ h.h = "erase"
    BY <1>0 DEF H, Handler
  <2> HIDE DEF h
  <2>3. One(h, ConnectsOk) = 0
    BY <2>2 DEF One, ConnectsOk
  <2>4. Times(Post(conn, h).ready, ConnectsOk) = 0 + 0
    BY <1>0, <2>2, <2>3, TimesPost
  <2> QED
    BY <2>1, <2>4
<1>3. CASE Network \/ EraseTimerExpire \/ (\E r \in Req : TimerExpire(r))
  <2>1. ASSUME NEW h \in Handler, Event(h) PROVE One(h, ConnectsOk) = 0
    BY <2>1 DEF Event, H, One, ConnectsOk
  <2> QED
    BY <1>3, <2>1, TimesNetwork
<1>4. ASSUME NEW u \in Users, UserCall(u) \/ UserStep(u) PROVE Times(conn'.ready, ConnectsOk) = 0
  <2>1. \A h \in ConnectsOk : ~Plain(h) /\ h.h # "close"
    BY CountedNotPlain DEF ConnectsOk
  <2> DEFINE h == H("dowrite", IF UseQueue THEN 0 ELSE req[u], TRUE)
  <2>2. h.h = "dowrite"
    BY DEF H
  <2>3. One(h, ConnectsOk) = 0
    BY <2>2 DEF One, ConnectsOk
  <2>4. \/ Times(conn'.ready, ConnectsOk) = Times(conn.ready, ConnectsOk)
        \/ Times(conn'.ready, ConnectsOk) = Times(conn.ready, ConnectsOk) + One(h, ConnectsOk)
    BY <1>4, <2>1, TimesUser
  <2> HIDE DEF h
  <2> QED
    BY <2>3, <2>4
<1> QED
  BY <1>0, <1>1, <1>2, <1>3, <1>4 DEF Next

\* While the pass of the only connection runs, no other is queued.
LEMMA OnePass ==
    ASSUME TypeOK, ChainsInv, crash = "none", conns <= 1, sweep.on
    PROVE  /\ conns = 1 /\ Times(conn.ready, ConnectsOk) = 0
           /\ \A i \in DOMAIN conn.ready : ~Behind(conn.ready, i)
<1> DEFINE E == Times(conn.ready, Named("erase"))
           C == Times(conn.ready, ConnectsOk)
<1>0. conn.ready \in Seq(Handler) /\ conns \in Nat
  BY ConnFields DEF TypeOK
<1>1. E \in Nat /\ C \in Nat
  BY <1>0, PlacesFinite
<1>2. conns = 1 + Bit(e_timer) + E + C /\ Bit(e_timer) \in {0, 1}
  BY DEF ChainsInv, Bit
<1> HIDE DEF E, C
<1>3. conns = 1 /\ E = 0 /\ C = 0
  BY <1>0, <1>1, <1>2
<1>4. Places(conn.ready, Named("erase")) = {}
  <2>1. IsFiniteSet(Places(conn.ready, Named("erase")))
    BY <1>0, PlacesFinite
  <2> QED
    BY <1>3, <2>1, FS_EmptySet DEF E, Times
<1>5. ASSUME NEW i \in DOMAIN conn.ready, Behind(conn.ready, i) PROVE FALSE
  <2>1. PICK j \in 1..(i - 1) : conn.ready[j].h = "erase"
    BY <1>5 DEF Behind
  <2>2. Len(conn.ready) \in Nat /\ DOMAIN conn.ready = 1..Len(conn.ready)
    BY <1>0, LenProperties
  <2>3. j \in DOMAIN conn.ready
    BY <2>1, <2>2
  <2>4. conn.ready[j] \in Handler
    BY <1>0, <2>3
  <2>5. j \in Places(conn.ready, Named("erase"))
    BY <2>1, <2>3, <2>4 DEF Places, Named
  <2> QED
    BY <1>4, <2>5
<1> QED
  BY <1>3, <1>5 DEF C

\* The pass that marks a request is that of the only connection.
LEMMA MarkedKept ==
    ASSUME TypeOK, TypeOK', SocketInv, ChainsInv, TimerInv, Next, Within', NEW r \in Req,
           erase_flag'[r] = "EXEC"
    PROVE  conns' = 1 /\ Times(conn'.ready, ConnectsOk) = 0
<1>0. crash = "none" /\ Within /\ conns \in Nat /\ conns' \in Nat /\ conns <= conns'
  BY StepRuns, WithinBefore
<1>1. CASE SweepMark
  <2>1. sweep.on /\ conn' = conn /\ conns' = conns
    BY <1>1 DEF SweepMark, SweepRound, netvars
  <2>2. conns <= 1
    BY <1>0 DEF Within
  <2> QED
    BY <1>0, <2>1, <2>2, OnePass
<1>2. CASE erase_flag[r] = "EXEC"
  <2>1. conns = 1 /\ Times(conn.ready, ConnectsOk) = 0
    BY <1>0, <1>2 DEF TimerInv
  <2>2. conns' = 1
    BY <1>0, <2>1 DEF Within
  <2>3. ~ConnectOk
    <3>1. ConnectOk => conns' = conns + 1
      BY DEF ConnectOk
    <3> QED
      BY <2>1, <2>2, <3>1
  <2> QED
    BY <2>1, <2>2, <2>3, ConnectsKept
<1> QED
  BY <1>1, <1>2, MarkStep

\* While a timer's handler is queued the entry of its request stays.
LEMMA EntryKept ==
    ASSUME TypeOK, SocketInv, RequestInv, MadeInv, TimerInv, Next, Within, crash' = "none",
           NEW k \in DOMAIN conn.ready, conn.ready[k].h = "timeout", Survives(k)
    PROVE  recv_msg_map_'[conn.ready[k].id] = "set"
<1> DEFINE r == conn.ready[k].id
<1>0. /\ crash = "none" /\ recv_msg_map_ \in [Req -> {"none", "null", "set"}] /\ r \in Req
      /\ recv_msg_map_[r] = "set" /\ conns \in Nat /\ ~UseQueue
      /\ Len(del_reqid_list) \in Nat /\ sweep.i \in Nat
  BY StepRuns, LenProperties DEF TypeOK, Survives, Within
<1>1. CASE SweepErase
  <2>1. /\ sweep.on /\ sweep.i < Len(del_reqid_list) /\ erase_flag[Oldest] = "EXEC"
        /\ recv_msg_map_' = [recv_msg_map_ EXCEPT ![Oldest] = "none"]
    BY <1>1 DEF SweepErase, SweepRound, Erasable
  <2>2. ~(sweep.i >= Len(del_reqid_list))
    BY <1>0, <2>1
  <2>3. erase_flag[r] # "EXEC"
    BY <2>1, <2>2 DEF Survives
  <2> QED
    BY <1>0, <2>1, <2>3
<1>2. ASSUME NEW u \in Users, WriteInsert(u) PROVE recv_msg_map_'[r] = "set"
  <2>1. pc[u] = "insert" /\ recv_msg_map_' = [recv_msg_map_ EXCEPT ![req[u]] = "null"]
    BY <1>2 DEF WriteInsert, UserAt
  <2>2. r # req[u]
    <3> SUFFICES ASSUME r = req[u] PROVE FALSE
      OBVIOUS
    <3>1. Unmade(r)
      BY <2>1 DEF Unmade
    <3>2. conns <= 1
      BY <1>0 DEF Within
    <3>3. Untouched(r)
      BY <1>0, <3>1, <3>2 DEF MadeInv
    <3>4. conn.ready[k] \in Range(conn.ready)
      BY DEF Range
    <3> QED
      BY <3>3, <3>4 DEF Untouched
  <2> QED
    BY <1>0, <2>1, <2>2
<1>3. ASSUME NEW u \in Users, WriteAssign(u) PROVE recv_msg_map_'[r] = "set"
  <2>1. recv_msg_map_' = [recv_msg_map_ EXCEPT ![req[u]] = "set"]
    BY <1>3 DEF WriteAssign
  <2> QED
    BY <1>0, <2>1
<1>4. ASSUME NEW u \in Users, ReadGet(u) PROVE recv_msg_map_'[r] = "set"
  BY <1>0, <1>4 DEF ReadGet
<1>5. CASE SweepDrop \/ SweepMark \/ SweepEnd \/ EraseStart \/ HandleConnectOk
  BY <1>0, <1>5 DEF SweepDrop, SweepMark, SweepEnd, EraseStart, HandleConnectOk, msgvars
<1>6. ASSUME NEW u \in Users, ReadResult(u) \/ ReadReturn(u) PROVE recv_msg_map_'[r] = "set"
  BY <1>0, <1>6 DEF ReadResult, ReadReturn, msgvars
<1>7. CASE Still
  BY <1>0, <1>7 DEF Still
<1> QED
  BY <1>1, <1>2, <1>3, <1>4, <1>5, <1>6, <1>7, StepKinds

\* No pass comes between a timer's handler and the entry it marks.
LEMMA PassKept ==
    ASSUME TypeOK, SocketInv, RequestInv, ChainsInv, TakenOnce, TakenOnce', TimerInv, Next,
           Within, Within', crash' = "none",
           NEW k \in DOMAIN conn.ready, conn.ready[k].h = "timeout", Survives(k),
           EraseStart => Behind(conn.ready, k), erase_flag'[conn.ready[k].id] = "EXEC"
    PROVE  ~Behind(conn.ready, k) /\ (sweep'.on => sweep'.i >= Len(del_reqid_list'))
<1> DEFINE r == conn.ready[k].id
<1>0. /\ crash = "none" /\ r \in Req /\ sweep \in [on : BOOLEAN, i : Nat] /\ del_reqid_list \in Seq(Req)
      /\ Len(del_reqid_list) \in Nat /\ conn \in Conn
  BY StepRuns, LenProperties DEF TypeOK, Survives
<1>1. CASE erase_flag[r] = "EXEC"
  <2>1. ~Behind(conn.ready, k) /\ (sweep.on => sweep.i >= Len(del_reqid_list))
    BY <1>1 DEF Survives
  <2>2. ~SweepRound
    <3>1. SweepRound => sweep.on /\ sweep.i < Len(del_reqid_list)
      BY DEF SweepRound
    <3> QED
      BY <1>0, <2>1, <3>1
  <2>3. CASE SweepEnd
    <3>1. sweep' = [on |-> FALSE, i |-> 0]
      BY <2>3 DEF SweepEnd
    <3> QED
      BY <2>1, <3>1
  <2>4. CASE HandleConnectOk
    <3>1. /\ conn.ready # <<>> /\ Job.h = "connect" /\ Job.ok /\ ~sweep.on /\ IoThread
      BY <2>4 DEF HandleConnectOk, Runs, IoIdle, Job, IoThread
    <3>2. Job \in Handler
      BY <1>0, <3>1, TakenType
    <3>3. One(Job, ConnectsOk) = 1
      BY <3>1, <3>2 DEF One, ConnectsOk
    <3>4. /\ Times(conn.ready, ConnectsOk) = Times(Taken.ready, ConnectsOk) + 1
          /\ Times(Taken.ready, ConnectsOk) \in Nat
      BY <3>1, <3>3, CountedNotPlain, TimesHandler
    <3>5. Times(conn.ready, ConnectsOk) = 0
      BY <1>0, <1>1 DEF TimerInv
    <3> QED
      BY <3>4, <3>5
  <2>5. ASSUME NEW u \in Users, ReadReturn(u) PROVE FALSE
    <3>1. Reader(u) /\ erase_flag[req[u]] # "EXEC"
      BY <1>0, <2>5 DEF ReadReturn, UserAt, Reader, TakenOnce
    <3>2. reads[r] > 0 /\ reads[r] \in Nat
      BY <1>0, <1>1 DEF RequestInv, FlaggedIsRead, TypeOK
    <3>3. reads[r] # 0
      BY <3>2
    <3>4. req[u] = 1 /\ r = 1
      BY <1>0, <3>1, <3>3, OneRequest
    <3> QED
      BY <1>1, <3>1, <3>4
  <2>6. CASE UNCHANGED <<sweep, del_reqid_list>>
    BY <2>1, <2>6
  <2>7. SweepDrop \/ SweepErase \/ SweepMark => SweepRound
    BY DEF SweepDrop, SweepErase, SweepMark
  <2>8. ASSUME NEW u \in Users, WriteInsert(u) \/ WriteAssign(u) \/ ReadGet(u) \/ ReadResult(u)
        PROVE  UNCHANGED <<sweep, del_reqid_list>>
    BY <2>8 DEF WriteInsert, WriteAssign, ReadGet, ReadResult, UserAt
  <2> QED
    BY <2>1, <2>2, <2>3, <2>4, <2>5, <2>6, <2>7, <2>8, StepKinds DEF Still
<1>2. CASE erase_flag[r] # "EXEC"
  <2>1. SweepMark
    BY <1>0, <1>2, MarkStep
  <2>2. sweep.on /\ sweep'.i = sweep.i + 1 /\ conns <= 1
    BY <1>0, <2>1 DEF SweepMark, SweepRound, Within
  <2>3. ~Behind(conn.ready, k)
    BY <1>0, <2>2, OnePass
  <2>4. Len(del_reqid_list') <= 1
    BY DEF TakenOnce
  <2>5. Len(del_reqid_list') \in Nat
    <3>1. /\ del_reqid_list' = Append(Tail(del_reqid_list), Head(del_reqid_list))
          /\ sweep.i < Len(del_reqid_list)
      BY <2>1 DEF SweepMark, SweepRound, PutBack
    <3>2. del_reqid_list # <<>>
      BY <1>0, <3>1, EmptySeq
    <3>3. del_reqid_list' \in Seq(Req)
      BY <1>0, <3>1, <3>2, HeadTailProperties, AppendProperties
    <3> QED
      BY <3>3, LenProperties
  <2>6. sweep'.i >= Len(del_reqid_list')
    BY <1>0, <2>2, <2>4, <2>5
  <2> QED
    BY <2>3, <2>6
<1> QED
  BY <1>1, <1>2

\* An expired timer's handler is queued while its request has no result; any
\* other was queued before.
LEMMA TimerKept ==
    ASSUME TypeOK, TypeOK', SocketInv, RequestInv, ChainsInv, MadeInv, TakenOnce, TakenOnce', TimerInv, Next
    PROVE  TimerInv'
<1> SUFFICES ASSUME crash' = "none", Within' PROVE TimerInv'
  BY DEF TimerInv
<1>0. crash = "none" /\ Within
  BY StepRuns, WithinBefore
<1>1. ASSUME NEW r \in Req, erase_flag'[r] = "EXEC" PROVE conns' = 1 /\ Times(conn'.ready, ConnectsOk) = 0
  BY <1>1, MarkedKept
<1>2. ASSUME NEW i \in DOMAIN conn'.ready, conn'.ready[i].h = "timeout" PROVE Survives(i)'
  <2>1. ASSUME NEW k \in DOMAIN conn.ready, conn.ready[k] = conn'.ready[i],
               Behind(conn'.ready, i) => Behind(conn.ready, k), EraseStart => Behind(conn.ready, k)
        PROVE  Survives(i)'
    <3>1. conn.ready[k].h = "timeout" /\ Survives(k)
      BY <1>0, <1>2, <2>1 DEF TimerInv
    <3> DEFINE r == conn.ready[k].id
    <3>2. r = conn'.ready[i].id /\ r \in Req
      BY <2>1, <3>1 DEF Survives
    <3>3. recv_msg_map_'[r] = "set"
      BY <1>0, <3>1, EntryKept
    <3>4. erase_flag'[r] = "EXEC" =>
              ~Behind(conn.ready, k) /\ (sweep'.on => sweep'.i >= Len(del_reqid_list'))
      BY <1>0, <2>1, <3>1, PassKept
    <3> HIDE DEF r
    <3> QED
      BY <2>1, <3>2, <3>3, <3>4 DEF Survives
  <2>2. ASSUME NEW r \in Req, TimerExpire(r), conn'.ready[i] = H("timeout", r, TRUE)
        PROVE  Survives(i)'
    <3>1. timer[r] /\ UNCHANGED <<recv_msg_map_, erase_flag>>
      BY <2>2 DEF TimerExpire, Reactor
    <3>2. conns <= 1
      <4>1. conns \in Nat /\ conns <= 1
        BY <1>0 DEF TypeOK, Within
      <4> QED
        BY <4>1
    <3>3. recv_msg_map_[r] = "set" /\ status[r] = "UNKNOWN"
      BY <1>0, <3>1, <3>2 DEF MadeInv, TimerOk, Within
    <3>4. erase_flag[r] = "UNKNOWN"
      BY <3>3 DEF RequestInv, FlaggedIsRead
    <3>5. conn'.ready[i].id = r
      BY <2>2 DEF H
    <3> QED
      BY <3>1, <3>3, <3>4, <3>5 DEF Survives
  <2> QED
    BY <1>2, <2>1, <2>2, TimeoutPlaces
<1> QED
  BY <1>1, <1>2 DEF TimerInv

\* No timer runs at first.
LEMMA InitTimer == Init => TakenOnce /\ TimerInv
<1> SUFFICES ASSUME Init PROVE TakenOnce /\ TimerInv
  OBVIOUS
<1>1. conn.ready = <<>> /\ del_reqid_list = <<>>
  BY DEF Init, do_connect, AsyncConnect
<1>2. Len(<<>>) = 0 /\ DOMAIN conn.ready = {}
  BY <1>1, EmptySeq
<1>3. /\ \A u \in Users : ~Reader(u)
      /\ \A r \in Req : erase_flag[r] # "EXEC"
  BY DEF Init, Reader
<1>4. TakenOnce
  BY <1>1, <1>2, <1>3 DEF TakenOnce
<1>5. TimerInv
  BY <1>2, <1>3 DEF TimerInv
<1> QED
  BY <1>4, <1>5

\* The order of marks, passes and expired timers, together with what it rests on.
LEMMA TimerCorrect ==
    Spec => [](TypeOK /\ SocketInv /\ RequestInv /\ ChainsInv /\ MadeInv /\ TakenOnce /\ TimerInv)
<1> DEFINE Base == TypeOK /\ SocketInv /\ RequestInv /\ ChainsInv /\ MadeInv
<1>1. Spec => []Base
  BY MadeCorrect, ChainsCorrect, PTL
<1>2. Base /\ Base' /\ TakenOnce /\ TimerInv /\ [Next]_vars => TakenOnce' /\ TimerInv'
  <2> SUFFICES ASSUME Base, TypeOK', TakenOnce, TimerInv, [Next]_vars PROVE TakenOnce' /\ TimerInv'
    OBVIOUS
  <2>1. CASE UNCHANGED vars
    <3>1. UNCHANGED <<conn, crash, conns, msg_index_, req, pc, reads, recv_msg_map_, erase_flag, sweep,
                      del_reqid_list>>
      BY <2>1 DEF vars, msgvars, sweepvars, uservars, netvars
    <3>2. Within' <=> Within
      BY <3>1 DEF Within
    <3>3. TakenOnce'
      BY <3>1, <3>2 DEF TakenOnce, Reader
    <3>4. TimerInv'
      BY <3>1, <3>2 DEF TimerInv, Survives
    <3> QED
      BY <3>3, <3>4
  <2>2. CASE Next
    <3>1. TakenOnce'
      BY <2>2, TakenKept
    <3> QED
      BY <2>2, <3>1, TimerKept
  <2> QED
    BY <2>1, <2>2
<1> QED
  BY <1>1, <1>2, InitTimer, PTL DEF Spec

\* Only the timer's handler touches a record that is not there.
LEMMA DanglingStep ==
    ASSUME Next, crash' = "dangling"
    PROVE  SetTimeout /\ recv_msg_map_[Job.id] = "none"
<1> USE DEF queuevars, msgvars, sweepvars, calls, uservars, netvars
<1>1. CASE IoThread
  <2>1. crash = "none"
    BY <1>1 DEF IoThread, HandlerFindsClosed, HandlerFindsNull, HandleConnectOk, HandleConnectError,
         HandleReadHeader, HandleReadHeaderError, HandleReadMsg, DoWriteQueue, DoWriteDirect,
         HandleWrite, HandleWriteError, SetTimeout, DoClose, EraseStart, SweepDrop, SweepErase,
         SweepMark, SweepEnd, SweepRound, Runs, IoIdle, IoRuns
  <2> QED
    BY <1>1, <2>1 DEF IoThread, HandlerFindsClosed, HandlerFindsNull, HandleConnectOk, HandleConnectError,
         HandleReadHeader, HandleReadHeaderError, HandleReadMsg, DoWriteQueue, DoWriteDirect,
         HandleWrite, HandleWriteError, SetTimeout, DoClose, EraseStart, SweepDrop, SweepErase,
         SweepMark, SweepEnd, SweepRound, do_close
<1>2. ASSUME NEW u \in Users, UserCall(u) \/ UserStep(u) PROVE FALSE
  <2>1. crash = "none"
    BY <1>2 DEF UserCall, UserStep, IsOpen, WriteNew, ReadFind, UserClose, Destroy, DoConnectCheck,
         DoConnectSet, DoConnectStart, WritePush, WriteInsert, WriteAssign, WriteArm, WritePost,
         ReadGet, ReadResult, ReadReturn, DestroyClose, DestroyDelete, DestroyStop, UserAt
  <2> QED
    BY <1>2, <2>1 DEF UserCall, UserStep, IsOpen, WriteNew, ReadFind, UserClose, Destroy, DoConnectCheck,
         DoConnectSet, DoConnectStart, WritePush, WriteInsert, WriteAssign, WriteArm, WritePost,
         ReadGet, ReadResult, ReadReturn, DestroyClose, DestroyDelete, DestroyStop, do_close
<1>3. CASE Network \/ EraseTimerExpire \/ (\E r \in Req : TimerExpire(r))
  <2>1. crash = "none"
    BY <1>3 DEF Network, EraseTimerExpire, TimerExpire, ConnectOk, ConnectFail, ReadComplete, ReadGarbled, ReadFail,
         WriteComplete, WriteFail, PeerReply, NetBreak, Reactor, IoIdle, IoRuns
  <2> QED
    BY <1>3, <2>1 DEF Network, EraseTimerExpire, TimerExpire, ConnectOk, ConnectFail, ReadComplete, ReadGarbled, ReadFail,
         WriteComplete, WriteFail, PeerReply, NetBreak, Reactor
<1> QED
  BY <1>1, <1>2, <1>3 DEF Next

\* Without the queue, with one connection, one request and one read() of it, the
\* timer's handler never runs on a deleted record: it is queued before the entry
\* is marked, and so runs before the next pass, which erases it.
THEOREM TimerFindsRecordCorrect == Spec => []TimerFindsRecord
<1> DEFINE Base == TypeOK /\ SocketInv /\ TimerInv
<1>1. Init => TimerFindsRecord
  BY DEF Init, TimerFindsRecord
<1>2. Base /\ Base' /\ TimerFindsRecord /\ [Next]_vars => TimerFindsRecord'
  <2> SUFFICES ASSUME Base, TypeOK', TimerFindsRecord, [Next]_vars, Within', crash' = "dangling" PROVE FALSE
    BY DEF TimerFindsRecord, Within
  <2>1. CASE UNCHANGED vars
    <3>1. UNCHANGED <<crash, conns, msg_index_, reads>>
      BY <2>1 DEF vars, uservars, netvars
    <3> QED
      BY <3>1 DEF TimerFindsRecord, Within
  <2>2. CASE Next
    <3>1. crash = "none" /\ Within
      BY <2>2, StepRuns, WithinBefore
    <3>2. SetTimeout /\ recv_msg_map_[Job.id] = "none"
      BY <2>2, <3>1, DanglingStep
    <3>3. conn \in Conn /\ conn.ready # <<>> /\ Job.h = "timeout"
      BY <3>2 DEF SetTimeout, Runs, Job, TypeOK
    <3>4. 1 \in DOMAIN conn.ready /\ conn.ready[1] = Job
      <4>1. conn.ready \in Seq(Handler)
        BY <3>3, ConnFields
      <4>2. Len(conn.ready) \in Nat /\ Len(conn.ready) # 0 /\ DOMAIN conn.ready = 1..Len(conn.ready)
        BY <3>3, <4>1, LenProperties, EmptySeq
      <4>3. Head(conn.ready) = conn.ready[1]
        BY <3>3, <4>1, HeadTailProperties
      <4> QED
        BY <4>2, <4>3 DEF Job
    <3>5. Survives(1)
      BY <3>1, <3>3, <3>4 DEF TimerInv
    <3> QED
      BY <3>2, <3>4, <3>5 DEF Survives
  <2> QED
    BY <2>1, <2>2
<1> QED
  BY <1>1, <1>2, TimerCorrect, PTL DEF Spec

=============================================================================
