-------------------------- MODULE LinkSessionProofs --------------------------
(***************************************************************************)
(* Theorems about LinkSession, for any number of sessions and requests.    *)
(* ReadInv: every session has at most one read under way, from the accept  *)
(* that starts it through rop and the scheduler's queue, and there is one  *)
(* accept.  It holds however many requests a client sends ahead.           *)
(* TurnInv: a client that waits for each reply is in one of three phases,  *)
(* and the handler of a write runs before the next request can be read.    *)
(***************************************************************************)
EXTENDS LinkSession, SequenceTheorems, TLAPS

Jobs == [h : {"accept", "head", "body", "written"}, s : Sessions, ok : BOOLEAN]

\* The handlers that carry a session's reading on.
ReadsOn(j) == j.h \in {"accept", "head", "body"}

\* One accept, either outstanding or in the scheduler's queue.
AcceptInv ==
    /\ acceptor_ <=> \A i \in DOMAIN ready : ready[i].h # "accept"
    /\ \A i, j \in DOMAIN ready : ready[i].h = "accept" /\ ready[j].h = "accept" => i = j

\* One read per session, on an accepted socket; a header or a body that was read
\* is there to be used.
ReadInv ==
    /\ \A s \in Sessions : rop[s] # "none" => sock[s] # "none"
    /\ \A i \in DOMAIN ready :
          /\ ReadsOn(ready[i]) => rop[ready[i].s] = "none"
          /\ ready[i].h = "accept" /\ ready[i].ok => sock[ready[i].s] # "none"
          /\ ready[i].h \in {"head", "body"} => sock[ready[i].s] # "none"
          /\ ready[i].h \in {"head", "body"} /\ ready[i].ok => inbox[ready[i].s] # <<>>
    /\ \A i, j \in DOMAIN ready :
          ReadsOn(ready[i]) /\ ReadsOn(ready[j]) /\ ready[i].s = ready[j].s => i = j

\* The queue holds this handler.
Has(h, s, ok) == \E i \in DOMAIN ready : ready[i] = H(h, s, ok)

\* Every request was answered; the handler of the last write may still be queued.
Waiting(s) ==
    /\ asked[s] = Len(outbox[s])
    /\ inbox[s] = <<>> /\ wops[s] = <<>>
    /\ write_msgs_[s] = IF Has("written", s, TRUE) THEN <<asked[s]>> ELSE <<>>
    /\ rop[s] # "body" /\ ~Has("head", s, TRUE) /\ ~Has("body", s, TRUE)

\* A request is on its way, or being read.
Asking(s) ==
    /\ asked[s] = Len(outbox[s]) + 1
    /\ inbox[s] = <<asked[s]>> /\ wops[s] = <<>>
    /\ write_msgs_[s] = IF Has("written", s, TRUE) THEN <<Len(outbox[s])>> ELSE <<>>
    /\ rop[s] = "body" \/ Has("body", s, TRUE) => ~Has("written", s, TRUE)

\* Its reply is being written, or the write failed.
Replying(s) ==
    /\ asked[s] = Len(outbox[s]) + 1
    /\ inbox[s] = <<>> /\ write_msgs_[s] = <<asked[s]>>
    /\ wops[s] = <<asked[s]>> \/ (wops[s] = <<>> /\ sock[s] = "dead")
    /\ rop[s] # "body" /\ ~Has("head", s, TRUE) /\ ~Has("body", s, TRUE)
    /\ ~Has("written", s, TRUE)

\* What a client that waits for each reply has seen, and its phase.
PhaseInv(s) ==
    /\ outbox[s] = [i \in 1..Len(outbox[s]) |-> i]
    /\ sock[s] = "none" => wops[s] = <<>>
    /\ Waiting(s) \/ Asking(s) \/ Replying(s)

\* A session has one handler of a write in the queue, and it runs before the
\* header that the client sent on receipt of the reply.
OrderInv ==
    \A i, j \in DOMAIN ready :
        ready[i].h = "written" /\ ready[i].ok /\ ready[j].ok /\ ready[i].s = ready[j].s =>
            /\ ready[j].h = "written" => i = j
            /\ ready[j].h = "head" => i < j

\* The inductive invariant for clients that wait for each reply.
TurnInv ==
    /\ crash # "popempty"
    /\ OrderInv
    /\ \A s \in Sessions : PhaseInv(s)

-----------------------------------------------------------------------------
(* The scheduler's queue *)

\* A handler is a record of its name, its session and its error code.
LEMMA JobType ==
    ASSUME NEW h \in {"accept", "head", "body", "written"}, NEW s \in Sessions, NEW ok \in BOOLEAN
    PROVE  H(h, s, ok) \in Jobs /\ H(h, s, ok).h = h /\ H(h, s, ok).s = s /\ H(h, s, ok).ok = ok
BY DEF H, Jobs

\* Running a handler takes the first and moves the others up by one.
LEMMA RunsFirst ==
    ASSUME TypeOK, NEW h, NEW s, NEW ok, Runs(h, s, ok)
    PROVE  /\ Len(ready) \in Nat /\ Len(ready) > 0
           /\ DOMAIN ready = 1..Len(ready) /\ DOMAIN ready' = 1..(Len(ready) - 1)
           /\ 1 \in DOMAIN ready /\ ready[1] = H(h, s, ok) /\ ready' \in Seq(Jobs)
           /\ \A i \in DOMAIN ready' : /\ i \in Int /\ i + 1 # 1 /\ i + 1 \in DOMAIN ready
                                       /\ ready'[i] = ready[i + 1]
           /\ \A i \in DOMAIN ready : i # 1 => i - 1 \in DOMAIN ready' /\ ready'[i - 1] = ready[i]
           /\ \A i \in DOMAIN ready : i \in Int /\ ready[i] \in Jobs /\ ready[i].s \in Sessions
<1>1. ready \in Seq(Jobs) /\ ready # <<>> /\ Head(ready) = H(h, s, ok) /\ ready' = Tail(ready)
  BY DEF Runs, TypeOK, Jobs
<1>2. Len(ready) \in Nat /\ Len(ready) > 0 /\ DOMAIN ready = 1..Len(ready) /\ ready[1] = Head(ready)
  BY <1>1, LenProperties, EmptySeq, HeadTailProperties
<1>3. Tail(ready) \in Seq(Jobs) /\ Len(Tail(ready)) = Len(ready) - 1
  BY <1>1, HeadTailProperties
<1>4. \A i \in 1..Len(Tail(ready)) : Tail(ready)[i] = ready[i + 1]
  BY <1>1, HeadTailProperties
<1>5. DOMAIN Tail(ready) = 1..Len(Tail(ready))
  BY <1>3, LenProperties
<1>6. \A i \in DOMAIN ready : i \in Int /\ ready[i] \in Jobs /\ ready[i].s \in Sessions
  <2>1. \A i \in DOMAIN ready : i \in Int /\ ready[i] \in Jobs
    BY <1>1, <1>2, ElementOfSeq
  <2>2. \A j \in Jobs : j.s \in Sessions
    BY DEF Jobs
  <2> QED
    BY <2>1, <2>2
<1> DEFINE n == Len(ready)
<1>7. DOMAIN ready = 1..n /\ DOMAIN ready' = 1..(n - 1) /\ n \in Nat /\ n > 0
  BY <1>1, <1>2, <1>3, <1>5
<1>8. \A i \in 1..(n - 1) : ready'[i] = ready[i + 1]
  BY <1>1, <1>3, <1>4
<1> HIDE DEF n
<1>9. \A i \in DOMAIN ready' : /\ i \in Int /\ i + 1 # 1 /\ i + 1 \in DOMAIN ready
                               /\ ready'[i] = ready[i + 1]
  BY <1>7, <1>8
<1>10. \A i \in DOMAIN ready : i # 1 => i - 1 \in DOMAIN ready' /\ ready'[i - 1] = ready[i]
  <2> SUFFICES ASSUME NEW i \in DOMAIN ready, i # 1
               PROVE  i - 1 \in DOMAIN ready' /\ ready'[i - 1] = ready[i]
    OBVIOUS
  <2>1. i - 1 \in 1..(n - 1) /\ (i - 1) + 1 = i
    BY <1>7
  <2> QED
    BY <1>7, <1>8, <2>1
<1>11. 1 \in DOMAIN ready
  BY <1>7
<1> QED
  BY <1>1, <1>2, <1>3, <1>6, <1>7, <1>9, <1>10, <1>11 DEF n

\* Queueing a handler puts it last.
LEMMA QueuedLast ==
    ASSUME TypeOK, NEW j \in Jobs, ready' = Append(ready, j)
    PROVE  \E n \in Nat :
              /\ DOMAIN ready' = DOMAIN ready \cup {n} /\ ready'[n] = j /\ ready' \in Seq(Jobs)
              /\ \A i \in DOMAIN ready : /\ i \in Int /\ i < n /\ ready'[i] = ready[i]
                                         /\ ready[i] \in Jobs /\ ready[i].s \in Sessions
<1> DEFINE n == Len(ready) + 1
           a == Append(ready, j)
<1>1. ready \in Seq(Jobs)
  BY DEF TypeOK, Jobs
<1>2. Len(ready) \in Nat /\ DOMAIN ready = 1..Len(ready)
  BY <1>1, LenProperties
<1>3. a \in Seq(Jobs) /\ Len(a) = n
  BY <1>1, AppendProperties
<1>4. a[n] = j /\ \A i \in 1..Len(ready) : a[i] = ready[i]
  BY <1>1, AppendProperties
<1>5. DOMAIN a = 1..n
  BY <1>3, LenProperties
<1>6. \A i \in DOMAIN ready : ready[i] \in Jobs
  BY <1>1, <1>2, ElementOfSeq
<1>7. \A k \in Jobs : k.s \in Sessions
  BY DEF Jobs
<1> HIDE DEF a
<1>8. DOMAIN a = DOMAIN ready \cup {n} /\ n \in Nat
  BY <1>2, <1>5
<1>9. \A i \in DOMAIN ready : i \in Int /\ i < n /\ a[i] = ready[i]
  BY <1>2, <1>4
<1> HIDE DEF n
<1> QED
  BY <1>3, <1>4, <1>6, <1>7, <1>8, <1>9 DEF a

-----------------------------------------------------------------------------
(* One accept, one read per session *)

\* What the two invariants say of the sessions alone.
SessionTypes ==
    /\ sock \in [Sessions -> {"none", "connected", "dead"}]
    /\ rop \in [Sessions -> {"none", "head", "body"}]
    /\ write_msgs_ \in [Sessions -> Seq(Req)]
    /\ wops \in [Sessions -> Seq(Req)]
    /\ inbox \in [Sessions -> Seq(Req)]
    /\ asked \in [Sessions -> 0..MaxReq]
    /\ outbox \in [Sessions -> Seq(Req)]
    /\ acceptor_ \in BOOLEAN
    /\ crash \in {"none", "terminate", "popempty"}

\* TypeOK in two parts.
LEMMA Types == TypeOK <=> SessionTypes /\ ready \in Seq(Jobs)
BY DEF TypeOK, SessionTypes, Jobs

\* The first and the rest of a sequence of requests.
LEMMA ReqHeadTail ==
    ASSUME NEW q \in Seq(Req), q # <<>>
    PROVE  Head(q) \in Req /\ Tail(q) \in Seq(Req)
BY HeadTailProperties

\* A sequence of requests, one longer.
LEMMA ReqAppend ==
    ASSUME NEW q \in Seq(Req), NEW r \in Req
    PROVE  Append(q, r) \in Seq(Req) /\ Append(q, r) # <<>> /\ Head(Append(q, r)) \in Req
<1>1. Append(q, r) \in Seq(Req) /\ Len(Append(q, r)) = Len(q) + 1 /\ Len(q) \in Nat
  BY AppendProperties, LenProperties
<1>2. Append(q, r) # <<>>
  BY <1>1, EmptySeq
<1> QED
  BY <1>1, <1>2, ReqHeadTail

\* No session is accepted at first, and the server listens.
LEMMA InitSession == Init => TypeOK /\ AcceptInv /\ ReadInv
<1> SUFFICES ASSUME Init PROVE TypeOK /\ AcceptInv /\ ReadInv
  OBVIOUS
<1>1. ready \in Seq(Jobs) /\ DOMAIN ready = {} /\ <<>> \in Seq(Req)
  BY EmptySeq DEF Init
<1>2. SessionTypes
  BY <1>1, LinkSessionAssumption DEF Init, SessionTypes
<1>3. AcceptInv /\ ReadInv
  BY <1>1 DEF Init, AcceptInv, ReadInv
<1> QED
  BY <1>1, <1>2, <1>3, Types

\* handle_accept.
LEMMA AcceptSession ==
    ASSUME TypeOK, AcceptInv, ReadInv, NEW s \in Sessions, HandleAccept(s)
    PROVE  TypeOK' /\ AcceptInv' /\ ReadInv'
<1>0. SessionTypes
  BY Types
<1>1. PICK ok \in BOOLEAN : /\ Runs("accept", s, ok)
                            /\ rop' = IF ok THEN [rop EXCEPT ![s] = "head"] ELSE rop
                            /\ UNCHANGED <<write_msgs_, wops, inbox, crash>>
  BY DEF HandleAccept
<1>2. UNCHANGED <<sock, asked, outbox>> /\ acceptor_' = TRUE
  BY <1>1 DEF Runs, ListensAgain
<1>3. /\ 1 \in DOMAIN ready /\ ready[1] = H("accept", s, ok) /\ ready' \in Seq(Jobs)
      /\ \A i \in DOMAIN ready' : /\ i \in Int /\ i + 1 # 1 /\ i + 1 \in DOMAIN ready
                                  /\ ready'[i] = ready[i + 1]
      /\ \A i \in DOMAIN ready : i \in Int /\ ready[i] \in Jobs /\ ready[i].s \in Sessions
  BY <1>1, RunsFirst
<1>4. ready[1].h = "accept" /\ ready[1].s = s /\ ready[1].ok = ok
  BY <1>3, JobType
<1>5. SessionTypes'
  BY <1>0, <1>1, <1>2 DEF SessionTypes
<1>6. AcceptInv'
  <2>1. \A i \in DOMAIN ready' : ready'[i].h # "accept"
    BY <1>3, <1>4 DEF AcceptInv
  <2> QED
    BY <1>2, <2>1 DEF AcceptInv
<1>7. ReadInv'
  <2>1. ok => sock[s] # "none"
    BY <1>3, <1>4 DEF ReadInv
  <2>2. \A i \in DOMAIN ready : ReadsOn(ready[i]) /\ i # 1 => ready[i].s # s
    BY <1>3, <1>4 DEF ReadInv, ReadsOn
  <2>3. \A t \in Sessions : rop'[t] = rop[t] \/ (ok /\ t = s)
    BY <1>0, <1>1 DEF SessionTypes
  <2>4. \A t \in Sessions : rop'[t] # "none" => sock'[t] # "none"
    BY <1>2, <2>1, <2>3 DEF ReadInv
  <2> QED
    BY <1>1, <1>2, <1>3, <2>2, <2>3, <2>4 DEF ReadInv
<1> QED
  BY <1>3, <1>5, <1>6, <1>7 DEF TypeOK, SessionTypes, Jobs

\* A handler that is not an accept leaves the acceptor alone.
LEMMA AcceptKept ==
    ASSUME TypeOK, AcceptInv, NEW h \in {"head", "body", "written"}, NEW s, NEW ok, Runs(h, s, ok)
    PROVE  AcceptInv'
<1>1. acceptor_' = acceptor_
  BY DEF Runs
<1>2. /\ 1 \in DOMAIN ready /\ ready[1] = H(h, s, ok)
      /\ \A i \in DOMAIN ready' : /\ i \in Int /\ i + 1 # 1 /\ i + 1 \in DOMAIN ready
                                  /\ ready'[i] = ready[i + 1]
      /\ \A i \in DOMAIN ready : i # 1 => i - 1 \in DOMAIN ready' /\ ready'[i - 1] = ready[i]
      /\ \A i \in DOMAIN ready : i \in Int
  BY RunsFirst
<1>3. ready[1].h = h
  BY <1>2 DEF H
<1>4. (\A i \in DOMAIN ready' : ready'[i].h # "accept") <=> \A i \in DOMAIN ready : ready[i].h # "accept"
  BY <1>2, <1>3
<1>5. \A i, j \in DOMAIN ready' : ready'[i].h = "accept" /\ ready'[j].h = "accept" => i = j
  <2> SUFFICES ASSUME NEW i \in DOMAIN ready', NEW j \in DOMAIN ready',
                      ready'[i].h = "accept", ready'[j].h = "accept"
               PROVE  i = j
    OBVIOUS
  <2>1. i + 1 = j + 1
    BY <1>2 DEF AcceptInv
  <2> QED
    BY <1>2, <2>1
<1> QED
  BY <1>1, <1>4, <1>5 DEF AcceptInv

\* Handlers that read, reply, or give up.
LEMMA HandlerSession ==
    ASSUME TypeOK, AcceptInv, ReadInv, NEW s \in Sessions,
           HandleReadHeader(s) \/ HandleReadMsg(s) \/ HandleWrite(s) \/ HandleError(s)
    PROVE  TypeOK' /\ AcceptInv' /\ ReadInv'
<1>0. SessionTypes
  BY Types
<1>1. PICK h \in {"head", "body", "written"}, ok \in BOOLEAN :
        /\ Runs(h, s, ok)
        /\ HandleReadHeader(s) => h = "head" /\ ok
        /\ HandleReadMsg(s) => h = "body" /\ ok
        /\ HandleWrite(s) => h = "written" /\ ok
  <2>1. CASE HandleReadHeader(s)
    <3>1. Runs("head", s, TRUE)
      BY <2>1 DEF HandleReadHeader
    <3>2. ~HandleReadMsg(s) /\ ~HandleWrite(s)
      BY <3>1 DEF HandleReadMsg, HandleWrite, Runs, H
    <3> QED
      BY <3>1, <3>2
  <2>2. CASE HandleReadMsg(s)
    <3>1. Runs("body", s, TRUE)
      BY <2>2 DEF HandleReadMsg
    <3>2. ~HandleReadHeader(s) /\ ~HandleWrite(s)
      BY <3>1 DEF HandleReadHeader, HandleWrite, Runs, H
    <3> QED
      BY <3>1, <3>2
  <2>3. CASE HandleWrite(s)
    <3>1. Runs("written", s, TRUE)
      BY <2>3 DEF HandleWrite
    <3>2. ~HandleReadHeader(s) /\ ~HandleReadMsg(s)
      BY <3>1 DEF HandleReadHeader, HandleReadMsg, Runs, H
    <3> QED
      BY <3>1, <3>2
  <2>4. CASE /\ HandleError(s) /\ ~HandleReadHeader(s) /\ ~HandleReadMsg(s) /\ ~HandleWrite(s)
    BY <2>4 DEF HandleError
  <2> QED
    BY <2>1, <2>2, <2>3, <2>4
<1>2. UNCHANGED <<sock, asked, outbox>> /\ acceptor_' = acceptor_
  BY <1>1 DEF Runs
<1>3. /\ 1 \in DOMAIN ready /\ ready[1] = H(h, s, ok) /\ ready' \in Seq(Jobs)
      /\ \A i \in DOMAIN ready' : /\ i \in Int /\ i + 1 # 1 /\ i + 1 \in DOMAIN ready
                                  /\ ready'[i] = ready[i + 1]
      /\ \A i \in DOMAIN ready : i \in Int /\ ready[i] \in Jobs /\ ready[i].s \in Sessions
  BY <1>1, RunsFirst
<1>4. ready[1].h = h /\ ready[1].s = s /\ ready[1].ok = ok
  BY <1>3, JobType
<1>5. AcceptInv'
  BY <1>1, AcceptKept
\* What the handler does to its session; a reader finds its request.
<1>6. SessionTypes' /\ \/ rop' = rop /\ inbox' = inbox
                       \/ /\ h \in {"head", "body"} /\ sock[s] # "none"
                          /\ \A t \in Sessions : t # s => rop'[t] = rop[t] /\ inbox'[t] = inbox[t]
  <2>1. h \in {"head", "body"} => sock[s] # "none"
    BY <1>3, <1>4 DEF ReadInv
  <2>2. CASE HandleReadHeader(s)
    <3>1. rop' = [rop EXCEPT ![s] = "body"] /\ UNCHANGED <<write_msgs_, wops, inbox, crash>> /\ h = "head"
      BY <1>1, <2>2 DEF HandleReadHeader
    <3>2. SessionTypes'
      BY <1>0, <1>2, <3>1 DEF SessionTypes
    <3> QED
      BY <1>0, <2>1, <3>1, <3>2 DEF SessionTypes
  <2>3. CASE HandleReadMsg(s) /\ sock[s] = "connected"
    <3> DEFINE r == Head(inbox[s])
               w == Append(write_msgs_[s], r)
    <3>1. h = "body" /\ inbox[s] # <<>> /\ inbox[s] \in Seq(Req)
      BY <1>0, <1>1, <1>3, <1>4, <2>3 DEF ReadInv, SessionTypes
    <3>2. r \in Req /\ Tail(inbox[s]) \in Seq(Req)
      BY <3>1, ReqHeadTail
    <3>3. write_msgs_' = [write_msgs_ EXCEPT ![s] = w] /\ wops' = [wops EXCEPT ![s] = Append(@, Head(write_msgs_'[s]))]
      BY <2>3 DEF HandleReadMsg, reply, ReplyId
    <3>4. /\ inbox' = [inbox EXCEPT ![s] = Tail(@)] /\ rop' = [rop EXCEPT ![s] = "head"] /\ crash' = crash
      BY <2>3 DEF HandleReadMsg, NextRead
    <3> HIDE DEF r
    <3>5. w \in Seq(Req) /\ Head(w) \in Req
      BY <1>0, <3>2, ReqAppend DEF SessionTypes
    <3>6. write_msgs_' \in [Sessions -> Seq(Req)] /\ write_msgs_'[s] = w
      BY <1>0, <3>3, <3>5 DEF SessionTypes
    <3> HIDE DEF w
    <3>7. Append(wops[s], Head(w)) \in Seq(Req)
      BY <1>0, <3>5, ReqAppend DEF SessionTypes
    <3>8. wops' \in [Sessions -> Seq(Req)]
      BY <1>0, <3>3, <3>6, <3>7 DEF SessionTypes
    <3>9. /\ inbox' \in [Sessions -> Seq(Req)] /\ rop' \in [Sessions -> {"none", "head", "body"}]
          /\ \A t \in Sessions : t # s => rop'[t] = rop[t] /\ inbox'[t] = inbox[t]
      BY <1>0, <3>2, <3>4 DEF SessionTypes
    <3> QED
      BY <1>0, <1>2, <2>1, <3>1, <3>4, <3>6, <3>8, <3>9 DEF SessionTypes
  <2>4. CASE HandleReadMsg(s) /\ sock[s] # "connected"
    <3>1. crash' = "terminate" /\ UNCHANGED <<rop, write_msgs_, wops, inbox>>
      BY <2>4 DEF HandleReadMsg
    <3> QED
      BY <1>0, <1>2, <3>1 DEF SessionTypes
  <2>5. CASE HandleWrite(s)
    <3> DEFINE w == Tail(write_msgs_[s])
    <3>1. /\ UNCHANGED <<rop, inbox>>
          /\ \/ crash' = "popempty" /\ UNCHANGED <<write_msgs_, wops>>
             \/ /\ write_msgs_[s] # <<>> /\ write_msgs_' = [write_msgs_ EXCEPT ![s] = w]
                /\ wops' = IF write_msgs_'[s] = <<>> THEN wops
                           ELSE [wops EXCEPT ![s] = Append(@, Head(write_msgs_'[s]))]
                /\ crash' = crash
      BY <2>5 DEF HandleWrite, Popped
    <3>2. write_msgs_[s] # <<>> => w \in Seq(Req)
      BY <1>0, ReqHeadTail DEF SessionTypes
    <3> HIDE DEF w
    <3>3. w \in Seq(Req) /\ w # <<>> => Append(wops[s], Head(w)) \in Seq(Req)
      BY <1>0, ReqHeadTail, ReqAppend DEF SessionTypes
    <3>4. CASE crash' = "popempty" /\ UNCHANGED <<write_msgs_, wops>>
      BY <1>0, <1>2, <3>1, <3>4 DEF SessionTypes
    <3>5. CASE /\ write_msgs_[s] # <<>> /\ write_msgs_' = [write_msgs_ EXCEPT ![s] = w]
               /\ wops' = IF write_msgs_'[s] = <<>> THEN wops
                          ELSE [wops EXCEPT ![s] = Append(@, Head(write_msgs_'[s]))]
               /\ crash' = crash
      <4>1. write_msgs_' \in [Sessions -> Seq(Req)] /\ write_msgs_'[s] = w /\ w \in Seq(Req)
        BY <1>0, <3>2, <3>5 DEF SessionTypes
      <4>2. wops' \in [Sessions -> Seq(Req)]
        BY <1>0, <3>3, <3>5, <4>1 DEF SessionTypes
      <4> QED
        BY <1>0, <1>2, <3>1, <3>5, <4>1, <4>2 DEF SessionTypes
    <3> QED
      BY <3>1, <3>4, <3>5
  <2>6. CASE HandleError(s)
    BY <1>0, <1>2, <2>6 DEF HandleError, SessionTypes
  <2> QED
    BY <2>2, <2>3, <2>4, <2>5, <2>6
<1>7. ReadInv'
  <2>1. h \in {"head", "body"} => \A i \in DOMAIN ready : ReadsOn(ready[i]) /\ i # 1 => ready[i].s # s
    BY <1>3, <1>4 DEF ReadInv, ReadsOn
  <2>2. \A t \in Sessions : rop'[t] # "none" => sock'[t] # "none"
    BY <1>2, <1>6 DEF ReadInv
  <2>3. \A i \in DOMAIN ready' :
           ReadsOn(ready'[i]) => rop'[ready'[i].s] = rop[ready'[i].s] /\ inbox'[ready'[i].s] = inbox[ready'[i].s]
    BY <1>3, <1>6, <2>1
  <2>4. \A i \in DOMAIN ready' : ready'[i].h \in {"head", "body"} => ReadsOn(ready'[i])
    BY DEF ReadsOn
  <2>5. \A i \in DOMAIN ready' :
          /\ ReadsOn(ready'[i]) => rop'[ready'[i].s] = "none"
          /\ ready'[i].h = "accept" /\ ready'[i].ok => sock'[ready'[i].s] # "none"
          /\ ready'[i].h \in {"head", "body"} => sock'[ready'[i].s] # "none"
          /\ ready'[i].h \in {"head", "body"} /\ ready'[i].ok => inbox'[ready'[i].s] # <<>>
    BY <1>2, <1>3, <2>3, <2>4 DEF ReadInv
  <2>6. \A i, j \in DOMAIN ready' :
          ReadsOn(ready'[i]) /\ ReadsOn(ready'[j]) /\ ready'[i].s = ready'[j].s => i = j
    <3> SUFFICES ASSUME NEW i \in DOMAIN ready', NEW j \in DOMAIN ready',
                        ReadsOn(ready'[i]), ReadsOn(ready'[j]), ready'[i].s = ready'[j].s
                 PROVE  i = j
      OBVIOUS
    <3>1. i + 1 = j + 1
      BY <1>3 DEF ReadInv
    <3> QED
      BY <1>3, <3>1
  <2> QED
    BY <2>2, <2>5, <2>6 DEF ReadInv
<1> QED
  BY <1>3, <1>5, <1>6, <1>7 DEF TypeOK, SessionTypes, Jobs

\* The reactor's events queue one handler.
LEMMA EventSession ==
    ASSUME TypeOK, AcceptInv, ReadInv, NEW s \in Sessions, Accept(s) \/ ReadDone(s) \/ WriteDone(s)
    PROVE  TypeOK' /\ AcceptInv' /\ ReadInv'
<1>0. SessionTypes
  BY Types
<1>1. CASE Accept(s)
  <2>1. PICK ok \in BOOLEAN : /\ sock' = IF ok THEN [sock EXCEPT ![s] = "connected"] ELSE sock
                              /\ ready' = Append(ready, H("accept", s, ok))
    BY <1>1, LinkSessionAssumption DEF Accept
  <2>2. /\ acceptor_ /\ sock[s] = "none" /\ acceptor_' = FALSE
        /\ UNCHANGED <<rop, write_msgs_, wops, inbox, asked, outbox, crash>>
    BY <1>1 DEF Accept
  <2> DEFINE j == H("accept", s, ok)
  <2>3. j \in Jobs /\ j.h = "accept" /\ j.s = s /\ j.ok = ok
    BY JobType
  <2>4. ready' = Append(ready, j)
    BY <2>1
  <2> HIDE DEF j
  <2>5. PICK n \in Nat :
              /\ DOMAIN ready' = DOMAIN ready \cup {n} /\ ready'[n] = j /\ ready' \in Seq(Jobs)
              /\ \A i \in DOMAIN ready : /\ i \in Int /\ i < n /\ ready'[i] = ready[i]
                                         /\ ready[i] \in Jobs /\ ready[i].s \in Sessions
    BY <2>3, <2>4, QueuedLast
  <2>6. SessionTypes'
    BY <1>0, <2>1, <2>2 DEF SessionTypes
  <2>7. \A i \in DOMAIN ready : ready[i].h # "accept"
    BY <2>2 DEF AcceptInv
  <2>8. AcceptInv'
    BY <2>2, <2>3, <2>5, <2>7 DEF AcceptInv
  <2>9. \A i \in DOMAIN ready : ReadsOn(ready[i]) => ready[i].s # s
    BY <2>2, <2>7 DEF ReadInv, ReadsOn
  <2>10. /\ \A t \in Sessions : t # s => sock'[t] = sock[t]
         /\ ok => sock'[s] # "none"
         /\ rop[s] = "none"
    BY <1>0, <2>1, <2>2 DEF SessionTypes, ReadInv
  <2>11. \A t \in Sessions : rop'[t] # "none" => sock'[t] # "none"
    BY <2>2, <2>10 DEF ReadInv
  <2>12. \A i \in DOMAIN ready :
          /\ ReadsOn(ready[i]) => rop'[ready[i].s] = "none"
          /\ ready[i].h \in {"head", "body"} => sock'[ready[i].s] # "none"
          /\ ready[i].h \in {"head", "body"} /\ ready[i].ok => inbox'[ready[i].s] # <<>>
    BY <2>2, <2>5, <2>9, <2>10 DEF ReadInv, ReadsOn
  <2>13. ReadInv'
    BY <2>2, <2>3, <2>5, <2>7, <2>9, <2>10, <2>11, <2>12 DEF ReadInv
  <2> QED
    BY <2>5, <2>6, <2>8, <2>13 DEF TypeOK, SessionTypes, Jobs
<1>2. CASE ReadDone(s)
  <2>1. PICK ok \in BOOLEAN : /\ ok => inbox[s] # <<>>
                              /\ ready' = Append(ready, H(rop[s], s, ok))
    BY <1>2 DEF ReadDone
  <2>2. /\ rop[s] # "none" /\ rop' = [rop EXCEPT ![s] = "none"]
        /\ UNCHANGED <<sock, write_msgs_, wops, inbox, asked, outbox, acceptor_, crash>>
    BY <1>2 DEF ReadDone
  <2> DEFINE j == H(rop[s], s, ok)
  <2>3. j \in Jobs /\ j.h \in {"head", "body"} /\ j.s = s /\ j.ok = ok
    <3>1. rop[s] \in {"head", "body"}
      BY <1>0, <2>2 DEF SessionTypes
    <3> QED
      BY <3>1, JobType
  <2>4. ready' = Append(ready, j)
    BY <2>1
  <2> HIDE DEF j
  <2>5. PICK n \in Nat :
              /\ DOMAIN ready' = DOMAIN ready \cup {n} /\ ready'[n] = j /\ ready' \in Seq(Jobs)
              /\ \A i \in DOMAIN ready : /\ i \in Int /\ i < n /\ ready'[i] = ready[i]
                                         /\ ready[i] \in Jobs /\ ready[i].s \in Sessions
    BY <2>3, <2>4, QueuedLast
  <2>6. SessionTypes'
    BY <1>0, <2>2 DEF SessionTypes
  <2>7. AcceptInv'
    <3>1. (\A i \in DOMAIN ready' : ready'[i].h # "accept") <=> \A i \in DOMAIN ready : ready[i].h # "accept"
      BY <2>3, <2>5
    <3>2. \A i, k \in DOMAIN ready' : ready'[i].h = "accept" /\ ready'[k].h = "accept" => i = k
      BY <2>3, <2>5 DEF AcceptInv
    <3> QED
      BY <2>2, <3>1, <3>2 DEF AcceptInv
  <2>8. \A i \in DOMAIN ready : ReadsOn(ready[i]) => ready[i].s # s
    BY <2>2 DEF ReadInv
  <2>9. /\ \A t \in Sessions : t # s => rop'[t] = rop[t]
        /\ rop'[s] = "none" /\ sock[s] # "none"
    BY <1>0, <2>2 DEF SessionTypes, ReadInv
  <2>10. \A t \in Sessions : rop'[t] # "none" => sock'[t] # "none"
    BY <2>2, <2>9 DEF ReadInv
  <2>11. \A i \in DOMAIN ready : ReadsOn(ready[i]) => rop'[ready[i].s] = "none"
    BY <2>5, <2>8, <2>9 DEF ReadInv
  <2>12. ReadInv'
    BY <2>1, <2>2, <2>3, <2>5, <2>8, <2>9, <2>10, <2>11 DEF ReadInv
  <2> QED
    BY <2>5, <2>6, <2>7, <2>12 DEF TypeOK, SessionTypes, Jobs
<1>3. CASE WriteDone(s)
  <2> DEFINE ok == sock[s] = "connected"
             j == H("written", s, ok)
  <2>1. /\ wops[s] # <<>> /\ wops' = [wops EXCEPT ![s] = Tail(@)] /\ ready' = Append(ready, j)
        /\ outbox' = IF ok THEN [outbox EXCEPT ![s] = Append(@, Head(wops[s]))] ELSE outbox
        /\ UNCHANGED <<sock, rop, write_msgs_, inbox, asked, acceptor_, crash>>
    BY <1>3 DEF WriteDone
  <2>2. ok \in BOOLEAN
    OBVIOUS
  <2> HIDE DEF ok
  <2>3. j \in Jobs /\ j.h = "written" /\ j.s = s
    BY <2>2, JobType
  <2> HIDE DEF j
  <2>4. PICK n \in Nat :
              /\ DOMAIN ready' = DOMAIN ready \cup {n} /\ ready'[n] = j /\ ready' \in Seq(Jobs)
              /\ \A i \in DOMAIN ready : /\ i \in Int /\ i < n /\ ready'[i] = ready[i]
                                         /\ ready[i] \in Jobs /\ ready[i].s \in Sessions
    BY <2>1, <2>3, QueuedLast
  <2>5. SessionTypes'
    <3>1. Head(wops[s]) \in Req /\ Tail(wops[s]) \in Seq(Req)
      BY <1>0, <2>1, ReqHeadTail DEF SessionTypes
    <3>2. Append(outbox[s], Head(wops[s])) \in Seq(Req)
      BY <1>0, <3>1, ReqAppend DEF SessionTypes
    <3>3. outbox' \in [Sessions -> Seq(Req)] /\ wops' \in [Sessions -> Seq(Req)]
      BY <1>0, <2>1, <3>1, <3>2 DEF SessionTypes
    <3> QED
      BY <1>0, <2>1, <3>3 DEF SessionTypes
  <2>6. AcceptInv'
    <3>1. (\A i \in DOMAIN ready' : ready'[i].h # "accept") <=> \A i \in DOMAIN ready : ready[i].h # "accept"
      BY <2>3, <2>4
    <3>2. \A i, k \in DOMAIN ready' : ready'[i].h = "accept" /\ ready'[k].h = "accept" => i = k
      BY <2>3, <2>4 DEF AcceptInv
    <3> QED
      BY <2>1, <3>1, <3>2 DEF AcceptInv
  <2>7. ReadInv'
    BY <2>1, <2>3, <2>4 DEF ReadInv, ReadsOn
  <2> QED
    BY <2>4, <2>5, <2>6, <2>7 DEF TypeOK, SessionTypes, Jobs
<1> QED
  BY <1>1, <1>2, <1>3

\* A client sends, or breaks its connection.
LEMMA ClientSession ==
    ASSUME TypeOK, AcceptInv, ReadInv, NEW s \in Sessions, ClientSend(s) \/ ClientReset(s)
    PROVE  TypeOK' /\ AcceptInv' /\ ReadInv'
<1>0. SessionTypes /\ ready \in Seq(Jobs)
  BY Types
<1>1. UNCHANGED <<rop, write_msgs_, wops, outbox, acceptor_, ready, crash>>
  BY DEF ClientSend, ClientReset
<1>2. AcceptInv'
  BY <1>1 DEF AcceptInv
<1>3. \A i \in DOMAIN ready : ready[i].s \in Sessions
  <2>1. \A i \in DOMAIN ready : ready[i] \in Jobs
    BY <1>0, ElementOfSeq, LenProperties
  <2> QED
    BY <2>1 DEF Jobs
<1>4. CASE ClientSend(s)
  <2>1. /\ asked[s] < MaxReq /\ asked' = [asked EXCEPT ![s] = @ + 1] /\ sock' = sock
        /\ inbox' = [inbox EXCEPT ![s] = Append(@, asked[s] + 1)]
    BY <1>4 DEF ClientSend
  <2>2. asked[s] + 1 \in Req /\ asked[s] + 1 \in 0..MaxReq
    BY <1>0, <2>1, LinkSessionAssumption DEF SessionTypes, Req
  <2>3. Append(inbox[s], asked[s] + 1) \in Seq(Req) /\ Append(inbox[s], asked[s] + 1) # <<>>
    BY <1>0, <2>2, ReqAppend DEF SessionTypes
  <2>4. asked' \in [Sessions -> 0..MaxReq] /\ inbox' \in [Sessions -> Seq(Req)]
    BY <1>0, <2>1, <2>2, <2>3 DEF SessionTypes
  <2>5. \A t \in Sessions : inbox[t] # <<>> => inbox'[t] # <<>>
    BY <1>0, <2>1, <2>3 DEF SessionTypes
  <2>6. ReadInv'
    BY <1>1, <1>3, <2>1, <2>5 DEF ReadInv
  <2> QED
    BY <1>0, <1>1, <1>2, <2>1, <2>4, <2>6 DEF TypeOK, SessionTypes, Jobs
<1>5. CASE ClientReset(s)
  <2>1. sock' = [sock EXCEPT ![s] = "dead"] /\ UNCHANGED <<asked, inbox>>
    BY <1>5 DEF ClientReset
  <2>2. sock' \in [Sessions -> {"none", "connected", "dead"}]
    BY <1>0, <2>1 DEF SessionTypes
  <2>3. \A t \in Sessions : sock[t] # "none" => sock'[t] # "none"
    BY <1>0, <2>1 DEF SessionTypes
  <2>4. ReadInv'
    BY <1>1, <1>3, <2>1, <2>3 DEF ReadInv
  <2> QED
    BY <1>0, <1>1, <1>2, <2>1, <2>2, <2>4 DEF TypeOK, SessionTypes, Jobs
<1> QED
  BY <1>4, <1>5

\* The type invariant, the one accept and the one read per session.
LEMMA SessionCorrect == Spec => [](TypeOK /\ AcceptInv /\ ReadInv)
<1>1. TypeOK /\ AcceptInv /\ ReadInv /\ [Next]_vars => TypeOK' /\ AcceptInv' /\ ReadInv'
  <2> SUFFICES ASSUME TypeOK, AcceptInv, ReadInv, [Next]_vars PROVE TypeOK' /\ AcceptInv' /\ ReadInv'
    OBVIOUS
  <2>1. CASE UNCHANGED vars
    BY <2>1 DEF vars, TypeOK, AcceptInv, ReadInv
  <2> QED
    BY <2>1, AcceptSession, HandlerSession, EventSession, ClientSession DEF Next, Handle
<1> QED
  BY <1>1, InitSession, PTL DEF Spec

\* The type invariant; the body of a request is there when handle_read_msg uses it.
THEOREM SessionTypeCorrect == Spec => []TypeOK
BY SessionCorrect, PTL

\* The server never stops listening: an accept is outstanding or its handler,
\* which starts the next, is queued; however many sessions there are.
THEOREM KeepsListeningCorrect == Spec => []KeepsListening
<1>1. AcceptInv => KeepsListening
  BY DEF AcceptInv, KeepsListening
<1> QED
  BY <1>1, SessionCorrect, PTL

-----------------------------------------------------------------------------
(* Clients that wait for each reply *)

\* Sequences of one element.
LEMMA OneElement ==
    ASSUME NEW x
    PROVE  /\ <<x>> # <<>> /\ Head(<<x>>) = x /\ Tail(<<x>>) = <<>> /\ Append(<<>>, x) = <<x>>
OBVIOUS

\* The next reply in order.
LEMMA NextInOrder ==
    ASSUME NEW q \in Seq(Nat), q = [i \in 1..Len(q) |-> i]
    PROVE  LET a == Append(q, Len(q) + 1)
           IN  Len(a) = Len(q) + 1 /\ a = [i \in 1..Len(a) |-> i]
<1> DEFINE n == Len(q)
           a == Append(q, n + 1)
           b == [i \in 1..(n + 1) |-> i]
<1>1. n \in Nat
  BY LenProperties
<1>2. a \in Seq(Nat) /\ Len(a) = n + 1 /\ a[n + 1] = n + 1 /\ \A i \in 1..n : a[i] = q[i]
  BY <1>1, AppendProperties
<1>3. \A i \in 1..n : q[i] = i
  OBVIOUS
<1> HIDE DEF a, n
<1>4. \A i \in 1..(n + 1) : a[i] = i
  BY <1>1, <1>2, <1>3
<1>5. b \in Seq(Nat) /\ Len(b) = n + 1
  BY <1>1
<1>6. \A i \in 1..(n + 1) : b[i] = i
  OBVIOUS
<1> HIDE DEF b
<1>7. a = b
  BY <1>1, <1>2, <1>4, <1>5, <1>6, SeqEqual
<1> QED
  BY <1>2, <1>7 DEF a, n, b

\* Running a handler takes it from the queue and no other.
LEMMA HasTail ==
    ASSUME TypeOK, NEW h, NEW s, NEW ok, Runs(h, s, ok)
    PROVE  /\ Has(h, s, ok)
           /\ \A g, t, b : H(g, t, b) # H(h, s, ok) => (Has(g, t, b)' <=> Has(g, t, b))
           /\ \A g, t, b : Has(g, t, b)' => Has(g, t, b)
           /\ OrderInv => OrderInv'
<1>1. /\ 1 \in DOMAIN ready /\ ready[1] = H(h, s, ok)
      /\ \A i \in DOMAIN ready' : /\ i \in Int /\ i + 1 # 1 /\ i + 1 \in DOMAIN ready
                                  /\ ready'[i] = ready[i + 1]
      /\ \A i \in DOMAIN ready : i # 1 => i - 1 \in DOMAIN ready' /\ ready'[i - 1] = ready[i]
  BY RunsFirst
<1>2. \A g, t, b : Has(g, t, b)' => Has(g, t, b)
  BY <1>1 DEF Has
<1>3. \A g, t, b : H(g, t, b) # H(h, s, ok) /\ Has(g, t, b) => Has(g, t, b)'
  BY <1>1 DEF Has
<1>4. OrderInv => OrderInv'
  <2> SUFFICES ASSUME OrderInv, NEW i \in DOMAIN ready', NEW j \in DOMAIN ready',
                      ready'[i].h = "written", ready'[i].ok, ready'[j].ok, ready'[i].s = ready'[j].s
               PROVE  /\ ready'[j].h = "written" => i = j
                      /\ ready'[j].h = "head" => i < j
    BY DEF OrderInv
  <2>1. /\ ready'[j].h = "written" => i + 1 = j + 1
        /\ ready'[j].h = "head" => i + 1 < j + 1
    BY <1>1 DEF OrderInv
  <2> QED
    BY <1>1, <2>1
<1> QED
  BY <1>1, <1>2, <1>3, <1>4 DEF Has

\* Queueing a handler adds it and no other.
LEMMA HasLast ==
    ASSUME TypeOK, NEW j \in Jobs, ready' = Append(ready, j)
    PROVE  /\ \A g, t, b : Has(g, t, b)' <=> Has(g, t, b) \/ j = H(g, t, b)
           /\ /\ OrderInv
              /\ j.h = "written" /\ j.ok => ~Has("written", j.s, TRUE) /\ ~Has("head", j.s, TRUE)
              => OrderInv'
<1>1. PICK n \in Nat :
              /\ DOMAIN ready' = DOMAIN ready \cup {n} /\ ready'[n] = j
              /\ \A i \in DOMAIN ready : /\ i \in Int /\ i < n /\ ready'[i] = ready[i]
                                         /\ ready[i] \in Jobs
  BY QueuedLast
<1>2. \A g, t, b : Has(g, t, b)' <=> Has(g, t, b) \/ j = H(g, t, b)
  BY <1>1 DEF Has
<1>3. ASSUME OrderInv,
             j.h = "written" /\ j.ok => ~Has("written", j.s, TRUE) /\ ~Has("head", j.s, TRUE)
      PROVE  OrderInv'
  <2>1. \A k \in Jobs : k.ok => k = H(k.h, k.s, TRUE)
    BY DEF Jobs, H
  <2>2. j.h = "written" /\ j.ok =>
           \A i \in DOMAIN ready : ready[i].ok /\ ready[i].s = j.s => ready[i].h \notin {"written", "head"}
    <3> SUFFICES ASSUME j.h = "written", j.ok, NEW i \in DOMAIN ready, ready[i].ok, ready[i].s = j.s,
                        NEW h \in {"written", "head"}, ready[i].h = h
                 PROVE  FALSE
      OBVIOUS
    <3>1. ready[i] = H(h, j.s, TRUE)
      BY <1>1, <2>1
    <3>2. Has(h, j.s, TRUE)
      BY <3>1 DEF Has
    <3> QED
      BY <1>3, <3>2
  <2> SUFFICES ASSUME NEW i \in DOMAIN ready', NEW k \in DOMAIN ready',
                      ready'[i].h = "written", ready'[i].ok, ready'[k].ok, ready'[i].s = ready'[k].s
               PROVE  /\ ready'[k].h = "written" => i = k
                      /\ ready'[k].h = "head" => i < k
    BY DEF OrderInv
  <2>4. CASE i \in DOMAIN ready /\ k \in DOMAIN ready
    BY <1>1, <1>3, <2>4 DEF OrderInv
  <2>5. CASE i = n /\ k \in DOMAIN ready
    BY <1>1, <2>2, <2>5
  <2>6. CASE i \in DOMAIN ready /\ k = n
    <3>1. /\ ready[i].h = "written" /\ ready[i].ok /\ j.ok /\ ready[i].s = j.s /\ ready'[k].h = j.h
          /\ i < k
      BY <1>1, <2>6
    <3> QED
      BY <2>2, <2>6, <3>1
  <2>7. CASE i = n /\ k = n
    BY <1>1, <2>7
  <2> QED
    BY <1>1, <2>4, <2>5, <2>6, <2>7
<1> QED
  BY <1>2, <1>3

\* What a step of another session leaves alone.
LEMMA OtherPhase ==
    ASSUME NEW t \in Sessions, PhaseInv(t),
           sock'[t] = sock[t], rop'[t] = rop[t], write_msgs_'[t] = write_msgs_[t], wops'[t] = wops[t],
           inbox'[t] = inbox[t], asked'[t] = asked[t], outbox'[t] = outbox[t],
           \A h \in {"head", "body", "written"} : Has(h, t, TRUE)' <=> Has(h, t, TRUE)
    PROVE  PhaseInv(t)'
BY DEF PhaseInv, Waiting, Asking, Replying

\* Handlers are told apart by their name, their session and their error code.
LEMMA DistinctJobs ==
    ASSUME NEW g, NEW t, NEW b \in BOOLEAN, NEW h, NEW s, NEW ok \in BOOLEAN,
           H(g, t, b) = H(h, s, ok)
    PROVE  g = h /\ t = s /\ b = ok
<1>1. H(g, t, b).h = g /\ H(g, t, b).s = t /\ H(g, t, b).ok = b
  BY DEF H
<1>2. H(h, s, ok).h = h /\ H(h, s, ok).s = s /\ H(h, s, ok).ok = ok
  BY DEF H
<1> QED
  BY <1>1, <1>2

\* When a queued handler is the one for success of a given kind and session.
IsOnly(j, h, s, ok) == \A g, t : j = H(g, t, TRUE) <=> g = h /\ t = s /\ ok = TRUE

\* The fields of a handler tell which it is.
LEMMA SameJob ==
    ASSUME NEW h, NEW s, NEW ok \in BOOLEAN
    PROVE  IsOnly(H(h, s, ok), h, s, ok)
<1> SUFFICES ASSUME NEW g, NEW t
             PROVE  H(h, s, ok) = H(g, t, TRUE) <=> g = h /\ t = s /\ ok = TRUE
  BY DEF IsOnly
<1>1. \A b \in BOOLEAN : H(h, s, ok) = H(g, t, b) => g = h /\ t = s /\ ok = b
  BY DistinctJobs
<1>2. H(h, s, ok) = H(g, t, TRUE) => g = h /\ t = s /\ ok = TRUE
  BY <1>1, Zenon
<1>3. ASSUME g = h, t = s, ok = TRUE PROVE H(h, s, ok) = H(g, t, TRUE)
  BY <1>3
<1> QED
  BY <1>2, <1>3, Zenon

\* The same handler runs, by whichever name.
LEMMA SameRun ==
    ASSUME NEW g, NEW s, NEW b \in BOOLEAN, NEW h, NEW ok \in BOOLEAN, Runs(g, s, b), Runs(h, s, ok)
    PROVE  g = h /\ b = ok
<1>1. H(g, s, b) = H(h, s, ok)
  BY DEF Runs
<1> QED
  BY <1>1, DistinctJobs

\* Nothing is asked at first.
LEMMA InitTurn == Init => TurnInv
<1> SUFFICES ASSUME Init PROVE TurnInv
  OBVIOUS
<1>1. DOMAIN ready = {} /\ crash = "none"
  BY DEF Init
<1>2. ASSUME NEW s \in Sessions PROVE PhaseInv(s)
  <2>1. /\ outbox[s] = <<>> /\ asked[s] = 0 /\ inbox[s] = <<>> /\ wops[s] = <<>>
        /\ write_msgs_[s] = <<>> /\ rop[s] = "none"
    BY DEF Init
  <2>2. \A h, b : ~Has(h, s, b)
    BY <1>1 DEF Has
  <2>3. Len(outbox[s]) = 0 /\ outbox[s] = [i \in 1..0 |-> i]
    BY <2>1
  <2>4. Waiting(s)
    BY <2>1, <2>2, <2>3 DEF Waiting
  <2> QED
    BY <2>1, <2>3, <2>4 DEF PhaseInv
<1> QED
  BY <1>1, <1>2 DEF TurnInv, OrderInv

\* The handlers.
LEMMA HandleTurn ==
    ASSUME TypeOK, ReadInv, TurnInv, NEW s \in Sessions, Handle(s)
    PROVE  TurnInv'
<1>0. SessionTypes
  BY Types
<1>1. PICK h \in {"accept", "head", "body", "written"}, ok \in BOOLEAN : Runs(h, s, ok)
  BY DEF Handle, HandleAccept, HandleReadHeader, HandleReadMsg, HandleWrite, HandleError
<1>2. UNCHANGED <<sock, asked, outbox>> /\ Head(ready) = H(h, s, ok)
  BY <1>1 DEF Runs
<1>3. /\ Has(h, s, ok) /\ OrderInv'
      /\ \A g, t, b : H(g, t, b) # H(h, s, ok) => (Has(g, t, b)' <=> Has(g, t, b))
      /\ \A g, t, b : Has(g, t, b)' => Has(g, t, b)
  BY <1>1, HasTail DEF TurnInv
<1>4. \A g, t : \A b \in BOOLEAN : H(g, t, b) = H(h, s, ok) => g = h /\ t = s /\ b = ok
  BY DistinctJobs
<1>5. \A g \in {"head", "body", "written"} :
         g # h \/ ~ok => (Has(g, s, TRUE)' <=> Has(g, s, TRUE))
  <2> SUFFICES ASSUME NEW g \in {"head", "body", "written"}, g # h \/ ~ok
               PROVE  Has(g, s, TRUE)' <=> Has(g, s, TRUE)
    OBVIOUS
  <2>1. H(g, s, TRUE) # H(h, s, ok)
    BY <1>4
  <2> QED
    BY <1>3, <2>1
<1>6. /\ 1 \in DOMAIN ready /\ ready[1] = H(h, s, ok)
      /\ \A i \in DOMAIN ready' : /\ i \in Int /\ i + 1 # 1 /\ i + 1 \in DOMAIN ready
                                  /\ ready'[i] = ready[i + 1]
      /\ \A i \in DOMAIN ready : i \in Int /\ (i # 1 => i > 1)
  <2>1. /\ DOMAIN ready = 1..Len(ready) /\ Len(ready) \in Nat
    BY <1>1, RunsFirst
  <2>2. \A i \in DOMAIN ready : i \in Int /\ (i # 1 => i > 1)
    BY <2>1
  <2> QED
    BY <1>1, <2>2, RunsFirst
<1>7. ready[1].h = h /\ ready[1].s = s /\ ready[1].ok = ok
  BY <1>6, JobType
\* The other sessions see nothing.
<1>8. ASSUME NEW t \in Sessions, t # s PROVE PhaseInv(t)'
  <2>1. \A g \in {"head", "body", "written"} : Has(g, t, TRUE)' <=> Has(g, t, TRUE)
    BY <1>3, <1>4, <1>8
  <2>2. /\ sock'[t] = sock[t] /\ asked'[t] = asked[t] /\ outbox'[t] = outbox[t]
    BY <1>2
  <2>3. rop'[t] = rop[t] /\ inbox'[t] = inbox[t]
    BY <1>0, <1>8 DEF Handle, HandleAccept, HandleReadHeader, HandleReadMsg, HandleWrite, HandleError,
          SessionTypes
  <2>4. write_msgs_'[t] = write_msgs_[t] /\ wops'[t] = wops[t]
    BY <1>0, <1>8 DEF Handle, HandleAccept, HandleReadHeader, HandleReadMsg, HandleWrite, HandleError,
          SessionTypes, reply
  <2> QED
    BY <2>1, <2>2, <2>3, <2>4, OtherPhase DEF TurnInv
<1>p. PhaseInv(s) /\ crash # "popempty"
  BY DEF TurnInv
\* One handler of a kind.
<1>9. h = "written" /\ ok => ~Has("written", s, TRUE)'
  <2> SUFFICES ASSUME h = "written", ok, NEW i \in DOMAIN ready', ready'[i] = H("written", s, TRUE)
               PROVE  FALSE
    BY DEF Has
  <2>1. /\ i + 1 \in DOMAIN ready /\ i + 1 # 1
        /\ ready[i + 1].h = "written" /\ ready[i + 1].s = s /\ ready[i + 1].ok
    BY <1>6 DEF H
  <2> QED
    BY <1>6, <1>7, <2>1 DEF TurnInv, OrderInv
<1>10. h = "head" /\ ok => ~Has("written", s, TRUE)
  <2> SUFFICES ASSUME h = "head", ok, NEW i \in DOMAIN ready, ready[i] = H("written", s, TRUE)
               PROVE  FALSE
    BY DEF Has
  <2>1. ready[i].h = "written" /\ ready[i].s = s /\ ready[i].ok /\ i # 1
    BY <1>7 DEF H
  <2>2. i < 1
    BY <1>6, <1>7, <2>1, ZenonT(30) DEF TurnInv, OrderInv
  <2> QED
    BY <1>6, <2>1, <2>2
<1>11. h \in {"accept", "head", "body"} => ~Has("head", s, TRUE)' /\ ~Has("body", s, TRUE)'
  <2> SUFFICES ASSUME h \in {"accept", "head", "body"}, NEW g \in {"head", "body"},
                      NEW i \in DOMAIN ready', ready'[i] = H(g, s, TRUE)
               PROVE  FALSE
    BY DEF Has
  <2>1. i + 1 \in DOMAIN ready /\ i + 1 # 1 /\ ready[i + 1].h = g /\ ready[i + 1].s = s
    BY <1>6 DEF H
  <2>2. ReadsOn(ready[i + 1]) /\ ReadsOn(ready[1])
    BY <1>7, <2>1 DEF ReadsOn
  <2> QED
    BY <1>6, <1>7, <2>1, <2>2 DEF ReadInv
<1>12. CASE HandleAccept(s)
  <2>1. /\ h = "accept" /\ UNCHANGED <<write_msgs_, wops, inbox, crash>>
        /\ rop' = rop \/ rop' = [rop EXCEPT ![s] = "head"]
    <3>1. \E b \in BOOLEAN : Runs("accept", s, b)
      BY <1>12 DEF HandleAccept
    <3> QED
      BY <1>1, <1>12, <3>1, SameRun DEF HandleAccept
  <2>2. rop'[s] = rop[s] \/ rop'[s] = "head"
    BY <1>0, <2>1 DEF SessionTypes
  <2>3. PhaseInv(s)'
    BY <1>2, <1>5, <1>p, <2>1, <2>2 DEF PhaseInv, Waiting, Asking, Replying
  <2> QED
    BY <1>3, <1>8, <1>p, <2>1, <2>3 DEF TurnInv
<1>13. CASE HandleReadHeader(s)
  <2>1. /\ h = "head" /\ ok /\ UNCHANGED <<write_msgs_, wops, inbox, crash>>
        /\ rop' = [rop EXCEPT ![s] = "body"]
    <3>1. Runs("head", s, TRUE)
      BY <1>13 DEF HandleReadHeader
    <3> QED
      BY <1>1, <1>13, <3>1, SameRun DEF HandleReadHeader
  <2>2. Asking(s)
    BY <1>3, <1>p, <2>1 DEF PhaseInv, Waiting, Replying
  <2>3. ~Has("written", s, TRUE) /\ ~Has("written", s, TRUE)'
    BY <1>3, <1>10, <2>1
  <2>4. Asking(s)'
    BY <1>2, <2>1, <2>2, <2>3 DEF Asking
  <2>5. PhaseInv(s)'
    BY <1>2, <1>p, <2>1, <2>4 DEF PhaseInv
  <2> QED
    BY <1>3, <1>8, <1>p, <2>1, <2>5 DEF TurnInv
<1>14. CASE HandleReadMsg(s) /\ sock[s] = "connected"
  <2>1. /\ h = "body" /\ ok
    <3>1. Runs("body", s, TRUE)
      BY <1>14 DEF HandleReadMsg
    <3> QED
      BY <1>1, <3>1, SameRun
  <2>2. Asking(s)
    BY <1>3, <1>p, <2>1 DEF PhaseInv, Waiting, Replying
  <2>3. ~Has("written", s, TRUE) /\ ~Has("written", s, TRUE)'
    BY <1>3, <2>1, <2>2 DEF Asking
  <2>4. inbox[s] = <<asked[s]>> /\ write_msgs_[s] = <<>> /\ wops[s] = <<>>
    BY <2>2, <2>3 DEF Asking
  <2>5. /\ write_msgs_' = [write_msgs_ EXCEPT ![s] = Append(@, Head(inbox[s]))]
        /\ wops' = [wops EXCEPT ![s] = Append(@, Head(write_msgs_'[s]))]
        /\ inbox' = [inbox EXCEPT ![s] = Tail(@)] /\ rop' = [rop EXCEPT ![s] = "head"] /\ crash' = crash
    BY <1>14 DEF HandleReadMsg, reply, ReplyId, NextRead
  <2>6. /\ Head(<<asked[s]>>) = asked[s] /\ Tail(<<asked[s]>>) = <<>> /\ Append(<<>>, asked[s]) = <<asked[s]>>
    BY OneElement
  <2>7. /\ write_msgs_'[s] = <<asked[s]>> /\ inbox'[s] = <<>> /\ rop'[s] = "head"
    BY <1>0, <2>4, <2>5, <2>6 DEF SessionTypes
  <2>8. wops'[s] = <<asked[s]>>
    BY <1>0, <2>4, <2>5, <2>6, <2>7 DEF SessionTypes
  <2>9. Replying(s)'
    BY <1>2, <1>11, <2>1, <2>2, <2>3, <2>7, <2>8 DEF Replying, Asking
  <2>10. PhaseInv(s)'
    BY <1>2, <1>14, <1>p, <2>9 DEF PhaseInv
  <2> QED
    BY <1>3, <1>8, <1>p, <2>5, <2>10 DEF TurnInv
<1>15. CASE HandleReadMsg(s) /\ sock[s] # "connected"
  <2>1. h = "body" /\ ok /\ crash' = "terminate" /\ UNCHANGED <<rop, write_msgs_, wops, inbox>>
    <3>1. Runs("body", s, TRUE)
      BY <1>15 DEF HandleReadMsg
    <3> QED
      BY <1>1, <1>15, <3>1, SameRun DEF HandleReadMsg
  <2>2. Asking(s)
    BY <1>3, <1>p, <2>1 DEF PhaseInv, Waiting, Replying
  <2>3. Asking(s)'
    BY <1>2, <1>3, <1>5, <2>1, <2>2 DEF Asking
  <2>4. PhaseInv(s)'
    BY <1>2, <1>p, <2>1, <2>3 DEF PhaseInv
  <2> QED
    BY <1>3, <1>8, <2>1, <2>4 DEF TurnInv
<1>16. CASE HandleWrite(s)
  <2>1. h = "written" /\ ok
    <3>1. Runs("written", s, TRUE)
      BY <1>16 DEF HandleWrite
    <3> QED
      BY <1>1, <3>1, SameRun
  <2>2. Waiting(s) \/ Asking(s)
    BY <1>3, <1>p, <2>1 DEF PhaseInv, Replying
  <2> DEFINE x == IF Waiting(s) THEN asked[s] ELSE Len(outbox[s])
  <2>3. write_msgs_[s] = <<x>>
    BY <1>3, <2>1, <2>2 DEF Waiting, Asking
  <2> HIDE DEF x
  <2>4. write_msgs_[s] # <<>> /\ Tail(write_msgs_[s]) = <<>>
    BY <2>3, OneElement
  <2>5. /\ UNCHANGED <<rop, inbox>>
        /\ write_msgs_' = [write_msgs_ EXCEPT ![s] = Tail(@)] /\ crash' = crash
        /\ wops' = IF write_msgs_'[s] = <<>> THEN wops
                   ELSE [wops EXCEPT ![s] = Append(@, Head(write_msgs_'[s]))]
    BY <1>16, <2>4 DEF HandleWrite, Popped
  <2>6. write_msgs_'[s] = <<>> /\ wops' = wops
    BY <1>0, <2>4, <2>5 DEF SessionTypes
  <2>7. ~Has("written", s, TRUE)' /\ \A g \in {"head", "body"} : Has(g, s, TRUE)' <=> Has(g, s, TRUE)
    BY <1>5, <1>9, <2>1
  <2>8. Waiting(s) => Waiting(s)'
    BY <1>2, <2>5, <2>6, <2>7 DEF Waiting
  <2>9. Asking(s) => Asking(s)'
    BY <1>2, <2>5, <2>6, <2>7 DEF Asking
  <2>10. PhaseInv(s)'
    BY <1>2, <1>p, <2>2, <2>6, <2>8, <2>9 DEF PhaseInv
  <2> QED
    BY <1>3, <1>8, <1>p, <2>5, <2>10 DEF TurnInv
<1>17. CASE HandleError(s)
  <2>1. ~ok /\ UNCHANGED <<rop, write_msgs_, wops, inbox, crash>>
    <3>1. \E g \in {"head", "body", "written"} : Runs(g, s, FALSE)
      BY <1>17 DEF HandleError
    <3>2. FALSE = ok
      BY <1>1, <3>1, SameRun, ZenonT(30)
    <3> QED
      BY <1>17, <3>2 DEF HandleError
  <2>2. PhaseInv(s)'
    BY <1>2, <1>5, <1>p, <2>1, OtherPhase
  <2> QED
    BY <1>3, <1>8, <1>p, <2>1, <2>2 DEF TurnInv
<1> QED
  BY <1>12, <1>13, <1>14, <1>15, <1>16, <1>17 DEF Handle

\* The reactor's events.
LEMMA EventTurn ==
    ASSUME TypeOK, ReadInv, TurnInv, NEW s \in Sessions, Accept(s) \/ ReadDone(s) \/ WriteDone(s)
    PROVE  TurnInv'
<1>0. SessionTypes
  BY Types
<1>p. PhaseInv(s) /\ crash # "popempty" /\ OrderInv
  BY DEF TurnInv
<1>1. CASE Accept(s)
  <2>1. PICK ok \in BOOLEAN : /\ sock' = IF ok THEN [sock EXCEPT ![s] = "connected"] ELSE sock
                              /\ ready' = Append(ready, H("accept", s, ok))
    BY <1>1, LinkSessionAssumption DEF Accept
  <2>2. sock[s] = "none" /\ UNCHANGED <<rop, write_msgs_, wops, inbox, asked, outbox, crash>>
    BY <1>1 DEF Accept
  <2> DEFINE j == H("accept", s, ok)
  <2>t. j \in Jobs /\ j.h = "accept"
    BY JobType
  <2>i. IsOnly(j, "accept", s, ok)
    BY SameJob
  <2>3. j \in Jobs /\ j.h = "accept" /\ \A g \in {"head", "body", "written"} : \A t : j # H(g, t, TRUE)
    <3> HIDE DEF j
    <3> QED
      BY <2>t, <2>i, Zenon DEF IsOnly
  <2>4. ready' = Append(ready, j)
    BY <2>1
  <2> HIDE DEF j
  <2>5. /\ OrderInv'
        /\ \A g \in {"head", "body", "written"} : \A t : Has(g, t, TRUE)' <=> Has(g, t, TRUE)
    BY <1>p, <2>3, <2>4, HasLast
  <2>6. /\ \A t \in Sessions : t # s => sock'[t] = sock[t]
        /\ wops[s] = <<>>
    BY <1>0, <1>p, <2>1, <2>2 DEF SessionTypes, PhaseInv
  <2>7. ASSUME NEW t \in Sessions, t # s PROVE PhaseInv(t)'
    BY <2>2, <2>5, <2>6, <2>7, OtherPhase DEF TurnInv
  <2>8. Waiting(s) \/ Asking(s)
    <3>1. ~Replying(s)
      BY <2>2, <2>6, OneElement DEF Replying
    <3> QED
      BY <1>p, <3>1 DEF PhaseInv
  <2>9. PhaseInv(s)'
    BY <1>p, <2>2, <2>5, <2>6, <2>8 DEF PhaseInv, Waiting, Asking
  <2> QED
    BY <1>p, <2>2, <2>5, <2>7, <2>9 DEF TurnInv
<1>2. CASE ReadDone(s)
  <2>1. PICK ok \in BOOLEAN : /\ ok => inbox[s] # <<>>
                              /\ ready' = Append(ready, H(rop[s], s, ok))
    BY <1>2 DEF ReadDone
  <2>2. /\ rop[s] # "none" /\ rop' = [rop EXCEPT ![s] = "none"]
        /\ UNCHANGED <<sock, write_msgs_, wops, inbox, asked, outbox, acceptor_, crash>>
    BY <1>2 DEF ReadDone
  <2>r. rop[s] \in {"head", "body"} /\ rop'[s] = "none"
    BY <1>0, <2>2 DEF SessionTypes
  <2> DEFINE j == H(rop[s], s, ok)
  <2>3. /\ j \in Jobs /\ j.h = rop[s]
        /\ \A g \in {"head", "body", "written"} : \A t : j = H(g, t, TRUE) => g = rop[s] /\ t = s /\ ok = TRUE
    <3>1. j \in Jobs /\ j.h = rop[s]
      BY <2>r, JobType
    <3>2. IsOnly(j, rop[s], s, ok)
      BY SameJob
    <3> HIDE DEF j
    <3> QED
      BY <3>1, <3>2, Zenon DEF IsOnly
  <2>4. ready' = Append(ready, j)
    BY <2>1
  <2> HIDE DEF j
  <2>5. /\ OrderInv'
        /\ \A g \in {"head", "body", "written"} : \A t : Has(g, t, TRUE)' <=> Has(g, t, TRUE) \/ j = H(g, t, TRUE)
    BY <1>p, <2>r, <2>3, <2>4, HasLast
  <2>6. ASSUME NEW t \in Sessions, t # s PROVE PhaseInv(t)'
    <3>1. rop'[t] = rop[t]
      BY <1>0, <2>2, <2>6 DEF SessionTypes
    <3>2. \A g \in {"head", "body", "written"} : Has(g, t, TRUE)' <=> Has(g, t, TRUE)
      BY <2>3, <2>5, <2>6
    <3> QED
      BY <2>2, <3>1, <3>2, OtherPhase DEF TurnInv
  <2>7. /\ Has("written", s, TRUE)' <=> Has("written", s, TRUE)
        /\ \A g \in {"head", "body"} : Has(g, s, TRUE)' => Has(g, s, TRUE) \/ (g = rop[s] /\ inbox[s] # <<>>)
    BY <2>1, <2>3, <2>5, <2>r
  <2>8. Waiting(s) => Waiting(s)'
    BY <2>2, <2>7, <2>r DEF Waiting
  <2>9. Replying(s) => Replying(s)'
    BY <2>2, <2>7, <2>r DEF Replying
  <2>10. Asking(s) => Asking(s)'
    BY <2>2, <2>7, <2>r DEF Asking
  <2>11. PhaseInv(s)'
    BY <1>p, <2>2, <2>8, <2>9, <2>10 DEF PhaseInv
  <2> QED
    BY <1>p, <2>2, <2>5, <2>6, <2>11 DEF TurnInv
<1>3. CASE WriteDone(s)
  <2> DEFINE ok == sock[s] = "connected"
             j == H("written", s, ok)
             a == asked[s]
             n == Len(outbox[s])
  <2>1. /\ wops[s] # <<>> /\ wops' = [wops EXCEPT ![s] = Tail(@)] /\ ready' = Append(ready, j)
        /\ outbox' = IF ok THEN [outbox EXCEPT ![s] = Append(@, Head(wops[s]))] ELSE outbox
        /\ UNCHANGED <<sock, rop, write_msgs_, inbox, asked, acceptor_, crash>>
    BY <1>3 DEF WriteDone
  <2>2. ok \in BOOLEAN
    OBVIOUS
  <2>3. Replying(s) /\ wops[s] = <<a>> /\ sock[s] # "none"
    BY <1>p, <2>1 DEF PhaseInv, Waiting, Asking, Replying
  <2>4. sock[s] \in {"connected", "dead"}
    BY <1>0, <2>3 DEF SessionTypes
  <2>5. ok \/ sock[s] = "dead"
    BY <2>4
  <2> HIDE DEF ok
  <2>6. /\ j \in Jobs /\ j.h = "written" /\ j.s = s /\ j.ok = ok
        /\ \A g \in {"head", "body", "written"} : \A t : j = H(g, t, TRUE) <=> g = "written" /\ t = s /\ ok = TRUE
    <3>1. j \in Jobs /\ j.h = "written" /\ j.s = s /\ j.ok = ok
      BY <2>2, JobType
    <3>2. IsOnly(j, "written", s, ok)
      BY <2>2, SameJob
    <3> HIDE DEF j
    <3> QED
      BY <3>1, <3>2, Zenon DEF IsOnly
  <2> HIDE DEF j
  <2>7. ~Has("written", s, TRUE) /\ ~Has("head", s, TRUE) /\ ~Has("body", s, TRUE)
    BY <2>3 DEF Replying
  <2>8. /\ OrderInv'
        /\ \A g \in {"head", "body", "written"} : \A t : Has(g, t, TRUE)' <=> Has(g, t, TRUE) \/ j = H(g, t, TRUE)
    BY <1>p, <2>1, <2>6, <2>7, HasLast, ZenonT(30)
  <2>9. ASSUME NEW t \in Sessions, t # s PROVE PhaseInv(t)'
    <3>1. wops'[t] = wops[t] /\ outbox'[t] = outbox[t]
      BY <1>0, <2>1, <2>9 DEF SessionTypes
    <3>2. \A g \in {"head", "body", "written"} : Has(g, t, TRUE)' <=> Has(g, t, TRUE)
      BY <2>6, <2>8, <2>9
    <3> QED
      BY <2>1, <3>1, <3>2, OtherPhase DEF TurnInv
  <2>10. Head(wops[s]) = a /\ Tail(wops[s]) = <<>>
    BY <2>3, OneElement
  <2>11. wops'[s] = <<>> /\ a = n + 1 /\ inbox'[s] = <<>> /\ write_msgs_'[s] = <<a>> /\ asked'[s] = a
         /\ rop'[s] # "body"
    BY <1>0, <2>1, <2>3, <2>10 DEF SessionTypes, Replying
  <2>12. ~Has("head", s, TRUE)' /\ ~Has("body", s, TRUE)' /\ (Has("written", s, TRUE)' <=> ok = TRUE)
    BY <2>6, <2>7, <2>8
  <2>13. CASE ok
    <3> DEFINE b == Append(outbox[s], n + 1)
    <3>1. outbox[s] \in Seq(Nat) /\ outbox[s] = [i \in 1..n |-> i]
      BY <1>0, <1>p DEF SessionTypes, PhaseInv, Req
    <3>2. Len(b) = n + 1 /\ b = [i \in 1..Len(b) |-> i]
      BY <3>1, NextInOrder
    <3>3. outbox'[s] = b
      BY <1>0, <2>1, <2>10, <2>11, <2>13 DEF SessionTypes
    <3> HIDE DEF b, a, n
    <3>4. Waiting(s)'
      BY <2>11, <2>12, <2>13, <3>2, <3>3 DEF Waiting
    <3>5. PhaseInv(s)'
      BY <2>11, <3>2, <3>3, <3>4 DEF PhaseInv
    <3> QED
      BY <1>p, <2>1, <2>8, <2>9, <3>5 DEF TurnInv
  <2>14. CASE ~ok
    <3>1. outbox' = outbox /\ sock'[s] = "dead" /\ ~Has("written", s, TRUE)'
      BY <2>1, <2>5, <2>12, <2>14
    <3> HIDE DEF a
    <3>2. Replying(s)'
      BY <2>11, <2>12, <3>1 DEF Replying
    <3>3. PhaseInv(s)'
      BY <1>p, <2>11, <3>1, <3>2 DEF PhaseInv
    <3> QED
      BY <1>p, <2>1, <2>8, <2>9, <3>3 DEF TurnInv
  <2> QED
    BY <2>2, <2>13, <2>14
<1> QED
  BY <1>1, <1>2, <1>3

\* The client asks only when it has its reply.
LEMMA ClientTurn ==
    ASSUME Window = 1, TypeOK, TurnInv, NEW s \in Sessions, ClientSend(s) \/ ClientReset(s)
    PROVE  TurnInv'
<1>0. SessionTypes
  BY Types
<1>1. UNCHANGED <<rop, write_msgs_, wops, outbox, ready, crash>>
  BY DEF ClientSend, ClientReset
<1>2. OrderInv' /\ \A h, t, b : Has(h, t, b)' <=> Has(h, t, b)
  BY <1>1 DEF TurnInv, OrderInv, Has
<1>p. PhaseInv(s) /\ crash # "popempty"
  BY DEF TurnInv
<1>3. ASSUME NEW t \in Sessions, t # s PROVE PhaseInv(t)'
  <2>1. sock'[t] = sock[t] /\ asked'[t] = asked[t] /\ inbox'[t] = inbox[t]
    BY <1>0, <1>3 DEF ClientSend, ClientReset, SessionTypes
  <2> QED
    BY <1>1, <1>2, <2>1, OtherPhase DEF TurnInv
<1>4. CASE ClientSend(s)
  <2> DEFINE a == asked[s] + 1
  <2>1. /\ asked[s] < Len(outbox[s]) + 1 /\ sock' = sock
        /\ asked' = [asked EXCEPT ![s] = a] /\ inbox' = [inbox EXCEPT ![s] = Append(@, a)]
    BY <1>4 DEF ClientSend
  <2>2. asked[s] \in Nat /\ Len(outbox[s]) \in Nat
    BY <1>0, LenProperties DEF SessionTypes
  <2>3. Waiting(s)
    <3>1. asked[s] # Len(outbox[s]) + 1
      BY <2>1, <2>2
    <3>2. ~Asking(s) /\ ~Replying(s)
      BY <3>1 DEF Asking, Replying
    <3> QED
      BY <1>p, <3>2 DEF PhaseInv
  <2>4. asked'[s] = a /\ inbox'[s] = Append(<<>>, a)
    BY <1>0, <2>1, <2>3 DEF SessionTypes, Waiting
  <2>5. inbox'[s] = <<a>> /\ a = Len(outbox[s]) + 1 /\ asked[s] = Len(outbox[s])
    BY <2>3, <2>4, OneElement DEF Waiting
  <2> HIDE DEF a
  <2>6. Asking(s)'
    BY <1>1, <1>2, <2>3, <2>4, <2>5 DEF Asking, Waiting
  <2>7. PhaseInv(s)'
    BY <1>1, <1>p, <2>1, <2>6 DEF PhaseInv
  <2> QED
    BY <1>1, <1>2, <1>3, <1>p, <2>7 DEF TurnInv
<1>5. CASE ClientReset(s)
  <2>1. sock'[s] = "dead" /\ UNCHANGED <<asked, inbox>>
    BY <1>0, <1>5 DEF ClientReset, SessionTypes
  <2>2. /\ Waiting(s) => Waiting(s)'
        /\ Asking(s) => Asking(s)'
    BY <1>1, <1>2, <2>1 DEF Waiting, Asking
  <2>3. Replying(s) => Replying(s)'
    BY <1>1, <1>2, <2>1 DEF Replying
  <2>4. PhaseInv(s)'
    BY <1>1, <1>p, <2>1, <2>2, <2>3 DEF PhaseInv
  <2> QED
    BY <1>1, <1>2, <1>3, <1>p, <2>4 DEF TurnInv
<1> QED
  BY <1>4, <1>5

\* Every session of a client that waits for its replies stays in its phases.
LEMMA TurnCorrect == Window = 1 => (Spec => []TurnInv)
<1> SUFFICES ASSUME Window = 1 PROVE Spec => []TurnInv
  OBVIOUS
<1>1. TypeOK /\ ReadInv /\ TurnInv /\ [Next]_vars => TurnInv'
  <2> SUFFICES ASSUME TypeOK, ReadInv, TurnInv, [Next]_vars PROVE TurnInv'
    OBVIOUS
  <2>1. CASE UNCHANGED vars
    <3>1. UNCHANGED <<sock, rop, write_msgs_, wops, inbox, asked, outbox, ready, crash>>
      BY <2>1 DEF vars
    <3>2. OrderInv' /\ \A h, t, b : Has(h, t, b)' <=> Has(h, t, b)
      BY <3>1 DEF TurnInv, OrderInv, Has
    <3>3. ASSUME NEW t \in Sessions PROVE PhaseInv(t)'
      BY <3>1, <3>2, OtherPhase DEF TurnInv
    <3> QED
      BY <3>1, <3>2, <3>3 DEF TurnInv
  <2> QED
    BY <2>1, HandleTurn, EventTurn, ClientTurn DEF Next
<1> QED
  BY <1>1, InitTurn, SessionCorrect, PTL DEF Spec

\* A client that waits for each reply, as client.cpp does, gets the replies in
\* the order of its requests, none twice and none skipped, on every session.
THEOREM RepliesInOrderCorrect == Window = 1 => (Spec => []RepliesInOrder)
<1>1. TurnInv => RepliesInOrder
  BY DEF TurnInv, PhaseInv, RepliesInOrder
<1> QED
  BY <1>1, TurnCorrect, PTL

\* With such clients no write outlives its message, and pop_front() is never
\* called on an empty deque.
THEOREM WritesAreQueuedCorrect == Window = 1 => (Spec => []WritesAreQueued)
<1>1. TurnInv => WritesAreQueued
  <2> SUFFICES ASSUME TurnInv, NEW s \in Sessions, NEW i \in DOMAIN wops[s]
               PROVE  \E j \in DOMAIN write_msgs_[s] : write_msgs_[s][j] = wops[s][i]
    BY DEF TurnInv, WritesAreQueued
  <2>1. Waiting(s) \/ Asking(s) \/ Replying(s)
    BY DEF TurnInv, PhaseInv
  <2>2. wops[s] # <<>>
    OBVIOUS
  <2>3. wops[s] = write_msgs_[s]
    BY <2>1, <2>2 DEF Waiting, Asking, Replying
  <2> QED
    BY <2>3
<1> QED
  BY <1>1, TurnCorrect, PTL

=============================================================================
