------------------------------ MODULE MsgBuffer ------------------------------
(***************************************************************************)
(* RPCStruct (include/client_msg.hpp) as the buffer of a message, and the  *)
(* way a request takes through such buffers: newMsgBuf lays it out, the    *)
(* server reads it into a record made for its header, replies with the     *)
(* callback's result or with the record itself, and the client reads the   *)
(* reply into the record kept for the request, or a temporary one.         *)
(*                                                                         *)
(* A buffer is a sequence of cells: HeadSize of them for the header,       *)
(* MetaSize for the meta data, then the body.  The cells say where they    *)
(* come from.  TCP carries them in order.  Which thread does what, and     *)
(* when connections break, is the subject of ClientLoop and LinkSession; a *)
(* reply may come twice (LinkSession) or after the request timed out.      *)
(*                                                                         *)
(* Both sides also print every buffer as a C string, which ends at the     *)
(* first nul.  past names the requests for which that may have run beyond  *)
(* the allocation; the process goes on all the same.                       *)
(*                                                                         *)
(* crash: "overrun" a copy, a read or a write left the allocation,         *)
(* "badfree" ~CallStruct deleted the pointer its constructor never set,    *)
(* "dangling" a user looked into a buffer that was freed.                  *)
(***************************************************************************)
EXTENDS Integers, Sequences

CONSTANTS
    MaxReq,     \* bound: number of requests
    PreBody,    \* pbs, the room for the body a record starts with
    MetaSize,   \* meta_size of a header: 8
    MaxBody,    \* bound: length of a body
    Results,    \* sizes of the CallStructs the callback returns, if any
    MaxReplies  \* bound: times a reply is sent

ASSUME MsgBufferAssumption ==
    /\ {MaxReq, PreBody, MetaSize, MaxBody} \subseteq Nat
    /\ MaxReplies \in Nat \ {0}
    /\ Results \subseteq 0..MaxBody

Req == 1..MaxReq

\* RPC_MSG_HEAD: three ints.
HeadSize == 3
Head_(id, b, m) == [req_id |-> id, body_size |-> b, meta_size |-> m]
RPCStructHead == Head_(-1, -1, MetaSize)

Cell(what, n, i) == <<what, n, i>>
Garbage(n) == [i \in 1..n |-> Cell("?", 0, 0)]
MetaCells == [i \in 1..MetaSize |-> Cell("meta", 0, i)]

\* A body of n cells; when z it is a C string, the last cell being its nul.
BodyCells(who, r, n, z) == [i \in 1..n |-> Cell(IF z /\ i = n THEN "nul" ELSE who, r, i)]

HeadCells(h) ==
    <<Cell("head", 1, h.req_id), Cell("head", 2, h.body_size), Cell("head", 3, h.meta_size)>>

\* Mutant: the fields are read in the wrong order.
HeadOfSwapped(cells) == Head_(cells[2][3], cells[1][3], cells[3][3])

\* A header as it is read into an RPCStructHead.
HeadOf(cells) == Head_(cells[1][3], cells[2][3], cells[3][3])

-----------------------------------------------------------------------------
(* RPCStruct *)

\* The offset of the body is fixed when the record is made; base counts the
\* times the buffer was moved, 0 before there is one.
RPCStruct(h) ==
    [head |-> h, body_offset |-> HeadSize + h.meta_size, pre_body_size |-> PreBody,
     data |-> <<>>, base |-> 0]

\* Mutant: a body that fits exactly moves the buffer too.
GrowsEarly(s) == s.head.body_size >= s.pre_body_size

Grows(s) == s.head.body_size > s.pre_body_size

\* Mutant: the room for header and meta data is forgotten.
AllocSizeBody(s, n) == n

AllocSize(s, n) == s.body_offset + n

\* malloc, or realloc, which keeps the cells; then the header is copied in.
new_data(s) ==
    LET pre == IF Grows(s) THEN s.head.body_size ELSE s.pre_body_size
        size == AllocSize(s, pre)
        data == IF s.base > 0 /\ ~Grows(s) THEN s.data
                ELSE s.data \o Garbage(size - Len(s.data))
    IN [s EXCEPT !.pre_body_size = pre,
                 !.base = IF s.base > 0 /\ ~Grows(s) THEN @ ELSE @ + 1,
                 !.data = HeadCells(s.head) \o SubSeq(data, HeadSize + 1, Len(data))]

\* Cells offset + 1 .. offset + Len(cells) of the buffer.
Fits(s, offset, n) == offset >= 0 /\ n >= 0 /\ offset + n <= Len(s.data)
Store(s, offset, cells) ==
    [s EXCEPT !.data = [i \in DOMAIN @ |->
        IF i - offset \in DOMAIN cells THEN cells[i - offset] ELSE @[i]]]

head(s, h) == new_data([s EXCEPT !.head = h])
meta(s) == Store(new_data(s), HeadSize, MetaCells)
body(s, cells) == Store(new_data(s), s.body_offset, cells)
recv_msg_len(s) == s.head.body_size + s.head.meta_size

\* Mutant: the meta data is left out of the length.
data_len_short(s) == s.head.body_size + HeadSize

data_len(s) == s.head.body_size + s.body_offset

\* What a caller of body() and head().body_len() gets.
BodyOf(s) == SubSeq(s.data, s.body_offset + 1, s.body_offset + s.head.body_size)

\* showInfo, and body() in a log line: the meta data and the body are printed as
\* C strings.  Both end at the nul of the body; without one they go on through
\* whatever is behind it, and may not end in the buffer.
EndsIn(s) == \E i \in 1..Len(s.data) : i > s.body_offset /\ s.data[i][1] = "nul"
showInfo(s) == IF EndsIn(s) THEN {} ELSE {s.head.req_id}

-----------------------------------------------------------------------------
VARIABLES
    msg_index_,  \* the next request
    toServer, toClient,  \* the two directions of the connection
    reading,     \* the server: between messages, or the record it reads into
    recv,        \* the client's record for the reply to each request
    recv_msg_map_,  \* the requests whose record is in the map
    into,        \* the client: the record it reads into, 0 none, -1 temp
    temp,        \* the record of a reply nobody waits for
    status,      \* RPCStruct::status
    reader,      \* the caller of read(): has not called, has the RPCStruct_ptr, let go of it
    held,        \* requests whose body() a user has a pointer to
    answer,      \* history: the body the server meant to reply with
    bare,        \* history: requests with a body, or a result, that is no C string
    past,        \* history: requests printed beyond their buffer
    crash

texts == <<bare, past>>
users == <<reader, held>>
vars == <<msg_index_, toServer, toClient, reading, recv, recv_msg_map_, into, temp,
          status, users, answer, texts, crash>>

None == [head |-> RPCStructHead]

\* The type invariant.
TypeOK ==
    /\ msg_index_ \in 1..(MaxReq + 1)
    /\ \A r \in Req : recv[r].head.req_id \in {-1, r}
    /\ \A s \in {recv[r] : r \in Req} \cup {temp} :
          /\ s.head.req_id \in Req \cup {-1}
          /\ s.head.body_size \in -1..MaxBody
          /\ s.pre_body_size \in Nat
    /\ reading.head.req_id \in Req \cup {-1}
    /\ recv_msg_map_ \subseteq Req
    /\ into \in Req \cup {-1, 0}
    /\ status \in [Req -> {"UNKNOWN", "READ_OK", "TIMEOUT"}]
    /\ reader \in [Req -> {"none", "has", "gone"}]
    /\ held \subseteq Req
    /\ bare \subseteq Req
    /\ crash \in {"none", "overrun", "badfree", "dangling"}

Init ==
    /\ msg_index_ = 1
    /\ toServer = <<>>
    /\ toClient = <<>>
    /\ reading = None
    /\ recv = [r \in Req |-> RPCStruct(RPCStructHead)]
    /\ recv_msg_map_ = {}
    /\ into = 0
    /\ temp = RPCStruct(RPCStructHead)
    /\ status = [r \in Req |-> "UNKNOWN"]
    /\ reader = [r \in Req |-> "none"]
    /\ held = {}
    /\ answer = [r \in Req |-> <<>>]
    /\ bare = {}
    /\ past = {}
    /\ crash = "none"

\* async_write of data(), data_len().
Written(s) == SubSeq(s.data, 1, data_len(s))

-----------------------------------------------------------------------------
(* The client sends *)

\* newMsgBuf: header, body and meta data of the message, a record for the reply.
newMsgBuf(r, n, z) ==
    meta(body(head(RPCStruct(RPCStructHead), Head_(r, n, MetaSize)),
              BodyCells("client", r, n, z)))

\* write() and do_write, which print the message.
Write(n, z) ==
    LET r == msg_index_
        s == newMsgBuf(r, n, z)
    IN /\ crash = "none"
       /\ r <= MaxReq
       /\ z => n > 0
       /\ msg_index_' = r + 1
       /\ IF Fits(s, 0, data_len(s))
          THEN toServer' = toServer \o Written(s) /\ UNCHANGED crash
          ELSE crash' = "overrun" /\ UNCHANGED toServer
       /\ recv' = [recv EXCEPT ![r].head.req_id = r]
       /\ recv_msg_map_' = recv_msg_map_ \cup {r}
       /\ answer' = [answer EXCEPT ![r] = BodyCells("client", r, n, z)]
       /\ bare' = IF z THEN bare ELSE bare \cup {r}
       /\ past' = past \cup showInfo(s)
       /\ UNCHANGED <<toClient, reading, into, temp, status, users>>

-----------------------------------------------------------------------------
(* The server: link_session *)

\* handle_read_header: a record for this header.
ServerReadHeader ==
    /\ crash = "none"
    /\ reading = None
    /\ Len(toServer) >= HeadSize
    /\ reading' = new_data(RPCStruct(HeadOf(toServer)))
    /\ toServer' = SubSeq(toServer, HeadSize + 1, Len(toServer))
    /\ UNCHANGED <<msg_index_, toClient, recv, recv_msg_map_, into, temp, status, users,
                   answer, texts, crash>>

\* No callback, or it returned nullptr.
NoResult == -1

\* reply: the callback's result in a new message, or the request itself.
Answer(s, n, z) ==
    IF n > 0
    THEN body(meta(head(RPCStruct(RPCStructHead), Head_(s.head.req_id, n, MetaSize))),
              BodyCells("callback", s.head.req_id, n, z))
    ELSE s

\* The destructor of a CallStruct of size 0 looks at a pointer that was never set.
BadFree(n) == n = 0

\* handle_read_msg, which prints the request, and calls reply; a CallStruct of size
\* 0 is taken for no result.  do_write prints the reply.
ServerReadMsg(n, z, times) ==
    LET s == Store(reading, HeadSize, SubSeq(toServer, 1, recv_msg_len(reading)))
        a == Answer(s, n, z)
        r == reading.head.req_id
    IN /\ crash = "none"
       /\ reading # None
       /\ z => n > 0
       /\ Len(toServer) >= recv_msg_len(reading)
       /\ toServer' = SubSeq(toServer, recv_msg_len(reading) + 1, Len(toServer))
       /\ answer' = IF n > 0 /\ r \in Req
                    THEN [answer EXCEPT ![r] = BodyCells("callback", r, n, z)] ELSE answer
       /\ bare' = IF n > 0 /\ r \in Req /\ ~z THEN bare \cup {r} ELSE bare
       /\ past' = past \cup showInfo(s) \cup showInfo(a)
       /\ \/ /\ Fits(reading, HeadSize, recv_msg_len(reading)) /\ Fits(a, 0, data_len(a))
             /\ toClient' = toClient \o Written(a) \o (IF times = 2 THEN Written(a) ELSE <<>>)
             /\ UNCHANGED crash
          \/ /\ ~(Fits(reading, HeadSize, recv_msg_len(reading)) /\ Fits(a, 0, data_len(a)))
             /\ crash' = "overrun"
             /\ UNCHANGED toClient
          \/ /\ BadFree(n)
             /\ crash' = "badfree"
             /\ UNCHANGED toClient
       /\ reading' = None
       /\ UNCHANGED <<msg_index_, recv, recv_msg_map_, into, temp, status, users>>

-----------------------------------------------------------------------------
(* The client receives *)

\* handle_read_header and do_read_msg: the record in the map gets the header, or
\* a new one does.
ClientReadHeader ==
    LET h == HeadOf(toClient)
        found == h.req_id \in recv_msg_map_
    IN /\ crash = "none"
       /\ into = 0
       /\ Len(toClient) >= HeadSize
       /\ toClient' = SubSeq(toClient, HeadSize + 1, Len(toClient))
       /\ into' = IF found THEN h.req_id ELSE -1
       /\ recv' = IF found THEN [recv EXCEPT ![h.req_id] = head(@, h)] ELSE recv
       /\ temp' = IF found THEN temp ELSE new_data(RPCStruct(h))
       /\ UNCHANGED <<msg_index_, toServer, reading, recv_msg_map_, status, users, answer,
                      texts, crash>>

\* handle_read_msg, which prints the reply.
ClientReadMsg ==
    LET s == IF into = -1 THEN temp ELSE recv[into]
        n == recv_msg_len(s)
        filled == Store(s, HeadSize, SubSeq(toClient, 1, n))
    IN /\ crash = "none"
       /\ into # 0
       /\ Len(toClient) >= n
       /\ toClient' = SubSeq(toClient, n + 1, Len(toClient))
       /\ crash' = IF Fits(s, HeadSize, n) THEN crash ELSE "overrun"
       /\ recv' = IF into = -1 THEN recv ELSE [recv EXCEPT ![into] = filled]
       /\ temp' = RPCStruct(RPCStructHead)
       /\ status' = IF into = -1 THEN status ELSE [status EXCEPT ![into] = "READ_OK"]
       /\ into' = 0
       /\ past' = past \cup showInfo(filled)
       /\ UNCHANGED <<msg_index_, toServer, reading, recv_msg_map_, users, answer, bare>>

\* The last RPCStruct_ptr is gone, so ~RPCStruct has freed the buffer: it is not in
\* the map, read() is over, and no handler reads into it.
Freed(r) ==
    r < msg_index_ /\ r \notin recv_msg_map_ /\ reader[r] # "has" /\ into # r

\* set_timeout, which may come after the reply; ClientLoop has the timer that runs
\* on a freed record.
Timeout(r) ==
    /\ crash = "none"
    /\ r < msg_index_
    /\ ~Freed(r)
    /\ status[r] # "TIMEOUT"
    /\ status' = [status EXCEPT ![r] = "TIMEOUT"]
    /\ UNCHANGED <<msg_index_, toServer, toClient, reading, recv, recv_msg_map_, into, temp,
                   users, answer, texts, crash>>

\* A user moves on; the message and the streams are left alone.
User(r, here, there) ==
    /\ crash = "none"
    /\ reader[r] \in here
    /\ reader' = [reader EXCEPT ![r] = there]
    /\ UNCHANGED <<msg_index_, toServer, toClient, reading, into, temp, status, answer, texts>>

\* read() returns the record once there is a result.
UserRead(r) ==
    /\ User(r, {"none"}, "has")
    /\ r \in recv_msg_map_
    /\ status[r] # "UNKNOWN"
    /\ UNCHANGED <<recv, recv_msg_map_, held, crash>>

\* body() of the record read() returned.
UserBody(r) ==
    /\ User(r, {"has"}, "has")
    /\ status[r] = "READ_OK"
    /\ r \notin held
    /\ recv' = [recv EXCEPT ![r] = new_data(@)]
    /\ held' = held \cup {r}
    /\ UNCHANGED <<recv_msg_map_, crash>>

\* The RPCStruct_ptr goes out of scope: at once in the pool's read(), which returns
\* the bare pointer body() gave it.
UserDrop(r) ==
    /\ User(r, {"has"}, "gone")
    /\ UNCHANGED <<recv, recv_msg_map_, held, crash>>

\* A user of the bare pointer finds the buffer freed.
UserFindsFreed(r) ==
    /\ User(r, {"gone"}, "gone")
    /\ r \in held
    /\ Freed(r)
    /\ crash' = "dangling"
    /\ UNCHANGED <<recv, recv_msg_map_, held>>

\* erase_msg_timer takes the record out of the map, after a read() of it: the record
\* is Freed unless the reader or a handler has it.
Erase(r) ==
    /\ User(r, {"has", "gone"}, reader[r])
    /\ r \in recv_msg_map_
    /\ recv_msg_map_' = recv_msg_map_ \ {r}
    /\ UNCHANGED <<recv, held, crash>>

Next ==
    \/ \E n \in 0..MaxBody, z \in BOOLEAN : Write(n, z)
    \/ ServerReadHeader
    \/ \E n \in Results \cup {NoResult}, z \in BOOLEAN, times \in 1..MaxReplies :
          ServerReadMsg(n, z, times)
    \/ ClientReadHeader
    \/ ClientReadMsg
    \/ \E r \in Req :
          \/ Timeout(r) \/ Erase(r)
          \/ UserRead(r) \/ UserBody(r) \/ UserDrop(r) \/ UserFindsFreed(r)

Spec == Init /\ [][Next]_vars

-----------------------------------------------------------------------------
(* Properties *)

\* No copy, read or write leaves the allocation of its record, whichever side made
\* it, from whichever header, before or after it grew; and when body and result are
\* C strings, as those client.cpp and client_pool.cpp send are, no log line reads
\* beyond it either: the nul of the one or the other is in every buffer printed.
InBounds == crash # "overrun" /\ past \subseteq bare

\* Both ends agree on the layout: a record in CT_READ_OK holds the body the
\* server meant for this request, all of it, be it the callback's or the echo
\* of what the client wrote, longer or shorter than the room there was.
Delivered ==
    \A r \in Req : status[r] = "READ_OK" => BodyOf(recv[r]) = answer[r]

\* The pointer body() returned stays good, and the bytes behind it the same, for as
\* long as the caller keeps the RPCStruct_ptr or the record is in the map, although
\* a second copy of the reply is read into it.  The pool's read() lets go of the
\* RPCStruct_ptr: its pointer is good only until erase_msg_timer has run.
PointerStable ==
    [][\A r \in held : reader'[r] = "has" \/ r \in recv_msg_map_' =>
          recv'[r].base = recv[r].base /\ BodyOf(recv'[r]) = BodyOf(recv[r])]_vars

=============================================================================
