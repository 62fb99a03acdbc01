-------------------------- MODULE MsgBufferProofs ---------------------------
(***************************************************************************)
(* Theorems about MsgBuffer, for any number and length of messages, any    *)
(* room a record starts with and any results of the callback.              *)
(*                                                                         *)
(* The streams carry cells, not messages, so the invariant says where the  *)
(* messages in them begin: Framed gives a set of cuts, each but the last   *)
(* the beginning of a whole message, whose end is a cut again.  What is in *)
(* front of the first cut is the rest of the message being read.  A        *)
(* request whose answer is still open is in the stream to the server, or   *)
(* read by it, and nowhere else: so answer does not change any more when   *)
(* there is a reply.                                                       *)
(***************************************************************************)
EXTENDS MsgBuffer, SequenceTheorems, TLAPS

\* The values of cells, headers and records.
Cells == {"?", "head", "meta", "client", "callback", "nul"} \X Nat \X Int
Heads == [req_id : Int, body_size : Int, meta_size : Int]
Struct == [head : Heads, body_offset : Int, pre_body_size : Int, data : Seq(Cells), base : Nat]

-----------------------------------------------------------------------------
(* Parts of sequences *)

\* What is left behind the first k elements.
LEMMA Dropped ==
    ASSUME NEW T, NEW d \in Seq(T), NEW k \in Nat, k <= Len(d)
    PROVE  /\ SubSeq(d, k + 1, Len(d)) \in Seq(T) /\ Len(SubSeq(d, k + 1, Len(d))) = Len(d) - k
           /\ \A i \in 1..(Len(d) - k) : SubSeq(d, k + 1, Len(d))[i] = d[k + i]
OBVIOUS

\* The first k elements.
LEMMA Taken ==
    ASSUME NEW T, NEW d \in Seq(T), NEW k \in Nat, k <= Len(d)
    PROVE  /\ SubSeq(d, 1, k) \in Seq(T) /\ Len(SubSeq(d, 1, k)) = k
           /\ \A i \in 1..k : SubSeq(d, 1, k)[i] = d[i]
OBVIOUS

\* One sequence copied to the front of another.
LEMMA CopiedToFront ==
    ASSUME NEW T, NEW f \in Seq(T), NEW d \in Seq(T), Len(f) <= Len(d),
           NEW e, e = f \o SubSeq(d, Len(f) + 1, Len(d))
    PROVE  /\ e \in Seq(T) /\ Len(e) = Len(d)
           /\ \A i \in 1..Len(f) : e[i] = f[i]
           /\ \A i \in (Len(f) + 1)..Len(d) : e[i] = d[i]
OBVIOUS

\* One sequence behind another.
LEMMA Joined ==
    ASSUME NEW T, NEW d \in Seq(T), NEW e \in Seq(T)
    PROVE  /\ d \o e \in Seq(T) /\ Len(d \o e) = Len(d) + Len(e)
           /\ \A i \in 1..Len(d) : (d \o e)[i] = d[i]
           /\ \A i \in 1..Len(e) : (d \o e)[Len(d) + i] = e[i]
OBVIOUS

-----------------------------------------------------------------------------
(* Records *)

\* What the constructor lays down, and new_data keeps.
Laid(s) ==
    /\ s \in Struct
    /\ s.head.meta_size = MetaSize /\ s.body_offset = HeadSize + MetaSize
    /\ s.head.body_size \in -1..MaxBody /\ s.pre_body_size \in Nat
    /\ s.base = 0 => s.data = <<>>
    /\ s.base > 0 => Len(s.data) = s.body_offset + s.pre_body_size

\* The header of the record is that of request r with a body of n cells.
Announces(s, r, n) == s.head = Head_(r, n, MetaSize)

\* The record has the header of a message of request r with a body of n cells,
\* and room for that.
Headed(s, r, n) ==
    /\ Laid(s) /\ s.base > 0
    /\ Announces(s, r, n) /\ n \in Nat /\ n <= s.pre_body_size
    /\ \A i \in 1..HeadSize : s.data[i] = HeadCells(s.head)[i]

\* The cells m behind the first k cells of q.
BodyAt(q, k, m) == \A i \in 1..Len(m) : q[k + i] = m[i]

\* The record holds the message of request r with the body m.
Holds(s, r, m) == Headed(s, r, Len(m)) /\ BodyAt(s.data, s.body_offset, m)

\* A header is three cells.
LEMMA HeadCellsType ==
    ASSUME NEW h \in Heads
    PROVE  /\ HeadCells(h) \in Seq(Cells) /\ Len(HeadCells(h)) = HeadSize
           /\ HeadCells(h)[1] = Cell("head", 1, h.req_id)
           /\ HeadCells(h)[2] = Cell("head", 2, h.body_size)
           /\ HeadCells(h)[3] = Cell("head", 3, h.meta_size)
<1>1. /\ Cell("head", 1, h.req_id) \in Cells /\ Cell("head", 2, h.body_size) \in Cells
      /\ Cell("head", 3, h.meta_size) \in Cells
  BY DEF Heads, Cell, Cells
<1> QED
  BY <1>1 DEF HeadCells, HeadSize

\* n cells of unset memory.
LEMMA GarbageType ==
    ASSUME NEW n \in Nat
    PROVE  Garbage(n) \in Seq(Cells) /\ Len(Garbage(n)) = n
<1>1. Cell("?", 0, 0) \in Cells
  BY DEF Cell, Cells
<1> QED
  BY <1>1 DEF Garbage

\* The meta data is a sequence of cells.
LEMMA MetaCellsType == MetaCells \in Seq(Cells) /\ Len(MetaCells) = MetaSize
<1>1. MetaSize \in Nat /\ \A i \in 1..MetaSize : Cell("meta", 0, i) \in Cells
  BY MsgBufferAssumption DEF Cell, Cells
<1> QED
  BY <1>1 DEF MetaCells

\* The body is a C string: it ends in a nul.
Text(m) == Len(m) > 0 /\ m[Len(m)][1] = "nul"

\* So is a body, however long.
LEMMA BodyCellsType ==
    ASSUME NEW who \in {"client", "callback"}, NEW r \in Nat, NEW n \in Nat, NEW z \in BOOLEAN
    PROVE  /\ BodyCells(who, r, n, z) \in Seq(Cells) /\ Len(BodyCells(who, r, n, z)) = n
           /\ z /\ n > 0 => Text(BodyCells(who, r, n, z))
<1>1. \A i \in 1..n : Cell(IF z /\ i = n THEN "nul" ELSE who, r, i) \in Cells
  BY DEF Cell, Cells
<1>2. BodyCells(who, r, n, z) \in Seq(Cells) /\ Len(BodyCells(who, r, n, z)) = n
  BY <1>1 DEF BodyCells
<1>3. ASSUME z, n > 0 PROVE BodyCells(who, r, n, z)[n] = Cell("nul", r, n)
  BY <1>3 DEF BodyCells
<1> QED
  BY <1>2, <1>3 DEF Text, Cell

\* A new record, for a header or without one.
LEMMA ConstructorLaid ==
    /\ Laid(RPCStruct(RPCStructHead)) /\ RPCStructHead.req_id = -1
    /\ \A r \in Int, n \in 0..MaxBody :
          Laid(RPCStruct(Head_(r, n, MetaSize))) /\ Announces(RPCStruct(Head_(r, n, MetaSize)), r, n)
<1>1. MetaSize \in Nat /\ PreBody \in Nat /\ MaxBody \in Nat /\ <<>> \in Seq(Cells)
  BY MsgBufferAssumption
<1> QED
  BY <1>1 DEF Laid, Struct, Heads, RPCStruct, RPCStructHead, Head_, HeadSize, Announces

\* A header is copied to the front of a buffer.
LEMMA FrontReplaced ==
    ASSUME NEW d \in Seq(Cells), HeadSize <= Len(d), NEW h \in Heads,
           NEW e, e = HeadCells(h) \o SubSeq(d, HeadSize + 1, Len(d))
    PROVE  /\ e \in Seq(Cells) /\ Len(e) = Len(d)
           /\ \A i \in 1..HeadSize : e[i] = HeadCells(h)[i]
           /\ \A i \in (HeadSize + 1)..Len(d) : e[i] = d[i]
<1>1. HeadCells(h) \in Seq(Cells) /\ Len(HeadCells(h)) = HeadSize
  BY HeadCellsType
<1> QED
  BY <1>1, CopiedToFront

\* The header of s copied to the front of a buffer.
Front(s, d) == HeadCells(s.head) \o SubSeq(d, HeadSize + 1, Len(d))

\* The room a buffer has for the body once it was made or grew, and the buffer.
Size(s) == IF Grows(s) THEN s.head.body_size ELSE s.pre_body_size
Longer(s, pre) == s.data \o Garbage(AllocSize(s, pre) - Len(s.data))

\* A record with another buffer.
Refilled(s, pre, b, e) == [s EXCEPT !.pre_body_size = pre, !.base = b, !.data = e]

\* Only its buffer is another.
LEMMA RefilledFields ==
    ASSUME NEW s \in Struct, NEW pre \in Int, NEW b \in Nat, NEW e \in Seq(Cells)
    PROVE  LET t == Refilled(s, pre, b, e) IN
           /\ t \in Struct /\ t.head = s.head /\ t.body_offset = s.body_offset
           /\ t.pre_body_size = pre /\ t.data = e /\ t.base = b
<1>1. Refilled(s, pre, b, e) \in Struct
  BY DEF Refilled, Struct
<1> QED
  BY <1>1 DEF Refilled, Struct

\* The buffer has the right size, and the header is copied in.
LEMMA NewHeaded ==
    ASSUME NEW s, Laid(s), NEW r \in Int, NEW n \in 0..MaxBody, Announces(s, r, n),
           NEW pre \in Nat, n <= pre, NEW b \in Nat, b > 0,
           NEW d \in Seq(Cells), Len(d) = HeadSize + MetaSize + pre
    PROVE  /\ Headed(Refilled(s, pre, b, Front(s, d)), r, n)
           /\ Refilled(s, pre, b, Front(s, d)).base = b
           /\ \A i \in (HeadSize + 1)..Len(d) : Refilled(s, pre, b, Front(s, d)).data[i] = d[i]
<1> DEFINE e == Front(s, d)
           t == Refilled(s, pre, b, e)
<1>1. /\ s \in Struct /\ s.head \in Heads /\ s.body_offset = HeadSize + MetaSize
      /\ MetaSize \in Nat /\ HeadSize \in Nat /\ n \in Nat /\ MaxBody \in Nat
      /\ s.head.meta_size = MetaSize /\ s.head.body_size \in -1..MaxBody
  BY MsgBufferAssumption DEF Laid, Struct, HeadSize
<1>2. Len(d) = HeadSize + MetaSize + pre /\ HeadSize <= Len(d)
  BY <1>1
<1>3. /\ e \in Seq(Cells) /\ Len(e) = Len(d)
      /\ \A i \in 1..HeadSize : e[i] = HeadCells(s.head)[i]
      /\ \A i \in (HeadSize + 1)..Len(d) : e[i] = d[i]
  BY <1>1, <1>2, FrontReplaced DEF Front
<1> HIDE DEF e
<1>4. /\ t \in Struct /\ t.head = s.head /\ t.body_offset = s.body_offset /\ t.pre_body_size = pre
      /\ t.data = e /\ t.base = b
  <2>1. s \in Struct /\ pre \in Int /\ b \in Nat /\ e \in Seq(Cells)
    BY <1>1, <1>3
  <2>2. t \in Struct /\ t.head = s.head /\ t.body_offset = s.body_offset
    BY <2>1, RefilledFields DEF Struct
  <2>3. t.pre_body_size = pre /\ t.data = e /\ t.base = b
    BY <2>1, RefilledFields DEF Struct
  <2> QED
    BY <2>2, <2>3
<1> HIDE DEF t
<1>5. Laid(t)
  BY <1>1, <1>2, <1>3, <1>4 DEF Laid
<1>6. Headed(t, r, n)
  BY <1>1, <1>2, <1>3, <1>4, <1>5 DEF Headed, Announces
<1> QED
  BY <1>3, <1>4, <1>6 DEF t, e

\* new_data makes room for the body the header announces, and keeps the cells
\* behind the header; a buffer that is large enough does not move.
LEMMA NewData ==
    ASSUME NEW s, Laid(s), NEW r \in Int, NEW n \in 0..MaxBody, Announces(s, r, n)
    PROVE  /\ Headed(new_data(s), r, n)
           /\ s.base > 0 => \A i \in (HeadSize + 1)..Len(s.data) : new_data(s).data[i] = s.data[i]
           /\ s.base > 0 /\ n <= s.pre_body_size => new_data(s).base = s.base
<1> DEFINE t == new_data(s)
           o == HeadSize + MetaSize
<1>1. PICK p \in Nat, c \in Nat, d \in Seq(Cells) :
          s.pre_body_size = p /\ s.base = c /\ s.data = d
  BY DEF Laid, Struct
<1>2. /\ HeadSize \in Nat /\ MetaSize \in Nat /\ n \in Nat /\ Len(d) \in Nat
      /\ c = 0 => Len(d) = 0
      /\ c > 0 => Len(d) = o + p
  BY <1>1, MsgBufferAssumption DEF Laid, HeadSize
<1>3. Grows(s) <=> n > p
  BY <1>1, <1>2 DEF Grows, Announces, Head_
<1>4. CASE c > 0 /\ ~Grows(s)
  <2>1. n <= p /\ Len(d) = o + p
    BY <1>2, <1>3, <1>4
  <2>2. t = Refilled(s, p, c, Front(s, d))
    BY <1>1, <1>4, Zenon DEF new_data, Refilled, Front
  <2> HIDE DEF t
  <2>3. Headed(t, r, n) /\ t.base = c /\ \A i \in (HeadSize + 1)..Len(d) : t.data[i] = d[i]
    BY <1>4, <2>1, <2>2, NewHeaded
  <2> QED
    BY <1>1, <2>3, Zenon DEF t
<1>5. CASE ~(c > 0 /\ ~Grows(s))
  <2> DEFINE q == IF Grows(s) THEN n ELSE p
             k == AllocSize(s, q) - Len(d)
             e == d \o Garbage(k)
  <2>1. q \in Nat /\ n <= q /\ p <= q
    BY <1>2, <1>3
  <2>2. t = Refilled(s, q, c + 1, Front(s, e))
    <3>1. t = Refilled(s, Size(s), s.base + 1, Front(s, Longer(s, Size(s))))
      BY <1>1, <1>5, Zenon DEF new_data, Refilled, Front, Size, Longer
    <3>2. Size(s) = q
      <4>1. s.head.body_size = n
        BY DEF Announces, Head_
      <4> QED
        BY <1>1, <4>1, Zenon DEF Size
    <3> HIDE DEF q, t
    <3>3. Longer(s, q) = e
      BY <1>1, Zenon DEF Longer
    <3> HIDE DEF e
    <3> QED
      BY <1>1, <3>1, <3>2, <3>3, Zenon
  <2> HIDE DEF t, q
  <2>3. k \in Nat /\ Len(d) + k = o + q
    <3>1. AllocSize(s, q) = o + q
      BY DEF AllocSize, Laid
    <3> QED
      BY <1>2, <2>1, <3>1
  <2> HIDE DEF k
  <2>4. Garbage(k) \in Seq(Cells) /\ Len(Garbage(k)) = k
    BY <2>3, GarbageType
  <2>5. e \in Seq(Cells) /\ Len(e) = o + q /\ \A i \in 1..Len(d) : e[i] = d[i]
    BY <2>3, <2>4, Joined
  <2> HIDE DEF e
  <2>6. Headed(t, r, n) /\ \A i \in (HeadSize + 1)..Len(e) : t.data[i] = e[i]
    BY <2>1, <2>2, <2>5, NewHeaded
  <2>7. \A i \in (HeadSize + 1)..Len(d) : t.data[i] = d[i]
    <3> SUFFICES ASSUME NEW i \in (HeadSize + 1)..Len(d) PROVE t.data[i] = d[i]
      OBVIOUS
    <3>1. i \in 1..Len(d) /\ i \in (HeadSize + 1)..Len(e)
      BY <1>2, <2>3, <2>5
    <3> QED
      BY <2>5, <2>6, <3>1
  <2>8. ~(c > 0 /\ n <= p)
    BY <1>2, <1>3, <1>5
  <2> QED
    BY <1>1, <2>6, <2>7, <2>8, Zenon DEF t
<1> QED
  BY <1>4, <1>5

\* Copying cells behind the header.
LEMMA StoreProperties ==
    ASSUME NEW s \in Struct, NEW offset \in Nat, NEW cells \in Seq(Cells)
    PROVE  LET t == Store(s, offset, cells) IN
           /\ t \in Struct /\ t.head = s.head /\ t.body_offset = s.body_offset
           /\ t.pre_body_size = s.pre_body_size /\ t.base = s.base /\ Len(t.data) = Len(s.data)
           /\ \A i \in 1..Len(s.data) :
                 t.data[i] = IF i - offset \in 1..Len(cells) THEN cells[i - offset] ELSE s.data[i]
<1> DEFINE d == [i \in DOMAIN s.data |-> IF i - offset \in DOMAIN cells THEN cells[i - offset] ELSE s.data[i]]
<1>1. /\ s.data \in Seq(Cells) /\ DOMAIN s.data = 1..Len(s.data) /\ Len(s.data) \in Nat
      /\ DOMAIN cells = 1..Len(cells) /\ Len(cells) \in Nat
  BY LenProperties DEF Struct
<1>2. \A i \in 1..Len(s.data) : s.data[i] \in Cells
  BY <1>1, ElementOfSeq
<1>3. \A i \in 1..Len(cells) : cells[i] \in Cells
  BY <1>1, ElementOfSeq
<1>4. d \in Seq(Cells) /\ Len(d) = Len(s.data)
  BY <1>1, <1>2, <1>3
<1>5. Store(s, offset, cells) = [s EXCEPT !.data = d]
  BY DEF Store
<1>6. \A i \in 1..Len(s.data) : d[i] = IF i - offset \in 1..Len(cells) THEN cells[i - offset] ELSE s.data[i]
  BY <1>1
<1> HIDE DEF d
<1> QED
  BY <1>4, <1>5, <1>6 DEF Struct

-----------------------------------------------------------------------------
(* Messages in records *)

\* The lengths of a record with its header.
LEMMA HeadedFields ==
    ASSUME NEW s, NEW r, NEW n, Headed(s, r, n)
    PROVE  /\ s \in Struct /\ s.data \in Seq(Cells) /\ n \in Nat
           /\ s.head.req_id = r /\ s.head.body_size = n /\ s.head.meta_size = MetaSize
           /\ s.body_offset = HeadSize + MetaSize
           /\ recv_msg_len(s) = n + MetaSize /\ data_len(s) = n + (HeadSize + MetaSize)
           /\ Len(s.data) \in Nat /\ HeadSize + MetaSize + n <= Len(s.data)
<1>1. /\ s \in Struct /\ s.data \in Seq(Cells) /\ n \in Nat /\ s.pre_body_size \in Nat
      /\ n <= s.pre_body_size /\ s.body_offset = HeadSize + MetaSize
      /\ Len(s.data) = s.body_offset + s.pre_body_size
  BY DEF Headed, Laid, Struct
<1>2. s.head.req_id = r /\ s.head.body_size = n /\ s.head.meta_size = MetaSize
  BY DEF Headed, Announces, Head_
<1>3. recv_msg_len(s) = n + MetaSize /\ data_len(s) = n + (HeadSize + MetaSize)
  BY <1>1, <1>2, Zenon DEF recv_msg_len, data_len
<1>4. PICK p \in Nat : s.pre_body_size = p
  BY <1>1
<1>5. HeadSize \in Nat /\ MetaSize \in Nat
  BY MsgBufferAssumption DEF HeadSize
<1>6. n <= p /\ Len(s.data) = HeadSize + MetaSize + p
  BY <1>1, <1>4, Zenon
<1>7. Len(s.data) \in Nat /\ HeadSize + MetaSize + n <= Len(s.data)
  BY <1>1, <1>5, <1>6
<1> QED
  BY <1>1, <1>2, <1>3, <1>7, Zenon

\* What is copied behind the header leaves the header there.
LEMMA StoreHeaded ==
    ASSUME NEW s, NEW r, NEW n, Headed(s, r, n), NEW offset \in Nat, HeadSize <= offset,
           NEW cells \in Seq(Cells)
    PROVE  LET t == Store(s, offset, cells) IN
           /\ Headed(t, r, n) /\ t.base = s.base
           /\ \A i \in 1..Len(cells) : offset + i <= Len(s.data) => t.data[offset + i] = cells[i]
           /\ \A i \in 1..Len(s.data) : i <= offset \/ i > offset + Len(cells) => t.data[i] = s.data[i]
<1> DEFINE t == Store(s, offset, cells)
<1>1. s \in Struct /\ Len(s.data) \in Nat /\ HeadSize + MetaSize + n <= Len(s.data) /\ n \in Nat
  BY HeadedFields
<1>2. /\ t \in Struct /\ t.head = s.head /\ t.body_offset = s.body_offset
      /\ t.pre_body_size = s.pre_body_size /\ t.base = s.base /\ Len(t.data) = Len(s.data)
      /\ \A i \in 1..Len(s.data) :
            t.data[i] = IF i - offset \in 1..Len(cells) THEN cells[i - offset] ELSE s.data[i]
  BY <1>1, StoreProperties
<1>3. Len(cells) \in Nat /\ HeadSize \in Nat /\ MetaSize \in Nat
  BY LenProperties, MsgBufferAssumption DEF HeadSize
<1> HIDE DEF t
<1>4. PICK l, d, e : l \in Nat /\ Len(s.data) = l /\ s.data = d /\ t.data = e
  BY <1>1
<1>5. \A i \in 1..l : e[i] = IF i - offset \in 1..Len(cells) THEN cells[i - offset] ELSE d[i]
  BY <1>2, <1>4, Zenon
<1>6. \A i \in 1..Len(cells) : offset + i <= l => e[offset + i] = cells[i]
  <2> SUFFICES ASSUME NEW i \in 1..Len(cells), offset + i <= l PROVE e[offset + i] = cells[i]
    OBVIOUS
  <2>1. offset + i \in 1..l /\ (offset + i) - offset = i
    BY <1>3
  <2> QED
    BY <1>5, <2>1
<1>7. \A i \in 1..l : i <= offset \/ i > offset + Len(cells) => e[i] = d[i]
  <2> SUFFICES ASSUME NEW i \in 1..l, i <= offset \/ i > offset + Len(cells) PROVE e[i] = d[i]
    OBVIOUS
  <2>1. i - offset \notin 1..Len(cells)
    BY <1>3
  <2> QED
    BY <1>5, <2>1
<1>8. Headed(t, r, n)
  <2>1. Laid(t)
    <3>1. t.base = 0 => t.data = <<>>
      <4>1. s.base > 0
        BY DEF Headed
      <4> QED
        BY <1>2, <4>1
    <3> QED
      BY <1>2, <3>1, Zenon DEF Headed, Laid
  <2>2. \A i \in 1..HeadSize : e[i] = d[i]
    <3> SUFFICES ASSUME NEW i \in 1..HeadSize PROVE e[i] = d[i]
      OBVIOUS
    <3>1. HeadSize + MetaSize + n <= l /\ l \in Nat /\ n \in Nat
      BY <1>1, <1>4
    <3>2. i \in 1..l /\ i <= offset
      BY <1>3, <3>1
    <3> QED
      BY <1>7, <3>2
  <2>3. \A i \in 1..HeadSize : t.data[i] = HeadCells(t.head)[i]
    BY <1>2, <1>4, <2>2, Zenon DEF Headed
  <2> QED
    BY <1>2, <2>1, <2>3, Zenon DEF Headed, Announces
<1> QED
  BY <1>2, <1>4, <1>6, <1>7, <1>8, Zenon DEF t

-----------------------------------------------------------------------------
(* Messages in streams *)

\* The header of request r with a body of n cells behind the first k cells of q.
HeadAt(q, k, r, n) == \A i \in 1..HeadSize : q[k + i] = HeadCells(Head_(r, n, MetaSize))[i]

\* The message of a request with the body m, the whole of it from cell k on, or
\* what is left of it once its header was read.
Span(m) == HeadSize + MetaSize + Len(m)
Whole(q, k, r, m) ==
    k + Span(m) <= Len(q) /\ HeadAt(q, k, r, Len(m)) /\ BodyAt(q, k + HeadSize + MetaSize, m)
Rest(q, m) == MetaSize + Len(m) <= Len(q) /\ BodyAt(q, MetaSize, m)

\* From cell k on, q is made of messages for the requests in ids, with the bodies
\* ans says, which begin and end at the cuts B.
Framed(q, k, B, ans, ids) ==
    /\ B \subseteq k..Len(q) /\ k \in B /\ Len(q) \in B
    /\ \A b \in B \ {Len(q)} : \E r \in ids : Whole(q, b, r, ans[r]) /\ b + Span(ans[r]) \in B

\* No two messages begin with the same header.
Once(q, B) == \A a, b \in B \ {Len(q)} : q[a + 1] = q[b + 1] => a = b

-----------------------------------------------------------------------------
(* Messages between records and streams *)

\* A body is copied behind header and meta data.
LEMMA StoredBody ==
    ASSUME NEW s, NEW r, NEW m \in Seq(Cells), Headed(s, r, Len(m))
    PROVE  Holds(Store(s, s.body_offset, m), r, m)
<1> DEFINE t == Store(s, s.body_offset, m)
<1>1. /\ HeadSize \in Nat /\ MetaSize \in Nat /\ s.body_offset = HeadSize + MetaSize
      /\ Len(m) \in Nat /\ Len(s.data) \in Nat /\ HeadSize + MetaSize + Len(m) <= Len(s.data)
  BY HeadedFields, MsgBufferAssumption DEF HeadSize
<1>2. s.body_offset \in Nat /\ HeadSize <= s.body_offset
  BY <1>1
<1>3. /\ Headed(t, r, Len(m))
      /\ \A i \in 1..Len(m) : s.body_offset + i <= Len(s.data) => t.data[s.body_offset + i] = m[i]
  BY <1>2, StoreHeaded
<1> HIDE DEF t
<1>4. t.body_offset = s.body_offset
  BY <1>1, <1>3, HeadedFields
<1>5. PICK l, e, o : Len(s.data) = l /\ t.data = e /\ s.body_offset = o
  OBVIOUS
<1>6. \A i \in 1..Len(m) : e[o + i] = m[i]
  <2>1. \A i \in 1..Len(m) : o + i <= l
    BY <1>1, <1>5
  <2>2. \A i \in 1..Len(m) : o + i <= l => e[o + i] = m[i]
    BY <1>3, <1>5, Zenon
  <2> QED
    BY <2>1, <2>2, Zenon
<1> QED
  BY <1>3, <1>4, <1>5, <1>6, Zenon DEF Holds, BodyAt, t

\* What follows a header in a stream is copied behind the header of the record.
LEMMA StoredRest ==
    ASSUME NEW s, NEW r, NEW m \in Seq(Cells), Headed(s, r, Len(m)),
           NEW q \in Seq(Cells), Rest(q, m)
    PROVE  LET t == Store(s, HeadSize, SubSeq(q, 1, recv_msg_len(s))) IN
           /\ recv_msg_len(s) = MetaSize + Len(m) /\ Fits(s, HeadSize, recv_msg_len(s))
           /\ Holds(t, r, m) /\ t.base = s.base
<1>1. /\ HeadSize \in Nat /\ MetaSize \in Nat /\ s.body_offset = HeadSize + MetaSize
      /\ Len(m) \in Nat /\ Len(s.data) \in Nat /\ HeadSize + MetaSize + Len(m) <= Len(s.data)
      /\ recv_msg_len(s) = Len(m) + MetaSize
  BY HeadedFields, MsgBufferAssumption DEF HeadSize
<1>2. PICK l, n : l = Len(s.data) /\ n = recv_msg_len(s)
  OBVIOUS
<1>3. n \in Nat /\ n = MetaSize + Len(m) /\ HeadSize + n <= l /\ n <= Len(q) /\ l \in Nat
  BY <1>1, <1>2 DEF Rest
<1> DEFINE c == SubSeq(q, 1, n)
           t == Store(s, HeadSize, c)
<1>4. c \in Seq(Cells) /\ Len(c) = n /\ \A i \in 1..n : c[i] = q[i]
  BY <1>3, Taken
<1> HIDE DEF c
<1>5. /\ Headed(t, r, Len(m)) /\ t.base = s.base
      /\ \A i \in 1..Len(c) : HeadSize + i <= Len(s.data) => t.data[HeadSize + i] = c[i]
  <2>1. HeadSize \in Nat /\ HeadSize <= HeadSize /\ c \in Seq(Cells)
    BY <1>1, <1>4
  <2> QED
    BY <2>1, StoreHeaded
<1> HIDE DEF t
<1>6. PICK e : t.data = e
  OBVIOUS
<1>7. \A i \in 1..n : e[HeadSize + i] = q[i]
  <2>1. \A i \in 1..n : HeadSize + i <= l
    BY <1>1, <1>3
  <2>2. \A i \in 1..n : HeadSize + i <= l => e[HeadSize + i] = c[i]
    BY <1>2, <1>4, <1>5, <1>6, Zenon
  <2> QED
    BY <1>4, <2>1, <2>2, Zenon
<1>8. \A i \in 1..Len(m) : e[(HeadSize + MetaSize) + i] = m[i]
  <2> SUFFICES ASSUME NEW i \in 1..Len(m) PROVE e[(HeadSize + MetaSize) + i] = m[i]
    OBVIOUS
  <2>1. MetaSize + i \in 1..n /\ (HeadSize + MetaSize) + i = HeadSize + (MetaSize + i)
    BY <1>1, <1>3
  <2>2. q[MetaSize + i] = m[i]
    BY Zenon DEF Rest, BodyAt
  <2> QED
    BY <1>7, <2>1, <2>2, Zenon
<1>9. Holds(t, r, m)
  <2>1. t.body_offset = HeadSize + MetaSize
    BY <1>5, HeadedFields
  <2> QED
    BY <1>5, <1>6, <1>8, <2>1, Zenon DEF Holds, BodyAt
<1>10. Fits(s, HeadSize, n)
  BY <1>1, <1>2, <1>3 DEF Fits
<1> QED
  BY <1>2, <1>3, <1>5, <1>9, <1>10, Zenon DEF t, c

\* The meta data is copied between header and body.
LEMMA StoredMeta ==
    ASSUME NEW s, NEW r, NEW n, Headed(s, r, n)
    PROVE  /\ Headed(Store(s, HeadSize, MetaCells), r, n)
           /\ \A m \in Seq(Cells) : Holds(s, r, m) => Holds(Store(s, HeadSize, MetaCells), r, m)
<1> DEFINE t == Store(s, HeadSize, MetaCells)
<1>1. /\ HeadSize \in Nat /\ MetaSize \in Nat /\ s.body_offset = HeadSize + MetaSize
      /\ Len(s.data) \in Nat /\ HeadSize + MetaSize + n <= Len(s.data) /\ n \in Nat
      /\ MetaCells \in Seq(Cells) /\ Len(MetaCells) = MetaSize /\ HeadSize <= HeadSize
  BY HeadedFields, MsgBufferAssumption, MetaCellsType DEF HeadSize
<1>2. /\ Headed(t, r, n)
      /\ \A i \in 1..Len(s.data) : i <= HeadSize \/ i > HeadSize + Len(MetaCells) => t.data[i] = s.data[i]
  <2>1. HeadSize \in Nat /\ HeadSize <= HeadSize /\ MetaCells \in Seq(Cells)
    BY <1>1
  <2> QED
    BY <2>1, StoreHeaded
<1> HIDE DEF t
<1>3. t.body_offset = s.body_offset
  BY <1>1, <1>2, HeadedFields
<1>4. PICK d, e, l : d = s.data /\ e = t.data /\ l = Len(s.data)
  OBVIOUS
<1>5. ASSUME NEW m \in Seq(Cells), Holds(s, r, m)
      PROVE  Holds(t, r, m)
  <2>1. Len(m) = n
    BY <1>5, HeadedFields DEF Holds
  <2>2. \A i \in 1..l : i > HeadSize + MetaSize => e[i] = d[i]
    BY <1>1, <1>2, <1>4, Zenon
  <2>3. \A i \in 1..n : d[(HeadSize + MetaSize) + i] = m[i]
    BY <1>1, <1>4, <1>5, <2>1, Zenon DEF Holds, BodyAt
  <2>4. \A i \in 1..n : (HeadSize + MetaSize) + i \in 1..l /\ (HeadSize + MetaSize) + i > HeadSize + MetaSize
    BY <1>1, <1>4
  <2>5. \A i \in 1..n : e[(HeadSize + MetaSize) + i] = m[i]
    BY <2>2, <2>3, <2>4, Zenon
  <2> QED
    BY <1>1, <1>2, <1>3, <1>4, <2>1, <2>5, Zenon DEF Holds, BodyAt
<1> QED
  BY <1>2, <1>5, Zenon DEF t

\* A record that holds a message is not moved by new_data and holds it still.
LEMMA NewDataHolds ==
    ASSUME NEW s, NEW r \in Int, NEW m \in Seq(Cells), Holds(s, r, m), Len(m) <= MaxBody
    PROVE  Holds(new_data(s), r, m) /\ new_data(s).base = s.base
<1> DEFINE t == new_data(s)
<1>1. /\ HeadSize \in Nat /\ MetaSize \in Nat /\ s.body_offset = HeadSize + MetaSize
      /\ Len(s.data) \in Nat /\ HeadSize + MetaSize + Len(m) <= Len(s.data) /\ Len(m) \in Nat
      /\ Laid(s) /\ Announces(s, r, Len(m)) /\ s.base > 0 /\ Len(m) <= s.pre_body_size
      /\ Len(m) \in 0..MaxBody /\ Headed(s, r, Len(m))
  BY HeadedFields, MsgBufferAssumption DEF HeadSize, Holds, Headed
<1>2. /\ Headed(t, r, Len(m)) /\ t.base = s.base
      /\ \A i \in (HeadSize + 1)..Len(s.data) : t.data[i] = s.data[i]
  BY <1>1, NewData
<1> HIDE DEF t
<1>3. t.body_offset = s.body_offset
  BY <1>1, <1>2, HeadedFields
<1>4. PICK d, e, l : d = s.data /\ e = t.data /\ l = Len(s.data)
  OBVIOUS
<1>5. \A i \in 1..Len(m) : d[(HeadSize + MetaSize) + i] = m[i]
  BY <1>1, <1>4, Zenon DEF Holds, BodyAt
<1>6. \A i \in 1..Len(m) : (HeadSize + MetaSize) + i \in (HeadSize + 1)..l
  BY <1>1, <1>4
<1>7. \A i \in 1..Len(m) : e[(HeadSize + MetaSize) + i] = m[i]
  BY <1>2, <1>4, <1>5, <1>6, Zenon
<1> QED
  BY <1>1, <1>2, <1>3, <1>4, <1>7, Zenon DEF Holds, BodyAt, t

\* What a caller of body() gets.
LEMMA HoldsBody ==
    ASSUME NEW s, NEW r, NEW m \in Seq(Cells), Holds(s, r, m)
    PROVE  BodyOf(s) = m
<1>1. /\ s.data \in Seq(Cells) /\ HeadSize \in Nat /\ MetaSize \in Nat /\ Len(m) \in Nat
      /\ s.body_offset = HeadSize + MetaSize /\ s.head.body_size = Len(m)
      /\ Len(s.data) \in Nat /\ HeadSize + MetaSize + Len(m) <= Len(s.data)
  BY HeadedFields, MsgBufferAssumption DEF HeadSize, Holds
<1>2. PICK o, d : o = HeadSize + MetaSize /\ d = s.data
  OBVIOUS
<1>3. /\ o \in Nat /\ d \in Seq(Cells) /\ o + Len(m) <= Len(d)
      /\ \A i \in 1..Len(m) : d[o + i] = m[i]
  <2>1. \A i \in 1..Len(m) : d[o + i] = m[i]
    BY <1>1, <1>2, Zenon DEF Holds, BodyAt
  <2> QED
    BY <1>1, <1>2, <2>1
<1>4. SubSeq(d, o + 1, o + Len(m)) = m
  BY <1>1, <1>3
<1> QED
  BY <1>1, <1>2, <1>4, Zenon DEF BodyOf

\* What is written of a record is the message it holds, the whole of it.
LEMMA WrittenWhole ==
    ASSUME NEW s, NEW r, NEW m \in Seq(Cells), Holds(s, r, m)
    PROVE  /\ Fits(s, 0, data_len(s)) /\ Written(s) \in Seq(Cells)
           /\ Len(Written(s)) = Span(m) /\ Whole(Written(s), 0, r, m)
<1>1. /\ s.data \in Seq(Cells) /\ HeadSize \in Nat /\ MetaSize \in Nat /\ Len(m) \in Nat
      /\ s.body_offset = HeadSize + MetaSize /\ data_len(s) = Len(m) + (HeadSize + MetaSize)
      /\ Len(s.data) \in Nat /\ HeadSize + MetaSize + Len(m) <= Len(s.data)
  BY HeadedFields, MsgBufferAssumption DEF HeadSize, Holds
<1>2. PICK n, d, w : n = data_len(s) /\ d = s.data /\ w = SubSeq(d, 1, n)
  OBVIOUS
<1>3. n \in Nat /\ n <= Len(d) /\ n = Span(m) /\ n = HeadSize + MetaSize + Len(m) /\ d \in Seq(Cells)
  BY <1>1, <1>2 DEF Span
<1>4. w \in Seq(Cells) /\ Len(w) = n /\ \A i \in 1..n : w[i] = d[i]
  BY <1>2, <1>3, Taken
<1>5. Fits(s, 0, n)
  BY <1>1, <1>2, <1>3 DEF Fits
<1>6. HeadAt(w, 0, r, Len(m))
  <2>1. s.head = Head_(r, Len(m), MetaSize) /\ \A i \in 1..HeadSize : d[i] = HeadCells(s.head)[i]
    BY <1>2, Zenon DEF Holds, Headed, Announces
  <2>2. \A i \in 1..HeadSize : i \in 1..n /\ 0 + i = i
    BY <1>1, <1>3
  <2> QED
    BY <1>4, <2>1, <2>2, Zenon DEF HeadAt
<1>7. BodyAt(w, 0 + HeadSize + MetaSize, m)
  <2>1. \A i \in 1..Len(m) : d[(HeadSize + MetaSize) + i] = m[i]
    BY <1>1, <1>2, Zenon DEF Holds, BodyAt
  <2>2. 0 + HeadSize + MetaSize = HeadSize + MetaSize
    BY <1>1
  <2>3. \A i \in 1..Len(m) : (HeadSize + MetaSize) + i \in 1..n
    BY <1>1, <1>3
  <2> QED
    BY <1>4, <2>1, <2>2, <2>3, Zenon DEF BodyAt
<1>8. 0 + Span(m) <= Len(w)
  BY <1>3, <1>4
<1> QED
  BY <1>2, <1>3, <1>4, <1>5, <1>6, <1>7, <1>8, Zenon DEF Written, Whole

-----------------------------------------------------------------------------
(* How messages are made *)

\* head() makes room for the body the new header announces; a record that holds
\* the message of this header keeps it, and stays where it is.
LEMMA HeadMade ==
    ASSUME NEW s, Laid(s), NEW r \in Int, NEW n \in 0..MaxBody
    PROVE  /\ Headed(head(s, Head_(r, n, MetaSize)), r, n)
           /\ \A m \in Seq(Cells) : Holds(s, r, m) /\ Len(m) = n =>
                 /\ Holds(head(s, Head_(r, n, MetaSize)), r, m)
                 /\ head(s, Head_(r, n, MetaSize)).base = s.base
<1> DEFINE h == Head_(r, n, MetaSize)
           t == [s EXCEPT !.head = h]
<1>1. /\ h \in Heads /\ h.meta_size = MetaSize /\ h.body_size \in -1..MaxBody
  BY MsgBufferAssumption DEF Heads, Head_
<1>2. PICK g : g = h
  OBVIOUS
<1>3. Laid(t)
  <2>1. g \in Heads /\ g.meta_size = MetaSize /\ g.body_size \in -1..MaxBody
    BY <1>1, <1>2, Zenon
  <2>2. Laid([s EXCEPT !.head = g])
    <3>1. /\ [s EXCEPT !.head = g] \in Struct /\ [s EXCEPT !.head = g].head = g
          /\ [s EXCEPT !.head = g].body_offset = s.body_offset
          /\ [s EXCEPT !.head = g].pre_body_size = s.pre_body_size
          /\ [s EXCEPT !.head = g].data = s.data /\ [s EXCEPT !.head = g].base = s.base
      BY <2>1 DEF Laid, Struct
    <3> QED
      BY <2>1, <3>1, Zenon DEF Laid
  <2> QED
    BY <1>2, <2>2, Zenon
<1>4. t.head = h
  BY <1>3 DEF Laid, Struct
<1>5. Headed(head(s, h), r, n)
  <2>1. Headed(new_data(t), r, n)
    BY <1>3, <1>4, NewData DEF Announces
  <2> QED
    BY <2>1, Zenon DEF head
<1>6. ASSUME NEW m \in Seq(Cells), Holds(s, r, m), Len(m) = n
      PROVE  Holds(head(s, h), r, m) /\ head(s, h).base = s.base
  <2>1. s.head = h
    BY <1>6, Zenon DEF Holds, Headed, Announces
  <2>2. t = s
    BY <2>1 DEF Laid, Struct
  <2>3. Len(m) <= MaxBody
    BY <1>6, MsgBufferAssumption
  <2>4. Holds(new_data(s), r, m) /\ new_data(s).base = s.base
    BY <1>6, <2>3, NewDataHolds
  <2> QED
    BY <2>2, <2>4, Zenon DEF head
<1> QED
  BY <1>5, <1>6, Zenon

\* body() fills a record that has its header.
LEMMA BodyMade ==
    ASSUME NEW s, NEW r \in Int, NEW m \in Seq(Cells), Headed(s, r, Len(m)), Len(m) <= MaxBody
    PROVE  Holds(body(s, m), r, m)
<1>1. Len(m) \in 0..MaxBody /\ Laid(s) /\ Announces(s, r, Len(m))
  BY MsgBufferAssumption DEF Headed
<1>2. Headed(new_data(s), r, Len(m))
  BY <1>1, NewData
<1>3. new_data(s).body_offset = s.body_offset
  <2>1. new_data(s).body_offset = HeadSize + MetaSize
    BY <1>2, HeadedFields
  <2>2. s.body_offset = HeadSize + MetaSize
    BY HeadedFields
  <2> QED
    BY <2>1, <2>2
<1>4. Holds(Store(new_data(s), new_data(s).body_offset, m), r, m)
  BY <1>2, StoredBody
<1> QED
  BY <1>3, <1>4, Zenon DEF body

\* meta() keeps header and body.
LEMMA MetaMade ==
    ASSUME NEW s, NEW r \in Int, NEW n \in 0..MaxBody, Headed(s, r, n)
    PROVE  /\ Headed(meta(s), r, n)
           /\ \A m \in Seq(Cells) : Holds(s, r, m) => Holds(meta(s), r, m)
<1>1. Laid(s) /\ Announces(s, r, n)
  BY DEF Headed
<1>2. Headed(new_data(s), r, n)
  BY <1>1, NewData
<1>3. Headed(meta(s), r, n)
  BY <1>2, StoredMeta DEF meta
<1>4. ASSUME NEW m \in Seq(Cells), Holds(s, r, m)
      PROVE  Holds(meta(s), r, m)
  <2>1. Len(m) = n /\ Len(m) <= MaxBody
    BY <1>4, HeadedFields DEF Holds
  <2>2. Holds(new_data(s), r, m)
    BY <1>4, <2>1, NewDataHolds
  <2> QED
    BY <1>2, <2>2, StoredMeta DEF meta
<1> QED
  BY <1>3, <1>4, Zenon

\* The message a client sends.
LEMMA MessageMade ==
    ASSUME NEW r \in Nat, NEW n \in 0..MaxBody, NEW z \in BOOLEAN
    PROVE  Holds(newMsgBuf(r, n, z), r, BodyCells("client", r, n, z))
<1> DEFINE h == head(RPCStruct(RPCStructHead), Head_(r, n, MetaSize))
           m == BodyCells("client", r, n, z)
<1>1. m \in Seq(Cells) /\ Len(m) = n /\ n <= MaxBody /\ r \in Int
  <2>1. n \in Nat /\ n <= MaxBody /\ r \in Int
    BY MsgBufferAssumption
  <2> QED
    BY <2>1, BodyCellsType, Zenon
<1> HIDE DEF m
<1>2. Headed(h, r, n)
  BY <1>1, HeadMade, ConstructorLaid
<1> HIDE DEF h
<1>3. Holds(body(h, m), r, m)
  BY <1>1, <1>2, BodyMade
<1>4. Headed(body(h, m), r, n)
  BY <1>1, <1>3, Zenon DEF Holds
<1>5. Holds(meta(body(h, m)), r, m)
  BY <1>1, <1>3, <1>4, MetaMade
<1> QED
  BY <1>5, Zenon DEF newMsgBuf, h, m

\* The message the server makes of the callback's result.
LEMMA AnswerMade ==
    ASSUME NEW s, NEW r \in Nat, s.head.req_id = r, NEW n \in 0..MaxBody, n > 0,
           NEW z \in BOOLEAN
    PROVE  Holds(Answer(s, n, z), r, BodyCells("callback", r, n, z))
<1> DEFINE h == head(RPCStruct(RPCStructHead), Head_(r, n, MetaSize))
           m == BodyCells("callback", r, n, z)
<1>1. m \in Seq(Cells) /\ Len(m) = n /\ n <= MaxBody /\ r \in Int
  <2>1. n \in Nat /\ n <= MaxBody /\ r \in Int
    BY MsgBufferAssumption
  <2> QED
    BY <2>1, BodyCellsType, Zenon
<1>2. Answer(s, n, z) = body(meta(h), m)
  BY Zenon DEF Answer
<1> HIDE DEF m
<1>3. Headed(h, r, n)
  BY <1>1, HeadMade, ConstructorLaid
<1> HIDE DEF h
<1>4. Headed(meta(h), r, Len(m))
  BY <1>1, <1>3, MetaMade
<1>5. Holds(body(meta(h), m), r, m)
  BY <1>1, <1>4, BodyMade
<1> QED
  BY <1>2, <1>5, Zenon DEF m

-----------------------------------------------------------------------------
(* Messages come and go in a stream *)

\* A message is never empty.
LEMMA SpanType ==
    ASSUME NEW m \in Seq(Cells)
    PROVE  Span(m) \in Nat /\ Span(m) > 0
BY LenProperties, MsgBufferAssumption DEF Span, HeadSize

\* The cells of a message found in another stream are the message.
LEMMA WholeMoved ==
    ASSUME NEW q, NEW p, NEW k \in Nat, NEW j \in Nat, NEW r, NEW m \in Seq(Cells),
           Whole(q, k, r, m), j + Span(m) <= Len(p),
           \A i \in 1..Span(m) : p[j + i] = q[k + i]
    PROVE  Whole(p, j, r, m)
<1>1. HeadSize \in Nat /\ MetaSize \in Nat /\ Len(m) \in Nat /\ Span(m) = HeadSize + MetaSize + Len(m)
  BY MsgBufferAssumption DEF HeadSize, Span
<1>2. HeadAt(p, j, r, Len(m))
  <2>1. \A i \in 1..HeadSize : i \in 1..Span(m)
    BY <1>1
  <2> QED
    BY <2>1, Zenon DEF Whole, HeadAt
<1>3. BodyAt(p, j + HeadSize + MetaSize, m)
  <2> SUFFICES ASSUME NEW i \in 1..Len(m) PROVE p[j + HeadSize + MetaSize + i] = m[i]
    BY DEF BodyAt
  <2>1. q[k + HeadSize + MetaSize + i] = m[i]
    BY DEF Whole, BodyAt
  <2> DEFINE x == HeadSize + MetaSize + i
  <2>2. x \in 1..Span(m) /\ k + HeadSize + MetaSize + i = k + x /\ j + HeadSize + MetaSize + i = j + x
    BY <1>1
  <2> HIDE DEF x
  <2> QED
    BY <2>1, <2>2, Zenon
<1> QED
  BY <1>2, <1>3, Zenon DEF Whole

\* A message begins with the id of its request.
LEMMA WholeFirst ==
    ASSUME NEW q, NEW k \in Nat, NEW r \in Int, NEW m \in Seq(Cells), Whole(q, k, r, m)
    PROVE  /\ q[k + 1] = Cell("head", 1, r) /\ q[k + 2] = Cell("head", 2, Len(m))
           /\ q[k + 3] = Cell("head", 3, MetaSize)
<1> DEFINE h == Head_(r, Len(m), MetaSize)
<1>1. h \in Heads /\ h.req_id = r /\ h.body_size = Len(m) /\ h.meta_size = MetaSize
  BY MsgBufferAssumption DEF Heads, Head_
<1>2. {1, 2, 3} \subseteq 1..HeadSize
  BY DEF HeadSize
<1>3. \A i \in {1, 2, 3} : q[k + i] = HeadCells(h)[i]
  BY <1>2, Zenon DEF Whole, HeadAt
<1> HIDE DEF h
<1> QED
  BY <1>1, <1>3, HeadCellsType

\* The messages from one cut on.
LEMMA FramedTail ==
    ASSUME NEW q \in Seq(Cells), NEW k \in Nat, NEW B, NEW ans, NEW ids,
           \A r \in ids : ans[r] \in Seq(Cells), Framed(q, k, B, ans, ids), NEW j \in B
    PROVE  /\ Framed(q, j, {b \in B : b >= j}, ans, ids)
           /\ Once(q, B) => Once(q, {b \in B : b >= j})
<1>1. B \subseteq k..Len(q) /\ Len(q) \in Nat /\ HeadSize \in Nat /\ MetaSize \in Nat /\ Len(q) \in B
  BY LenProperties, MsgBufferAssumption DEF Framed, HeadSize
<1>2. \A b \in B : b \in Nat /\ b <= Len(q)
  BY <1>1
<1>3. ASSUME NEW b \in B \ {Len(q)}, b >= j
      PROVE  \E r \in ids : Whole(q, b, r, ans[r]) /\ b + Span(ans[r]) \in {c \in B : c >= j}
  <2>1. PICK r \in ids : Whole(q, b, r, ans[r]) /\ b + Span(ans[r]) \in B
    BY DEF Framed
  <2>2. Span(ans[r]) \in Nat
    BY SpanType
  <2>3. b + Span(ans[r]) >= j
    BY <1>2, <1>3, <2>2
  <2> QED
    BY <2>1, <2>3
<1> DEFINE D == {b \in B : b >= j}
<1>4. D \subseteq B /\ D \subseteq j..Len(q) /\ j \in D /\ Len(q) \in D
  <2>1. j \in Nat /\ j <= Len(q) /\ j >= j
    BY <1>2
  <2>2. \A b \in D : b \in B /\ b \in Nat /\ b <= Len(q) /\ b >= j
    BY <1>2
  <2>3. \A b \in D : b \in j..Len(q)
    BY <1>1, <2>1, <2>2
  <2> QED
    BY <1>1, <2>1, <2>2, <2>3
<1>5. \A b \in D \ {Len(q)} : \E r \in ids : Whole(q, b, r, ans[r]) /\ b + Span(ans[r]) \in D
  BY <1>3, Zenon
<1> HIDE DEF D
<1>6. Framed(q, j, D, ans, ids)
  BY <1>4, <1>5, Zenon DEF Framed
<1>7. Once(q, B) => Once(q, D)
  BY <1>4, Zenon DEF Once
<1> QED
  BY <1>6, <1>7, Zenon DEF D

\* The request whose message is at the beginning has no other in the stream.
LEMMA FramedOther ==
    ASSUME NEW q \in Seq(Cells), NEW B \in SUBSET Nat, NEW ans, NEW ids \in SUBSET Int,
           \A x \in ids : ans[x] \in Seq(Cells), Framed(q, 0, B, ans, ids), Once(q, B),
           NEW r \in ids, Whole(q, 0, r, ans[r]), Len(q) > 0,
           NEW j \in B, j > 0, NEW D, Framed(q, j, D, ans, ids), D \subseteq B
    PROVE  Framed(q, j, D, ans, ids \ {r})
<1>1. ASSUME NEW b \in D \ {Len(q)}
      PROVE  \E x \in ids \ {r} : Whole(q, b, x, ans[x]) /\ b + Span(ans[x]) \in D
  <2>1. PICK x \in ids : Whole(q, b, x, ans[x]) /\ b + Span(ans[x]) \in D
    BY DEF Framed
  <2>2. b \in B \ {Len(q)} /\ b \in Nat /\ b > 0 /\ 0 \in B \ {Len(q)}
    <3>1. b \in j..Len(q) /\ b \in Nat /\ j \in Nat /\ 0 \in B
      BY DEF Framed
    <3> QED
      BY <3>1
  <2>3. x # r
    <3>1. q[b + 1] = Cell("head", 1, x)
      BY <2>1, <2>2, WholeFirst
    <3>2. q[0 + 1] = Cell("head", 1, r)
      BY WholeFirst
    <3>3. b # 0
      BY <2>2
    <3>4. q[b + 1] # q[0 + 1]
      BY <2>2, <3>3, Zenon DEF Once
    <3> QED
      BY <3>1, <3>2, <3>4, Zenon
  <2> QED
    BY <2>1, <2>3
<1> QED
  BY <1>1 DEF Framed

\* The first d cells are taken from a stream.
LEMMA FramedDropped ==
    ASSUME NEW q \in Seq(Cells), NEW j \in Nat, NEW D, NEW ans, NEW ids,
           \A r \in ids : ans[r] \in Seq(Cells), Framed(q, j, D, ans, ids),
           NEW d \in Nat, d <= j
    PROVE  \E E \in SUBSET Nat :
              /\ Framed(SubSeq(q, d + 1, Len(q)), j - d, E, ans, ids)
              /\ Once(q, D) => Once(SubSeq(q, d + 1, Len(q)), E)
<1>1. D \subseteq j..Len(q) /\ Len(q) \in Nat /\ HeadSize \in Nat /\ MetaSize \in Nat
      /\ Len(q) \in D /\ j \in D
  BY LenProperties, MsgBufferAssumption DEF Framed, HeadSize
<1>2. d <= Len(q)
  BY <1>1
<1>3. PICK p : p = SubSeq(q, d + 1, Len(q))
  OBVIOUS
<1>4. p \in Seq(Cells) /\ Len(p) = Len(q) - d /\ \A i \in 1..(Len(q) - d) : p[i] = q[d + i]
  BY <1>2, <1>3, Dropped
<1> DEFINE E == {b - d : b \in D}
<1>5. PICK l : l = Len(q) /\ l \in Nat /\ Len(p) = l - d /\ d <= l
  BY <1>1, <1>2, <1>4
<1>6. \A e \in Nat : e # Len(p) => e + d # Len(q)
  BY <1>5
<1>7. \A e \in E : e + d \in D /\ e \in Nat /\ e \in (j - d)..Len(p)
  BY <1>1, <1>4
<1>8. j - d \in E /\ Len(p) \in E /\ \A x \in D : x - d \in E
  BY <1>1, <1>4
<1> HIDE DEF E
<1>9. ASSUME NEW e \in E \ {Len(p)}
      PROVE  \E r \in ids : Whole(p, e, r, ans[r]) /\ e + Span(ans[r]) \in E
  <2>1. e \in Nat /\ e + d \in D \ {Len(q)}
    BY <1>6, <1>7
  <2>2. PICK r \in ids : Whole(q, e + d, r, ans[r]) /\ e + d + Span(ans[r]) \in D
    BY <2>1 DEF Framed
  <2>3. Span(ans[r]) \in Nat
    BY SpanType
  <2>4. PICK n \in Nat : n = Span(ans[r])
    BY <2>3
  <2>5. e + n \in E
    <3>1. e + d + n \in D /\ e + n = (e + d + n) - d
      BY <2>1, <2>2, <2>4
    <3> QED
      BY <1>8, <3>1
  <2>6. e + n <= Len(p)
    BY <1>1, <1>4, <1>7, <2>5
  <2>7. \A i \in 1..n : p[e + i] = q[(e + d) + i]
    <3> SUFFICES ASSUME NEW i \in 1..n PROVE p[e + i] = q[(e + d) + i]
      OBVIOUS
    <3>1. e + i \in 1..(Len(q) - d) /\ d + (e + i) = (e + d) + i
      BY <1>1, <1>4, <2>1, <2>6
    <3> QED
      BY <1>4, <3>1
  <2>8. Whole(p, e, r, ans[r])
    <3>1. e + d \in Nat /\ e \in Nat /\ ans[r] \in Seq(Cells)
      BY <2>1
    <3> QED
      BY <2>2, <2>4, <2>6, <2>7, <3>1, WholeMoved
  <2> QED
    BY <2>4, <2>5, <2>8
<1>10. ASSUME Once(q, D) PROVE Once(p, E)
  <2> SUFFICES ASSUME NEW a \in E \ {Len(p)}, NEW b \in E \ {Len(p)}, p[a + 1] = p[b + 1]
               PROVE  a = b
    BY DEF Once
  <2>1. /\ a \in Nat /\ b \in Nat /\ a + d \in D \ {Len(q)} /\ b + d \in D \ {Len(q)}
        /\ a < Len(p) /\ b < Len(p)
    <3>1. /\ a + d \in D /\ a \in Nat /\ a \in (j - d)..Len(p) /\ a # Len(p)
          /\ b + d \in D /\ b \in Nat /\ b \in (j - d)..Len(p) /\ b # Len(p)
      BY <1>7
    <3>2. a + d # Len(q) /\ b + d # Len(q)
      BY <1>6, <3>1
    <3>3. a < Len(p) /\ b < Len(p)
      BY <1>5, <3>1
    <3> QED
      BY <3>1, <3>2, <3>3, Zenon
  <2>2. /\ a + 1 \in 1..(Len(q) - d) /\ b + 1 \in 1..(Len(q) - d)
        /\ d + (a + 1) = (a + d) + 1 /\ d + (b + 1) = (b + d) + 1
    BY <1>1, <1>4, <2>1
  <2>3. q[(a + d) + 1] = q[(b + d) + 1]
    <3>1. p[a + 1] = q[d + (a + 1)] /\ p[b + 1] = q[d + (b + 1)]
      BY <1>4, <2>2, Zenon
    <3> QED
      BY <2>2, <3>1, Zenon
  <2>4. a + d = b + d
    BY <1>10, <2>1, <2>3, Zenon DEF Once
  <2> QED
    BY <2>1, <2>4
<1>11. Framed(p, j - d, E, ans, ids) /\ E \in SUBSET Nat
  BY <1>7, <1>8, <1>9 DEF Framed
<1> QED
  BY <1>3, <1>10, <1>11, Zenon

\* More requests, and answers of others, make no difference.
LEMMA FramedAnswers ==
    ASSUME NEW q, NEW k, NEW B, NEW ans, NEW ids, Framed(q, k, B, ans, ids),
           NEW new, NEW more, ids \subseteq more, \A r \in ids : new[r] = ans[r]
    PROVE  Framed(q, k, B, new, more)
<1>1. ASSUME NEW b \in B \ {Len(q)}
      PROVE  \E r \in more : Whole(q, b, r, new[r]) /\ b + Span(new[r]) \in B
  <2>1. PICK r \in ids : Whole(q, b, r, ans[r]) /\ b + Span(ans[r]) \in B
    BY DEF Framed
  <2>2. r \in more /\ new[r] = ans[r]
    OBVIOUS
  <2> QED
    BY <2>1, <2>2, Zenon
<1> QED
  BY <1>1 DEF Framed

\* A message is written behind the others.
LEMMA FramedAppended ==
    ASSUME NEW q \in Seq(Cells), NEW k \in Nat, NEW B \in SUBSET Nat, NEW ans, NEW ids \in SUBSET Int,
           \A x \in ids : ans[x] \in Seq(Cells), Framed(q, k, B, ans, ids),
           NEW r \in Int, ans[r] \in Seq(Cells),
           NEW f \in Seq(Cells), Len(f) = Span(ans[r]), Whole(f, 0, r, ans[r])
    PROVE  \E E \in SUBSET Nat :
              /\ Framed(q \o f, k, E, ans, ids \cup {r})
              /\ Once(q, B) /\ r \notin ids => Once(q \o f, E)
<1>1. B \subseteq k..Len(q) /\ Len(q) \in Nat /\ Len(q) \in B /\ k \in B
  BY LenProperties DEF Framed
<1>2. PICK p, l, n : p = q \o f /\ l = Len(q) /\ n = Len(f)
  OBVIOUS
<1>3. l \in Nat /\ n \in Nat /\ n > 0 /\ n = Span(ans[r])
  BY <1>1, <1>2, SpanType
<1>4. /\ p \in Seq(Cells) /\ Len(p) = l + n
      /\ \A i \in 1..l : p[i] = q[i]
      /\ \A i \in 1..n : p[l + i] = f[i]
  <2>1. q \o f \in Seq(Cells) /\ Len(q \o f) = Len(q) + Len(f)
    BY Joined
  <2>2. \A i \in 1..Len(q) : (q \o f)[i] = q[i]
    BY Joined
  <2>3. \A i \in 1..Len(f) : (q \o f)[Len(q) + i] = f[i]
    BY Joined
  <2> QED
    BY <1>2, <2>1, <2>2, <2>3, Zenon
<1>5. PICK u : u = Len(p) /\ u = l + n
  BY <1>4
<1>6. \A b \in B : b \in Nat /\ b <= l /\ k <= b /\ b # u
  BY <1>1, <1>2, <1>3, <1>5
<1>7. u \in Nat /\ k <= u /\ l \in B /\ l < u
  BY <1>1, <1>2, <1>3, <1>5, <1>6
<1> DEFINE E == B \cup {u}
<1>8. E \in SUBSET Nat /\ E \subseteq k..u /\ k \in E /\ u \in E
  <2>1. \A e \in E : e \in Nat /\ e \in k..u
    BY <1>6, <1>7
  <2> QED
    BY <1>1, <2>1
<1>9. ASSUME NEW b \in B, b # l
      PROVE  \E x \in ids : /\ Whole(q, b, x, ans[x]) /\ Whole(p, b, x, ans[x])
                            /\ b + Span(ans[x]) \in B
  <2>1. PICK x \in ids : Whole(q, b, x, ans[x]) /\ b + Span(ans[x]) \in B
    BY <1>2, <1>9 DEF Framed
  <2>2. PICK v \in Nat : v = Span(ans[x])
    BY SpanType
  <2>3. b \in Nat /\ b + v <= l /\ b + v <= Len(p)
    <3>1. b + v \in B
      BY <2>1, <2>2, Zenon
    <3>2. b \in Nat /\ b + v <= l
      BY <1>6, <3>1, Zenon
    <3> QED
      BY <1>3, <1>5, <1>7, <3>2
  <2>4. \A i \in 1..v : p[b + i] = q[b + i]
    <3>1. \A i \in 1..v : b + i \in 1..l
      BY <1>3, <2>3
    <3> QED
      BY <1>4, <3>1, Zenon
  <2>5. Whole(p, b, x, ans[x])
    BY <2>1, <2>2, <2>3, <2>4, WholeMoved
  <2> QED
    BY <2>1, <2>5
<1>10. Whole(p, l, r, ans[r])
  <2>1. l + Span(ans[r]) <= Len(p) /\ 0 \in Nat
    BY <1>3, <1>4
  <2>2. \A i \in 1..Span(ans[r]) : p[l + i] = f[0 + i]
    BY <1>3, <1>4
  <2> QED
    BY <1>3, <2>1, <2>2, WholeMoved
<1>11. Framed(p, k, E, ans, ids \cup {r})
  <2>1. ASSUME NEW b \in E \ {u}
        PROVE  \E x \in ids \cup {r} : Whole(p, b, x, ans[x]) /\ b + Span(ans[x]) \in E
    <3>1. CASE b = l
      <4>1. l + Span(ans[r]) \in E
        BY <1>3, <1>5, <1>8
      <4> QED
        BY <1>10, <3>1, <4>1
    <3>2. CASE b # l
      BY <1>9, <3>2
    <3> QED
      BY <3>1, <3>2
  <2> HIDE DEF E
  <2> QED
    BY <1>5, <1>8, <2>1 DEF Framed
<1>12. ASSUME Once(q, B), r \notin ids
       PROVE  Once(p, E)
  <2>1. \A b \in E \ {u} : b \in B
    OBVIOUS
  <2>2. \A b \in B : b # l => p[b + 1] = q[b + 1] /\ p[b + 1] # p[l + 1]
    <3> SUFFICES ASSUME NEW b \in B, b # l PROVE p[b + 1] = q[b + 1] /\ p[b + 1] # p[l + 1]
      OBVIOUS
    <3>1. PICK x \in ids : Whole(q, b, x, ans[x]) /\ Whole(p, b, x, ans[x])
      BY <1>9
    <3>2. b \in Nat /\ x \in Int /\ ans[x] \in Seq(Cells)
      BY <1>6
    <3>3. q[b + 1] = Cell("head", 1, x) /\ p[b + 1] = Cell("head", 1, x)
      BY <3>1, <3>2, WholeFirst
    <3>4. p[l + 1] = Cell("head", 1, r)
      BY <1>3, <1>10, WholeFirst
    <3>5. x # r
      BY <1>12
    <3> QED
      BY <3>3, <3>4, <3>5 DEF Cell
  <2>3. \A a, b \in B : p[a + 1] = p[b + 1] => a = b
    <3> SUFFICES ASSUME NEW a \in B, NEW b \in B, p[a + 1] = p[b + 1] PROVE a = b
      OBVIOUS
    <3>1. CASE a # l /\ b # l
      BY <1>2, <1>12, <2>2, <3>1, Zenon DEF Once
    <3>2. CASE ~(a # l /\ b # l)
      BY <2>2, <3>2, Zenon
    <3> QED
      BY <3>1, <3>2
  <2> HIDE DEF E
  <2> QED
    BY <1>5, <2>1, <2>3, Zenon DEF Once
<1> HIDE DEF E
<1> QED
  BY <1>2, <1>8, <1>11, <1>12, Zenon

\* What is left of a message stays there when others are written behind it.
LEMMA RestAppended ==
    ASSUME NEW q \in Seq(Cells), NEW f \in Seq(Cells), NEW m \in Seq(Cells), Rest(q, m)
    PROVE  Rest(q \o f, m)
<1>1. PICK p, l : p = q \o f /\ l = Len(q)
  OBVIOUS
<1>2. Len(p) = l + Len(f) /\ l \in Nat /\ Len(f) \in Nat /\ \A i \in 1..l : p[i] = q[i]
  BY <1>1, Joined
<1>3. MetaSize \in Nat /\ Len(m) \in Nat /\ MetaSize + Len(m) <= l
  BY <1>1, MsgBufferAssumption DEF Rest
<1>4. MetaSize + Len(m) <= Len(p)
  BY <1>2, <1>3
<1>5. \A i \in 1..Len(m) : MetaSize + i \in 1..l
  BY <1>2, <1>3
<1>6. BodyAt(p, MetaSize, m)
  BY <1>2, <1>5, Zenon DEF Rest, BodyAt
<1> QED
  BY <1>1, <1>4, <1>6, Zenon DEF Rest

\* The first message of q is for request r, p is what its header leaves, framed at
\* the cuts E.
HeaderRead(q, p, B, ans, ids, r, E) ==
    /\ HeadOf(q) = Head_(r, Len(ans[r]), MetaSize) /\ p \in Seq(Cells) /\ Rest(p, ans[r])
    /\ Framed(p, MetaSize + Len(ans[r]), E, ans, ids)
    /\ Once(q, B) => Once(p, E) /\ Framed(p, MetaSize + Len(ans[r]), E, ans, ids \ {r})

\* A header is read from a stream that is at the beginning of a message.
LEMMA HeaderTaken ==
    ASSUME NEW q \in Seq(Cells), NEW B \in SUBSET Nat, NEW ans, NEW ids \in SUBSET Nat,
           \A x \in ids : ans[x] \in Seq(Cells), Framed(q, 0, B, ans, ids), HeadSize <= Len(q)
    PROVE  \E r \in ids, E \in SUBSET Nat :
              HeaderRead(q, SubSeq(q, HeadSize + 1, Len(q)), B, ans, ids, r, E)
<1>1. HeadSize \in Nat /\ MetaSize \in Nat /\ HeadSize > 0 /\ Len(q) \in Nat /\ ids \in SUBSET Int
  BY LenProperties, MsgBufferAssumption DEF HeadSize
<1>2. 0 \in B \ {Len(q)} /\ Len(q) > 0
  BY <1>1 DEF Framed
<1>3. PICK r \in ids : Whole(q, 0, r, ans[r]) /\ 0 + Span(ans[r]) \in B
  BY <1>2 DEF Framed
<1>4. PICK m \in Seq(Cells) : m = ans[r]
  OBVIOUS
<1>5. PICK j \in B : j = HeadSize + MetaSize + Len(m) /\ Len(m) \in Nat /\ j <= Len(q)
  <2>1. 0 + Span(m) \in B /\ 0 + Span(m) <= Len(q)
    BY <1>3, <1>4, Zenon DEF Whole
  <2>2. Len(m) \in Nat
    BY LenProperties
  <2>3. 0 + Span(m) = HeadSize + MetaSize + Len(m)
    BY <1>1, <2>2 DEF Span
  <2> QED
    BY <2>1, <2>2, <2>3, Zenon
<1>6. j \in Nat /\ j > 0 /\ HeadSize <= j /\ j - HeadSize = MetaSize + Len(m) /\ j <= Len(q)
  BY <1>1, <1>5
<1>7. HeadOf(q) = Head_(r, Len(m), MetaSize)
  <2>1. /\ q[0 + 1] = Cell("head", 1, r) /\ q[0 + 2] = Cell("head", 2, Len(m))
        /\ q[0 + 3] = Cell("head", 3, MetaSize)
    BY <1>3, <1>4, WholeFirst
  <2>2. q[1][3] = r /\ q[2][3] = Len(m) /\ q[3][3] = MetaSize
    BY <2>1 DEF Cell
  <2> QED
    BY <2>2, Zenon DEF HeadOf
<1>8. PICK p : p = SubSeq(q, HeadSize + 1, Len(q))
  OBVIOUS
<1>9. /\ p \in Seq(Cells) /\ Len(p) = Len(q) - HeadSize
      /\ \A i \in 1..(Len(q) - HeadSize) : p[i] = q[HeadSize + i]
  BY <1>1, <1>8, Dropped
<1>10. Rest(p, m)
  <2>1. MetaSize + Len(m) <= Len(p)
    BY <1>1, <1>5, <1>6, <1>9
  <2>2. \A i \in 1..Len(m) : MetaSize + i \in 1..(Len(q) - HeadSize)
                             /\ HeadSize + (MetaSize + i) = 0 + HeadSize + MetaSize + i
    BY <1>1, <1>5, <1>6
  <2>3. \A i \in 1..Len(m) : q[0 + HeadSize + MetaSize + i] = m[i]
    BY <1>3, <1>4, Zenon DEF Whole, BodyAt
  <2>4. BodyAt(p, MetaSize, m)
    BY <1>9, <2>2, <2>3, Zenon DEF BodyAt
  <2> QED
    BY <2>1, <2>4, Zenon DEF Rest
<1> DEFINE D == {b \in B : b >= j}
<1>11. Framed(q, j, D, ans, ids) /\ (Once(q, B) => Once(q, D)) /\ D \subseteq B
  BY FramedTail
<1> HIDE DEF D
<1>12. CASE Once(q, B)
  <2>1. Framed(q, j, D, ans, ids \ {r})
    BY <1>1, <1>2, <1>3, <1>6, <1>11, <1>12, FramedOther
  <2>2. PICK E \in SUBSET Nat : Framed(p, j - HeadSize, E, ans, ids \ {r}) /\ (Once(q, D) => Once(p, E))
    BY <1>1, <1>6, <1>8, <2>1, FramedDropped
  <2>3. Framed(p, j - HeadSize, E, ans, ids)
    BY <2>2, FramedAnswers
  <2> QED
    BY <1>4, <1>6, <1>7, <1>8, <1>9, <1>10, <1>11, <1>12, <2>2, <2>3, Zenon DEF HeaderRead
<1>13. CASE ~Once(q, B)
  <2>1. PICK E \in SUBSET Nat : Framed(p, j - HeadSize, E, ans, ids)
    BY <1>1, <1>6, <1>8, <1>11, FramedDropped
  <2> QED
    BY <1>4, <1>6, <1>7, <1>8, <1>9, <1>10, <1>13, <2>1, Zenon DEF HeaderRead
<1> QED
  BY <1>12, <1>13

\* The rest of the message is read.
LEMMA RestTaken ==
    ASSUME NEW q \in Seq(Cells), NEW B \in SUBSET Nat, NEW ans, NEW ids,
           \A x \in ids : ans[x] \in Seq(Cells), NEW n \in Nat, Framed(q, n, B, ans, ids)
    PROVE  LET p == SubSeq(q, n + 1, Len(q)) IN
           /\ p \in Seq(Cells)
           /\ \E E \in SUBSET Nat : Framed(p, 0, E, ans, ids) /\ (Once(q, B) => Once(p, E))
<1>1. n <= Len(q) /\ n - n = 0 /\ n <= n
  <2>1. n \in n..Len(q)
    BY DEF Framed
  <2> QED
    BY <2>1
<1>2. SubSeq(q, n + 1, Len(q)) \in Seq(Cells)
  BY <1>1, Dropped
<1>3. \E E \in SUBSET Nat : /\ Framed(SubSeq(q, n + 1, Len(q)), n - n, E, ans, ids)
                            /\ Once(q, B) => Once(SubSeq(q, n + 1, Len(q)), E)
  BY <1>1, FramedDropped
<1> QED
  BY <1>1, <1>2, <1>3, Zenon

\* One side reads the stream q: it is between messages (x = 0), or has read the
\* header of the message for request x into the record rec.
At(q, rec, x, B, ans, ids) ==
    IF x = 0 THEN Framed(q, 0, B, ans, ids)
    ELSE /\ Headed(rec, x, Len(ans[x])) /\ Rest(q, ans[x])
         /\ Framed(q, MetaSize + Len(ans[x]), B, ans, ids)

\* The position is the same with more requests and answers of others.
LEMMA AtKept ==
    ASSUME NEW q, NEW rec, NEW x, NEW B, NEW ans, NEW ids, At(q, rec, x, B, ans, ids),
           NEW new, NEW more, ids \subseteq more, \A r \in ids : new[r] = ans[r],
           x # 0 => new[x] = ans[x]
    PROVE  At(q, rec, x, B, new, more)
<1>1. CASE x = 0
  <2>1. Framed(q, 0, B, ans, ids)
    BY <1>1, Zenon DEF At
  <2>2. Framed(q, 0, B, new, more)
    BY <2>1, FramedAnswers
  <2> QED
    BY <1>1, <2>2, Zenon DEF At
<1>2. CASE x # 0
  <2>1. /\ Headed(rec, x, Len(ans[x])) /\ Rest(q, ans[x])
        /\ Framed(q, MetaSize + Len(ans[x]), B, ans, ids)
    BY <1>2, Zenon DEF At
  <2>2. Framed(q, MetaSize + Len(ans[x]), B, new, more)
    BY <2>1, FramedAnswers
  <2> QED
    BY <1>2, <2>1, <2>2, Zenon DEF At
<1> QED
  BY <1>1, <1>2

\* A message is written at the other end.
LEMMA AtAppended ==
    ASSUME NEW q \in Seq(Cells), NEW rec, NEW x, NEW B \in SUBSET Nat, NEW ans, NEW ids \in SUBSET Nat,
           \A y \in ids : ans[y] \in Seq(Cells), At(q, rec, x, B, ans, ids),
           x # 0 => ans[x] \in Seq(Cells),
           NEW r \in Nat, ans[r] \in Seq(Cells),
           NEW f \in Seq(Cells), Len(f) = Span(ans[r]), Whole(f, 0, r, ans[r])
    PROVE  \E E \in SUBSET Nat :
              /\ At(q \o f, rec, x, E, ans, ids \cup {r})
              /\ Once(q, B) /\ r \notin ids => Once(q \o f, E)
<1>1. r \in Int /\ ids \in SUBSET Int
  OBVIOUS
<1>2. CASE x = 0
  <2>1. Framed(q, 0, B, ans, ids) /\ 0 \in Nat
    BY <1>2, Zenon DEF At
  <2>2. PICK E \in SUBSET Nat : /\ Framed(q \o f, 0, E, ans, ids \cup {r})
                                /\ Once(q, B) /\ r \notin ids => Once(q \o f, E)
    BY <1>1, <2>1, FramedAppended
  <2> QED
    BY <1>2, <2>2, Zenon DEF At
<1>3. CASE x # 0
  <2>1. /\ Headed(rec, x, Len(ans[x])) /\ Rest(q, ans[x])
        /\ Framed(q, MetaSize + Len(ans[x]), B, ans, ids)
    BY <1>3, Zenon DEF At
  <2>2. MetaSize + Len(ans[x]) \in Nat /\ ans[x] \in Seq(Cells)
    BY <1>3, LenProperties, MsgBufferAssumption
  <2>3. PICK E \in SUBSET Nat : /\ Framed(q \o f, MetaSize + Len(ans[x]), E, ans, ids \cup {r})
                                /\ Once(q, B) /\ r \notin ids => Once(q \o f, E)
    BY <1>1, <2>1, <2>2, FramedAppended
  <2>4. Rest(q \o f, ans[x])
    BY <2>1, <2>2, RestAppended
  <2> QED
    BY <1>3, <2>1, <2>3, <2>4, Zenon DEF At
<1> QED
  BY <1>2, <1>3

\* The header of the next message is read.
LEMMA AtHeader ==
    ASSUME NEW q \in Seq(Cells), NEW rec, NEW B \in SUBSET Nat, NEW ans, NEW ids \in SUBSET (Nat \ {0}),
           \A y \in ids : ans[y] \in Seq(Cells), At(q, rec, 0, B, ans, ids), HeadSize <= Len(q)
    PROVE  LET p == SubSeq(q, HeadSize + 1, Len(q)) IN
           p \in Seq(Cells) /\ \E r \in ids, E \in SUBSET Nat :
              /\ HeadOf(q) = Head_(r, Len(ans[r]), MetaSize)
              /\ \A new : Headed(new, r, Len(ans[r])) => At(p, new, r, E, ans, ids)
              /\ Once(q, B) => /\ Once(p, E)
                               /\ \A new : Headed(new, r, Len(ans[r])) => At(p, new, r, E, ans, ids \ {r})
<1>1. Framed(q, 0, B, ans, ids) /\ ids \in SUBSET Nat
  BY DEF At
<1>2. PICK p : p = SubSeq(q, HeadSize + 1, Len(q))
  OBVIOUS
<1>3. PICK r \in ids, E \in SUBSET Nat : HeaderRead(q, p, B, ans, ids, r, E)
  BY <1>1, <1>2, HeaderTaken
<1>4. r # 0
  OBVIOUS
<1>5. \A new : Headed(new, r, Len(ans[r])) => At(p, new, r, E, ans, ids)
  BY <1>3, <1>4, Zenon DEF At, HeaderRead
<1>6. Once(q, B) => \A new : Headed(new, r, Len(ans[r])) => At(p, new, r, E, ans, ids \ {r})
  BY <1>3, <1>4, Zenon DEF At, HeaderRead
<1> QED
  BY <1>2, <1>3, <1>5, <1>6, Zenon DEF HeaderRead

\* p is what the first message of q leaves, a stream between messages.
Past(q, p, B, ans, ids) ==
    \E E \in SUBSET Nat : (\A any : At(p, any, 0, E, ans, ids)) /\ (Once(q, B) => Once(p, E))

\* The record of request x gets what is left of its message in q, and holds it.
ReadInto(q, rec, x, B, ans, ids) ==
    LET n == recv_msg_len(rec)
        p == SubSeq(q, n + 1, Len(q))
        s == Store(rec, HeadSize, SubSeq(q, 1, n))
    IN /\ Fits(rec, HeadSize, n) /\ Holds(s, x, ans[x]) /\ s.base = rec.base
       /\ p \in Seq(Cells) /\ Past(q, p, B, ans, ids)

\* The rest of the message is read into the record.
LEMMA AtRest ==
    ASSUME NEW q \in Seq(Cells), NEW rec, NEW x, x # 0, NEW B \in SUBSET Nat, NEW ans, NEW ids,
           \A y \in ids : ans[y] \in Seq(Cells), At(q, rec, x, B, ans, ids), ans[x] \in Seq(Cells)
    PROVE  ReadInto(q, rec, x, B, ans, ids)
<1> DEFINE n == recv_msg_len(rec)
           p == SubSeq(q, n + 1, Len(q))
           s == Store(rec, HeadSize, SubSeq(q, 1, n))
<1>1. /\ Headed(rec, x, Len(ans[x])) /\ Rest(q, ans[x])
      /\ Framed(q, MetaSize + Len(ans[x]), B, ans, ids)
  BY Zenon DEF At
<1>2. /\ n = MetaSize + Len(ans[x]) /\ Fits(rec, HeadSize, n)
      /\ Holds(s, x, ans[x]) /\ s.base = rec.base
  BY <1>1, StoredRest
<1>3. n \in Nat
  BY <1>2, LenProperties, MsgBufferAssumption
<1>4. p \in Seq(Cells) /\ \E E \in SUBSET Nat : Framed(p, 0, E, ans, ids) /\ (Once(q, B) => Once(p, E))
  BY <1>1, <1>2, <1>3, RestTaken
<1>5. p \in Seq(Cells) /\ Past(q, p, B, ans, ids)
  BY <1>4, Zenon DEF At, Past
<1> QED
  BY <1>2, <1>5, Zenon DEF ReadInto

-----------------------------------------------------------------------------
(* The invariant *)

\* The requests sent without an answer, when those in A have one.
Open(A) == (1..(msg_index_ - 1)) \ A

\* The server is between messages, or reads the one of an open request; those of
\* the other open requests may follow.
ServerFramed(A, S) ==
    /\ Once(toServer, S)
    /\ \E x \in Open(A) \cup {0} :
          (x = 0 <=> reading = None) /\ At(toServer, reading, x, S, answer, Open(A) \ {x})

\* The client is between replies, or reads one into the record of the request or
\* into the temporary one.
Reader == IF into = -1 THEN temp ELSE recv[into]
ClientFramed(A, C) ==
    \E x \in A \cup {0} :
       /\ x = 0 => into = 0
       /\ x # 0 => into \in {x, -1}
       /\ At(toClient, Reader, x, C, answer, A)

\* A record that was read, or one a user looks into, holds the answer.
RecordsHold(A) ==
    \A r \in Req : status[r] = "READ_OK" \/ r \in held => r \in A /\ Holds(recv[r], r, answer[r])

\* The requests in A have answers; S and C are the cuts of the two streams.
Framing(A, S, C) ==
    A \subseteq 1..(msg_index_ - 1) /\ ServerFramed(A, S) /\ ClientFramed(A, C) /\ RecordsHold(A)

\* The values of the variables.
Types ==
    /\ msg_index_ \in 1..(MaxReq + 1)
    /\ toServer \in Seq(Cells) /\ toClient \in Seq(Cells)
    /\ recv \in [Req -> Struct] /\ answer \in [Req -> Seq(Cells)]
    /\ \A r \in Req : Laid(recv[r]) /\ recv[r].head.req_id \in {-1, r} /\ Len(answer[r]) <= MaxBody
    /\ Laid(temp) /\ temp.head.req_id \in Req \cup {-1}
    /\ recv_msg_map_ \subseteq Req
    /\ into \in Req \cup {-1, 0}
    /\ status \in [Req -> {"UNKNOWN", "READ_OK", "TIMEOUT"}]
    /\ held \subseteq Req
    /\ crash \in {"none", "badfree", "dangling"}

\* The inductive invariant of the streams and the records.
Inv ==
    Types /\ \E A \in SUBSET Req, S \in SUBSET Nat, C \in SUBSET Nat : Framing(A, S, C)

\* The record holds the message of a request below bound, with the body ans says.
Bears(s, ans, bound) == \E x \in 1..(bound - 1) : Holds(s, x, ans[x])

\* What a step leaves a user who has a pointer to the body.
Still == \A r \in held : recv'[r].base = recv[r].base /\ answer'[r] = answer[r]

\* The sets of requests, and the answers in them.
LEMMA Requests ==
    ASSUME Types, NEW A, A \subseteq 1..(msg_index_ - 1)
    PROVE  /\ A \in SUBSET Req /\ Open(A) \in SUBSET Req /\ Req \in SUBSET (Nat \ {0})
           /\ 0 \notin A /\ -1 \notin A /\ 0 \notin Open(A)
           /\ \A r \in Req : answer[r] \in Seq(Cells) /\ Len(answer[r]) \in 0..MaxBody
           /\ MaxReq \in Nat /\ MaxBody \in Nat /\ HeadSize \in Nat
<1>1. MaxReq \in Nat /\ MaxBody \in Nat
  BY MsgBufferAssumption
<1>2. /\ A \in SUBSET Req /\ Open(A) \in SUBSET Req /\ Req \in SUBSET (Nat \ {0})
      /\ 0 \notin A /\ -1 \notin A /\ 0 \notin Open(A)
  BY <1>1 DEF Types, Open, Req
<1>3. \A r \in Req : answer[r] \in Seq(Cells) /\ Len(answer[r]) <= MaxBody
  BY DEF Types
<1>4. \A r \in Req : Len(answer[r]) \in Nat
  BY <1>3, LenProperties
<1> QED
  BY <1>1, <1>2, <1>3, <1>4 DEF HeadSize

\* A step that leaves the server and its stream alone.
LEMMA ServerKept ==
    ASSUME NEW A, NEW S, ServerFramed(A, S), UNCHANGED <<msg_index_, toServer, reading, answer>>
    PROVE  ServerFramed(A, S)'
BY Zenon DEF ServerFramed, Open

\* A step that leaves the client's stream alone; more requests may have answers.
LEMMA ClientKept ==
    ASSUME NEW A, NEW C, NEW D, ClientFramed(A, C), A \subseteq D, 0 \notin A, -1 \notin A,
           UNCHANGED <<toClient, into, temp>>,
           \A r \in A : recv'[r] = recv[r] /\ answer'[r] = answer[r]
    PROVE  ClientFramed(D, C)'
<1>1. PICK x \in A \cup {0} : /\ x = 0 => into = 0
                              /\ x # 0 => into \in {x, -1}
                              /\ At(toClient, Reader, x, C, answer, A)
  BY Zenon DEF ClientFramed
<1>2. At(toClient, Reader, x, C, answer', D)
  BY <1>1, AtKept
<1>3. CASE x = 0
  <2>1. At(toClient, Reader', x, C, answer', D)
    BY <1>2, <1>3, Zenon DEF At
  <2> QED
    BY <1>1, <1>3, <2>1, Zenon DEF ClientFramed
<1>4. CASE x # 0
  <2>1. x \in A /\ x \in D /\ into' = into /\ temp' = temp /\ toClient' = toClient
    BY <1>4
  <2>2. Reader' = Reader
    BY <1>1, <1>4, <2>1, Zenon DEF Reader
  <2> QED
    BY <1>1, <1>2, <1>4, <2>1, <2>2, Zenon DEF ClientFramed
<1> QED
  BY <1>3, <1>4

\* A step that leaves the records with answers alone.
LEMMA RecordsKept ==
    ASSUME NEW A, NEW D, RecordsHold(A), A \subseteq D, UNCHANGED <<status, held>>,
           \A r \in A : recv'[r] = recv[r] /\ answer'[r] = answer[r]
    PROVE  RecordsHold(D)'
<1>1. status' = status /\ held' = held
  OBVIOUS
<1> QED
  BY <1>1, Zenon DEF RecordsHold

\* The answers a user has pointers to are not changed either.
LEMMA HeldStill ==
    ASSUME Types, NEW A, RecordsHold(A), \A r \in A : recv'[r] = recv[r] /\ answer'[r] = answer[r]
    PROVE  Still
<1>1. \A r \in held : r \in Req
  BY DEF Types
<1>2. \A r \in held : r \in A
  BY <1>1, Zenon DEF RecordsHold
<1> QED
  BY <1>2, Zenon DEF Still

-----------------------------------------------------------------------------
(* The invariant holds at first and is kept *)

\* Nothing was sent.
LEMMA InitInv == Init => Inv
<1> SUFFICES ASSUME Init PROVE Inv
  OBVIOUS
<1>1. MaxReq \in Nat /\ MaxBody \in Nat /\ <<>> \in Seq(Cells) /\ Len(<<>>) = 0
  BY MsgBufferAssumption
<1>2. PICK s : s = RPCStruct(RPCStructHead)
  OBVIOUS
<1>3. Laid(s) /\ s \in Struct
  BY <1>2, ConstructorLaid DEF Laid
<1>4. s.head.req_id = -1
  BY <1>2 DEF RPCStruct, RPCStructHead, Head_
<1>5. Types
  BY <1>1, <1>2, <1>3, <1>4 DEF Init, Types, Req
<1>6. \A k \in {0} : Framed(<<>>, 0, {0}, answer, {}) /\ Once(<<>>, {0})
  BY <1>1 DEF Framed, Once
<1>7. ServerFramed({}, {0})
  <2>1. Open({}) = {}
    BY DEF Init, Open
  <2>2. At(toServer, reading, 0, {0}, answer, Open({}) \ {0})
    <3>1. Open({}) \ {0} = {}
      BY <2>1
    <3> QED
      BY <1>6, <3>1, Zenon DEF Init, At
  <2> QED
    BY <1>6, <2>2, Zenon DEF Init, ServerFramed
<1>8. ClientFramed({}, {0})
  <2>1. At(toClient, Reader, 0, {0}, answer, {})
    BY <1>6, Zenon DEF Init, At
  <2> QED
    BY <2>1, Zenon DEF Init, ClientFramed
<1>9. RecordsHold({})
  BY DEF Init, RecordsHold
<1>10. Framing({}, {0}, {0})
  BY <1>7, <1>8, <1>9 DEF Framing
<1> QED
  BY <1>5, <1>10 DEF Inv

\* A record whose header gets an id.
LEMMA Named ==
    ASSUME NEW s, Laid(s), NEW r \in Int
    PROVE  /\ Laid([s EXCEPT !.head.req_id = r]) /\ [s EXCEPT !.head.req_id = r].head.req_id = r
           /\ [s EXCEPT !.head.req_id = r] \in Struct
<1>1. PICK h : h = [s.head EXCEPT !.req_id = r]
  OBVIOUS
<1>2. s \in Struct /\ s.head \in Heads
  BY DEF Laid, Struct
<1>3. h \in Heads /\ h.req_id = r /\ h.body_size = s.head.body_size /\ h.meta_size = s.head.meta_size
  BY <1>1, <1>2 DEF Heads
<1>4. PICK t : t = [s EXCEPT !.head = h]
  OBVIOUS
<1>5. [s EXCEPT !.head.req_id = r] = t
  BY <1>1, <1>2, <1>4 DEF Struct
<1>6. /\ t \in Struct /\ t.head = h /\ t.body_offset = s.body_offset
      /\ t.pre_body_size = s.pre_body_size /\ t.data = s.data /\ t.base = s.base
  BY <1>2, <1>3, <1>4 DEF Struct
<1>7. Laid(t)
  BY <1>3, <1>6, Zenon DEF Laid
<1> QED
  BY <1>3, <1>5, <1>6, <1>7, Zenon

\* A request is sent: its message is the last in the stream to the server.
LEMMA WriteStep ==
    ASSUME Types, NEW A \in SUBSET Req, NEW S \in SUBSET Nat, NEW C \in SUBSET Nat, Framing(A, S, C),
           NEW n \in 0..MaxBody, NEW z \in BOOLEAN, Write(n, z)
    PROVE  Inv' /\ Still /\ Bears(newMsgBuf(msg_index_, n, z), answer', msg_index_')
<1>1. /\ Open(A) \in SUBSET Req /\ Req \in SUBSET (Nat \ {0}) /\ 0 \notin A /\ -1 \notin A
      /\ \A r \in Req : answer[r] \in Seq(Cells) /\ Len(answer[r]) \in 0..MaxBody
      /\ MaxReq \in Nat /\ MaxBody \in Nat /\ A \subseteq 1..(msg_index_ - 1)
  BY Requests DEF Framing
<1>2. PICK r : r = msg_index_
  OBVIOUS
<1>3. r \in Req /\ r \in Nat /\ r \notin A /\ r \notin Open(A) /\ msg_index_ \in Nat
  <2>1. r \in 1..(MaxReq + 1) /\ r <= MaxReq
    BY <1>2 DEF Write, Types
  <2>2. r \in 1..MaxReq /\ r \in Nat /\ r \notin 1..(r - 1)
    BY <1>1, <2>1
  <2> QED
    BY <1>1, <1>2, <2>2, Zenon DEF Req, Open
<1>4. PICK m, s, f : m = BodyCells("client", r, n, z) /\ s = newMsgBuf(r, n, z) /\ f = Written(s)
  OBVIOUS
<1>5. m \in Seq(Cells) /\ Len(m) = n
  BY <1>3, <1>4, BodyCellsType
<1>6. Holds(s, r, m)
  BY <1>3, <1>4, MessageMade
<1>7. Fits(s, 0, data_len(s)) /\ f \in Seq(Cells) /\ Len(f) = Span(m) /\ Whole(f, 0, r, m)
  BY <1>4, <1>5, <1>6, WrittenWhole
<1>8. toServer' = toServer \o f /\ crash' = crash
  BY <1>2, <1>4, <1>7, Zenon DEF Write
<1>9. /\ msg_index_' = r + 1 /\ recv' = [recv EXCEPT ![r].head.req_id = r]
      /\ recv_msg_map_' = recv_msg_map_ \cup {r} /\ answer' = [answer EXCEPT ![r] = m]
      /\ UNCHANGED <<toClient, reading, into, temp, status, held>> /\ r <= MaxReq
  BY <1>2, <1>4, Zenon DEF Write, users
<1>10. /\ answer' \in [Req -> Seq(Cells)] /\ answer'[r] = m
       /\ \A x \in Req : x # r => answer'[x] = answer[x]
  BY <1>3, <1>5, <1>9 DEF Types
<1>11. \A x \in Req : x # r => recv'[x] = recv[x]
  BY <1>3, <1>9 DEF Types
<1>12. recv' \in [Req -> Struct] /\ Laid(recv'[r]) /\ recv'[r].head.req_id = r
  <2>1. PICK t : t = [recv[r] EXCEPT !.head.req_id = r]
    OBVIOUS
  <2>2. Laid(t) /\ t.head.req_id = r /\ t \in Struct
    <3>1. Laid(recv[r]) /\ r \in Int
      BY <1>3 DEF Types
    <3> QED
      BY <2>1, <3>1, Named
  <2>3. recv' = [recv EXCEPT ![r] = t]
    BY <1>9, <2>1, Zenon
  <2>4. recv' \in [Req -> Struct] /\ recv'[r] = t
    BY <1>3, <2>2, <2>3 DEF Types
  <2> QED
    BY <2>2, <2>4, Zenon
<1>13. Types'
  <2>1. msg_index_' \in 1..(MaxReq + 1)
    BY <1>1, <1>3, <1>9
  <2>2. toServer' \in Seq(Cells)
    BY <1>7, <1>8, Joined DEF Types
  <2>3. \A x \in Req : Laid(recv'[x]) /\ recv'[x].head.req_id \in {-1, x} /\ Len(answer'[x]) <= MaxBody
    <3> SUFFICES ASSUME NEW x \in Req
                 PROVE  Laid(recv'[x]) /\ recv'[x].head.req_id \in {-1, x} /\ Len(answer'[x]) <= MaxBody
      OBVIOUS
    <3>1. CASE x = r
      <4>1. n <= MaxBody
        BY <1>1
      <4> QED
        BY <1>5, <1>10, <1>12, <3>1, <4>1, Zenon
    <3>2. CASE x # r
      <4>1. recv'[x] = recv[x] /\ answer'[x] = answer[x]
        BY <1>10, <1>11, <3>2
      <4> QED
        BY <4>1, Zenon DEF Types
    <3> QED
      BY <3>1, <3>2
  <2>4. recv_msg_map_' \subseteq Req
    BY <1>3, <1>9 DEF Types
  <2> QED
    BY <1>8, <1>9, <1>10, <1>12, <2>1, <2>2, <2>3, <2>4, Zenon DEF Types
<1>14. \A x \in A : recv'[x] = recv[x] /\ answer'[x] = answer[x]
  BY <1>1, <1>3, <1>10, <1>11
<1>15. ClientFramed(A, C)' /\ RecordsHold(A)'
  <2>1. ClientFramed(A, C) /\ RecordsHold(A) /\ A \subseteq A
    BY DEF Framing
  <2>2. UNCHANGED <<toClient, into, temp>> /\ UNCHANGED <<status, held>>
    BY <1>9
  <2> QED
    BY <1>1, <1>14, <2>1, <2>2, ClientKept, RecordsKept
<1>16. \E E \in SUBSET Nat : ServerFramed(A, E)'
  <2>1. PICK x \in Open(A) \cup {0} :
           (x = 0 <=> reading = None) /\ At(toServer, reading, x, S, answer, Open(A) \ {x})
    BY Zenon DEF Framing, ServerFramed
  <2>2. PICK ids : ids = Open(A) \ {x}
    OBVIOUS
  <2>3. /\ \A y \in ids : answer'[y] = answer[y] /\ answer'[y] \in Seq(Cells)
        /\ x # 0 => answer'[x] = answer[x] /\ answer'[x] \in Seq(Cells)
        /\ r \notin ids /\ ids \in SUBSET Nat /\ ids \subseteq ids /\ x # r
    BY <1>1, <1>3, <1>10, <2>2
  <2>4. At(toServer, reading, x, S, answer', ids)
    BY <2>1, <2>2, <2>3, AtKept
  <2>5. PICK E \in SUBSET Nat : /\ At(toServer \o f, reading, x, E, answer', ids \cup {r})
                                /\ Once(toServer, S) /\ r \notin ids => Once(toServer \o f, E)
    <3>1. toServer \in Seq(Cells)
      BY DEF Types
    <3> QED
      BY <1>3, <1>5, <1>7, <1>10, <2>3, <2>4, <3>1, AtAppended
  <2>6. Open(A)' \ {x} = ids \cup {r} /\ x \in Open(A)' \cup {0}
    <3>1. Open(A)' = Open(A) \cup {r}
      <4>1. \A y \in Int : y \in 1..((r + 1) - 1) <=> y \in 1..(r - 1) \/ y = r
        <5>1. r \in Nat /\ r >= 1
          BY <1>1, <1>3
        <5> QED
          BY <5>1
      <4>2. 1..((r + 1) - 1) = (1..(r - 1)) \cup {r}
        BY <1>3, <4>1
      <4> QED
        BY <1>2, <1>3, <1>9, <4>2, Zenon DEF Open
    <3> QED
      BY <2>2, <2>3, <3>1
  <2>7. Once(toServer', E)
    BY <1>8, <2>3, <2>5, Zenon DEF Framing, ServerFramed
  <2>8. (x = 0 <=> reading' = None) /\ At(toServer', reading', x, E, answer', Open(A)' \ {x})
    BY <1>8, <1>9, <2>1, <2>5, <2>6, Zenon
  <2> QED
    BY <2>6, <2>7, <2>8, Zenon DEF ServerFramed
<1>17. A \subseteq 1..(msg_index_' - 1)
  BY <1>1, <1>2, <1>3, <1>9
<1>18. Inv'
  BY <1>13, <1>15, <1>16, <1>17, Zenon DEF Inv, Framing
<1>19. Bears(s, answer', msg_index_')
  <2>1. r \in 1..((r + 1) - 1)
    BY <1>1, <1>3
  <2> QED
    BY <1>6, <1>9, <1>10, <2>1, Zenon DEF Bears
<1> QED
  BY <1>2, <1>4, <1>14, <1>18, <1>19, HeldStill DEF Framing

\* A request times out.
LEMMA TimeoutStep ==
    ASSUME Types, NEW A \in SUBSET Req, NEW S \in SUBSET Nat, NEW C \in SUBSET Nat, Framing(A, S, C),
           NEW r \in Req, Timeout(r)
    PROVE  Inv' /\ Still
<1>1. /\ UNCHANGED <<msg_index_, toServer, reading, answer>> /\ UNCHANGED <<toClient, into, temp>>
      /\ UNCHANGED <<recv, recv_msg_map_, held, crash>>
      /\ status' = [status EXCEPT ![r] = "TIMEOUT"]
  BY DEF Timeout, users
<1>2. Types'
  <2>1. status' \in [Req -> {"UNKNOWN", "READ_OK", "TIMEOUT"}]
    BY <1>1 DEF Types
  <2> QED
    BY <1>1, <2>1, Zenon DEF Types
<1>3. \A x \in A : recv'[x] = recv[x] /\ answer'[x] = answer[x]
  BY <1>1, Zenon
<1>4. 0 \notin A /\ -1 \notin A /\ A \subseteq A
  BY Requests DEF Framing
<1>5. ServerFramed(A, S)' /\ ClientFramed(A, C)'
  BY <1>1, <1>3, <1>4, ServerKept, ClientKept DEF Framing
<1>6. RecordsHold(A)'
  <2>1. \A x \in Req : status'[x] = "READ_OK" => status[x] = "READ_OK"
    BY <1>1 DEF Types
  <2> QED
    BY <1>1, <2>1, Zenon DEF Framing, RecordsHold
<1>7. Inv'
  BY <1>1, <1>2, <1>5, <1>6, Zenon DEF Inv, Framing
<1> QED
  BY <1>3, <1>7, HeldStill DEF Framing

\* A record leaves the map.
LEMMA EraseStep ==
    ASSUME Types, NEW A \in SUBSET Req, NEW S \in SUBSET Nat, NEW C \in SUBSET Nat, Framing(A, S, C),
           NEW r \in Req, Erase(r)
    PROVE  Inv' /\ Still
<1>1. /\ UNCHANGED <<msg_index_, toServer, reading, answer>> /\ UNCHANGED <<toClient, into, temp>>
      /\ UNCHANGED <<status, held>> /\ UNCHANGED <<recv, crash>>
      /\ recv_msg_map_' = recv_msg_map_ \ {r}
  BY DEF Erase, User
<1>2. Types'
  <2>1. recv_msg_map_' \subseteq Req
    BY <1>1 DEF Types
  <2> QED
    BY <1>1, <2>1, Zenon DEF Types
<1>3. \A x \in A : recv'[x] = recv[x] /\ answer'[x] = answer[x]
  BY <1>1, Zenon
<1>4. 0 \notin A /\ -1 \notin A /\ A \subseteq A
  BY Requests DEF Framing
<1>5. ServerFramed(A, S)' /\ ClientFramed(A, C)' /\ RecordsHold(A)'
  BY <1>1, <1>3, <1>4, ServerKept, ClientKept, RecordsKept DEF Framing
<1>6. Inv'
  BY <1>1, <1>2, <1>5, Zenon DEF Inv, Framing
<1> QED
  BY <1>3, <1>6, HeldStill DEF Framing

\* A user gets the record, lets go of it, or finds the buffer freed.
LEMMA UserStep ==
    ASSUME Types, NEW A \in SUBSET Req, NEW S \in SUBSET Nat, NEW C \in SUBSET Nat, Framing(A, S, C),
           NEW r \in Req, UserRead(r) \/ UserDrop(r) \/ UserFindsFreed(r)
    PROVE  Inv' /\ Still
<1>1. /\ UNCHANGED <<msg_index_, toServer, reading, answer>> /\ UNCHANGED <<toClient, into, temp>>
      /\ UNCHANGED <<status, held>> /\ UNCHANGED <<recv, recv_msg_map_>>
      /\ crash' = crash \/ crash' = "dangling"
  BY DEF UserRead, UserDrop, UserFindsFreed, User
<1>2. Types'
  <2>1. crash' \in {"none", "badfree", "dangling"}
    BY <1>1 DEF Types
  <2> QED
    BY <1>1, <2>1, Zenon DEF Types
<1>3. \A x \in A : recv'[x] = recv[x] /\ answer'[x] = answer[x]
  BY <1>1, Zenon
<1>4. 0 \notin A /\ -1 \notin A /\ A \subseteq A
  BY Requests DEF Framing
<1>5. ServerFramed(A, S)' /\ ClientFramed(A, C)' /\ RecordsHold(A)'
  BY <1>1, <1>3, <1>4, ServerKept, ClientKept, RecordsKept DEF Framing
<1>6. Inv'
  BY <1>1, <1>2, <1>5, Zenon DEF Inv, Framing
<1> QED
  BY <1>3, <1>6, HeldStill DEF Framing

\* One record is exchanged for another, which has the header of the reply if that
\* one is being read into.
LEMMA RecordChanged ==
    ASSUME Types, NEW A, A \in SUBSET Req, 0 \notin A, -1 \notin A, NEW r \in Req, NEW t,
           recv' = [recv EXCEPT ![r] = t], UNCHANGED <<answer, toClient, into, temp>>,
           NEW C, ClientFramed(A, C), into = r => Headed(t, r, Len(answer[r]))
    PROVE  /\ \A x \in Req : recv'[x] = IF x = r THEN t ELSE recv[x]
           /\ ClientFramed(A, C)'
<1>1. \A x \in Req : recv'[x] = IF x = r THEN t ELSE recv[x]
  BY DEF Types
<1>2. ClientFramed(A, C)'
  <2>1. PICK x \in A \cup {0} : /\ x = 0 => into = 0
                                /\ x # 0 => into \in {x, -1}
                                /\ At(toClient, Reader, x, C, answer, A)
    BY Zenon DEF ClientFramed
  <2>2. answer' = answer /\ toClient' = toClient /\ into' = into /\ temp' = temp
    OBVIOUS
  <2>3. At(toClient, Reader', x, C, answer, A)
    <3>1. CASE x = 0
      BY <2>1, <3>1, Zenon DEF At
    <3>2. CASE x # 0 /\ into = r
      <4>1. r # -1 /\ x = r
        <5>1. r \in Nat /\ r # -1
          BY MsgBufferAssumption DEF Req
        <5> QED
          BY <2>1, <3>2, <5>1
      <4>2. Reader' = t
        BY <1>1, <2>2, <3>2, <4>1, Zenon DEF Reader
      <4> QED
        BY <2>1, <3>2, <4>1, <4>2, Zenon DEF At
    <3>3. CASE x # 0 /\ into # r
      <4>1. Reader' = Reader
        <5>1. CASE into = -1
          BY <2>2, <5>1, Zenon DEF Reader
        <5>2. CASE into # -1
          <6>1. into \in Req
            BY <2>1, <3>3, <5>2
          <6>2. recv'[into] = recv[into]
            BY <1>1, <3>3, <6>1, Zenon
          <6> QED
            BY <2>2, <5>2, <6>2, Zenon DEF Reader
        <5> QED
          BY <5>1, <5>2
      <4> QED
        BY <2>1, <4>1, Zenon
    <3> QED
      BY <3>1, <3>2, <3>3
  <2> QED
    BY <2>1, <2>2, <2>3, Zenon DEF ClientFramed
<1> QED
  BY <1>1, <1>2, Zenon

\* A user looks into a record that was read: its buffer is not moved.
LEMMA UserBodyStep ==
    ASSUME Types, NEW A \in SUBSET Req, NEW S \in SUBSET Nat, NEW C \in SUBSET Nat, Framing(A, S, C),
           NEW r \in Req, UserBody(r)
    PROVE  Inv' /\ Still
<1>1. /\ UNCHANGED <<msg_index_, toServer, reading, answer>> /\ UNCHANGED <<answer, toClient, into, temp>>
      /\ UNCHANGED <<recv_msg_map_, status, crash>> /\ held' = held \cup {r} /\ status[r] = "READ_OK"
  BY DEF UserBody, User
<1>2. PICK t : t = new_data(recv[r])
  OBVIOUS
<1>3. recv' = [recv EXCEPT ![r] = t]
  BY <1>2, Zenon DEF UserBody
<1>4. /\ 0 \notin A /\ -1 \notin A /\ \A x \in Req : answer[x] \in Seq(Cells) /\ Len(answer[x]) \in 0..MaxBody
      /\ Req \in SUBSET (Nat \ {0}) /\ MaxBody \in Nat
  BY Requests DEF Framing
<1>5. r \in A /\ Holds(recv[r], r, answer[r])
  BY <1>1, Zenon DEF Framing, RecordsHold
<1>6. Holds(t, r, answer[r]) /\ t.base = recv[r].base
  <2>1. r \in Int /\ answer[r] \in Seq(Cells) /\ Len(answer[r]) <= MaxBody
    BY <1>4
  <2> QED
    BY <1>2, <1>5, <2>1, NewDataHolds
<1>7. Headed(t, r, Len(answer[r])) /\ Laid(t) /\ t \in Struct /\ t.head.req_id = r
  <2>1. Headed(t, r, Len(answer[r]))
    BY <1>6, Zenon DEF Holds
  <2> QED
    BY <2>1, HeadedFields DEF Headed
<1>8. /\ \A x \in Req : recv'[x] = IF x = r THEN t ELSE recv[x]
      /\ ClientFramed(A, C)'
  <2>1. ClientFramed(A, C) /\ (into = r => Headed(t, r, Len(answer[r])))
    BY <1>7 DEF Framing
  <2> QED
    BY <1>1, <1>3, <1>4, <2>1, RecordChanged, Zenon
<1>9. Types'
  <2>1. recv' \in [Req -> Struct]
    BY <1>3, <1>7 DEF Types
  <2>2. \A x \in Req : Laid(recv'[x]) /\ recv'[x].head.req_id \in {-1, x}
    BY <1>7, <1>8, Zenon DEF Types
  <2>3. held' \subseteq Req
    BY <1>1 DEF Types
  <2> QED
    BY <1>1, <2>1, <2>2, <2>3, Zenon DEF Types
<1>10. ServerFramed(A, S)'
  BY <1>1, ServerKept DEF Framing
<1>11. RecordsHold(A)'
  <2> SUFFICES ASSUME NEW x \in Req, status'[x] = "READ_OK" \/ x \in held'
               PROVE  x \in A /\ Holds(recv'[x], x, answer'[x])
    BY DEF RecordsHold
  <2>1. CASE x = r
    BY <1>1, <1>5, <1>6, <1>8, <2>1, Zenon
  <2>2. CASE x # r
    <3>1. status[x] = "READ_OK" \/ x \in held
      BY <1>1, <2>2
    <3> QED
      BY <1>1, <1>8, <2>2, <3>1, Zenon DEF Framing, RecordsHold
  <2> QED
    BY <2>1, <2>2
<1>12. Inv'
  BY <1>1, <1>8, <1>9, <1>10, <1>11, Zenon DEF Inv, Framing
<1>13. Still
  <2>1. held \subseteq Req /\ answer' = answer
    BY <1>1 DEF Types
  <2> QED
    BY <1>6, <1>8, <2>1, Zenon DEF Still
<1> QED
  BY <1>12, <1>13

\* A new record for a header.
LEMMA NewRecord ==
    ASSUME NEW r \in Int, NEW n \in 0..MaxBody, NEW t, t = new_data(RPCStruct(Head_(r, n, MetaSize)))
    PROVE  Headed(t, r, n) /\ Laid(t) /\ t.head.req_id = r /\ t \in Struct
<1>1. PICK s : s = RPCStruct(Head_(r, n, MetaSize))
  OBVIOUS
<1>2. Laid(s) /\ Announces(s, r, n)
  BY <1>1, ConstructorLaid, Zenon
<1>3. Headed(t, r, n)
  BY <1>1, <1>2, NewData
<1> QED
  BY <1>3, HeadedFields DEF Headed

\* The server reads the header of the next request.
LEMMA ServerReadHeaderStep ==
    ASSUME Types, NEW A \in SUBSET Req, NEW S \in SUBSET Nat, NEW C \in SUBSET Nat, Framing(A, S, C),
           ServerReadHeader
    PROVE  Inv' /\ Still
<1>1. /\ UNCHANGED <<msg_index_, toClient, recv, recv_msg_map_, into, temp, status, held, answer, crash>>
      /\ reading = None /\ Len(toServer) >= HeadSize
      /\ reading' = new_data(RPCStruct(HeadOf(toServer)))
      /\ toServer' = SubSeq(toServer, HeadSize + 1, Len(toServer))
  BY DEF ServerReadHeader, users
<1>2. /\ 0 \notin A /\ -1 \notin A /\ \A x \in Req : answer[x] \in Seq(Cells) /\ Len(answer[x]) \in 0..MaxBody
      /\ Req \in SUBSET (Nat \ {0}) /\ Open(A) \in SUBSET Req /\ 0 \notin Open(A) /\ A \subseteq A
      /\ toServer \in Seq(Cells) /\ HeadSize \in Nat /\ Len(toServer) \in Nat
  BY Requests, LenProperties DEF Framing, Types
<1>3. At(toServer, reading, 0, S, answer, Open(A)) /\ Once(toServer, S)
  <2>1. PICK x \in Open(A) \cup {0} :
           (x = 0 <=> reading = None) /\ At(toServer, reading, x, S, answer, Open(A) \ {x})
    BY Zenon DEF Framing, ServerFramed
  <2>2. x = 0 /\ Open(A) \ {0} = Open(A)
    BY <1>1, <1>2, <2>1
  <2> QED
    BY <2>1, <2>2, Zenon DEF Framing, ServerFramed
<1>4. PICK p : p = SubSeq(toServer, HeadSize + 1, Len(toServer))
  OBVIOUS
<1>5. p \in Seq(Cells) /\ \E r \in Open(A), E \in SUBSET Nat :
              /\ HeadOf(toServer) = Head_(r, Len(answer[r]), MetaSize)
              /\ Once(p, E)
              /\ \A new : Headed(new, r, Len(answer[r])) => At(p, new, r, E, answer, Open(A) \ {r})
  <2>1. /\ Open(A) \in SUBSET (Nat \ {0}) /\ HeadSize <= Len(toServer)
        /\ \A y \in Open(A) : answer[y] \in Seq(Cells)
    BY <1>1, <1>2
  <2> QED
    BY <1>2, <1>3, <1>4, <2>1, AtHeader
<1>6. PICK r \in Open(A), E \in SUBSET Nat :
              /\ HeadOf(toServer) = Head_(r, Len(answer[r]), MetaSize)
              /\ Once(p, E)
              /\ \A new : Headed(new, r, Len(answer[r])) => At(p, new, r, E, answer, Open(A) \ {r})
  BY <1>5
<1>7. r \in Int /\ r \in Nat /\ r # 0 /\ Len(answer[r]) \in 0..MaxBody
  <2>1. r \in Req
    BY <1>2, Zenon
  <2>2. r \in Nat /\ r # 0
    BY <1>2, <2>1
  <2>3. Len(answer[r]) \in 0..MaxBody
    BY <1>2, <2>1, Zenon
  <2> QED
    BY <2>2, <2>3
<1>8. Headed(reading', r, Len(answer[r])) /\ reading'.head.req_id = r
  BY <1>1, <1>6, <1>7, NewRecord
<1>9. reading' # None
  <2>1. None.head.req_id = -1
    BY DEF None, RPCStructHead, Head_
  <2>2. r # -1
    BY <1>7
  <2> QED
    BY <1>8, <2>1, <2>2, Zenon
<1>10. Types'
  <2>1. toServer' \in Seq(Cells)
    BY <1>1, <1>4, <1>5
  <2> QED
    BY <1>1, <2>1, Zenon DEF Types
<1>11. ServerFramed(A, E)'
  <2>1. At(toServer', reading', r, E, answer', Open(A)' \ {r})
    BY <1>1, <1>4, <1>6, <1>8, Zenon DEF Open
  <2>2. Once(toServer', E) /\ r \in Open(A)' \cup {0}
    BY <1>1, <1>4, <1>6, Zenon DEF Open
  <2> QED
    BY <1>7, <1>9, <2>1, <2>2, Zenon DEF ServerFramed
<1>12. \A x \in A : recv'[x] = recv[x] /\ answer'[x] = answer[x]
  BY <1>1, Zenon
<1>13. ClientFramed(A, C)' /\ RecordsHold(A)'
  BY <1>1, <1>2, <1>12, ClientKept, RecordsKept DEF Framing
<1>14. Inv'
  BY <1>1, <1>10, <1>11, <1>13, Zenon DEF Inv, Framing
<1> QED
  BY <1>12, <1>14, HeldStill DEF Framing

\* One or two copies of a reply are written.
LEMMA Replied ==
    ASSUME NEW q \in Seq(Cells), NEW rec, NEW x, NEW B \in SUBSET Nat, NEW ans, NEW ids \in SUBSET Nat,
           \A y \in ids : ans[y] \in Seq(Cells), At(q, rec, x, B, ans, ids),
           x # 0 => ans[x] \in Seq(Cells),
           NEW r \in Nat, ans[r] \in Seq(Cells),
           NEW f \in Seq(Cells), Len(f) = Span(ans[r]), Whole(f, 0, r, ans[r]),
           NEW times, NEW p, p = q \o f \o (IF times = 2 THEN f ELSE <<>>)
    PROVE  p \in Seq(Cells) /\ \E E \in SUBSET Nat : At(p, rec, x, E, ans, ids \cup {r})
<1>1. PICK E \in SUBSET Nat : At(q \o f, rec, x, E, ans, ids \cup {r})
  BY AtAppended
<1>2. q \o f \in Seq(Cells)
  OBVIOUS
<1>3. CASE times # 2
  <2>1. p = q \o f
    BY <1>2, <1>3
  <2> QED
    BY <1>1, <1>2, <2>1
<1>4. CASE times = 2
  <2>1. PICK w : w = q \o f
    OBVIOUS
  <2>2. p = w \o f /\ w \in Seq(Cells)
    BY <1>2, <1>4, <2>1, Zenon
  <2>3. PICK ids2 \in SUBSET Nat : ids2 = ids \cup {r} /\ ids2 \cup {r} = ids2
    OBVIOUS
  <2>4. \A y \in ids2 : ans[y] \in Seq(Cells)
    BY <2>3
  <2>5. At(w, rec, x, E, ans, ids2)
    BY <1>1, <2>1, <2>3, Zenon
  <2>6. \E D \in SUBSET Nat : At(w \o f, rec, x, D, ans, ids2 \cup {r})
    BY <2>2, <2>4, <2>5, AtAppended
  <2>7. p \in Seq(Cells)
    BY <2>2
  <2> QED
    BY <2>2, <2>3, <2>6, <2>7, Zenon
<1> QED
  BY <1>3, <1>4

\* The server reads the rest of the request and replies: the request has an answer
\* from now on, and its reply is the last in the stream to the client.
LEMMA ServerReadMsgStep ==
    ASSUME Types, NEW A \in SUBSET Req, NEW S \in SUBSET Nat, NEW C \in SUBSET Nat, Framing(A, S, C),
           NEW n \in Results \cup {NoResult}, NEW w \in BOOLEAN, NEW times \in 1..MaxReplies,
           ServerReadMsg(n, w, times)
    PROVE  /\ Inv' /\ Still
           /\ LET s == Store(reading, HeadSize, SubSeq(toServer, 1, recv_msg_len(reading)))
              IN Bears(s, answer, msg_index_) /\ Bears(Answer(s, n, w), answer', msg_index_)
<1>1. /\ UNCHANGED <<msg_index_, recv, recv_msg_map_, into, temp, status, held>>
      /\ reading # None /\ reading' = None /\ crash = "none"
  BY DEF ServerReadMsg, users
<1>2. /\ 0 \notin A /\ -1 \notin A /\ \A y \in Req : answer[y] \in Seq(Cells) /\ Len(answer[y]) \in 0..MaxBody
      /\ Req \in SUBSET (Nat \ {0}) /\ Open(A) \in SUBSET Req /\ 0 \notin Open(A)
      /\ toServer \in Seq(Cells) /\ toClient \in Seq(Cells) /\ MaxBody \in Nat
      /\ A \subseteq 1..(msg_index_ - 1)
  BY Requests DEF Framing, Types
<1>3. PICK x \in Open(A) : At(toServer, reading, x, S, answer, Open(A) \ {x})
  <2>1. PICK x \in Open(A) \cup {0} :
           (x = 0 <=> reading = None) /\ At(toServer, reading, x, S, answer, Open(A) \ {x})
    BY Zenon DEF Framing, ServerFramed
  <2>2. x # 0
    BY <1>1, <2>1, Zenon
  <2> QED
    BY <2>1, <2>2
<1>4. x \in Req /\ x \in Nat /\ x # 0 /\ answer[x] \in Seq(Cells) /\ x \notin A
  <2>1. x \in Req /\ x \notin A
    BY <1>2, Zenon DEF Open
  <2>2. x \in Nat /\ x # 0
    BY <1>2, <2>1
  <2> QED
    BY <1>2, <2>1, <2>2, Zenon
<1>5. PICK ids : ids = Open(A) \ {x}
  OBVIOUS
<1>6. /\ \A y \in ids : y \in Req /\ y # x /\ answer[y] \in Seq(Cells)
      /\ At(toServer, reading, x, S, answer, ids) /\ Once(toServer, S)
  <2>1. Once(toServer, S)
    BY Zenon DEF Framing, ServerFramed
  <2> QED
    BY <1>2, <1>3, <1>5, <2>1, Zenon
<1>7. PICK k, p, s : /\ k = recv_msg_len(reading) /\ p = SubSeq(toServer, k + 1, Len(toServer))
                     /\ s = Store(reading, HeadSize, SubSeq(toServer, 1, k))
  OBVIOUS
<1>8. /\ Fits(reading, HeadSize, k) /\ Holds(s, x, answer[x]) /\ p \in Seq(Cells)
      /\ Past(toServer, p, S, answer, ids)
  <2>1. /\ toServer \in Seq(Cells) /\ x # 0 /\ answer[x] \in Seq(Cells)
        /\ \A y \in ids : answer[y] \in Seq(Cells)
    BY <1>2, <1>4, <1>6, Zenon
  <2>2. ReadInto(toServer, reading, x, S, answer, ids)
    BY <1>6, <2>1, AtRest
  <2> QED
    BY <1>7, <2>2, Zenon DEF ReadInto
<1>9. reading.head.req_id = x
  <2>1. Headed(reading, x, Len(answer[x]))
    BY <1>4, <1>6, Zenon DEF At
  <2> QED
    BY <2>1, HeadedFields
<1>10. s.head.req_id = x
  <2>1. Headed(s, x, Len(answer[x]))
    BY <1>8, Zenon DEF Holds
  <2> QED
    BY <2>1, HeadedFields
<1>11. PICK a, m, f : a = Answer(s, n, w) /\ m = BodyCells("callback", x, n, w) /\ f = Written(a)
  OBVIOUS
<1>12. n > 0 => n \in 0..MaxBody
  BY <1>2, MsgBufferAssumption DEF NoResult
<1>13. /\ answer' \in [Req -> Seq(Cells)] /\ Len(answer'[x]) <= MaxBody /\ Holds(a, x, answer'[x])
       /\ \A y \in Req : y # x => answer'[y] = answer[y]
  <2>1. CASE n > 0
    <3>1. m \in Seq(Cells) /\ Len(m) = n /\ n <= MaxBody
      BY <1>2, <1>4, <1>11, <1>12, <2>1, BodyCellsType
    <3>2. answer' = [answer EXCEPT ![x] = m]
      BY <1>4, <1>9, <1>11, <2>1, Zenon DEF ServerReadMsg
    <3>3. /\ answer' \in [Req -> Seq(Cells)] /\ answer'[x] = m
          /\ \A y \in Req : y # x => answer'[y] = answer[y]
      BY <1>4, <3>1, <3>2 DEF Types
    <3>4. Holds(a, x, m)
      BY <1>4, <1>10, <1>11, <1>12, <2>1, AnswerMade
    <3> QED
      BY <3>1, <3>3, <3>4, Zenon
  <2>2. CASE ~(n > 0)
    <3>1. answer' = answer /\ a = s
      BY <1>11, <2>2, Zenon DEF ServerReadMsg, Answer
    <3>2. Len(answer[x]) <= MaxBody /\ answer \in [Req -> Seq(Cells)]
      BY <1>4 DEF Types
    <3> QED
      BY <1>8, <3>1, <3>2, Zenon
  <2> QED
    BY <2>1, <2>2
<1>14. answer'[x] \in Seq(Cells)
  BY <1>4, <1>13
<1>15. Fits(a, 0, data_len(a)) /\ f \in Seq(Cells) /\ Len(f) = Span(answer'[x]) /\ Whole(f, 0, x, answer'[x])
  BY <1>11, <1>13, <1>14, WrittenWhole
<1>16. /\ toServer' = p
       /\ \/ /\ toClient' = toClient \o f \o (IF times = 2 THEN f ELSE <<>>)
             /\ crash' = crash
          \/ crash' = "badfree" /\ toClient' = toClient
  BY <1>7, <1>8, <1>11, <1>15, Zenon DEF ServerReadMsg
<1>17. PICK D : D = A \cup {x}
  OBVIOUS
<1>18. D \in SUBSET Req /\ D \subseteq 1..(msg_index_ - 1) /\ A \subseteq D
  BY <1>2, <1>4, <1>17 DEF Open
<1>19. \A y \in A : recv'[y] = recv[y] /\ answer'[y] = answer[y]
  BY <1>1, <1>4, <1>13
<1>20. \E E \in SUBSET Nat : ServerFramed(D, E)'
  <2>1. PICK E \in SUBSET Nat : (\A any : At(p, any, 0, E, answer, ids)) /\ Once(p, E)
    BY <1>6, <1>8, Zenon DEF Past
  <2>2. \A y \in ids : answer'[y] = answer[y]
    BY <1>6, <1>13, Zenon
  <2>3. At(p, None, 0, E, answer, ids) /\ ids \subseteq ids /\ (0 # 0 => answer'[0] = answer[0])
    BY <2>1, Zenon
  <2>4. At(p, None, 0, E, answer', ids)
    BY <2>2, <2>3, AtKept
  <2>5. Open(D)' \ {0} = ids
    BY <1>1, <1>2, <1>5, <1>17 DEF Open
  <2>6. At(toServer', reading', 0, E, answer', Open(D)' \ {0})
    BY <1>1, <1>16, <2>4, <2>5, Zenon
  <2> QED
    BY <1>1, <1>16, <2>1, <2>6, Zenon DEF ServerFramed
<1>21. toClient' \in Seq(Cells) /\ \E E \in SUBSET Nat : ClientFramed(D, E)'
  <2>1. PICK y \in A \cup {0} : /\ y = 0 => into = 0
                                /\ y # 0 => into \in {y, -1}
                                /\ At(toClient, Reader, y, C, answer, A)
    BY Zenon DEF Framing, ClientFramed
  <2>2. Reader' = Reader /\ into' = into /\ y \in D \cup {0}
    <3>1. into' = into /\ temp' = temp /\ recv' = recv
      BY <1>1
    <3>2. y \in D \cup {0}
      BY <1>17
    <3> QED
      BY <3>1, <3>2, Zenon DEF Reader
  <2>3. A \in SUBSET Nat /\ A \subseteq A /\ \A z \in A : answer'[z] = answer[z] /\ answer'[z] \in Seq(Cells)
    BY <1>2, <1>13, <1>19
  <2>4. y # 0 => answer'[y] = answer[y] /\ answer'[y] \in Seq(Cells)
    BY <2>3
  <2>5. At(toClient, Reader, y, C, answer', A)
    BY <2>1, <2>3, <2>4, AtKept
  <2>6. toClient' \in Seq(Cells) /\ \E E \in SUBSET Nat : At(toClient', Reader, y, E, answer', D)
    <3>1. CASE toClient' = toClient
      <4>1. At(toClient, Reader, y, C, answer', D)
        BY <1>18, <2>4, <2>5, AtKept
      <4> QED
        BY <1>2, <3>1, <4>1, Zenon
    <3>2. CASE toClient' = toClient \o f \o (IF times = 2 THEN f ELSE <<>>)
      <4>1. toClient' \in Seq(Cells) /\ \E E \in SUBSET Nat : At(toClient', Reader, y, E, answer', A \cup {x})
        <5>1. PICK q, rec, ans, new : q = toClient /\ rec = Reader /\ ans = answer' /\ new = toClient'
          OBVIOUS
        <5>2. /\ q \in Seq(Cells) /\ A \in SUBSET Nat /\ \A z \in A : ans[z] \in Seq(Cells)
              /\ At(q, rec, y, C, ans, A) /\ (y # 0 => ans[y] \in Seq(Cells))
          BY <1>2, <2>3, <2>4, <2>5, <5>1, Zenon
        <5>3. ans[x] \in Seq(Cells) /\ Len(f) = Span(ans[x]) /\ Whole(f, 0, x, ans[x]) /\ f \in Seq(Cells)
          BY <1>14, <1>15, <5>1, Zenon
        <5>4. new = q \o f \o (IF times = 2 THEN f ELSE <<>>)
          BY <3>2, <5>1, Zenon
        <5>5. new \in Seq(Cells) /\ \E E \in SUBSET Nat : At(new, rec, y, E, ans, A \cup {x})
          BY <1>4, <5>2, <5>3, <5>4, Replied
        <5> QED
          BY <5>1, <5>5, Zenon
      <4> QED
        BY <1>17, <4>1, Zenon
    <3> QED
      BY <1>16, <3>1, <3>2, Zenon
  <2> QED
    BY <2>1, <2>2, <2>6, Zenon DEF ClientFramed
<1>22. RecordsHold(D)'
  BY <1>1, <1>18, <1>19, RecordsKept DEF Framing
<1>23. Types'
  <2>1. \A y \in Req : Len(answer'[y]) <= MaxBody
    BY <1>13 DEF Types
  <2>2. crash' \in {"none", "badfree", "dangling"}
    BY <1>1, <1>16, Zenon
  <2> QED
    BY <1>1, <1>8, <1>13, <1>16, <1>21, <2>1, <2>2, Zenon DEF Types
<1>24. Inv'
  <2>1. D \subseteq 1..(msg_index_' - 1)
    BY <1>1, <1>18, Zenon
  <2> QED
    BY <1>18, <1>20, <1>21, <1>22, <1>23, <2>1, Zenon DEF Inv, Framing
<1>25. Bears(s, answer, msg_index_) /\ Bears(a, answer', msg_index_)
  BY <1>8, <1>13, Zenon DEF Bears, Open
<1>26. Still
  BY <1>19, HeldStill DEF Framing
<1> QED
  BY <1>7, <1>11, <1>24, <1>25, <1>26, Zenon

\* The client reads the header of the next reply, into the record of the request
\* or into a new one.
LEMMA ClientReadHeaderStep ==
    ASSUME Types, NEW A \in SUBSET Req, NEW S \in SUBSET Nat, NEW C \in SUBSET Nat, Framing(A, S, C),
           ClientReadHeader
    PROVE  Inv' /\ Still
<1>1. /\ UNCHANGED <<msg_index_, toServer, reading, recv_msg_map_, status, held, answer, crash>>
      /\ into = 0 /\ Len(toClient) >= HeadSize
      /\ toClient' = SubSeq(toClient, HeadSize + 1, Len(toClient))
  BY DEF ClientReadHeader, users
<1>2. /\ 0 \notin A /\ -1 \notin A /\ \A y \in Req : answer[y] \in Seq(Cells) /\ Len(answer[y]) \in 0..MaxBody
      /\ Req \in SUBSET (Nat \ {0}) /\ toClient \in Seq(Cells) /\ HeadSize \in Nat /\ Len(toClient) \in Nat
  BY Requests, LenProperties DEF Framing, Types
<1>3. At(toClient, Reader, 0, C, answer, A)
  <2>1. PICK y \in A \cup {0} : /\ y = 0 => into = 0
                                /\ y # 0 => into \in {y, -1}
                                /\ At(toClient, Reader, y, C, answer, A)
    BY Zenon DEF Framing, ClientFramed
  <2>2. y = 0
    BY <1>1, <2>1
  <2> QED
    BY <2>1, <2>2, Zenon
<1>4. PICK p : p = SubSeq(toClient, HeadSize + 1, Len(toClient))
  OBVIOUS
<1>5. p \in Seq(Cells) /\ \E r \in A, E \in SUBSET Nat :
              /\ HeadOf(toClient) = Head_(r, Len(answer[r]), MetaSize)
              /\ \A new : Headed(new, r, Len(answer[r])) => At(p, new, r, E, answer, A)
  <2>1. /\ A \in SUBSET (Nat \ {0}) /\ HeadSize <= Len(toClient)
        /\ \A y \in A : answer[y] \in Seq(Cells)
    BY <1>1, <1>2
  <2> QED
    BY <1>2, <1>3, <1>4, <2>1, AtHeader
<1>6. PICK r \in A, E \in SUBSET Nat :
              /\ HeadOf(toClient) = Head_(r, Len(answer[r]), MetaSize)
              /\ \A new : Headed(new, r, Len(answer[r])) => At(p, new, r, E, answer, A)
  BY <1>5
<1>7. r \in Req /\ r \in Int /\ r # 0 /\ r # -1 /\ Len(answer[r]) \in 0..MaxBody /\ answer[r] \in Seq(Cells)
  <2>1. r \in Req /\ Len(answer[r]) \in 0..MaxBody /\ answer[r] \in Seq(Cells)
    BY <1>2, Zenon
  <2>2. r \in Nat /\ r # 0
    BY <1>2, <2>1
  <2> QED
    BY <2>1, <2>2
<1>8. PICK h : h = HeadOf(toClient) /\ h = Head_(r, Len(answer[r]), MetaSize) /\ h.req_id = r
  BY <1>6 DEF Head_
<1>9. /\ r \in recv_msg_map_ => into' = r /\ recv' = [recv EXCEPT ![r] = head(recv[r], h)] /\ temp' = temp
      /\ r \notin recv_msg_map_ => into' = -1 /\ recv' = recv /\ temp' = new_data(RPCStruct(h))
  BY <1>8, Zenon DEF ClientReadHeader
<1>10. ServerFramed(A, S)'
  BY <1>1, ServerKept DEF Framing
<1>11. CASE r \in recv_msg_map_
  <2>1. PICK t : t = head(recv[r], h)
    OBVIOUS
  <2>2. /\ Headed(t, r, Len(answer[r]))
        /\ Holds(recv[r], r, answer[r]) => Holds(t, r, answer[r]) /\ t.base = recv[r].base
    <3>1. Laid(recv[r])
      BY <1>7 DEF Types
    <3> QED
      BY <1>7, <1>8, <2>1, <3>1, HeadMade
  <2>3. Laid(t) /\ t \in Struct /\ t.head.req_id = r
    BY <2>2, HeadedFields DEF Headed
  <2>4. recv' = [recv EXCEPT ![r] = t] /\ into' = r /\ temp' = temp
    BY <1>9, <1>11, <2>1, Zenon
  <2>5. recv' \in [Req -> Struct] /\ recv'[r] = t /\ \A y \in Req : y # r => recv'[y] = recv[y]
    BY <1>7, <2>3, <2>4 DEF Types
  <2>6. Types'
    <3>1. \A y \in Req : Laid(recv'[y]) /\ recv'[y].head.req_id \in {-1, y}
      <4> SUFFICES ASSUME NEW y \in Req PROVE Laid(recv'[y]) /\ recv'[y].head.req_id \in {-1, y}
        OBVIOUS
      <4>1. CASE y = r
        BY <2>3, <2>5, <4>1, Zenon
      <4>2. CASE y # r
        <5>1. recv'[y] = recv[y]
          BY <2>5, <4>2, Zenon
        <5> QED
          BY <5>1, Zenon DEF Types
      <4> QED
        BY <4>1, <4>2
    <3>2. into' \in Req \cup {-1, 0}
      BY <1>7, <2>4
    <3>3. \A y \in Req : Len(answer'[y]) <= MaxBody
      BY <1>1, Zenon DEF Types
    <3> QED
      BY <1>1, <1>4, <1>5, <2>4, <2>5, <3>1, <3>2, <3>3, Zenon DEF Types
  <2>7. ClientFramed(A, E)'
    <3>1. Reader' = t
      BY <1>7, <2>4, <2>5, Zenon DEF Reader
    <3>2. At(toClient', Reader', r, E, answer', A)
      BY <1>1, <1>4, <1>6, <2>2, <3>1, Zenon
    <3> QED
      BY <1>7, <2>4, <3>2, Zenon DEF ClientFramed
  <2>8. \A y \in Req : status[y] = "READ_OK" \/ y \in held =>
           y \in A /\ Holds(recv'[y], y, answer[y]) /\ recv'[y].base = recv[y].base
    <3> SUFFICES ASSUME NEW y \in Req, status[y] = "READ_OK" \/ y \in held
                 PROVE  y \in A /\ Holds(recv'[y], y, answer[y]) /\ recv'[y].base = recv[y].base
      OBVIOUS
    <3>1. y \in A /\ Holds(recv[y], y, answer[y])
      BY Zenon DEF Framing, RecordsHold
    <3>2. CASE y = r
      BY <2>2, <2>5, <3>1, <3>2, Zenon
    <3>3. CASE y # r
      BY <2>5, <3>1, <3>3, Zenon
    <3> QED
      BY <3>2, <3>3
  <2>9. RecordsHold(A)' /\ Still
    <3>1. status' = status /\ held' = held /\ answer' = answer /\ \A y \in held : y \in Req
      BY <1>1 DEF Types
    <3> QED
      BY <2>8, <3>1, Zenon DEF RecordsHold, Still
  <2> QED
    BY <1>1, <1>10, <2>6, <2>7, <2>9, Zenon DEF Inv, Framing
<1>12. CASE r \notin recv_msg_map_
  <2>1. into' = -1 /\ recv' = recv /\ temp' = new_data(RPCStruct(h))
    BY <1>9, <1>12, Zenon
  <2>2. Headed(temp', r, Len(answer[r])) /\ Laid(temp') /\ temp'.head.req_id = r
    BY <1>7, <1>8, <2>1, NewRecord
  <2>3. Types'
    <3>1. temp'.head.req_id \in Req \cup {-1} /\ into' \in Req \cup {-1, 0}
      BY <1>7, <2>1, <2>2
    <3> QED
      BY <1>1, <1>4, <1>5, <2>1, <2>2, <3>1, Zenon DEF Types
  <2>4. ClientFramed(A, E)'
    <3>1. Reader' = temp'
      BY <2>1, Zenon DEF Reader
    <3>2. At(toClient', Reader', r, E, answer', A)
      BY <1>1, <1>4, <1>6, <2>2, <3>1, Zenon
    <3> QED
      BY <1>7, <2>1, <3>2, Zenon DEF ClientFramed
  <2>5. \A y \in A : recv'[y] = recv[y] /\ answer'[y] = answer[y]
    BY <1>1, <2>1, Zenon
  <2>6. RecordsHold(A)' /\ Still
    BY <1>1, <2>5, RecordsKept, HeldStill DEF Framing
  <2> QED
    BY <1>1, <1>10, <2>3, <2>4, <2>6, Zenon DEF Inv, Framing
<1> QED
  BY <1>11, <1>12

\* The client reads the rest of the reply: the record holds the answer.
LEMMA ClientReadMsgStep ==
    ASSUME Types, NEW A \in SUBSET Req, NEW S \in SUBSET Nat, NEW C \in SUBSET Nat, Framing(A, S, C),
           ClientReadMsg
    PROVE  /\ Inv' /\ Still
           /\ Bears(Store(Reader, HeadSize, SubSeq(toClient, 1, recv_msg_len(Reader))), answer, msg_index_)
<1>1. /\ UNCHANGED <<msg_index_, toServer, reading, recv_msg_map_, held, answer>>
      /\ into # 0 /\ into' = 0 /\ temp' = RPCStruct(RPCStructHead) /\ crash = "none"
  BY DEF ClientReadMsg, users
<1>2. /\ 0 \notin A /\ -1 \notin A /\ \A y \in Req : answer[y] \in Seq(Cells) /\ Len(answer[y]) \in 0..MaxBody
      /\ Req \in SUBSET (Nat \ {0}) /\ toClient \in Seq(Cells)
  BY Requests DEF Framing, Types
<1>3. PICK x \in A : into \in {x, -1} /\ At(toClient, Reader, x, C, answer, A)
  <2>1. PICK y \in A \cup {0} : /\ y = 0 => into = 0
                                /\ y # 0 => into \in {y, -1}
                                /\ At(toClient, Reader, y, C, answer, A)
    BY Zenon DEF Framing, ClientFramed
  <2>2. y # 0
    BY <1>1, <2>1, Zenon
  <2> QED
    BY <2>1, <2>2
<1>4. x \in Req /\ x # 0 /\ x # -1 /\ answer[x] \in Seq(Cells) /\ \A y \in A : answer[y] \in Seq(Cells)
  <2>1. x \in Req /\ answer[x] \in Seq(Cells) /\ \A y \in A : answer[y] \in Seq(Cells)
    BY <1>2, Zenon
  <2> QED
    BY <1>2, <2>1
<1>5. PICK n, p, t : /\ n = recv_msg_len(Reader) /\ p = SubSeq(toClient, n + 1, Len(toClient))
                     /\ t = Store(Reader, HeadSize, SubSeq(toClient, 1, n))
  OBVIOUS
<1>6. /\ Fits(Reader, HeadSize, n) /\ Holds(t, x, answer[x]) /\ t.base = Reader.base
      /\ p \in Seq(Cells) /\ Past(toClient, p, C, answer, A)
  <2>1. ReadInto(toClient, Reader, x, C, answer, A)
    BY <1>2, <1>3, <1>4, AtRest
  <2> QED
    BY <1>5, <2>1, Zenon DEF ReadInto
<1>7. /\ toClient' = p /\ crash' = crash
      /\ into = -1 => recv' = recv /\ status' = status
      /\ into # -1 => recv' = [recv EXCEPT ![into] = t] /\ status' = [status EXCEPT ![into] = "READ_OK"]
  BY <1>5, <1>6, Zenon DEF ClientReadMsg, Reader
<1>8. ServerFramed(A, S)'
  BY <1>1, ServerKept DEF Framing
<1>9. \E E \in SUBSET Nat : ClientFramed(A, E)'
  <2>1. PICK E \in SUBSET Nat : \A any : At(p, any, 0, E, answer, A)
    BY <1>6, Zenon DEF Past
  <2>2. At(toClient', Reader', 0, E, answer', A)
    BY <1>1, <1>7, <2>1, Zenon
  <2> QED
    BY <1>1, <2>2, Zenon DEF ClientFramed
<1>10. Laid(temp') /\ temp'.head.req_id \in Req \cup {-1}
  <2>1. RPCStruct(RPCStructHead).head = RPCStructHead
    BY DEF RPCStruct
  <2>2. temp'.head.req_id = -1 /\ Laid(temp')
    BY <1>1, <2>1, ConstructorLaid, Zenon
  <2> QED
    BY <2>2
<1>11. ASSUME into = -1 PROVE Inv' /\ Still
  <2>1. Types'
    <3>1. into' \in Req \cup {-1, 0}
      BY <1>1
    <3> QED
      BY <1>1, <1>6, <1>7, <1>10, <1>11, <3>1, Zenon DEF Types
  <2>2. \A y \in A : recv'[y] = recv[y] /\ answer'[y] = answer[y]
    BY <1>1, <1>7, <1>11, Zenon
  <2>3. RecordsHold(A)' /\ Still
    <3>1. UNCHANGED <<status, held>> /\ A \subseteq A
      BY <1>1, <1>7, <1>11
    <3> QED
      BY <2>2, <3>1, RecordsKept, HeldStill DEF Framing
  <2> QED
    BY <1>1, <1>8, <1>9, <2>1, <2>3, Zenon DEF Inv, Framing
<1>12. ASSUME into # -1 PROVE Inv' /\ Still
  <2>1. into = x /\ Reader = recv[x]
    BY <1>3, <1>12, Zenon DEF Reader
  <2>2. Laid(t) /\ t \in Struct /\ t.head.req_id = x
    <3>1. Headed(t, x, Len(answer[x]))
      BY <1>6, Zenon DEF Holds
    <3> QED
      BY <3>1, HeadedFields DEF Headed
  <2>3. recv' = [recv EXCEPT ![x] = t] /\ status' = [status EXCEPT ![x] = "READ_OK"]
    BY <1>7, <1>12, <2>1, Zenon
  <2>4. recv' \in [Req -> Struct] /\ recv'[x] = t /\ \A y \in Req : y # x => recv'[y] = recv[y]
    BY <1>4, <2>2, <2>3 DEF Types
  <2>5. /\ status' \in [Req -> {"UNKNOWN", "READ_OK", "TIMEOUT"}]
        /\ \A y \in Req : y # x => status'[y] = status[y]
    BY <1>4, <2>3 DEF Types
  <2>6. Types'
    <3>1. \A y \in Req : Laid(recv'[y]) /\ recv'[y].head.req_id \in {-1, y}
      <4> SUFFICES ASSUME NEW y \in Req PROVE Laid(recv'[y]) /\ recv'[y].head.req_id \in {-1, y}
        OBVIOUS
      <4>1. CASE y = x
        BY <2>2, <2>4, <4>1, Zenon
      <4>2. CASE y # x
        <5>1. recv'[y] = recv[y]
          BY <2>4, <4>2, Zenon
        <5> QED
          BY <5>1, Zenon DEF Types
      <4> QED
        BY <4>1, <4>2
    <3>2. into' \in Req \cup {-1, 0}
      BY <1>1
    <3>3. \A y \in Req : Len(answer'[y]) <= MaxBody
      BY <1>1, Zenon DEF Types
    <3> QED
      BY <1>1, <1>6, <1>7, <1>10, <2>4, <2>5, <3>1, <3>2, <3>3, Zenon DEF Types
  <2>7. RecordsHold(A)'
    <3> SUFFICES ASSUME NEW y \in Req, status'[y] = "READ_OK" \/ y \in held'
                 PROVE  y \in A /\ Holds(recv'[y], y, answer'[y])
      BY DEF RecordsHold
    <3>1. CASE y = x
      BY <1>1, <1>6, <2>4, <3>1, Zenon
    <3>2. CASE y # x
      <4>1. status[y] = "READ_OK" \/ y \in held
        BY <1>1, <2>5, <3>2, Zenon
      <4> QED
        BY <1>1, <2>4, <3>2, <4>1, Zenon DEF Framing, RecordsHold
    <3> QED
      BY <3>1, <3>2
  <2>8. Still
    <3>1. answer' = answer /\ \A y \in held : y \in Req
      BY <1>1 DEF Types
    <3> QED
      BY <1>6, <2>1, <2>4, <3>1, Zenon DEF Still
  <2> QED
    BY <1>1, <1>8, <1>9, <2>6, <2>7, <2>8, Zenon DEF Inv, Framing
<1>13. Bears(t, answer, msg_index_)
  BY <1>6, Zenon DEF Framing, Bears
<1> QED
  BY <1>5, <1>11, <1>12, <1>13, Zenon

\* Nothing happens.
LEMMA StutterStep ==
    ASSUME Inv, UNCHANGED vars
    PROVE  Inv' /\ Still
<1>1. /\ UNCHANGED <<msg_index_, toServer, reading, answer>> /\ UNCHANGED <<toClient, into, temp>>
      /\ UNCHANGED <<status, held>> /\ UNCHANGED <<recv, recv_msg_map_, crash>>
  BY DEF vars, users
<1>2. PICK A \in SUBSET Req, S \in SUBSET Nat, C \in SUBSET Nat : Framing(A, S, C)
  BY DEF Inv
<1>3. Types'
  BY <1>1, Zenon DEF Inv, Types
<1>4. \A x \in A : recv'[x] = recv[x] /\ answer'[x] = answer[x]
  BY <1>1, Zenon
<1>5. 0 \notin A /\ -1 \notin A /\ A \subseteq A
  BY <1>2, Requests DEF Framing, Inv
<1>6. ServerFramed(A, S)' /\ ClientFramed(A, C)' /\ RecordsHold(A)'
  BY <1>1, <1>2, <1>4, <1>5, ServerKept, ClientKept, RecordsKept DEF Framing
<1>7. Inv'
  BY <1>1, <1>2, <1>3, <1>6, Zenon DEF Inv, Framing
<1> QED
  BY <1>2, <1>4, <1>7, HeldStill DEF Framing, Inv

\* Every step keeps the invariant, and what users have pointers to.
LEMMA NextInv ==
    ASSUME Inv, [Next]_vars
    PROVE  Inv' /\ Still
<1>1. Types
  BY DEF Inv
<1>2. PICK A \in SUBSET Req, S \in SUBSET Nat, C \in SUBSET Nat : Framing(A, S, C)
  BY DEF Inv
<1>3. ASSUME NEW n \in 0..MaxBody, NEW z \in BOOLEAN, Write(n, z) PROVE Inv' /\ Still
  BY <1>1, <1>2, <1>3, WriteStep
<1>4. CASE ServerReadHeader
  BY <1>1, <1>2, <1>4, ServerReadHeaderStep
<1>5. ASSUME NEW n \in Results \cup {NoResult}, NEW z \in BOOLEAN, NEW times \in 1..MaxReplies,
             ServerReadMsg(n, z, times)
      PROVE  Inv' /\ Still
  BY <1>1, <1>2, <1>5, ServerReadMsgStep
<1>6. CASE ClientReadHeader
  BY <1>1, <1>2, <1>6, ClientReadHeaderStep
<1>7. CASE ClientReadMsg
  BY <1>1, <1>2, <1>7, ClientReadMsgStep
<1>8. ASSUME NEW r \in Req, Timeout(r) PROVE Inv' /\ Still
  BY <1>1, <1>2, <1>8, TimeoutStep
<1>9. ASSUME NEW r \in Req, UserBody(r) PROVE Inv' /\ Still
  BY <1>1, <1>2, <1>9, UserBodyStep
<1>10. ASSUME NEW r \in Req, Erase(r) PROVE Inv' /\ Still
  BY <1>1, <1>2, <1>10, EraseStep
<1>11. ASSUME NEW r \in Req, UserRead(r) \/ UserDrop(r) \/ UserFindsFreed(r) PROVE Inv' /\ Still
  BY <1>1, <1>2, <1>11, UserStep
<1>12. CASE UNCHANGED vars
  BY <1>12, StutterStep
<1> QED
  BY <1>3, <1>4, <1>5, <1>6, <1>7, <1>8, <1>9, <1>10, <1>11, <1>12, Zenon DEF Next

-----------------------------------------------------------------------------
(* What is printed *)

\* A request whose body and result are C strings has such an answer, and no other
\* was printed beyond its buffer.
TextInv ==
    /\ reader \in [Req -> {"none", "has", "gone"}]
    /\ bare \subseteq Req /\ past \subseteq bare
    /\ \A r \in 1..(msg_index_ - 1) : r \notin bare => Text(answer[r])

\* A record that holds a C string is printed to the nul.
LEMMA TextEnds ==
    ASSUME NEW s, NEW r, NEW m \in Seq(Cells), Holds(s, r, m), Text(m)
    PROVE  EndsIn(s)
<1>1. PICK l, o, d : Len(m) = l /\ s.body_offset = o /\ s.data = d
  OBVIOUS
<1>2. /\ HeadSize \in Nat /\ MetaSize \in Nat /\ o = HeadSize + MetaSize /\ l \in Nat
      /\ Len(d) \in Nat /\ HeadSize + MetaSize + l <= Len(d)
  BY <1>1, HeadedFields, MsgBufferAssumption DEF Holds, HeadSize
<1>3. l > 0 /\ m[l][1] = "nul"
  BY <1>1 DEF Text
<1>4. l \in 1..l /\ o + l \in 1..Len(d) /\ o + l > o
  BY <1>2, <1>3
<1>5. d[o + l] = m[l]
  BY <1>1, <1>4, Zenon DEF Holds, BodyAt
<1> QED
  BY <1>1, <1>3, <1>4, <1>5, Zenon DEF EndsIn

\* Only requests without such an answer are printed beyond their buffer.
LEMMA Shown ==
    ASSUME NEW s, NEW ans, NEW bound, Bears(s, ans, bound), NEW B,
           \A r \in 1..(bound - 1) : ans[r] \in Seq(Cells) /\ (r \notin B => Text(ans[r]))
    PROVE  showInfo(s) \subseteq B
<1>1. PICK x \in 1..(bound - 1) : Holds(s, x, ans[x])
  BY Zenon DEF Bears
<1>2. s.head.req_id = x
  BY <1>1, HeadedFields DEF Holds
<1>3. CASE x \in B
  BY <1>2, <1>3 DEF showInfo
<1>4. CASE x \notin B
  <2>1. EndsIn(s)
    BY <1>1, <1>4, TextEnds
  <2> QED
    BY <2>1 DEF showInfo
<1> QED
  BY <1>3, <1>4

\* The requests that were sent are requests, with answers.
Answered == \A r \in 1..(msg_index_ - 1) : r \in Req /\ answer[r] \in Seq(Cells)

\* So it is.
LEMMA SentAnswers == Inv => Answered
<1> SUFFICES ASSUME Inv, NEW r \in 1..(msg_index_ - 1) PROVE r \in Req /\ answer[r] \in Seq(Cells)
  BY DEF Answered
<1>1. msg_index_ \in 1..(MaxReq + 1) /\ MaxReq \in Nat
  BY MsgBufferAssumption DEF Inv, Types
<1>2. r \in Req
  BY <1>1 DEF Req
<1> QED
  BY <1>2 DEF Inv, Types

\* Every step keeps that.
LEMMA TextStep == Inv /\ Inv' /\ TextInv /\ [Next]_vars => TextInv'
<1> SUFFICES ASSUME Inv, Inv', TextInv, [Next]_vars PROVE TextInv'
  OBVIOUS
<1>1. \A r \in 1..(msg_index_ - 1) : r \in Req /\ answer[r] \in Seq(Cells)
  BY SentAnswers DEF Answered
<1>2. \A r \in 1..(msg_index_' - 1) : r \in Req /\ answer'[r] \in Seq(Cells)
  <2>1. Answered'
    BY SentAnswers, PTL
  <2> QED
    BY <2>1 DEF Answered
<1>3. PICK A \in SUBSET Req, S \in SUBSET Nat, C \in SUBSET Nat : Framing(A, S, C)
  BY DEF Inv
<1>4. Types /\ MaxReq \in Nat /\ MaxBody \in Nat /\ msg_index_ \in Nat
  <2>1. Types /\ MaxReq \in Nat /\ MaxBody \in Nat
    BY MsgBufferAssumption DEF Inv
  <2> QED
    BY <2>1 DEF Types
<1>5. ASSUME NEW n \in 0..MaxBody, NEW z \in BOOLEAN, Write(n, z) PROVE TextInv'
  <2>1. PICK r : r = msg_index_
    OBVIOUS
  <2>2. /\ r \in Req /\ r \in Nat /\ r <= MaxReq /\ (z => n > 0) /\ msg_index_' = r + 1
        /\ bare' = (IF z THEN bare ELSE bare \cup {r})
        /\ past' = past \cup showInfo(newMsgBuf(r, n, z))
        /\ answer' = [answer EXCEPT ![r] = BodyCells("client", r, n, z)] /\ reader' = reader
    <3>1. r \in 1..(MaxReq + 1) /\ r <= MaxReq
      BY <1>5, <2>1 DEF Inv, Types, Write
    <3> QED
      BY <1>4, <1>5, <2>1, <3>1 DEF Write, users, Req
  <2>3. \A x \in 1..r : x \notin bare' => Text(answer'[x])
    <3> SUFFICES ASSUME NEW x \in 1..r, x \notin bare' PROVE Text(answer'[x])
      OBVIOUS
    <3>1. CASE x = r
      <4>1. z /\ n > 0 /\ n \in Nat
        BY <1>4, <2>2, <3>1
      <4>2. Text(BodyCells("client", r, n, z))
        BY <2>2, <4>1, BodyCellsType
      <4>3. answer'[r] = BodyCells("client", r, n, z)
        BY <1>4, <2>2, Zenon DEF Types
      <4> QED
        BY <3>1, <4>2, <4>3, Zenon
    <3>2. CASE x # r
      <4>1. x \in 1..(r - 1) /\ x \notin bare
        BY <2>2, <3>2
      <4>2. x \in Req /\ Text(answer[x])
        BY <1>1, <2>1, <4>1 DEF TextInv
      <4>3. answer'[x] = answer[x]
        BY <1>4, <2>2, <3>2, <4>2, Zenon DEF Types
      <4> QED
        BY <4>2, <4>3, Zenon
    <3> QED
      BY <3>1, <3>2
  <2>4. \A x \in 1..(msg_index_' - 1) : answer'[x] \in Seq(Cells) /\ (x \notin bare' => Text(answer'[x]))
    <3>1. 1..(msg_index_' - 1) = 1..r
      BY <2>2
    <3> QED
      BY <1>2, <2>3, <3>1, Zenon
  <2>5. showInfo(newMsgBuf(r, n, z)) \subseteq bare'
    <3>1. Bears(newMsgBuf(r, n, z), answer', msg_index_')
      BY <1>3, <1>4, <1>5, <2>1, WriteStep
    <3> QED
      BY <2>4, <3>1, Shown
  <2> QED
    BY <2>2, <2>4, <2>5 DEF TextInv
<1>6. ASSUME NEW n \in Results \cup {NoResult}, NEW z \in BOOLEAN, NEW times \in 1..MaxReplies,
             ServerReadMsg(n, z, times)
      PROVE  TextInv'
  <2>1. PICK s, a, r : /\ s = Store(reading, HeadSize, SubSeq(toServer, 1, recv_msg_len(reading)))
                       /\ a = Answer(s, n, z) /\ r = reading.head.req_id
    OBVIOUS
  <2>2. /\ (z => n > 0) /\ msg_index_' = msg_index_ /\ reader' = reader
        /\ answer' = (IF n > 0 /\ r \in Req
                      THEN [answer EXCEPT ![r] = BodyCells("callback", r, n, z)] ELSE answer)
        /\ bare' = (IF n > 0 /\ r \in Req /\ ~z THEN bare \cup {r} ELSE bare)
        /\ past' = past \cup showInfo(s) \cup showInfo(a)
    BY <1>6, <2>1, Zenon DEF ServerReadMsg, users
  <2>3. ASSUME NEW x \in 1..(msg_index_ - 1), x \notin bare' PROVE Text(answer'[x])
    <3>1. x \in Req /\ x \notin bare /\ Text(answer[x])
      BY <1>1, <2>2, <2>3 DEF TextInv
    <3>2. CASE n > 0 /\ x = r
      <4>1. z /\ n \in Nat /\ r \in Nat
        BY <1>4, <2>2, <2>3, <3>1, <3>2, MsgBufferAssumption DEF NoResult, Req
      <4>2. Text(BodyCells("callback", r, n, z))
        BY <3>2, <4>1, BodyCellsType
      <4>3. answer'[x] = BodyCells("callback", r, n, z)
        BY <1>4, <2>2, <3>1, <3>2, Zenon DEF Types
      <4> QED
        BY <4>2, <4>3, Zenon
    <3>3. CASE ~(n > 0 /\ x = r)
      <4>1. answer'[x] = answer[x]
        BY <1>4, <2>2, <3>1, <3>3, Zenon DEF Types
      <4> QED
        BY <3>1, <4>1, Zenon
    <3> QED
      BY <3>2, <3>3
  <2>4. /\ Bears(s, answer, msg_index_) /\ Bears(a, answer', msg_index_)
    BY <1>3, <1>4, <1>6, <2>1, ServerReadMsgStep
  <2>5. showInfo(s) \subseteq bare
    BY <1>1, <2>4, Shown DEF TextInv
  <2>6. showInfo(a) \subseteq bare'
    BY <1>2, <2>2, <2>3, <2>4, Shown
  <2> QED
    BY <2>2, <2>3, <2>5, <2>6 DEF TextInv
<1>7. CASE ClientReadMsg
  <2>1. PICK s : s = Store(Reader, HeadSize, SubSeq(toClient, 1, recv_msg_len(Reader)))
    OBVIOUS
  <2>2. UNCHANGED <<msg_index_, answer, bare, reader>> /\ past' = past \cup showInfo(s)
    BY <1>7, <2>1, Zenon DEF ClientReadMsg, Reader, users
  <2>3. Bears(s, answer, msg_index_)
    BY <1>3, <1>4, <1>7, <2>1, ClientReadMsgStep
  <2>4. showInfo(s) \subseteq bare
    BY <1>1, <2>3, Shown DEF TextInv
  <2> QED
    BY <2>2, <2>4 DEF TextInv
<1>8. ASSUME NEW r \in Req, NEW here, NEW there \in {"has", "gone"} \cup {reader[r]}, User(r, here, there)
      PROVE  TextInv'
  <2>1. reader' = [reader EXCEPT ![r] = there] /\ UNCHANGED <<msg_index_, answer, bare, past>>
    BY <1>8 DEF User, texts
  <2>2. there \in {"none", "has", "gone"}
    BY DEF TextInv
  <2>3. reader' \in [Req -> {"none", "has", "gone"}]
    BY <2>1, <2>2 DEF TextInv
  <2> QED
    BY <2>1, <2>3, Zenon DEF TextInv
<1>9. CASE ServerReadHeader \/ ClientReadHeader \/ (\E r \in Req : Timeout(r)) \/ UNCHANGED vars
  BY <1>9 DEF ServerReadHeader, ClientReadHeader, Timeout, TextInv, vars, texts, users
<1>10. ASSUME NEW r \in Req,
              UserRead(r) \/ UserBody(r) \/ UserDrop(r) \/ UserFindsFreed(r) \/ Erase(r)
       PROVE  TextInv'
  BY <1>8, <1>10 DEF UserRead, UserBody, UserDrop, UserFindsFreed, Erase
<1> QED
  BY <1>5, <1>6, <1>7, <1>9, <1>10 DEF Next

-----------------------------------------------------------------------------
\* The invariants hold in every state.
THEOREM Invariance == Spec => [](Inv /\ TextInv)
<1>1. Inv /\ [Next]_vars => Inv'
  BY NextInv
<1>2. Init => TextInv
  BY DEF Init, TextInv
<1> QED
  BY <1>1, <1>2, InitInv, TextStep, PTL DEF Spec

-----------------------------------------------------------------------------
(* What follows from the invariant *)

\* The values of the variables: the fields of every record are in their ranges, and
\* the record kept for a request has its id or none.
THEOREM TypeCorrect == Spec => []TypeOK
<1>1. Inv /\ TextInv => TypeOK
  <2> SUFFICES ASSUME Inv, TextInv PROVE TypeOK
    OBVIOUS
  <2>1. Types
    BY DEF Inv
  <2>2. \A s : Laid(s) => s.head.body_size \in -1..MaxBody /\ s.pre_body_size \in Nat
    BY Zenon DEF Laid
  <2>3. \A s \in {recv[r] : r \in Req} \cup {temp} :
           /\ s.head.req_id \in Req \cup {-1}
           /\ s.head.body_size \in -1..MaxBody
           /\ s.pre_body_size \in Nat
    <3>1. \A r \in Req : Laid(recv[r]) /\ recv[r].head.req_id \in {-1, r}
      BY <2>1, Zenon DEF Types
    <3>2. \A r \in Req : recv[r].head.req_id \in Req \cup {-1}
      BY <3>1
    <3>3. Laid(temp) /\ temp.head.req_id \in Req \cup {-1}
      BY <2>1, Zenon DEF Types
    <3> QED
      BY <2>2, <3>1, <3>2, <3>3, Zenon
  <2>4. reading.head.req_id \in Req \cup {-1}
    <3>1. PICK A \in SUBSET Req, S \in SUBSET Nat, C \in SUBSET Nat : Framing(A, S, C)
      BY DEF Inv
    <3>2. PICK x \in Open(A) \cup {0} :
             (x = 0 <=> reading = None) /\ At(toServer, reading, x, S, answer, Open(A) \ {x})
      BY <3>1, Zenon DEF Framing, ServerFramed
    <3>3. CASE x = 0
      <4>1. None.head.req_id = -1
        BY DEF None, RPCStructHead, Head_
      <4> QED
        BY <3>2, <3>3, <4>1
    <3>4. CASE x # 0
      <4>1. Headed(reading, x, Len(answer[x]))
        BY <3>2, <3>4, Zenon DEF At
      <4>2. reading.head.req_id = x
        BY <4>1, HeadedFields
      <4>3. x \in Req
        <5>1. Open(A) \in SUBSET Req
          BY <2>1, <3>1, Requests DEF Framing
        <5> QED
          BY <3>2, <3>4, <5>1
      <4> QED
        BY <4>2, <4>3
    <3> QED
      BY <3>3, <3>4
  <2>5. /\ msg_index_ \in 1..(MaxReq + 1)
        /\ \A r \in Req : recv[r].head.req_id \in {-1, r}
        /\ recv_msg_map_ \subseteq Req /\ into \in Req \cup {-1, 0} /\ held \subseteq Req
        /\ status \in [Req -> {"UNKNOWN", "READ_OK", "TIMEOUT"}]
    BY <2>1, Zenon DEF Types
  <2>6. crash \in {"none", "overrun", "badfree", "dangling"}
    BY <2>1 DEF Types
  <2> QED
    BY <2>3, <2>4, <2>5, <2>6, Zenon DEF TypeOK, TextInv
<1> QED
  BY <1>1, Invariance, PTL

\* No copy, read or write uses a cell outside an allocation, for records of any size
\* and messages of any length, and no log line does unless the body of the request
\* or its result is no C string.
THEOREM BoundsCorrect == Spec => []InBounds
<1>1. Inv /\ TextInv => InBounds
  BY DEF Inv, Types, TextInv, InBounds
<1> QED
  BY <1>1, Invariance, PTL

\* What a user finds in the records.
BodiesHeld ==
    \A r \in Req : status[r] = "READ_OK" \/ r \in held => BodyOf(recv[r]) = answer[r]

\* They find what the server meant.
LEMMA ReadHolds == Inv => BodiesHeld
<1> SUFFICES ASSUME Inv PROVE BodiesHeld
  OBVIOUS
<1>1. PICK A \in SUBSET Req, S \in SUBSET Nat, C \in SUBSET Nat : Framing(A, S, C)
  BY DEF Inv
<1>2. ASSUME NEW r \in Req, status[r] = "READ_OK" \/ r \in held
      PROVE  BodyOf(recv[r]) = answer[r]
  <2>1. Holds(recv[r], r, answer[r])
    BY <1>1, <1>2, Zenon DEF Framing, RecordsHold
  <2>2. answer[r] \in Seq(Cells)
    BY DEF Inv, Types
  <2> QED
    BY <2>1, <2>2, HoldsBody
<1> QED
  BY <1>2 DEF BodiesHeld

\* A request reads as answered only with the body the server meant for it.
THEOREM DeliveredCorrect == Spec => []Delivered
<1>1. Inv => Delivered
  BY ReadHolds, Zenon DEF Delivered, BodiesHeld
<1> QED
  BY <1>1, Invariance, PTL

\* The body behind a pointer a user has is neither moved nor changed while the user
\* has the RPCStruct_ptr or the record is in the map.
THEOREM PointerStableCorrect == Spec => PointerStable
<1> DEFINE Kept == \A r \in held : reader'[r] = "has" \/ r \in recv_msg_map_' =>
                      recv'[r].base = recv[r].base /\ BodyOf(recv'[r]) = BodyOf(recv[r])
<1>1. Inv' => BodiesHeld'
  BY ReadHolds, PTL
<1>2. Inv /\ [Next]_vars => [Kept]_vars
  <2> SUFFICES ASSUME Inv, [Next]_vars PROVE Kept
    OBVIOUS
  <2>1. Inv' /\ Still
    BY NextInv
  <2>2. \A r \in held : r \in Req /\ r \in held'
    BY DEF Inv, Types, Next, vars, Write, ServerReadHeader, ServerReadMsg, ClientReadHeader,
           ClientReadMsg, Timeout, User, UserRead, UserBody, UserDrop, UserFindsFreed, Erase, users
  <2>3. \A r \in held : BodyOf(recv[r]) = answer[r]
    BY <2>2, ReadHolds, Zenon DEF BodiesHeld
  <2>4. \A r \in Req : r \in held' => BodyOf(recv'[r]) = answer'[r]
    BY <1>1, <2>1, Zenon DEF BodiesHeld
  <2> QED
    BY <2>1, <2>2, <2>3, <2>4, Zenon DEF Still
<1> HIDE DEF Kept
<1>3. Spec => [][Kept]_vars
  BY <1>2, Invariance, PTL DEF Spec
<1> QED
  BY <1>3 DEF Kept, PointerStable

=============================================================================
