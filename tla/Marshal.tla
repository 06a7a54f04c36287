------------------------------- MODULE Marshal -------------------------------
(***************************************************************************)
(* Marshal (src/src/misc/marshal): a byte queue kept as a list of chunks    *)
(* over reference-counted raw_bytes, and the way connections use it: a      *)
(* packet is put in out_ behind a bookmark for its size, moved to a socket   *)
(* in pieces, read from the other end into in_ in pieces, and cut off into   *)
(* the Marshal of a request without copying.                               *)
(*                                                                         *)
(* A byte is a number: 0 before it is written, then the next of a counter,  *)
(* so that no two bytes of a run are equal; the two bytes of a size are 0    *)
(* and the size.                                                           *)
(***************************************************************************)
EXTENDS Naturals, SequencesExt, FiniteSets

CONSTANTS
    MinSize,    \* raw_bytes::min_size
    MaxBytes,   \* bound: payload bytes written
    MaxPackets, \* bound: packets
    MaxWrite,   \* bound: bytes of one write
    Wire,       \* bound: bytes in the socket
    EmptyMsg    \* a Python call without arguments may be made

ASSUME MarshalAssumption ==
    /\ {MinSize, MaxWrite, Wire} \subseteq Nat \ {0} /\ {MaxBytes, MaxPackets} \subseteq Nat
    /\ EmptyMsg \in BOOLEAN

Objects == {"msg", "out_", "in_", "req"} \* of a Python call; of the connection; of a request
Ids == 1 .. 2 * MaxBytes + 4 * MaxPackets + 4
HeaderSize == 2

VARIABLES
    raw,     \* the raw_bytes, << >> when free
    list,    \* the chunks of each Marshal
    size,    \* content_size_
    cnt,     \* write_cnt_ of out_
    bmark,   \* bmark_ of the connection: the places it points to
    wire,    \* what the socket holds
    next,    \* the next byte
    cur,     \* what was put in the packet that is being made
    sent, got, \* packets that were completed, and cut off in_
    asserts  \* no assert or verify has failed

vars == << raw, list, size, cnt, bmark, wire, next, cur, sent, got, asserts >>

Least(a, b) == IF a < b THEN a ELSE b
Most(a, b) == IF a < b THEN b ELSE a

-----------------------------------------------------------------------------
(* Chunks.  A state of the heap and of one list is [raw, l].                *)

Sz(R, c) == Len(R[c.d])
FullyWritten(R, c) == c.w = Sz(R, c)
FullyRead(R, c) == c.r = Sz(R, c)
Bytes(R, c) == SubSeq(R[c.d], c.r + 1, c.w)
Content(R, l) == FlattenSeq([i \in 1 .. Len(l) |-> Bytes(R, l[i])])

Free(R) == CHOOSE d \in Ids : R[d] = << >> /\ \A e \in 1 .. d - 1 : R[e] # << >>
Place(r, at, b) == [i \in 1 .. Len(r) |-> IF i > at /\ i <= at + Len(b) THEN b[i - at] ELSE r[i]]

\* new chunk(p, n), or an empty one, at the end of the list
NewChunk(s, b) ==
    LET d == Free(s.raw)
        r == Place([i \in 1 .. Most(MinSize, Len(b)) |-> 0], 0, b) IN
    [raw |-> [s.raw EXCEPT ![d] = r], l |-> Append(s.l, [d |-> d, r |-> 0, w |-> Len(b)])]

\* A new tail if there is none with room.
WithRoom(s) == IF s.l = << >> \/ FullyWritten(s.raw, Last(s.l)) THEN NewChunk(s, << >>) ELSE s

\* chunk::write, of as much as fits
WriteTail(s, b) ==
    LET c == Last(s.l)
        n == Least(Len(b), Sz(s.raw, c) - c.w) IN
    [raw |-> [s.raw EXCEPT ![c.d] = Place(@, c.w, SubSeq(b, 1, n))],
     l |-> [s.l EXCEPT ![Len(s.l)].w = @ + n]]

\* Fault: what does not fit in the tail is written from its start.
WriteWrapped(s, b) ==
    IF s.l = << >> \/ FullyWritten(s.raw, Last(s.l)) THEN NewChunk(s, b)
    ELSE LET n == Least(Len(b), Sz(s.raw, Last(s.l)) - Last(s.l).w) IN
         IF n < Len(b) THEN NewChunk(WriteTail(s, b), SubSeq(b, 1, Len(b) - n)) ELSE WriteTail(s, b)

\* Marshal::write
Write(s, b) ==
    IF s.l = << >> \/ FullyWritten(s.raw, Last(s.l)) THEN NewChunk(s, b)
    ELSE LET n == Least(Len(b), Sz(s.raw, Last(s.l)) - Last(s.l).w) IN
         IF n < Len(b) THEN NewChunk(WriteTail(s, b), SubSeq(b, n + 1, Len(b))) ELSE WriteTail(s, b)

\* assert(n_write > 0): something must fit in a tail that is not fully written.
WriteAsserts(s, n) == s.l = << >> \/ FullyWritten(s.raw, Last(s.l)) \/ n > 0

\* Marshal::read: n bytes are taken from the heads, which go when they are fully
\* read; it stops at a head that holds nothing.
RECURSIVE Read(_, _, _)
Read(R, l, n) ==
    IF n = 0 \/ l = << >> \/ Bytes(R, Head(l)) = << >> THEN l
    ELSE LET k == Least(n, Head(l).w - Head(l).r)
             c == [Head(l) EXCEPT !.r = @ + k] IN
         Read(R, IF FullyRead(R, c) THEN Tail(l) ELSE << c >> \o Tail(l), n - k)

\* Marshal::peek stops at a chunk that holds nothing.
RECURSIVE Peek(_, _, _)
Peek(R, l, n) ==
    IF n = 0 \/ l = << >> \/ Bytes(R, Head(l)) = << >> THEN << >>
    ELSE LET b == SubSeq(Bytes(R, Head(l)), 1, Least(n, Head(l).w - Head(l).r)) IN
         b \o Peek(R, Tail(l), n - Len(b))

\* Marshal::read_from_fd: the tails are filled until the socket has nothing more.
RECURSIVE ReadFromFd(_, _)
ReadFromFd(s, b) ==
    LET t == WithRoom(s)
        k == Least(Len(b), Sz(t.raw, Last(t.l)) - Last(t.l).w) IN
    IF b = << >> THEN t ELSE ReadFromFd(WriteTail(t, b), SubSeq(b, k + 1, Len(b)))

\* Fault: the copy ends where the chunk does.
CopyWhole(c, n) == c

\* shared_copy, of which no more than the n bytes asked for are kept
Copy(c, n) == [c EXCEPT !.w = Least(@, c.r + n)]

\* The loop of read_from_marshal that shares chunks: the copy of the source's head
\* ends where n does, and the source's own begins there.
RECURSIVE Share(_, _, _, _)
Share(R, to, from, n) ==
    IF n = 0 THEN [to |-> to, from |-> from]
    ELSE LET h == Head(from)
             k == Least(n, h.w - h.r)
             c == [h EXCEPT !.r = @ + k] IN
         Share(R, Append(to, Copy(h, n)),
               IF FullyRead(R, c) THEN Tail(from) ELSE << c >> \o Tail(from), n - k)

\* Marshal::read_from_marshal: bytes are copied into the room of the tail, and
\* chunks are shared from there on.
ReadFromMarshal(R, to, from, n) ==
    LET room == IF to = << >> THEN 0 ELSE Sz(R, Last(to)) - Last(to).w
        k == Least(room, n)
        t == IF room = 0 THEN [raw |-> R, l |-> to]
             ELSE Write([raw |-> R, l |-> to], Peek(R, from, k))
        f == Read(R, from, k)
        m == Share(t.raw, t.l, f, n - k) IN
    [raw |-> t.raw, to |-> m.to, from |-> m.from,
     ok |-> /\ room # 0 => WriteAsserts([raw |-> R, l |-> to], k) /\ Len(Peek(R, from, k)) = k]

-----------------------------------------------------------------------------
(* The objects *)

\* raw_bytes without a chunk are freed.
Collect(R, L) == [d \in Ids |-> IF \E m \in Objects, i \in 1 .. MaxBytes + 2 * MaxPackets + 2 :
                                    i <= Len(L[m]) /\ L[m][i].d = d THEN R[d] ELSE << >>]
Store(R, L) == raw' = Collect(R, L) /\ list' = L

TypeOK ==
    /\ raw \in [Ids -> Seq(Nat)]
    /\ \A m \in Objects : \A c \in ToSet(list[m]) :
          c.d \in Ids /\ raw[c.d] # << >> /\ c.r <= c.w /\ c.w <= Sz(raw, c)
    /\ size \in [Objects -> Nat] /\ cnt \in Nat
    /\ bmark \in Seq(Ids \X Nat) /\ wire \in Seq(Nat) /\ Len(wire) <= Wire
    /\ next \in 1 .. MaxBytes + 1 /\ cur \in Seq(Nat)
    /\ sent \in Seq(Seq(Nat)) /\ got \in Seq(Seq(Nat)) /\ asserts \in BOOLEAN

Init ==
    /\ raw = [d \in Ids |-> << >>] /\ list = [m \in Objects |-> << >>] /\ size = [m \in Objects |-> 0]
    /\ cnt = 0 /\ bmark = << >> /\ wire = << >> /\ next = 1 /\ cur = << >>
    /\ sent = << >> /\ got = << >> /\ asserts = TRUE

Fresh(n) == [i \in 1 .. n |-> next + i - 1]

\* begin_request and begin_reply: set_bookmark, one byte at a time
RECURSIVE Marks(_, _, _)
Marks(s, ps, n) ==
    IF n = 0 THEN [s |-> s, ps |-> ps]
    ELSE LET t == WithRoom(s) IN
         Marks(WriteTail(t, << 0 >>), Append(ps, << Last(t.l).d, Last(t.l).w + 1 >>), n - 1)

Begin ==
    /\ bmark = << >> /\ Len(sent) < MaxPackets
    /\ LET m == Marks([raw |-> raw, l |-> list["out_"]], << >>, HeaderSize) IN
       /\ Store(m.s.raw, [list EXCEPT !["out_"] = m.s.l]) /\ bmark' = m.ps
    /\ size' = [size EXCEPT !["out_"] = @ + HeaderSize]
    /\ asserts' = (asserts /\ cnt = 0)
    /\ UNCHANGED << cnt, wire, next, cur, sent, got >>

\* A value is written to the packet.
Put(n) ==
    /\ bmark # << >> /\ next + n <= MaxBytes + 1
    /\ LET s == [raw |-> raw, l |-> list["out_"]]
           t == Write(s, Fresh(n)) IN
       /\ Store(t.raw, [list EXCEPT !["out_"] = t.l])
       /\ asserts' = (asserts /\ WriteAsserts(s, n))
    /\ size' = [size EXCEPT !["out_"] = @ + n] /\ cnt' = cnt + n
    /\ next' = next + n /\ cur' = cur \o Fresh(n)
    /\ UNCHANGED << bmark, wire, sent, got >>

\* Python: arguments are written to a Marshal of their own,
Pack(n) ==
    /\ next + n <= MaxBytes + 1
    /\ LET s == [raw |-> raw, l |-> list["msg"]]
           t == Write(s, Fresh(n)) IN
       /\ Store(t.raw, [list EXCEPT !["msg"] = t.l])
       /\ asserts' = (asserts /\ WriteAsserts(s, n))
    /\ size' = [size EXCEPT !["msg"] = @ + n] /\ next' = next + n
    /\ UNCHANGED << cnt, bmark, wire, cur, sent, got >>

\* which is then moved into the packet and deleted.
PutMsg ==
    /\ bmark # << >> /\ (size["msg"] > 0 \/ EmptyMsg)
    /\ LET n == size["msg"]
           m == ReadFromMarshal(raw, list["out_"], list["msg"], n) IN
       /\ Store(m.raw, [list EXCEPT !["out_"] = m.to, !["msg"] = << >>])
       /\ asserts' = (asserts /\ m.ok)
       /\ size' = [size EXCEPT !["out_"] = @ + n, !["msg"] = 0] /\ cnt' = cnt + n
       /\ cur' = cur \o Content(raw, list["msg"])
    /\ UNCHANGED << bmark, wire, next, sent, got >>

\* write_bookmark
Mark(ps, b) ==
    [d \in Ids |-> [i \in 1 .. Len(raw[d]) |->
        IF << d, i >> \in ToSet(ps) THEN b[CHOOSE j \in 1 .. Len(ps) : ps[j] = << d, i >>] ELSE raw[d][i]]]

\* Fault: the count is not reset.
EndKeeps ==
    /\ bmark # << >> /\ raw' = Mark(bmark, << 0, cnt >>)
    /\ bmark' = << >> /\ sent' = Append(sent, cur) /\ cur' = << >>
    /\ UNCHANGED << list, size, cnt, wire, next, got, asserts >>

\* end_request and end_reply: the count is written at the bookmark, and reset.
End ==
    /\ bmark # << >> /\ raw' = Mark(bmark, << 0, cnt >>)
    /\ cnt' = 0 /\ bmark' = << >> /\ sent' = Append(sent, cur) /\ cur' = << >>
    /\ UNCHANGED << list, size, wire, next, got, asserts >>

\* handle_write: write_to_fd, of as many bytes as the socket takes.
WriteToFd(n) ==
    /\ bmark = << >> /\ n <= size["out_"] /\ Len(wire) + n <= Wire
    /\ wire' = wire \o Peek(raw, list["out_"], n)
    /\ Store(raw, [list EXCEPT !["out_"] = Read(raw, @, n)])
    /\ size' = [size EXCEPT !["out_"] = @ - n]
    /\ UNCHANGED << cnt, bmark, next, cur, sent, got, asserts >>

\* handle_read: read_from_fd, of what has arrived.
HandleRead(n) ==
    /\ n <= Len(wire)
    /\ LET t == ReadFromFd([raw |-> raw, l |-> list["in_"]], SubSeq(wire, 1, n)) IN
       Store(t.raw, [list EXCEPT !["in_"] = t.l])
    /\ wire' = SubSeq(wire, n + 1, Len(wire)) /\ size' = [size EXCEPT !["in_"] = @ + n]
    /\ UNCHANGED << cnt, bmark, next, cur, sent, got, asserts >>

\* handle_read: a packet is complete.
Complete ==
    LET h == Peek(raw, list["in_"], HeaderSize) IN
    Len(h) = HeaderSize /\ size["in_"] >= h[2] + HeaderSize

\* It is cut off into a new Marshal, from which all is read.
Cut ==
    /\ Complete
    /\ LET n == Peek(raw, list["in_"], HeaderSize)[2]
           m == ReadFromMarshal(raw, << >>, Read(raw, list["in_"], HeaderSize), n) IN
       /\ Store(m.raw, [list EXCEPT !["in_"] = m.from, !["req"] = m.to])
       /\ size' = [size EXCEPT !["in_"] = @ - n - HeaderSize, !["req"] = n]
       /\ got' = Append(got, Peek(m.raw, m.to, n))
       /\ asserts' = (asserts /\ m.ok)
    /\ UNCHANGED << cnt, bmark, wire, next, cur, sent >>

\* The handler reads its arguments.
Argument(n) ==
    /\ n <= size["req"]
    /\ Store(raw, [list EXCEPT !["req"] = Read(raw, @, n)]) /\ size' = [size EXCEPT !["req"] = @ - n]
    /\ UNCHANGED << cnt, bmark, wire, next, cur, sent, got, asserts >>

Next ==
    \/ Begin \/ PutMsg \/ End \/ Cut
    \/ \E n \in 1 .. MaxWrite : Put(n) \/ Pack(n) \/ Argument(n)
    \/ \E n \in 1 .. Wire : WriteToFd(n) \/ HandleRead(n)

Spec == Init /\ [][Next]_vars

-----------------------------------------------------------------------------
(* Properties *)

\* The connection is a channel: however its bytes are cut by chunks, shared and moved
\* by the socket, the packets cut off in_ are those that were put in out_, in order.
C == INSTANCE Channel
IsChannel == C!Spec

\* No assert or verify fails: the count is 0 when a packet is begun, a write to a tail
\* that is not fully written makes progress, content_size_ is what the chunks hold, and
\* a head that is fully read is gone.  All of it can be reached by read(): only the
\* last chunk has room, and no chunk before it is empty.
Asserts ==
    /\ TypeOK /\ asserts /\ \A m \in Objects : size[m] = Len(Content(raw, list[m]))
    /\ \A m \in Objects : size[m] > 0 => ~FullyRead(raw, Head(list[m]))
    /\ \A m \in Objects : \A i \in 1 .. Len(list[m]) - 1 :
          (m \in {"out_", "in_"} => FullyWritten(raw, list[m][i])) /\ Bytes(raw, list[m][i]) # << >>

\* "Only one Marshal should be able to write" to a shared chunk, and no byte that one
\* has yet to read is where another still writes.
OneWriter ==
    \A m, o \in Objects : \A i \in 1 .. Len(list[m]), j \in 1 .. Len(list[o]) :
        (<< m, i >> # << o, j >> /\ list[m][i].d = list[o][j].d) =>
            /\ list[m][i].w <= list[o][j].r \/ list[o][j].w <= list[m][i].r
            /\ o = "in_" \/ m = "in_"
==============================================================================
