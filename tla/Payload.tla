------------------------------- MODULE Payload -------------------------------
(***************************************************************************)
(* What becomes of the arguments and the results of a call: << and >> of    *)
(* Marshal (misc/marshal.hpp), of TransportMarshal, which lays them out in  *)
(* a packet (rpc/dpdk_transport/transport_marshal.hpp), and of Python's     *)
(* Marshal (pylib/simplerpc), with SparseInt under them.                    *)
(*                                                                         *)
(* Arguments are written by the client and read by the server, results the  *)
(* other way.  Over TCP a side is C++ ("marshal") or Python ("python"), and *)
(* what it writes is the payload of a packet (see Marshal.tla).  Over DPDK  *)
(* both sides write packets with a TransportMarshal; the server reads them  *)
(* with one, while the client copies the results to Future::reply_, a       *)
(* Marshal; the server replies in the packet of the request.               *)
(*                                                                         *)
(* A packet is the bytes after its network headers, data_offset of them.    *)
(***************************************************************************)
EXTENDS SparseInt, SequencesExt

CONSTANTS
    Calls,  \* the pairs of sides considered, << client, server >>
    Types,  \* the types of arguments and results considered
    MaxPut  \* bound: arguments and results of a call

ASSUME PayloadAssumption ==
    /\ Calls \subseteq ({"marshal", "python"} \X {"marshal", "python"}) \cup {<< "transport", "transport" >>}
    /\ Types \subseteq {"i8", "i32", "v32", "v64", "string", "vector"} /\ MaxPut \in Nat

VARIABLES
    call,   \* the sides of the call
    leg,    \* "request" or "reply"
    phase,  \* "write" or "read"
    puts,   \* arguments and results written
    args,   \* what was written on this leg: pairs of type and value
    bytes,  \* the payload, or the packet
    offset, \* of the TransportMarshal that writes or reads, or what was read of a Marshal
    length, \* of the packet, pkt_len
    stamp,  \* timestamps[]: what begin_reply read after the arguments
    head,   \* what was read of the packet's header
    seen,   \* what was read
    failed  \* a verify() failed

payVars == << call, leg, phase, puts, args, bytes, offset, length, stamp, head, seen, failed >>

OverDpdk == call[1] = "transport"
Writer == IF leg = "request" THEN call[1] ELSE call[2]
Reader == IF leg = "request" THEN call[2] ELSE IF OverDpdk THEN "marshal" ELSE call[1]

-----------------------------------------------------------------------------
(* Values.  The fixed-width ones of other widths go like i8 and i32, and the   *)
(* other containers like vector, which is a vector of i32 here.               *)

Num(n) == [i \in 0 .. 7 |-> IF i < 3 THEN (n \div 256 ^ i) % 256 ELSE 0]
Small(v) == \A i \in 3 .. 7 : v[i] = 0
Nat64(v) == v[0] + 256 * v[1] + 65536 * v[2]
Width(ty) == IF ty = "i8" THEN 1 ELSE IF ty = "v64" THEN 8 ELSE 4
Fixed(v, w) == [i \in 1 .. w |-> v[i - 1]]
Signed(b) == [i \in 0 .. 7 |-> IF i < Len(b) THEN b[i + 1] ELSE (b[Len(b)] \div 128) * 255]

\* The integers whose sizes are decided by a bit next to a bound: 2^b, 2^b - 1 and one
\* with unequal bytes, and their complements.
Edges == {b \in 0 .. 62 : b % 7 = 6 \/ b = 31}
Low(v, b) == [i \in 0 .. 7 |-> v[i] % 2 ^ Max({0, Min({8, b - 8 * i})})]
Power(b) == [i \in 0 .. 7 |-> IF i = b \div 8 THEN 2 ^ (b % 8) ELSE 0]
Positive == UNION {{Power(b), Low([i \in 0 .. 7 |-> 255], b), Low([i \in 0 .. 7 |-> 23 * (i + 4)], b)} : b \in Edges}
Bounds == Positive \cup {[i \in 0 .. 7 |-> 255 - v[i]] : v \in Positive}

Sample(ty) ==
    CASE ty = "i8" -> {Num(3)}
      [] ty = "string" -> {<< >>, << 97, 98 >>}
      [] ty = "vector" -> {<< >>, << Num(300) >>}
      [] OTHER -> {Num(1000)}
Values(ty) ==
    Sample(ty) \cup IF puts # 0 THEN {} ELSE {v \in Bounds : ty = "v64" \/ (ty = "v32" /\ Fits(v, 31))}

-----------------------------------------------------------------------------
(* << and >> *)

\* How << writes an integer of variable length, or a length.
WriteForm(c) == IF c = "transport" THEN "fixed" ELSE "sparse"

\* How >> reads it.
ReadForm(c, ty) ==
    CASE ty \in {"v32", "v64"} -> WriteForm(c)
      [] c = "python" /\ ty = "vector" -> "sparse"
      [] OTHER -> "fixed"

Encode(c, ty, v) ==
    CASE ty \in {"v32", "v64"} /\ WriteForm(c) = "sparse" -> IF ty = "v32" THEN dump_i32(v) ELSE dump_i64(v)
      [] ty \in {"string", "vector"} ->
            (IF WriteForm(c) = "sparse" THEN dump_i64(Num(Len(v))) ELSE Fixed(Num(Len(v)), 8))
            \o IF ty = "string" THEN v ELSE FlattenSeq([i \in DOMAIN v |-> Fixed(v[i], 4)])
      [] OTHER -> Fixed(v, Width(ty))

\* What is taken off b: the number of bytes and the value, or nothing if b is too short.
Nothing == [n |-> -1, v |-> << >>]
TakeFixed(b, w) == IF Len(b) < w THEN Nothing ELSE [n |-> w, v |-> Signed(SubSeq(b, 1, w))]
TakeSparse(b, load) ==
    IF b = << >> \/ Len(b) < buf_size(b[1]) THEN Nothing ELSE [n |-> buf_size(b[1]), v |-> load]
TakeItems(b, L, w) ==
    IF L.n = -1 \/ ~Small(L.v) \/ Len(b) < L.n + w * Nat64(L.v) THEN Nothing
    ELSE LET n == Nat64(L.v) items == SubSeq(b, L.n + 1, L.n + w * n) IN
         [n |-> L.n + w * n,
          v |-> IF w = 1 THEN items ELSE [i \in 1 .. n |-> Signed(SubSeq(items, w * i - w + 1, w * i))]]

\* junk: what load_i64 finds in a byte that was never written.
Take(c, ty, b, junk) ==
    LET sparse == ReadForm(c, ty) = "sparse" IN
    CASE ty = "v32" /\ sparse -> TakeSparse(b, load_i32(b))
      [] ty = "v64" /\ sparse -> TakeSparse(b, load_i64(b, junk))
      [] ty \in {"string", "vector"} ->
            TakeItems(b, IF sparse THEN TakeSparse(b, load_i64(b, junk)) ELSE TakeFixed(b, 8),
                      IF ty = "string" THEN 1 ELSE 4)
      [] OTHER -> TakeFixed(b, Width(ty))

-----------------------------------------------------------------------------
(* TransportMarshal: the packet, its type in the first byte *)

Capacity == 96   \* bound: of a packet
MinLength == 22  \* 64 - data_offset
Old == 170       \* what an mbuf holds from its last use
Xid == Num(7)
Id == Num(1)     \* rpc_id, or error_code

TWrite(b, at, w) == [i \in 1 .. Capacity |-> IF i > at /\ i <= at + Len(w) THEN w[i - at] ELSE b[i]]

\* begin_request and begin_reply: allot_buffer, set_book_mark, << xid << id.
Header(b) == TWrite(TWrite(b, 5, Fixed(Xid, 8)), 13, Fixed(Id, 4))

\* Fault: the padding is not counted.
FormatHeaderEarly(b, at) ==
    LET n == Max({at, MinLength}) IN
    [b |-> TWrite(TWrite(b, at, [i \in 1 .. n - at |-> 0]), 1, Fixed(Num(at - 4 - 1), 4)), n |-> n]

\* format_header: padding, and the size at the bookmark.
FormatHeader(b, at) ==
    LET n == Max({at, MinLength}) IN
    [b |-> TWrite(TWrite(b, at, [i \in 1 .. n - at |-> 0]), 1, Fixed(Num(n - 4 - 1), 4)), n |-> n]

PayInit ==
    /\ call \in Calls /\ leg = "request" /\ phase = "write" /\ puts = 0 /\ args = << >>
    /\ bytes = IF OverDpdk THEN Header([i \in 1 .. Capacity |-> Old]) ELSE << >>
    /\ offset = (IF OverDpdk THEN 17 ELSE 0) /\ length = 0 /\ stamp = << >> /\ head = << >> /\ seen = << >> /\ failed = FALSE

PutArg ==
    /\ phase = "write" /\ puts < MaxPut /\ puts' = puts + 1
    /\ \E ty \in Types : \E v \in Values(ty) :
          LET w == Encode(Writer, ty, v) IN
          /\ args' = Append(args, << ty, v >>)
          /\ bytes' = (IF OverDpdk THEN TWrite(bytes, offset, w) ELSE bytes \o w)
          /\ offset' = (IF OverDpdk THEN offset + Len(w) ELSE offset)
    /\ UNCHANGED << call, leg, phase, length, stamp, head, seen, failed >>

\* end_request and end_reply, then handle_read on the other side.  The client copies what
\* the size says less sizeof(xid), 4 bytes more than there are.
Finish ==
    /\ phase = "write" /\ phase' = "read"
    /\ IF OverDpdk
       THEN LET P == FormatHeader(TWrite(bytes, offset, stamp), offset + Len(stamp))
                h == << TakeFixed(SubSeq(P.b, 2, 5), 4).v, TakeFixed(SubSeq(P.b, 6, 13), 8).v,
                        TakeFixed(SubSeq(P.b, 14, 17), 4).v >> IN
            /\ head' = h /\ length' = P.n
            /\ bytes' = (IF leg = "reply" THEN SubSeq(P.b, 18, 17 + Nat64(h[1]) - 8) ELSE P.b)
            /\ offset' = IF leg = "reply" THEN 0 ELSE 17
       ELSE UNCHANGED << bytes, offset, length, head >>
    /\ UNCHANGED << call, leg, puts, args, stamp, seen, failed >>

GetArg ==
    /\ phase = "read" /\ ~failed /\ Len(seen) < Len(args)
    /\ \E junk \in {0, 255} :
          LET ty == args[Len(seen) + 1][1]
              T == Take(Reader, ty, SubSeq(bytes, offset + 1, Len(bytes)), junk) IN
          IF T.n = -1 THEN failed' = TRUE /\ UNCHANGED << seen, offset >>
          ELSE seen' = Append(seen, << ty, T.v >>) /\ offset' = offset + T.n /\ UNCHANGED failed
    /\ UNCHANGED << call, leg, phase, puts, args, bytes, length, stamp, head >>

\* begin_reply, over DPDK in the packet of the request.
BeginReply ==
    /\ phase = "read" /\ leg = "request" /\ ~failed /\ Len(seen) = Len(args)
    /\ leg' = "reply" /\ phase' = "write" /\ args' = << >> /\ seen' = << >> /\ head' = << >>
    /\ bytes' = (IF OverDpdk THEN Header(bytes) ELSE << >>)
    /\ offset' = (IF OverDpdk THEN 17 ELSE 0)
    /\ stamp' = IF OverDpdk THEN SubSeq(bytes, offset + 1, offset + 8) ELSE << >>
    /\ UNCHANGED << call, puts, length, failed >>

PayNext == PutArg \/ Finish \/ GetArg \/ BeginReply
PaySpec == PayInit /\ [][PayNext]_payVars

-----------------------------------------------------------------------------
(* Properties *)

\* The two sides use the same form for every argument.
Agree == \A i \in DOMAIN args : args[i][1] \in {"i8", "i32"} \/ WriteForm(Writer) = ReadForm(Reader, args[i][1])

\* Where << and >> agree on the form, what was written is what is read, in order and
\* from inside the packet; the header of a packet is read as it was written, and its
\* size says how long the packet is.  Of a sparse integer of 8 bytes, from 2^48 to
\* 2^55 - 1 or negative, the lowest byte is lost.
ReadAsWritten ==
    /\ Agree =>
        /\ ~failed /\ Len(seen) <= Len(args)
        /\ \A k \in DOMAIN seen : LET x == args[k] y == seen[k] IN
              \/ y = x
              \/ /\ x[1] = "v64" /\ y[1] = "v64" /\ ~OverDpdk /\ val_size(x[2]) = 8
                 /\ \A i \in 1 .. 7 : y[2][i] = x[2][i]
    /\ head # << >> =>
        /\ head = << Num(length - 5), Xid, Id >> /\ length >= MinLength
        /\ leg = "request" => bytes \in [1 .. Capacity -> 0 .. 255] /\ offset <= length

\* >> verifies that the bytes of a value are there, as they are when it was written:
\* "verify(m.read(&v, sizeof(v)) == sizeof(v));" (misc/marshal.hpp).
Verified == ~failed
==============================================================================
