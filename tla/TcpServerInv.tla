---------------------------- MODULE TcpServerInv -----------------------------
(***************************************************************************)
(* The stream of replies of one connection as a sequence of units, the     *)
(* inductive invariant of TcpServer, and the steps up to handle_read.      *)
(*                                                                         *)
(* What begin_reply and the stub put behind a stream, and end_reply sets   *)
(* in it, leaves the replies before it whole and the xids where they were. *)
(* The invariant says where a request is (not dispatched, with the pool,   *)
(* with one thread, in the stream), and what the stream of a connection    *)
(* looks like while a thread writes its reply at the end of it.            *)
(***************************************************************************)
EXTENDS TcpServer, Integers, TLAPS

\* A step that names no prover is left to SMT, if need be twice, and then to Zenon.
USE SMTT(10), SMTT(30), Zenon, SMTT(40), SMTT(60)

\* The reply to c begins behind place m of s.
Open(s, m, c) ==
    /\ s[m + 1].u = "size"
    /\ s[m + 2] = [u |-> "xid", v |-> c.i] /\ s[m + 3] = [u |-> "code", v |-> c.code]

\* What putting one sequence behind another means, place by place.
LEMMA Behind ==
  ASSUME NEW s \in Seq(Unit), NEW h \in Seq(Unit)
  PROVE  /\ s \o h \in Seq(Unit) /\ Len(s) \in Nat /\ Len(s \o h) = Len(s) + Len(h)
         /\ \A a \in 1 .. Len(s) : (s \o h)[a] = s[a]
         /\ \A b \in 1 .. Len(h) : (s \o h)[Len(s) + b] = h[b]
  OBVIOUS

\* What fits stays so when units are put behind it,
LEMMA FitsAppend ==
  ASSUME NEW s \in Seq(Unit), NEW u \in Seq(Unit), NEW a \in 1 .. Len(s), Fits(s, a)
  PROVE  Fits(s \o u, a)
<1> DEFINE s2 == s \o u
<1>1. Len(s2) \in Nat /\ Len(s) \in Nat /\ Len(s) <= Len(s2) /\ \A b \in 1 .. Len(s) : s2[b] = s[b]
  OBVIOUS
<1>2. /\ s2[a] = s[a] /\ (a > 1 => s2[a - 1] = s[a - 1]) /\ (a > 2 => s2[a - 2] = s[a - 2])
      /\ (a < Len(s) => s2[a + 1] = s[a + 1] /\ a < Len(s2))
  BY <1>1
<1> HIDE DEF s2
<1>3. s[a].u = "size" => s[a].v \in {2, 3} /\ a < Len(s) /\ a + s[a].v <= Len(s2) /\ s[a + 1].u = "xid"
  BY <1>1 DEF Fits
<1>4. s[a].u = "xid" => a > 1 /\ a < Len(s) /\ s[a - 1].u = "size" /\ s[a + 1].u = "code"
  BY DEF Fits
<1>5. s[a].u = "code" => /\ a > 2 /\ s[a - 1].u = "xid"
                         /\ IF s[a].v # "0" THEN s[a - 2].v = 2
                            ELSE s[a - 2].v = 3 /\ a < Len(s) /\ s[a + 1] = [u |-> "ret", v |-> s[a - 1].v]
  BY DEF Fits
<1>6. s[a].u = "ret" => a > 3 /\ s[a - 1].u = "code"
  BY DEF Fits
<1>7. Fits(s2, a)
  BY <1>2, <1>3, <1>4, <1>5, <1>6 DEF Fits
<1> QED
  BY <1>7 DEF s2

Joined(s, h, n, z) == s \in Seq(Unit) /\ h \in Seq(Unit) /\ Len(h) = 3 /\ n = Len(s) /\ z = s \o h
Longer(s, h, n, z) ==
    /\ z \in Seq(Unit) /\ n \in Nat /\ Len(z) = n + 3 /\ \A a \in 1 .. n : z[a] = s[a]
    /\ z[n + 1] = h[1] /\ z[n + 2] = h[2] /\ z[n + 3] = h[3]

\* The same for the three units of a header.
LEMMA Appended ==
  ASSUME NEW s, NEW h, NEW n, NEW z, Joined(s, h, n, z)
  PROVE  Longer(s, h, n, z)
<1> USE DEF Joined
<1>1. s \o h \in Seq(Unit) /\ Len(s) \in Nat /\ Len(s \o h) = Len(s) + Len(h)
  BY Behind, Zenon
<1>2. \A a \in 1 .. Len(s) : (s \o h)[a] = s[a]
  BY Behind, Zenon
<1>3. \A b \in 1 .. 3 : (s \o h)[Len(s) + b] = h[b]
  <2>1. \A b \in 1 .. Len(h) : (s \o h)[Len(s) + b] = h[b]
    BY Behind, Zenon
  <2>2. 1 .. Len(h) = 1 .. 3
    BY Zenon
  <2> QED
    BY <2>1, <2>2, Zenon
<1>4. z \in Seq(Unit) /\ n \in Nat /\ Len(z) = n + Len(h)
  BY <1>1, Zenon
<1>5. \A a \in 1 .. n : z[a] = s[a]
  BY <1>2, Zenon
<1>6. \A b \in 1 .. 3 : z[n + b] = h[b]
  BY <1>3, Zenon
<1>7. 1 \in 1 .. 3 /\ 2 \in 1 .. 3 /\ 3 \in 1 .. 3
  OBVIOUS
<1>8. z[n + 1] = h[1] /\ z[n + 2] = h[2] /\ z[n + 3] = h[3]
  BY <1>6, <1>7, Zenon
<1> QED
  BY <1>4, <1>5, <1>8, Zenon DEF Longer

\* The xids of a stream that ends with a new header are those before it and one more.
LEMMA HeaderXids ==
  ASSUME NEW n \in Nat, NEW s, NEW z, NEW i, NEW code, Len(s) = n, Len(z) = n + 3,
         \A a \in 1 .. n : z[a] = s[a], z[n + 1].u = "size",
         z[n + 2] = [u |-> "xid", v |-> i], z[n + 3] = [u |-> "code", v |-> code],
         NEW a \in 1 .. n + 3, z[a].u = "xid"
  PROVE  (a \in 1 .. n /\ z[a] = s[a]) \/ a = n + 2
<1>1. a \in 1 .. n \/ a = n + 1 \/ a = n + 2 \/ a = n + 3
  OBVIOUS
<1>2. z[n + 1].u # "xid" /\ z[n + 3].u # "xid"
  OBVIOUS
<1> QED
  BY <1>1, <1>2

\* When the new xid is not among the old ones, each still stands there once, with its code.
Heads(n, s, z, i, f, D) ==
    /\ n \in Nat /\ Len(s) = n /\ Len(z) = n + 3
    /\ (\A a \in 1 .. n : z[a] = s[a]) /\ z[n + 1].u = "size"
    /\ z[n + 2] = [u |-> "xid", v |-> i] /\ z[n + 3] = [u |-> "code", v |-> f[i]] /\ i \in D
    /\ \A a \in 1 .. n : s[a].u = "xid" =>
          /\ a + 1 \in 1 .. n /\ s[a + 1] = [u |-> "code", v |-> f[s[a].v]]
          /\ s[a].v \in D /\ s[a].v # i
          /\ \A b \in 1 .. n : s[b].u = "xid" /\ s[b].v = s[a].v => a = b
Headed(n, z, f, D) ==
    \A a \in 1 .. n + 3 : z[a].u = "xid" =>
        /\ a < n + 3 /\ z[a + 1] = [u |-> "code", v |-> f[z[a].v]] /\ z[a].v \in D
        /\ \A b \in 1 .. n + 3 : z[b].u = "xid" /\ z[b].v = z[a].v => a = b

\* Behind a header, the one xid that is new is the one it brings.
LEMMA HeaderAnswers ==
  ASSUME NEW n, NEW s, NEW z, NEW i, NEW f, NEW D, Heads(n, s, z, i, f, D)
  PROVE  Headed(n, z, f, D)
<1> USE DEF Heads
<1> SUFFICES ASSUME NEW a \in 1 .. n + 3, z[a].u = "xid"
             PROVE  /\ a < n + 3 /\ z[a + 1] = [u |-> "code", v |-> f[z[a].v]] /\ z[a].v \in D
                    /\ \A b \in 1 .. n + 3 : z[b].u = "xid" /\ z[b].v = z[a].v => a = b
  BY DEF Headed
<1>1. \A b \in 1 .. n + 3 : z[b].u = "xid" => (b \in 1 .. n /\ z[b] = s[b]) \/ b = n + 2
  BY HeaderXids
<1>2. z[n + 2].v = i /\ z[n + 2].u = "xid"
  OBVIOUS
<1>3. CASE a \in 1 .. n /\ z[a] = s[a]
  <2>1. z[a + 1] = s[a + 1] /\ a < n + 3 /\ s[a].v \in D /\ s[a].v # i
    <3>1. s[a].u = "xid" /\ a + 1 \in 1 .. n /\ s[a].v \in D /\ s[a].v # i
      BY <1>3, Zenon
    <3>2. a < n + 3
      BY <1>3
    <3> QED
      BY <3>1, <3>2, Zenon
  <2>2. ASSUME NEW b \in 1 .. n + 3, z[b].u = "xid", z[b].v = z[a].v PROVE a = b
    <3>1. b # n + 2
      BY <1>2, <1>3, <2>1, <2>2
    <3>2. b \in 1 .. n /\ z[b] = s[b]
      BY <1>1, <2>2, <3>1
    <3> QED
      BY <1>3, <2>2, <3>2, ZenonT(30)
  <2> QED
    BY <1>3, <2>1, <2>2
<1>4. CASE a = n + 2
  <2>1. a < n + 3 /\ a + 1 = n + 3 /\ z[a].v = i
    BY <1>2, <1>4
  <2>2. ASSUME NEW b \in 1 .. n + 3, z[b].u = "xid", z[b].v = i PROVE b = n + 2
    BY <1>1, <2>2
  <2> QED
    BY <1>4, <2>1, <2>2
<1> QED
  BY <1>1, <1>3, <1>4

One(s, e, n, z) == s \in Seq(Unit) /\ e \in Unit /\ n = Len(s) /\ z = s \o << e >>
Grown(s, e, n, z) ==
    /\ << e >> \in Seq(Unit) /\ z \in Seq(Unit) /\ n \in Nat /\ Len(z) = n + 1
    /\ (\A a \in 1 .. n : z[a] = s[a]) /\ z[n + 1] = e

\* The same for one unit, a result.
LEMMA OneMore ==
  ASSUME NEW s, NEW e, NEW n, NEW z, One(s, e, n, z)
  PROVE  Grown(s, e, n, z)
<1>1. ASSUME NEW q \in Seq(Unit), NEW d \in Unit
      PROVE  /\ << d >> \in Seq(Unit) /\ q \o << d >> \in Seq(Unit) /\ Len(q) \in Nat /\ Len(q \o << d >>) = Len(q) + 1
             /\ (\A a \in 1 .. Len(q) : (q \o << d >>)[a] = q[a]) /\ (q \o << d >>)[Len(q) + 1] = d
  <2>1. << d >> \in Seq(Unit)
    OBVIOUS
  <2>2. q \o << d >> \in Seq(Unit) /\ Len(q) \in Nat /\ Len(q \o << d >>) = Len(q) + 1
    OBVIOUS
  <2>3. \A a \in 1 .. Len(q) : (q \o << d >>)[a] = q[a]
    OBVIOUS
  <2>4. (q \o << d >>)[Len(q) + 1] = d
    OBVIOUS
  <2> QED
    BY <2>1, <2>2, <2>3, <2>4, Zenon
<1> QED
  BY <1>1, Zenon DEF One, Grown

\* A stream whose xids and codes stay where they are, and that gets no new xid, holds the
\* same answers.
Kept(s, z) ==
    /\ Len(s) \in Nat /\ Len(z) \in Nat /\ Len(s) <= Len(z)
    /\ \A a \in 1 .. Len(z) : z[a].u = "xid" => a \in 1 .. Len(s) /\ z[a] = s[a]
    /\ \A a \in 1 .. Len(s) : s[a].u = "code" => z[a] = s[a]

\* The bookmark is set at place m of s, whose last reply begins there.
Patched(s, n, m, z) ==
    /\ z \in Seq(Unit) /\ Len(s) = n /\ Len(z) = n /\ n \in Nat /\ m \in 1 .. n
    /\ s[m].u = "size" /\ z[m] = [u |-> "size", v |-> n - m]
    /\ \A a \in 1 .. n : a # m => z[a] = s[a]

\* Setting the size of a reply changes no other unit.
LEMMA Patch ==
  ASSUME NEW s \in Seq(Unit), NEW m \in 1 .. Len(s), s[m].u = "size"
  PROVE  Patched(s, Len(s), m, [s EXCEPT ![m].v = Len(s) - m])
<1> DEFINE n == Len(s)
           z == [s EXCEPT ![m].v = n - m]
<1>1. n \in Nat /\ DOMAIN s = 1 .. n /\ s \in [1 .. n -> Unit] /\ n - m \in Nat
  OBVIOUS
<1>2. s[m] \in [u : {"size"}, v : Nat]
  BY <1>1 DEF Unit
<1>3. [s[m] EXCEPT !.v = n - m] = [u |-> "size", v |-> n - m]
  BY <1>1, <1>2
<1> HIDE DEF n
<1>4. z = [a \in 1 .. n |-> IF a = m THEN [u |-> "size", v |-> n - m] ELSE s[a]]
  BY <1>1, <1>3, Zenon
<1>5. [u |-> "size", v |-> n - m] \in Unit
  BY <1>1 DEF Unit
<1>6. z[m] = [u |-> "size", v |-> n - m] /\ (\A a \in 1 .. n : a # m => z[a] = s[a]) /\ m \in 1 .. n
  BY <1>4 DEF n
<1>7. z \in [1 .. n -> Unit]
  BY <1>1, <1>4, <1>5
<1> HIDE DEF z
<1>8. z \in Seq(Unit) /\ Len(z) = n
  BY <1>1, <1>7
<1> QED
  BY <1>1, <1>6, <1>8 DEF Patched, z, n

\* The places of a reply, which has three or four units.
LEMMA Places ==
  ASSUME NEW n \in Nat, NEW m \in Nat, n = m + 2 \/ n = m + 3, NEW a \in 1 .. n
  PROVE  a \in 1 .. m - 1 \/ a = m \/ a = m + 1 \/ a = m + 2 \/ (n = m + 3 /\ a = m + 3)
<1>1. a \in Int /\ 1 <= a /\ a <= n /\ m - 1 \in Int
  OBVIOUS
<1>2. a <= m - 1 \/ a = m \/ a = m + 1 \/ a = m + 2 \/ a = m + 3
  BY <1>1
<1>3. a <= m - 1 => a \in 1 .. m - 1
  BY <1>1
<1>4. a = m + 3 => n = m + 3
  BY <1>1
<1> QED
  BY <1>2, <1>3, <1>4, Zenon

\* A stream whose last reply gets its size is whole.
LEMMA FitsPatched ==
  ASSUME NEW s, NEW n, NEW m, NEW z, NEW c, Patched(s, n, m, z), \A a \in 1 .. m - 1 : Fits(s, a),
         Open(s, m - 1, c), n = m + (IF c.code = "0" THEN 3 ELSE 2),
         c.code = "0" => s[m + 3] = [u |-> "ret", v |-> c.i]
  PROVE  \A a \in 1 .. n : Fits(z, a)
<1>1. n \in Nat /\ m \in Nat /\ m >= 1 /\ (n = m + 2 \/ n = m + 3) /\ Len(s) = n /\ Len(z) = n
  BY DEF Patched
<1>2. \A a \in 1 .. n : z[a].u = s[a].u
  BY DEF Patched
<1>3. /\ m - 1 + 1 = m /\ m - 1 + 2 = m + 1 /\ m - 1 + 3 = m + 2
      /\ m + 1 \in 1 .. n /\ m + 1 # m /\ m + 2 \in 1 .. n /\ m + 2 # m
      /\ n = m + 3 => m + 3 \in 1 .. n /\ m + 3 # m
  BY <1>1
<1>4. z[m + 1] = [u |-> "xid", v |-> c.i] /\ z[m + 2] = [u |-> "code", v |-> c.code]
  BY <1>3 DEF Open, Patched
<1>5. z[m] = [u |-> "size", v |-> n - m]
  BY DEF Patched
<1>6. c.code = "0" => n = m + 3 /\ n - m = 3 /\ z[m + 3] = [u |-> "ret", v |-> c.i]
  BY <1>1, <1>3 DEF Patched
<1>7. c.code # "0" => n = m + 2 /\ n - m = 2
  BY <1>1
<1>8. ASSUME NEW a \in 1 .. m - 1 PROVE Fits(z, a)
  <2>1. a \in Nat /\ a >= 1 /\ a < m /\ a < n /\ a \in 1 .. n /\ a + 1 \in 1 .. n
    BY <1>1
  <2>2. z[a] = s[a] /\ Fits(s, a) /\ z[a + 1].u = s[a + 1].u
    BY <1>2, <2>1 DEF Patched
  <2>3. a > 1 => z[a - 1] = s[a - 1]
    <3>1. a > 1 => a - 1 \in 1 .. n /\ a - 1 # m
      BY <1>1, <2>1
    <3> QED
      BY <3>1, Zenon DEF Patched
  <2>4. a > 2 => z[a - 2] = s[a - 2]
    <3>1. a > 2 => a - 2 \in 1 .. n /\ a - 2 # m
      BY <1>1, <2>1
    <3> QED
      BY <3>1 DEF Patched
  <2>5. s[a + 1].u = "ret" => z[a + 1] = s[a + 1]
    BY <2>1 DEF Patched
  <2>6. s[a].u = "size" => s[a].v \in {2, 3} /\ a + s[a].v <= Len(z) /\ s[a + 1].u = "xid"
    BY <1>1, <2>2 DEF Fits
  <2>7. s[a].u = "xid" => a > 1 /\ a < Len(z) /\ s[a - 1].u = "size" /\ s[a + 1].u = "code"
    BY <1>1, <2>2 DEF Fits
  <2>8. s[a].u = "code" => /\ a > 2 /\ s[a - 1].u = "xid"
                           /\ IF s[a].v # "0" THEN s[a - 2].v = 2
                              ELSE s[a - 2].v = 3 /\ a < Len(z) /\ s[a + 1] = [u |-> "ret", v |-> s[a - 1].v]
    BY <1>1, <2>2 DEF Fits
  <2>9. s[a].u = "ret" => a > 3 /\ s[a - 1].u = "code"
    BY <2>2 DEF Fits
  <2>10. a > 2 => a > 1
    BY <2>1
  <2>11. a > 3 => a > 1
    BY <2>1
  <2>12. (s[a].u = "size" => z[a + 1].u = "xid") /\ (s[a].u = "xid" => z[a - 1].u = "size" /\ z[a + 1].u = "code")
    BY <2>2, <2>3, <2>6, <2>7, Zenon
  <2>13. s[a].u = "code" => /\ z[a - 1].u = "xid"
                            /\ IF s[a].v # "0" THEN z[a - 2].v = 2
                               ELSE z[a - 2].v = 3 /\ z[a + 1] = [u |-> "ret", v |-> z[a - 1].v]
    <3>1. s[a].u = "code" => z[a - 1] = s[a - 1] /\ z[a - 2] = s[a - 2]
      BY <2>3, <2>4, <2>8, <2>10, Zenon
    <3>2. s[a].u = "code" /\ s[a].v = "0" => z[a + 1] = s[a + 1]
      BY <2>5, <2>8
    <3> QED
      BY <2>8, <3>1, <3>2, Zenon
  <2>14. s[a].u = "ret" => z[a - 1].u = "code"
    BY <2>3, <2>9, <2>11, Zenon
  <2> QED
    BY <2>2, <2>6, <2>7, <2>8, <2>9, <2>12, <2>13, <2>14, Zenon DEF Fits
<1>9. Fits(z, m)
  <2>1. n - m \in {2, 3} /\ m + (n - m) <= Len(z)
    BY <1>1
  <2> QED
    BY <1>4, <1>5, <2>1 DEF Fits
<1>10. Fits(z, m + 1)
  <2>1. PICK a : a = m + 1
    OBVIOUS
  <2>2. a > 1 /\ a < Len(z) /\ a - 1 = m /\ a + 1 = m + 2
    BY <1>1, <2>1
  <2>3. z[a].u = "xid" /\ z[a - 1].u = "size" /\ z[a + 1].u = "code"
    BY <1>4, <1>5, <2>1, <2>2
  <2>4. Fits(z, a)
    BY <2>2, <2>3 DEF Fits
  <2> QED
    BY <2>1, <2>4
<1>11. Fits(z, m + 2)
  <2>1. PICK a : a = m + 2
    OBVIOUS
  <2>2. a > 2 /\ a - 1 = m + 1 /\ a - 2 = m /\ a + 1 = m + 3 /\ (n = m + 3 => a < Len(z))
    BY <1>1, <2>1
  <2>3. z[a].u = "code" /\ z[a].v = c.code /\ z[a - 1].u = "xid" /\ z[a - 1].v = c.i
    BY <1>4, <2>1, <2>2
  <2>4. z[a - 2].v = n - m
    BY <1>5, <2>2
  <2>5. c.code = "0" => z[a + 1] = [u |-> "ret", v |-> c.i]
    BY <1>6, <2>2
  <2>6. Fits(z, a)
    BY <1>6, <1>7, <2>2, <2>3, <2>4, <2>5 DEF Fits
  <2> QED
    BY <2>1, <2>6
<1>12. n = m + 3 => Fits(z, m + 3)
  <2>1. PICK a : a = m + 3
    OBVIOUS
  <2>2. a > 3 /\ a - 1 = m + 2 /\ (n = m + 3 => c.code = "0")
    BY <1>1, <1>7, <2>1
  <2>3. n = m + 3 => z[a].u = "ret" /\ z[a - 1].u = "code"
    BY <1>4, <1>6, <2>1, <2>2
  <2>4. n = m + 3 => Fits(z, a)
    BY <2>2, <2>3 DEF Fits
  <2> QED
    BY <2>1, <2>4
<1>13. \A a \in 1 .. n : a \in 1 .. m - 1 \/ a = m \/ a = m + 1 \/ a = m + 2 \/ (n = m + 3 /\ a = m + 3)
  BY <1>1, Places, Zenon
<1> QED
  BY <1>8, <1>9, <1>10, <1>11, <1>12, <1>13, Zenon

Sized(code, s, n, m, z) ==
    n = Len(s) /\ m = n - (IF code = "0" THEN 3 ELSE 2) /\ z = [s EXCEPT ![m].v = n - m]

\* Where end_reply finds the bookmark, by the length of the reply.
LEMMA SizedAt ==
  ASSUME NEW code, NEW s \in Seq(Unit), NEW n, NEW m, NEW z, Sized(code, s, n, m, z), n >= (IF code = "0" THEN 4 ELSE 3)
  PROVE  /\ n \in Nat /\ m - 1 = n - (IF code = "0" THEN 4 ELSE 3) /\ m \in 1 .. n
         /\ m - 1 + 4 = m + 3 /\ m - 1 + 1 = m /\ n = m + (IF code = "0" THEN 3 ELSE 2)
<1>1. n \in Nat /\ m = n - (IF code = "0" THEN 3 ELSE 2)
  BY DEF Sized
<1>2. CASE code = "0"
  BY <1>1, <1>2
<1>3. CASE code # "0"
  BY <1>1, <1>3
<1> QED
  BY <1>2, <1>3

\* end_reply sets the size there.
LEMMA SizedPatches ==
  ASSUME NEW code, NEW s \in Seq(Unit), NEW n, NEW m \in 1 .. n, NEW z, Sized(code, s, n, m, z), s[m].u = "size"
  PROVE  Patched(s, n, m, z)
  BY Patch, Zenon DEF Sized

\* The xids and codes of a stream stay when a size is set in it.
LEMMA PatchedKept ==
  ASSUME NEW s, NEW n, NEW m, NEW z, Patched(s, n, m, z)
  PROVE  Kept(s, z)
<1>1. Len(s) = n /\ Len(z) = n /\ n \in Nat /\ n <= n
  BY DEF Patched
<1>2. z[m].u # "xid" /\ s[m].u # "code" /\ \A a \in 1 .. n : a # m => z[a] = s[a]
  BY DEF Patched
<1> QED
  BY <1>1, <1>2, Zenon DEF Kept

-----------------------------------------------------------------------------
(* The invariant *)

\* Requests are read and dispatched in order, from served clients only, and nothing is
\* sent before the handlers are registered.
Flow ==
    \A k \in Conns :
        /\ rd[k] <= 2 * sent[k] /\ 2 * dp[k] <= rd[k]
        /\ link[k] # "served" => rd[k] = 0
        /\ link[k] = "none" => sent[k] = 0
        /\ status = "NEW" => link[k] = "none"

\* A dispatched request is a job of the pool, or one thread's, or answered.
Calls ==
    /\ \A t \in Threads : pc[t] = "idle" <=> cur[t] = none
    /\ \A t \in Threads : cur[t] # none =>
          /\ cur[t].i <= dp[cur[t].k] /\ cur[t].code = CodeOf(rpc[cur[t].k][cur[t].i])
          /\ << cur[t].k, cur[t].i >> \notin jobs
    /\ \A t, u \in Threads : cur[t] # none /\ cur[u] # none /\ cur[t].k = cur[u].k /\ cur[t].i = cur[u].i => t = u
    /\ \A k \in Conns, i \in Xids : << k, i >> \in jobs => i <= dp[k] /\ CodeOf(rpc[k][i]) = "0"

\* An xid in the stream has its code, and is that of a request that was dispatched and
\* that nobody is still to answer.
Coded(k, a) ==
    /\ a < Len(stream[k]) /\ stream[k][a + 1] = [u |-> "code", v |-> CodeOf(rpc[k][stream[k][a].v])]
    /\ \A b \in 1 .. Len(stream[k]) : stream[k][b].u = "xid" /\ stream[k][b].v = stream[k][a].v => a = b

Done(k, i) ==
    /\ i <= dp[k] /\ << k, i >> \notin jobs
    /\ \A t \in Threads : pc[t] = "begin" /\ cur[t].k = k => i # cur[t].i

Answers ==
    \A k \in Conns : \A a \in 1 .. Len(stream[k]) :
        stream[k][a].u = "xid" => Coded(k, a) /\ Done(k, stream[k][a].v)

\* Between begin_reply and end_reply a thread holds out_l_, and what it has written
\* ends the stream.
Locks ==
    /\ \A t \in Threads : pc[t] \in {"ret", "end"} => out_l[cur[t].k] = t
    /\ \A k \in Conns : out_l[k] # none => pc[out_l[k]] \in {"ret", "end"} /\ cur[out_l[k]].k = k

Length(t) == IF pc[t] = "end" /\ cur[t].code = "0" THEN 4 ELSE 3
Mark(k) == IF out_l[k] = none THEN Len(stream[k]) ELSE Len(stream[k]) - Length(out_l[k])

Tails ==
    \A t \in Threads : pc[t] \in {"ret", "end"} =>
        /\ Mark(cur[t].k) >= 0 /\ Open(stream[cur[t].k], Mark(cur[t].k), cur[t])
        /\ pc[t] = "ret" => cur[t].code = "0"
        /\ Length(t) = 4 => stream[cur[t].k][Mark(cur[t].k) + 4] = [u |-> "ret", v |-> cur[t].i]

Whole == \A k \in Conns : w[k] <= Mark(k) /\ \A a \in 1 .. Mark(k) : Fits(stream[k], a)

IInv == Typed /\ Flow /\ Calls /\ Answers /\ Locks /\ Tails /\ Whole

-----------------------------------------------------------------------------
(* Types *)

\* The fields of what a thread works on.
LEMMA CallTypes ==
  ASSUME Typed, NEW t \in Threads, cur[t] # none
  PROVE  cur[t].k \in Conns /\ cur[t].i \in Xids /\ cur[t].code \in Codes /\ cur[t] \in Call
<1>1. cur[t] \in Call
  BY DEF Typed
<1> QED
  BY <1>1 DEF Call

\* The units of a stream.
LEMMA UnitTypes ==
  ASSUME Typed, NEW k \in Conns, NEW a \in 1 .. Len(stream[k])
  PROVE  stream[k] \in Seq(Unit) /\ stream[k][a] \in Unit /\ (stream[k][a].u = "xid" => stream[k][a].v \in Xids)
<1>1. stream[k] \in Seq(Unit)
  BY DEF Typed
<1>2. stream[k][a] \in Unit
  BY <1>1
<1>3. stream[k][a].u = "xid" => stream[k][a].v \in Xids
  BY <1>2 DEF Unit
<1> QED
  BY <1>1, <1>2, <1>3

\* The counters of a connection, and how they are ordered.
LEMMA FlowTypes ==
  ASSUME Typed, Flow, NEW k \in Conns
  PROVE  /\ MaxReq \in Nat /\ rd[k] \in Nat /\ dp[k] \in Nat /\ sent[k] \in Nat /\ sent[k] <= MaxReq
         /\ rd[k] <= 2 * sent[k] /\ 2 * dp[k] <= rd[k] /\ dp[k] <= sent[k]
         /\ link[k] # "served" => dp[k] = 0
         /\ status = "NEW" => dp[k] = 0
<1>1. MaxReq \in Nat /\ rd[k] \in Nat /\ dp[k] \in Nat /\ sent[k] \in Nat /\ sent[k] <= MaxReq
  BY ServerAssumption DEF Typed
<1>2. rd[k] <= 2 * sent[k] /\ 2 * dp[k] <= rd[k]
  BY DEF Flow
<1>3. (link[k] # "served" => rd[k] = 0) /\ (status = "NEW" => sent[k] = 0)
  BY DEF Flow
<1> QED
  BY <1>1, <1>2, <1>3

\* What the invariant says of one xid in a stream.
LEMMA AnswerTypes ==
  ASSUME IInv, NEW k \in Conns, NEW a \in 1 .. Len(stream[k]), stream[k][a].u = "xid"
  PROVE  /\ stream[k][a].v \in Xids /\ stream[k][a].v \in Nat
         /\ Coded(k, a) /\ Done(k, stream[k][a].v)
<1>1. stream[k][a].v \in Xids
  BY UnitTypes DEF IInv
<1> QED
  BY <1>1, ServerAssumption DEF IInv, Answers, Xids

\* A thread has a call when it is not idle.
LEMMA HasCall == ASSUME IInv, NEW t \in Threads PROVE pc[t] = "idle" <=> cur[t] = none
  BY Zenon DEF IInv, Calls

\* Calls stay when requests, jobs and the calls of the threads do.
LEMMA CallsKeep ==
  ASSUME IInv, UNCHANGED << handlers, rpc, dp, jobs, cur >>,
         \A t \in Threads : pc'[t] = "idle" <=> pc[t] = "idle"
  PROVE  Calls'
<1>1. \A id : CodeOf(id)' = CodeOf(id)
  BY DEF CodeOf
<1>2. \A t \in Threads : pc'[t] = "idle" <=> cur[t] = none
  BY HasCall, Zenon
<1>3. Calls
  BY DEF IInv
<1> QED
  BY <1>1, <1>2, <1>3, ZenonT(30) DEF Calls

\* Answers stay when the streams do and nobody is to answer them again.
LEMMA AnswersKeep ==
  ASSUME IInv, UNCHANGED << rpc, stream >>, \A id : CodeOf(id)' = CodeOf(id),
         \A k \in Conns : \A a \in 1 .. Len(stream[k]) : stream[k][a].u = "xid" => Done(k, stream[k][a].v)'
  PROVE  Answers'
<1>1. \A k \in Conns : \A a \in 1 .. Len(stream[k]) : stream[k][a].u = "xid" => Coded(k, a)
  BY Zenon DEF IInv, Answers
<1>2. ASSUME NEW k, NEW a, Coded(k, a) PROVE Coded(k, a)'
  BY <1>2, Zenon DEF Coded
<1>3. stream' = stream
  OBVIOUS
<1> QED
  BY <1>1, <1>2, <1>3, ZenonT(30) DEF Answers

\* What is said of the replies that are being written stays when nothing is written.
LEMMA TailsKeep ==
  ASSUME IInv, UNCHANGED << stream, out_l, pc, cur >>
  PROVE  Locks' /\ Tails' /\ \A k : Mark(k)' = Mark(k)
<1>1. \A t : Length(t)' = Length(t)
  BY DEF Length
<1>2. \A k : Mark(k)' = Mark(k)
  BY <1>1 DEF Mark
<1>3. Locks'
  BY DEF IInv, Locks
<1>4. Tails'
  BY <1>1, <1>2, Zenon DEF IInv, Tails
<1> QED
  BY <1>2, <1>3, <1>4

\* The whole replies stay whole when nothing is written or sent.
LEMMA WholeKeeps == ASSUME IInv, UNCHANGED << stream, out_l, pc, cur, w >> PROVE Whole'
<1>1. \A k : Mark(k)' = Mark(k)
  BY TailsKeep
<1> QED
  BY <1>1, Zenon DEF IInv, Whole

-----------------------------------------------------------------------------
\* Before anything is registered, the invariant holds.
LEMMA InitIInv == Init => IInv
<1> SUFFICES ASSUME Init PROVE IInv
  OBVIOUS
<1> USE ServerAssumption DEF Init
<1>1. Typed
  BY DEF Typed, Xids
<1>2. Flow /\ Calls
  BY DEF Flow, Calls
<1>3. Answers
  BY DEF Answers
<1>4. Locks /\ Tails
  BY DEF Locks, Tails, Threads
<1>5. Whole
  BY DEF Whole, Mark, Threads
<1> QED
  BY <1>1, <1>2, <1>3, <1>4, <1>5 DEF IInv

\* Where no request and no reply moves.
Quiet == UNCHANGED << handlers, rpc, dp, jobs, stream, w, out_l, pc, cur >>

\* A step that touches no call and no stream keeps what is said of them.
LEMMA QuietKeeps ==
  ASSUME IInv, Quiet
  PROVE  Calls' /\ Answers' /\ Locks' /\ Tails' /\ Whole'
<1> USE DEF IInv, Quiet
<1>0. \A id : CodeOf(id)' = CodeOf(id)
  BY DEF CodeOf
<1>1. Calls'
  BY CallsKeep
<1>2. Answers'
  <2>1. \A k, i : Done(k, i) => Done(k, i)'
    BY DEF Done
  <2> QED
    BY <1>0, <2>1, AnswersKeep, Zenon DEF Answers
<1>3. Locks' /\ Tails' /\ Whole'
  BY TailsKeep, WholeKeeps
<1> QED
  BY <1>1, <1>2, <1>3

-----------------------------------------------------------------------------
(* The server *)

\* Before a client can send, no request is anywhere.
LEMMA NothingYet ==
  ASSUME IInv, status = "NEW"
  PROVE  /\ \A k \in Conns : dp[k] = 0 /\ \A a \in 1 .. Len(stream[k]) : stream[k][a].u # "xid"
         /\ jobs = {} /\ \A t \in Threads : cur[t] = none
<1>1. \A k \in Conns : dp[k] = 0
  BY FlowTypes DEF IInv
<1>2. ASSUME NEW t \in Threads, cur[t] # none
      PROVE  FALSE
  <2>1. cur[t].k \in Conns /\ cur[t].i \in Xids
    BY <1>2, CallTypes DEF IInv
  <2>2. cur[t].i <= dp[cur[t].k]
    BY <1>2, Zenon DEF IInv, Calls
  <2> QED
    BY <1>1, <2>1, <2>2, ServerAssumption DEF Xids
<1>3. jobs = {}
  <2>1. ASSUME NEW k \in Conns, NEW i \in Xids PROVE << k, i >> \notin jobs
    BY <1>1, ServerAssumption DEF IInv, Calls, Xids
  <2> QED
    BY <2>1 DEF IInv, Typed
<1>4. ASSUME NEW k \in Conns, NEW a \in 1 .. Len(stream[k]), stream[k][a].u = "xid"
      PROVE  FALSE
  <2>1. stream[k][a].v \in Xids /\ stream[k][a].v <= dp[k]
    BY <1>4, AnswerTypes, Zenon DEF Done
  <2> QED
    BY <1>1, <2>1, ServerAssumption DEF Xids
<1> QED
  BY <1>1, <1>2, <1>3, <1>4

\* reg() comes before any request.
LEMMA RegKeeps == ASSUME NEW s \in Services, IInv, Reg(s) PROVE IInv'
<1>1. /\ status = "NEW" /\ handlers' \subseteq handlers \cup s
      /\ UNCHANGED << status, loop, stop, link, refs, inVars, dp, jobs, outVars, pc, cur >>
  BY DEF Reg
<1> USE DEF inVars, outVars
<1>2. Typed'
  <2>1. handlers' \subseteq Rpcs
    BY <1>1, ServerAssumption DEF IInv, Typed
  <2> QED
    BY <1>1, <2>1, ZenonT(30) DEF IInv, Typed
<1>3. Flow'
  BY <1>1 DEF IInv, Flow
<1>4. Calls'
  <2>1. jobs' = {} /\ \A t \in Threads : cur'[t] = none /\ pc'[t] = "idle"
    BY <1>1, NothingYet, HasCall, Zenon
  <2> QED
    BY <2>1 DEF Calls
<1>5. Answers'
  <2>1. stream' = stream /\ \A k \in Conns : \A a \in 1 .. Len(stream[k]) : stream[k][a].u # "xid"
    BY <1>1, NothingYet, Zenon
  <2> QED
    BY <2>1, Zenon DEF Answers
<1>6. Locks' /\ Tails' /\ Whole'
  BY <1>1, TailsKeep, WholeKeeps
<1> QED
  BY <1>1, <1>2, <1>3, <1>4, <1>5, <1>6 DEF IInv

\* Starting, accepting and stopping touch no request.
LEMMA StatusKeeps ==
  ASSUME IInv, Start \/ LoopSelect \/ LoopAccept \/ LoopEnd \/ StopCall \/ Stop \/ \E k \in Conns : Connect(k)
  PROVE  IInv'
<1>1. /\ UNCHANGED << handlers, refs, inVars, dp, jobs, outVars, pc, cur >>
      /\ status' \in {"NEW", "RUNNING", "STOPPING", "STOPPED"} /\ (status' = "NEW" => status = "NEW" /\ link' = link)
      /\ loop' \in {"no", "select", "check", "accepted", "done"}
      /\ stop' \in {"no", "join", "close", "wait", "done"}
      /\ \/ link' = link
         \/ \E k \in Conns : link[k] = "none" /\ link' = [link EXCEPT ![k] = "backlog"]
         \/ \E k \in Conns : link[k] = "backlog" /\ link' = [link EXCEPT ![k] = "accepted"]
  BY DEF IInv, Typed, Start, LoopSelect, LoopAccept, LoopEnd, StopCall, Stop, StopJoin, StopClose, StopWait, Connect
<1>2. Quiet
  BY <1>1 DEF Quiet, inVars, outVars
<1>3. Typed'
  BY <1>1, Zenon DEF IInv, Typed, inVars, outVars
<1>4. Flow'
  <2>1. UNCHANGED << rd, sent, dp >> /\ (status' = "NEW" => status = "NEW" /\ link' = link)
    BY <1>1, Zenon DEF inVars
  <2>2. \A k \in Conns : link'[k] = link[k] \/ (link[k] \in {"none", "backlog"} /\ link'[k] \in {"backlog", "accepted"})
    <3>1. DOMAIN link = Conns
      BY DEF IInv, Typed
    <3>2. CASE link' = link
      BY <3>2, Zenon
    <3>3. CASE \E k \in Conns : link[k] = "none" /\ link' = [link EXCEPT ![k] = "backlog"]
      BY <3>1, <3>3
    <3>4. CASE \E k \in Conns : link[k] = "backlog" /\ link' = [link EXCEPT ![k] = "accepted"]
      BY <3>1, <3>4
    <3> QED
      BY <1>1, <3>2, <3>3, <3>4, Zenon
  <2>3. Flow
    BY DEF IInv
  <2> QED
    BY <2>1, <2>2, <2>3 DEF Flow
<1> QED
  BY <1>2, <1>3, <1>4, QuietKeeps DEF IInv

\* A connection that is added has read nothing.
LEMMA LoopAddKeeps == ASSUME IInv, LoopAdd PROVE IInv'
<1> DEFINE run == status = "RUNNING"
<1>1. PICK k \in Conns :
          /\ link[k] = "accepted"
          /\ link' = [link EXCEPT ![k] = IF run THEN "served" ELSE "dropped"]
  BY Zenon DEF LoopAdd
<1>2. loop' = "select" /\ UNCHANGED << status, stop, handlers, inVars, dp, jobs, outVars, pc, cur >>
  BY DEF LoopAdd
<1>3. Quiet
  BY <1>2 DEF Quiet, inVars, outVars
<1>4. Typed'
  BY <1>1, <1>2 DEF IInv, Typed, inVars, outVars
<1>5. Flow'
  <2>1. \A l \in Conns : link'[l] = IF l = k THEN IF run THEN "served" ELSE "dropped" ELSE link[l]
    BY <1>1 DEF IInv, Typed
  <2>2. UNCHANGED << rd, sent, dp, status >>
    BY <1>2 DEF inVars
  <2> QED
    BY <1>1, <2>1, <2>2 DEF IInv, Flow
<1> QED
  BY <1>3, <1>4, <1>5, QuietKeeps DEF IInv

-----------------------------------------------------------------------------
(* Requests *)

\* A client sends a request.
LEMMA SendKeeps == ASSUME NEW k \in Conns, IInv, Send(k) PROVE IInv'
<1> DEFINE i == sent[k] + 1
<1>1. PICK id \in Rpcs \cup {none} : rpc' = [rpc EXCEPT ![k][i] = id]
  BY Zenon DEF Send
<1>2. /\ link[k] # "none" /\ sent[k] < MaxReq /\ sent' = [sent EXCEPT ![k] = @ + 1]
      /\ UNCHANGED << serverVars, refs, rd, dp, jobs, outVars, pc, cur >>
  BY DEF Send
<1> USE DEF serverVars, outVars
<1>3. i \in Xids
  BY <1>2, ServerAssumption DEF IInv, Typed, Xids
<1>4. Typed'
  <2>1. rpc' \in [Conns -> [Xids -> Rpcs \cup {none}]]
    BY <1>1, <1>3 DEF IInv, Typed
  <2>2. sent' \in [Conns -> 0 .. MaxReq]
    BY <1>2, ServerAssumption DEF IInv, Typed
  <2> QED
    BY <1>2, <2>1, <2>2, Zenon DEF IInv, Typed
<1>5. Flow'
  <2> SUFFICES ASSUME NEW l \in Conns
               PROVE  /\ rd[l] <= 2 * sent'[l] /\ 2 * dp[l] <= rd[l]
                      /\ link[l] # "served" => rd[l] = 0
                      /\ link[l] = "none" => sent'[l] = 0
                      /\ status = "NEW" => link[l] = "none"
    BY <1>2, Zenon DEF Flow
  <2>1. sent'[l] = IF l = k THEN sent[l] + 1 ELSE sent[l]
    BY <1>2 DEF IInv, Typed
  <2>2. rd[l] <= 2 * sent'[l]
    BY <2>1, FlowTypes DEF IInv
  <2> QED
    BY <1>2, <2>1, <2>2, ZenonT(30) DEF IInv, Flow
<1>6. \A l \in Conns, j \in Xids : j <= dp[l] => CodeOf(rpc[l][j])' = CodeOf(rpc[l][j])
  <2> SUFFICES ASSUME NEW l \in Conns, NEW j \in Xids, j <= dp[l] PROVE rpc'[l][j] = rpc[l][j]
    BY <1>2 DEF CodeOf
  <2>1. l = k => j # i
    <3>1. dp[l] \in Nat /\ sent[l] \in Nat /\ dp[l] <= sent[l]
      BY FlowTypes, Zenon DEF IInv
    <3> QED
      BY <3>1, ServerAssumption DEF Xids
  <2>2. rpc \in [Conns -> [Xids -> Rpcs \cup {none}]]
    BY Zenon DEF IInv, Typed
  <2> QED
    BY <1>1, <1>3, <2>1, <2>2
<1>7. Calls'
  <2>1. \A t \in Threads : cur[t] # none => cur[t].k \in Conns /\ cur[t].i \in Xids
    BY CallTypes, Zenon DEF IInv
  <2>2. UNCHANGED << dp, jobs, pc, cur >> /\ Calls
    BY <1>2 DEF IInv
  <2>3. ASSUME NEW t \in Threads, cur[t] # none
        PROVE  cur[t].i <= dp[cur[t].k] /\ cur[t].code = CodeOf(rpc[cur[t].k][cur[t].i])'
    <3>1. cur[t].i <= dp[cur[t].k] /\ cur[t].code = CodeOf(rpc[cur[t].k][cur[t].i])
      BY <2>2, <2>3, Zenon DEF Calls
    <3>2. CodeOf(rpc[cur[t].k][cur[t].i])' = CodeOf(rpc[cur[t].k][cur[t].i])
      BY <1>6, <2>1, <2>2, <2>3, <3>1
    <3> QED
      BY <3>1, <3>2, Zenon
  <2>4. ASSUME NEW l \in Conns, NEW j \in Xids, << l, j >> \in jobs
        PROVE  j <= dp[l] /\ CodeOf(rpc[l][j])' = "0"
    <3>1. j <= dp[l] /\ CodeOf(rpc[l][j]) = "0"
      BY <2>2, <2>4, Zenon DEF Calls
    <3> QED
      BY <1>6, <3>1
  <2>5. /\ \A t \in Threads : pc'[t] = "idle" <=> cur'[t] = none
        /\ \A t \in Threads : cur[t] # none => << cur[t].k, cur[t].i >> \notin jobs
        /\ \A t, u \in Threads : cur[t] # none /\ cur[u] # none /\ cur[t].k = cur[u].k /\ cur[t].i = cur[u].i => t = u
    BY <2>2, Zenon DEF Calls
  <2> QED
    BY <2>2, <2>3, <2>4, <2>5, ZenonT(30) DEF Calls
<1>8. Answers'
  <2> SUFFICES ASSUME NEW l \in Conns, NEW a \in 1 .. Len(stream[l]), stream[l][a].u = "xid"
               PROVE  Coded(l, a)' /\ Done(l, stream[l][a].v)'
    BY <1>2, Zenon DEF Answers
  <2>1. stream[l][a].v \in Xids /\ Coded(l, a) /\ Done(l, stream[l][a].v)
    BY AnswerTypes, Zenon
  <2>2. CodeOf(rpc[l][stream[l][a].v])' = CodeOf(rpc[l][stream[l][a].v])
    BY <1>2, <1>6, <2>1, Zenon DEF Done
  <2> QED
    BY <1>2, <2>1, <2>2, ZenonT(30) DEF Coded, Done
<1>9. Locks' /\ Tails' /\ Whole'
  BY <1>2, TailsKeep, WholeKeeps
<1> QED
  BY <1>2, <1>4, <1>5, <1>7, <1>8, <1>9 DEF IInv

\* handle_read takes what has arrived.
LEMMA HandleReadKeeps == ASSUME NEW k \in Conns, IInv, HandleRead(k) PROVE IInv'
<1>1. PICK n \in rd[k] + 1 .. 2 * sent[k] : rd' = [rd EXCEPT ![k] = n]
  BY Zenon DEF HandleRead
<1>2. link[k] = "served" /\ UNCHANGED << serverVars, refs, sent, rpc, dp, jobs, outVars, pc, cur >>
  BY Zenon DEF HandleRead, Ready
<1>3. Quiet
  BY <1>2 DEF Quiet, serverVars, outVars
<1>4. n \in 0 .. 2 * MaxReq /\ n <= 2 * sent[k] /\ n > rd[k]
  BY ServerAssumption DEF IInv, Typed
<1>5. Typed'
  BY <1>1, <1>2, <1>4, Zenon DEF IInv, Typed, serverVars, outVars
<1>6. Flow'
  <2> SUFFICES ASSUME NEW l \in Conns
               PROVE  /\ rd'[l] <= 2 * sent[l] /\ 2 * dp[l] <= rd'[l]
                      /\ link[l] # "served" => rd'[l] = 0
    BY <1>2 DEF IInv, Flow, serverVars
  <2>1. rd'[l] = IF l = k THEN n ELSE rd[l]
    BY <1>1 DEF IInv, Typed
  <2>2. CASE l = k
    <3>1. rd[k] \in Nat /\ dp[k] \in Nat /\ 2 * dp[k] <= rd[k]
      BY FlowTypes, Zenon DEF IInv
    <3> QED
      BY <1>2, <1>4, <2>1, <2>2, <3>1
  <2>3. CASE l # k
    BY <2>1, <2>3 DEF IInv, Flow
  <2> QED
    BY <2>2, <2>3
<1> QED
  BY <1>2, <1>3, <1>5, <1>6, QuietKeeps, Zenon DEF IInv, serverVars

\* The next request of a connection is in no other place.
LEMMA Fresh ==
  ASSUME IInv, NEW k \in Conns
  PROVE  /\ \A j : << k, j >> \in jobs => j # dp[k] + 1
         /\ \A t \in Threads : cur[t] # none /\ cur[t].k = k => cur[t].i # dp[k] + 1
         /\ \A a \in 1 .. Len(stream[k]) : stream[k][a].u = "xid" => stream[k][a].v # dp[k] + 1
<1>1. dp[k] \in Nat
  BY FlowTypes DEF IInv
<1>2. \A j : << k, j >> \in jobs => j \in Xids /\ j <= dp[k]
  BY DEF IInv, Typed, Calls
<1>3. \A t \in Threads : cur[t] # none /\ cur[t].k = k => cur[t].i \in Xids /\ cur[t].i <= dp[k]
  BY CallTypes, Zenon DEF IInv, Calls
<1>4. \A a \in 1 .. Len(stream[k]) : stream[k][a].u = "xid" => stream[k][a].v \in Xids /\ stream[k][a].v <= dp[k]
  BY AnswerTypes, Zenon DEF Done
<1>5. \A j \in Xids : j <= dp[k] => j # dp[k] + 1
  BY <1>1, ServerAssumption DEF Xids
<1> QED
  BY <1>2, <1>3, <1>4, <1>5

\* The next request, with the code it is to be answered with.
Advance(k, code) ==
    /\ pc[k] = "idle" /\ dp[k] + 1 \in Xids /\ 2 * (dp[k] + 1) <= rd[k]
    /\ dp' = [dp EXCEPT ![k] = @ + 1] /\ code = CodeOf(rpc[k][dp[k] + 1])
    /\ UNCHANGED << serverVars, inVars, outVars >>

\* Dispatching a request moves the counter, and no code.
LEMMA AdvanceKeeps ==
  ASSUME NEW k \in Conns, NEW code, IInv, Advance(k, code)
  PROVE  /\ Flow' /\ dp' \in [Conns -> 0 .. MaxReq] /\ (\A l \in Conns : dp[l] <= dp'[l]) /\ dp'[k] = dp[k] + 1
         /\ \A id : CodeOf(id)' = CodeOf(id)
<1>1. \A l \in Conns : dp'[l] = IF l = k THEN dp[l] + 1 ELSE dp[l]
  BY DEF Advance, IInv, Typed
<1>2. \A l \in Conns : dp[l] \in Nat
  BY FlowTypes DEF IInv
<1>3. dp' \in [Conns -> 0 .. MaxReq]
  <2>1. dp \in [Conns -> 0 .. MaxReq] /\ dp' = [dp EXCEPT ![k] = dp[k] + 1] /\ dp[k] + 1 \in Xids
    BY DEF Advance, IInv, Typed
  <2>2. Xids \subseteq 0 .. MaxReq
    BY ServerAssumption DEF Xids
  <2> QED
    BY <2>1, <2>2
<1>4. \A l \in Conns : 2 * dp'[l] <= rd[l]
  BY <1>1, FlowTypes DEF Advance, IInv
<1>5. Flow'
  BY <1>4 DEF Advance, IInv, Flow, serverVars, inVars
<1> QED
  BY <1>1, <1>2, <1>3, <1>5 DEF Advance, CodeOf, serverVars

\* The stream and its lock stay, and a thread that is not replying may start to.
LEMMA StreamKeeps ==
  ASSUME IInv, Typed', UNCHANGED << stream, w, out_l >>,
         \A t \in Threads : pc[t] \in {"ret", "end"} \/ pc'[t] \in {"ret", "end"} => pc'[t] = pc[t] /\ cur'[t] = cur[t]
  PROVE  Locks' /\ Tails' /\ Whole'
<1>1. \A k \in Conns : out_l[k] # none => out_l[k] \in Threads /\ pc[out_l[k]] \in {"ret", "end"}
  BY DEF IInv, Typed, Locks
<1>2. Locks'
  BY <1>1 DEF IInv, Locks
<1>3. \A t \in Threads : pc[t] \in {"ret", "end"} => Length(t)' = Length(t)
  BY DEF Length
<1>4. \A k \in Conns : Mark(k)' = Mark(k)
  BY <1>1, <1>3 DEF Mark
<1>5. Whole'
  BY <1>4 DEF IInv, Whole
<1>6. ASSUME NEW t \in Threads, pc'[t] \in {"ret", "end"}
      PROVE  /\ pc'[t] = pc[t] /\ cur'[t] = cur[t] /\ Length(t)' = Length(t)
             /\ cur[t].k \in Conns /\ Mark(cur[t].k)' = Mark(cur[t].k)
  <2>1. cur[t] # none
    BY <1>6 DEF IInv, Calls
  <2>2. cur[t].k \in Conns
    BY <2>1, CallTypes DEF IInv
  <2> QED
    BY <1>3, <1>4, <1>6, <2>2
<1>7. Tails'
  <2>1. ASSUME NEW t \in Threads, pc'[t] \in {"ret", "end"}
        PROVE  (/\ Mark(cur[t].k) >= 0 /\ Open(stream[cur[t].k], Mark(cur[t].k), cur[t])
                /\ pc[t] = "ret" => cur[t].code = "0"
                /\ Length(t) = 4 => stream[cur[t].k][Mark(cur[t].k) + 4] = [u |-> "ret", v |-> cur[t].i])'
    <3>1. /\ Mark(cur[t].k) >= 0 /\ Open(stream[cur[t].k], Mark(cur[t].k), cur[t])
          /\ pc[t] = "ret" => cur[t].code = "0"
          /\ Length(t) = 4 => stream[cur[t].k][Mark(cur[t].k) + 4] = [u |-> "ret", v |-> cur[t].i]
      BY <1>6, <2>1, Zenon DEF IInv, Tails
    <3>2. /\ pc'[t] = pc[t] /\ cur'[t] = cur[t] /\ Length(t)' = Length(t)
          /\ Mark(cur[t].k)' = Mark(cur[t].k) /\ stream' = stream
      BY <1>6, <2>1, Zenon
    <3> QED
      BY <3>1, <3>2, Zenon DEF Open
  <2> QED
    BY <2>1, Zenon DEF Tails
<1> QED
  BY <1>2, <1>5, <1>7

\* A request that the poll thread answers itself is its current call.
LEMMA DispatchKeeps ==
  ASSUME NEW k \in Conns, NEW code \in Codes, IInv, Advance(k, code), StartReply(k, k, dp[k] + 1, code), jobs' = jobs
  PROVE  IInv'
<1> DEFINE i == dp[k] + 1
           c == [k |-> k, i |-> i, code |-> code]
<1>1. k \in Threads /\ pc' = [pc EXCEPT ![k] = "begin"] /\ cur' = [cur EXCEPT ![k] = c] /\ cur[k] = none /\ c # none /\ c \in Call
  <2>1. k \in Threads /\ pc' = [pc EXCEPT ![k] = "begin"] /\ cur' = [cur EXCEPT ![k] = c]
    BY Zenon DEF StartReply, Threads
  <2>2. cur[k] = none
    BY <2>1, Zenon DEF Advance, IInv, Calls
  <2>3. c \in Call
    BY DEF Advance, Call
  <2> QED
    BY <2>1, <2>2, <2>3, ServerAssumption, Zenon
<1>2. UNCHANGED << serverVars, inVars, outVars >>
  BY DEF Advance
<1>3. Typed'
  BY <1>1, <1>2, AdvanceKeeps, Zenon DEF IInv, Typed, serverVars, inVars, outVars
<1>4. \A t \in Threads : cur'[t] = (IF t = k THEN c ELSE cur[t]) /\ pc'[t] = IF t = k THEN "begin" ELSE pc[t]
  BY <1>1 DEF IInv, Typed
<1>5. \A l \in Conns : dp[l] \in Nat /\ dp'[l] \in Nat /\ dp[l] <= dp'[l] /\ dp'[k] = i
  <2>1. dp' \in [Conns -> 0 .. MaxReq] /\ (\A l \in Conns : dp[l] <= dp'[l]) /\ dp'[k] = i
    BY AdvanceKeeps, Zenon
  <2>2. \A l \in Conns : dp[l] \in Nat
    BY FlowTypes, Zenon DEF IInv
  <2>3. \A l \in Conns : dp'[l] \in Nat
    BY <2>1, ServerAssumption
  <2> QED
    BY <2>1, <2>2, <2>3, Zenon
<1>6. /\ code = CodeOf(rpc[k][i]) /\ << k, i >> \notin jobs /\ c.k = k /\ c.i = i /\ c.code = code
      /\ i <= dp'[k] /\ \A t \in Threads : cur[t] # none /\ cur[t].k = k => cur[t].i # i
      /\ \A a \in 1 .. Len(stream[k]) : stream[k][a].u = "xid" => stream[k][a].v # i
  <2>1. code = CodeOf(rpc[k][i])
    BY Zenon DEF Advance
  <2>2. /\ << k, i >> \notin jobs /\ \A t \in Threads : cur[t] # none /\ cur[t].k = k => cur[t].i # i
        /\ \A a \in 1 .. Len(stream[k]) : stream[k][a].u = "xid" => stream[k][a].v # i
    BY Fresh, Zenon
  <2>3. c.k = k /\ c.i = i /\ c.code = code
    OBVIOUS
  <2>4. i <= dp'[k]
    BY <1>5
  <2> QED
    BY <2>1, <2>2, <2>3, <2>4, Zenon
<1> HIDE DEF i, c
<1>7. Calls'
  <2>1. \A t \in Threads : pc'[t] = "idle" <=> cur'[t] = none
    <3>1. \A t \in Threads : pc[t] = "idle" <=> cur[t] = none
      BY Zenon DEF IInv, Calls
    <3> QED
      BY <1>1, <1>4, <3>1
  <2>2. ASSUME NEW t \in Threads, cur'[t] # none
        PROVE  /\ cur'[t].i <= dp'[cur'[t].k] /\ cur'[t].code = CodeOf(rpc[cur'[t].k][cur'[t].i])
               /\ << cur'[t].k, cur'[t].i >> \notin jobs
    <3>1. CASE t = k
      BY <1>4, <1>6, <3>1, Zenon
    <3>2. CASE t # k
      <4>1. cur'[t] = cur[t]
        BY <1>4, <3>2, Zenon
      <4>2. cur[t].k \in Conns /\ cur[t].i \in Xids
        BY <2>2, <4>1, CallTypes, Zenon DEF IInv
      <4>3. /\ cur[t].i <= dp[cur[t].k] /\ cur[t].code = CodeOf(rpc[cur[t].k][cur[t].i])
            /\ << cur[t].k, cur[t].i >> \notin jobs
        BY <2>2, <4>1, Zenon DEF IInv, Calls
      <4>4. cur[t].i <= dp'[cur[t].k]
        BY <1>5, <4>2, <4>3, ServerAssumption DEF Xids
      <4> QED
        BY <4>1, <4>3, <4>4, Zenon
    <3> QED
      BY <3>1, <3>2, Zenon
  <2>3. ASSUME NEW t \in Threads, NEW u \in Threads, cur'[t] # none, cur'[u] # none,
               cur'[t].k = cur'[u].k, cur'[t].i = cur'[u].i
        PROVE  t = u
    <3>1. CASE t = k \/ u = k
      BY <1>4, <1>6, <2>3, <3>1, Zenon
    <3>2. CASE t # k /\ u # k
      <4>1. cur'[t] = cur[t] /\ cur'[u] = cur[u]
        BY <1>4, <3>2, Zenon
      <4> QED
        BY <2>3, <4>1 DEF IInv, Calls
    <3> QED
      BY <3>1, <3>2, Zenon
  <2>4. ASSUME NEW l \in Conns, NEW j \in Xids, << l, j >> \in jobs
        PROVE  j <= dp'[l] /\ CodeOf(rpc[l][j]) = "0"
    <3>1. j <= dp[l] /\ CodeOf(rpc[l][j]) = "0"
      BY <2>4, Zenon DEF IInv, Calls
    <3>2. dp[l] \in Nat /\ dp'[l] \in Nat /\ dp[l] <= dp'[l]
      BY <1>5, Zenon
    <3>3. j <= dp'[l]
      BY <3>1, <3>2, ServerAssumption DEF Xids
    <3> QED
      BY <3>1, <3>3, Zenon
  <2> QED
    <3>1. rpc' = rpc /\ jobs' = jobs /\ \A id : CodeOf(id)' = CodeOf(id)
      BY <1>2, AdvanceKeeps, Zenon DEF inVars
    <3> QED
      BY <2>1, <2>2, <2>3, <2>4, <3>1, ZenonT(30) DEF Calls
<1>8. Answers'
  <2> SUFFICES ASSUME NEW l \in Conns, NEW a \in 1 .. Len(stream[l]), stream[l][a].u = "xid"
               PROVE  Done(l, stream[l][a].v)'
    BY <1>2, AdvanceKeeps, AnswersKeep, Zenon DEF inVars, outVars
  <2>1. stream[l][a].v \in Nat /\ Done(l, stream[l][a].v)
    BY AnswerTypes
  <2>2. stream[l][a].v <= dp'[l]
    <3>1. stream[l][a].v <= dp[l]
      BY <2>1, Zenon DEF Done
    <3> QED
      BY <1>5, <2>1, <3>1
  <2>3. ASSUME NEW t \in Threads, pc'[t] = "begin", cur'[t].k = l
        PROVE  stream[l][a].v # cur'[t].i
    <3>1. CASE t = k
      <4>1. l = k /\ cur'[t].i = i
        BY <1>4, <1>6, <2>3, <3>1, Zenon
      <4> QED
        BY <1>6, <4>1, Zenon
    <3>2. CASE t # k
      BY <1>4, <2>1, <2>3, <3>2, Zenon DEF Done
    <3> QED
      BY <3>1, <3>2, Zenon
  <2> QED
    BY <1>2, <2>1, <2>2, <2>3 DEF Done, outVars
<1>9. Locks' /\ Tails' /\ Whole'
  <2>1. UNCHANGED << stream, w, out_l >> /\ pc[k] = "idle"
    BY <1>2, Zenon DEF Advance, outVars
  <2>2. ASSUME NEW t \in Threads, pc[t] \in {"ret", "end"} \/ pc'[t] \in {"ret", "end"}
        PROVE  pc'[t] = pc[t] /\ cur'[t] = cur[t]
    BY <1>4, <2>1, <2>2
  <2> QED
    BY <1>3, <2>1, <2>2, StreamKeeps, Zenon
<1> QED
  BY <1>3, <1>7, <1>8, <1>9, AdvanceKeeps DEF IInv

\* A request that is given to the pool is a job that was not there before.
LEMMA LaterKeeps ==
  ASSUME NEW k \in Conns, IInv, Advance(k, "0"), jobs' = jobs \cup {<< k, dp[k] + 1 >>}, pc' = pc, cur' = cur
  PROVE  IInv'
<1> DEFINE i == dp[k] + 1
<1>1. i \in Xids /\ UNCHANGED << serverVars, inVars, outVars >>
  BY DEF Advance
<1>2. << k, i >> \notin jobs
  BY Fresh
<1>3. Typed'
  <2>1. jobs' \subseteq Conns \X Xids
    BY <1>1 DEF IInv, Typed
  <2> QED
    BY <1>1, <2>1, AdvanceKeeps, Zenon DEF IInv, Typed, serverVars, inVars, outVars
<1>4. \A l \in Conns : dp[l] \in Nat /\ dp'[l] \in Nat /\ dp[l] <= dp'[l] /\ dp'[k] = i
  BY AdvanceKeeps, FlowTypes, ServerAssumption DEF IInv
<1>5. Calls'
  <2>1. ASSUME NEW t \in Threads, cur[t] # none
        PROVE  cur[t].i <= dp'[cur[t].k] /\ << cur[t].k, cur[t].i >> \notin jobs'
    <3>1. cur[t].k \in Conns /\ cur[t].i \in Nat
      BY <2>1, CallTypes, ServerAssumption DEF IInv, Xids
    <3>2. cur[t].i <= dp[cur[t].k] /\ << cur[t].k, cur[t].i >> \notin jobs
      BY <2>1 DEF IInv, Calls
    <3>3. << cur[t].k, cur[t].i >> # << k, i >>
      BY <2>1, Fresh
    <3> QED
      BY <1>4, <3>1, <3>2, <3>3
  <2>2. ASSUME NEW l \in Conns, NEW j \in Xids, << l, j >> \in jobs'
        PROVE  j <= dp'[l] /\ CodeOf(rpc[l][j]) = "0"
    <3>1. CASE << l, j >> = << k, i >>
      BY <1>4, <3>1 DEF Advance
    <3>2. CASE << l, j >> \in jobs
      <4>1. j <= dp[l] /\ CodeOf(rpc[l][j]) = "0" /\ j \in Nat
        BY <3>2, ServerAssumption DEF IInv, Calls, Xids
      <4> QED
        BY <1>4, <4>1
    <3> QED
      BY <2>2, <3>1, <3>2
  <2>3. rpc' = rpc /\ \A id : CodeOf(id)' = CodeOf(id)
    BY <1>1, AdvanceKeeps, Zenon DEF inVars
  <2>4. ASSUME NEW t \in Threads PROVE pc[t] = "idle" <=> cur[t] = none
    BY HasCall, Zenon
  <2>5. ASSUME NEW t \in Threads, cur[t] # none PROVE cur[t].code = CodeOf(rpc[cur[t].k][cur[t].i])
    BY <2>5, Zenon DEF IInv, Calls
  <2>6. ASSUME NEW t \in Threads, NEW u \in Threads, cur[t] # none, cur[u] # none, cur[t].k = cur[u].k, cur[t].i = cur[u].i
        PROVE  t = u
    BY <2>6, Zenon DEF IInv, Calls
  <2> QED
    BY <2>1, <2>2, <2>3, <2>4, <2>5, <2>6, ZenonT(30) DEF Calls
<1>6. Answers'
  <2> SUFFICES ASSUME NEW l \in Conns, NEW a \in 1 .. Len(stream[l]), stream[l][a].u = "xid"
               PROVE  Done(l, stream[l][a].v)'
    BY <1>1, AdvanceKeeps, AnswersKeep DEF inVars, outVars
  <2>1. stream[l][a].v \in Nat /\ Done(l, stream[l][a].v)
    BY AnswerTypes
  <2>2. << l, stream[l][a].v >> # << k, i >>
    BY Fresh
  <2> QED
    BY <1>1, <1>4, <2>1, <2>2 DEF Done, outVars
<1>7. Locks' /\ Tails' /\ Whole'
  BY <1>1, <1>3, StreamKeeps DEF outVars
<1> QED
  BY <1>3, <1>5, <1>6, <1>7, AdvanceKeeps DEF IInv

\* The four ways a request is dispatched.
LEMMA NextCallAdvances ==
  ASSUME NEW k \in Conns, NEW ids, NEW code, IInv, NextCall(k, ids),
         \A id \in ids : CodeOf(id) = code, UNCHANGED << serverVars, inVars, outVars >>
  PROVE  Advance(k, code)
<1>1. dp[k] < rd[k] \div 2 /\ dp[k] \in Nat /\ rd[k] \in Nat
  BY FlowTypes DEF IInv, NextCall
<1>2. 2 * (dp[k] + 1) <= rd[k]
  BY <1>1
<1>3. dp[k] + 1 \in Xids
  BY <1>1, <1>2, FlowTypes DEF IInv, Xids
<1> QED
  BY <1>2, <1>3 DEF NextCall, Advance

\* Each way of dispatching a request.
LEMMA DispatchesKeep == ASSUME NEW k \in Conns, IInv, Dispatch(k) PROVE IInv'
<1> USE ServerAssumption
<1>1. CASE DispatchShort(k)
  <2>1. Advance(k, "EINVAL")
    BY <1>1, NextCallAdvances DEF DispatchShort, CodeOf
  <2> QED
    BY <1>1, <2>1, DispatchKeeps DEF DispatchShort, Codes
<1>2. CASE DispatchMissing(k)
  <2>1. Advance(k, "ENOENT")
    BY <1>2, NextCallAdvances DEF DispatchMissing, CodeOf
  <2> QED
    BY <1>2, <2>1, DispatchKeeps DEF DispatchMissing, Codes
<1>3. CASE DispatchFast(k)
  <2>1. Advance(k, "0")
    BY <1>3, NextCallAdvances DEF DispatchFast, CodeOf, Rpcs
  <2> QED
    BY <1>3, <2>1, DispatchKeeps DEF DispatchFast, Codes
<1>4. CASE DispatchLater(k)
  <2>1. Advance(k, "0")
    BY <1>4, NextCallAdvances DEF DispatchLater, CodeOf, Rpcs
  <2> QED
    BY <1>4, <2>1, LaterKeeps DEF DispatchLater
<1> QED
  BY <1>1, <1>2, <1>3, <1>4 DEF Dispatch

-----------------------------------------------------------------------------
(* Replies *)

\* handle_write sends no part of a reply that is not whole.
LEMMA HandleWriteKeeps == ASSUME NEW k \in Conns, IInv, HandleWrite(k) PROVE IInv'
<1>1. PICK n \in w[k] .. Len(stream[k]) : w' = [w EXCEPT ![k] = n] /\ writing' = [writing EXCEPT ![k] = n < Len(stream[k])]
  BY Zenon DEF HandleWrite
<1>2. out_l[k] = none /\ UNCHANGED << serverVars, refs, inVars, dp, jobs, stream, out_l, pc, cur >>
  BY DEF HandleWrite
<1> USE DEF serverVars, inVars
<1>3. n \in Nat /\ n <= Len(stream[k])
  BY DEF IInv, Typed
<1>4. Typed'
  <2>1. (n < Len(stream[k])) \in BOOLEAN
    OBVIOUS
  <2>2. writing' \in [Conns -> BOOLEAN] /\ w' \in [Conns -> Nat]
    BY <1>1, <1>3, <2>1 DEF IInv, Typed
  <2> QED
    BY <1>2, <2>2, Zenon DEF IInv, Typed
<1>5. Flow' /\ Calls'
  <2>2. Calls'
    BY <1>2, CallsKeep
  <2> QED
    BY <1>2, <2>2 DEF IInv, Flow
<1>6. Locks' /\ Tails' /\ \A l : Mark(l)' = Mark(l)
  BY <1>2, TailsKeep
<1>7. Answers'
  <2>1. \A l, i : Done(l, i) => Done(l, i)'
    BY <1>2 DEF Done
  <2>2. \A id : CodeOf(id)' = CodeOf(id)
    BY <1>2 DEF CodeOf
  <2>3. \A l \in Conns : \A a \in 1 .. Len(stream[l]) : stream[l][a].u = "xid" => Done(l, stream[l][a].v)'
    BY <1>2, <2>1 DEF IInv, Answers
  <2> QED
    BY <1>2, <2>2, <2>3, AnswersKeep
<1>8. Whole'
  <2>1. Mark(k) = Len(stream[k])
    BY <1>2 DEF Mark
  <2>2. \A l \in Conns : w'[l] <= Mark(l)
    BY <1>1, <1>3, <2>1 DEF IInv, Typed, Whole
  <2> QED
    BY <1>2, <1>6, <2>2, Zenon DEF IInv, Whole
<1> QED
  BY <1>2, <1>4, <1>5, <1>6, <1>7, <1>8 DEF IInv

\* A worker takes a job, which is nobody else's.
LEMMA TakeKeeps == ASSUME NEW t \in Threads, IInv, Take(t) PROVE IInv'
<1>1. PICK j \in jobs : StartReply(t, j[1], j[2], "0") /\ jobs' = jobs \ {j}
  BY DEF Take
<1> DEFINE k == j[1]
           i == j[2]
           c == [k |-> k, i |-> i, code |-> "0"]
<1>2. k \in Conns /\ i \in Xids /\ j = << k, i >>
  BY DEF IInv, Typed
<1>3. /\ pc[t] = "idle" /\ cur[t] = none /\ c # none /\ c \in Call
      /\ pc' = [pc EXCEPT ![t] = "begin"] /\ cur' = [cur EXCEPT ![t] = c]
      /\ UNCHANGED << serverVars, refs, inVars, dp, outVars >>
  <2>1. pc[t] = "idle" /\ cur[t] = none
    BY DEF Take, IInv, Calls
  <2>2. c \in Call
    BY <1>2 DEF Call, Codes
  <2> QED
    BY <1>1, <2>1, <2>2, ServerAssumption, Zenon DEF Take, StartReply
<1>4. i <= dp[k] /\ CodeOf(rpc[k][i]) = "0"
  BY <1>2 DEF IInv, Calls
<1>5. \A u \in Threads : cur'[u] = (IF u = t THEN c ELSE cur[u]) /\ pc'[u] = IF u = t THEN "begin" ELSE pc[u]
  BY <1>3 DEF IInv, Typed
<1>6. \A id : CodeOf(id)' = CodeOf(id)
  BY <1>3 DEF CodeOf, serverVars
<1>7. Typed'
  BY <1>1, <1>3, Zenon DEF IInv, Typed, serverVars, inVars, outVars
<1>8. Flow'
  BY <1>3 DEF IInv, Flow, serverVars, inVars
<1>9. Calls'
  <2>1. \A u \in Threads : cur[u] # none => << cur[u].k, cur[u].i >> # << k, i >>
    BY <1>2 DEF IInv, Calls
  <2>2. \A u \in Threads : pc'[u] = "idle" <=> cur'[u] = none
    <3>1. \A u \in Threads : pc[u] = "idle" <=> cur[u] = none
      BY DEF IInv, Calls
    <3> QED
      BY <1>3, <1>5, <3>1
  <2>3. ASSUME NEW u \in Threads, cur'[u] # none
        PROVE  /\ cur'[u].i <= dp[cur'[u].k] /\ cur'[u].code = CodeOf(rpc[cur'[u].k][cur'[u].i])
               /\ << cur'[u].k, cur'[u].i >> \notin jobs'
    <3>1. CASE u = t
      BY <1>1, <1>2, <1>4, <1>5, <2>3, <3>1
    <3>2. CASE u # t
      <4>1. cur'[u] = cur[u] /\ jobs' \subseteq jobs
        BY <1>1, <1>5, <3>2
      <4>2. /\ cur[u].i <= dp[cur[u].k] /\ cur[u].code = CodeOf(rpc[cur[u].k][cur[u].i])
            /\ << cur[u].k, cur[u].i >> \notin jobs
        BY <2>3, <4>1, Zenon DEF IInv, Calls
      <4> QED
        BY <4>1, <4>2
    <3> QED
      BY <3>1, <3>2, Zenon
  <2>4. ASSUME NEW u \in Threads, NEW v \in Threads, cur'[u] # none, cur'[v] # none,
               cur'[u].k = cur'[v].k, cur'[u].i = cur'[v].i
        PROVE  u = v
    <3>1. \A x, y \in Threads : cur[x] # none /\ cur[y] # none /\ cur[x].k = cur[y].k /\ cur[x].i = cur[y].i => x = y
      BY DEF IInv, Calls
    <3>2. CASE u = t \/ v = t
      BY <1>5, <2>1, <2>4, <3>2
    <3>3. CASE u # t /\ v # t
      BY <1>5, <2>4, <3>1, <3>3
    <3> QED
      BY <3>2, <3>3
  <2>5. \A l \in Conns, n \in Xids : << l, n >> \in jobs' => n <= dp[l] /\ CodeOf(rpc[l][n]) = "0"
    BY <1>1 DEF IInv, Calls
  <2>6. rpc' = rpc /\ dp' = dp
    BY <1>3 DEF inVars
  <2> QED
    BY <1>6, <2>2, <2>3, <2>4, <2>5, <2>6, ZenonT(30) DEF Calls
<1>10. Answers'
  <2> SUFFICES ASSUME NEW l \in Conns, NEW a \in 1 .. Len(stream[l]), stream[l][a].u = "xid"
               PROVE  Done(l, stream[l][a].v)'
    BY <1>3, <1>6, AnswersKeep, Zenon DEF inVars, outVars
  <2>1. Done(l, stream[l][a].v)
    BY AnswerTypes, Zenon
  <2>2. << l, stream[l][a].v >> # << k, i >>
    BY <1>2, <2>1 DEF Done
  <2> QED
    <3>1. \A u \in Threads : pc'[u] = "begin" /\ cur'[u].k = l => stream[l][a].v # cur'[u].i
      BY <1>5, <2>1, <2>2 DEF Done
    <3>2. stream[l][a].v <= dp[l] /\ << l, stream[l][a].v >> \notin jobs'
      BY <1>1, <2>1 DEF Done
    <3> QED
      BY <1>3, <3>1, <3>2 DEF Done, outVars
<1>11. Locks' /\ Tails' /\ Whole'
  BY <1>3, <1>5, <1>7, StreamKeeps DEF outVars
<1> QED
  BY <1>7, <1>8, <1>9, <1>10, <1>11 DEF IInv

\* A thread that has replied is idle again.
LEMMA CleanKeeps == ASSUME NEW t \in Threads, IInv, Clean(t) PROVE IInv'
<1> DEFINE k == cur[t].k
<1>1. /\ pc[t] = "clean" /\ pc' = [pc EXCEPT ![t] = "idle"] /\ cur' = [cur EXCEPT ![t] = none]
      /\ UNCHANGED << serverVars, inVars, dp, jobs, outVars >>
  BY DEF Clean, Goto, K
<1>2. cur[t] # none /\ k \in Conns
  BY <1>1, CallTypes DEF IInv, Calls
<1>3. \A u \in Threads : cur'[u] = (IF u = t THEN none ELSE cur[u]) /\ pc'[u] = IF u = t THEN "idle" ELSE pc[u]
  BY <1>1 DEF IInv, Typed
<1>4. \A id : CodeOf(id)' = CodeOf(id)
  BY <1>1 DEF CodeOf, serverVars
<1>7. Typed'
  BY <1>1 DEF IInv, Typed, serverVars, inVars, outVars
<1>8. Flow'
  BY <1>1, Zenon DEF IInv, Flow, serverVars, inVars
<1>9. Calls'
  <2>1. Calls /\ UNCHANGED << rpc, dp, jobs >>
    BY <1>1 DEF IInv, inVars
  <2>2. \A u \in Threads : cur'[u] # none => cur'[u] = cur[u] /\ cur[u] # none
    BY <1>3, Zenon
  <2>3. \A u \in Threads : pc'[u] = "idle" <=> cur'[u] = none
    BY <1>3, <2>1, Zenon DEF Calls
  <2> QED
    BY <1>4, <2>1, <2>2, <2>3 DEF Calls
<1>10. Answers'
  <2> SUFFICES ASSUME NEW l \in Conns, NEW a \in 1 .. Len(stream[l]), stream[l][a].u = "xid"
               PROVE  Done(l, stream[l][a].v)'
    BY <1>1, <1>4, AnswersKeep, Zenon DEF inVars, outVars
  <2>1. Done(l, stream[l][a].v)
    BY AnswerTypes
  <2> QED
    BY <1>1, <1>3, <2>1 DEF Done, outVars
<1>11. Locks' /\ Tails' /\ Whole'
  BY <1>1, <1>3, <1>7, StreamKeeps DEF outVars
<1> QED
  BY <1>7, <1>8, <1>9, <1>10, <1>11 DEF IInv

-----------------------------------------------------------------------------
(* begin_reply ... end_reply *)

\* Thread t, which holds or takes out_l_, goes on to p, and is the only one that writes to
\* its stream.
Writes(t, k, p) ==
    /\ t \in Threads /\ k = cur[t].k /\ p \in {"ret", "end", "clean"} /\ cur[t] # none
    /\ cur' = cur /\ w' = w /\ pc' = [pc EXCEPT ![t] = p] /\ out_l[k] \in {none, t}
    /\ \A l \in Conns : out_l'[l] = IF l # k THEN out_l[l] ELSE IF p = "clean" THEN none ELSE t
    /\ \A l \in Conns : l # k => stream'[l] = stream[l]
    /\ w[k] <= Mark(k)' /\ \A a \in 1 .. Mark(k)' : Fits(stream'[k], a)
    /\ p # "clean" => Mark(k)' >= 0 /\ Open(stream'[k], Mark(k)', cur[t])
    /\ p = "ret" => cur[t].code = "0"
    /\ Length(t)' = 4 => stream'[k][Mark(k)' + 4] = [u |-> "ret", v |-> cur[t].i]

\* Who has out_l_ is a thread that writes a reply.
LEMMA HoldsLock ==
  ASSUME IInv, NEW l \in Conns, out_l[l] # none
  PROVE  out_l[l] \in Threads /\ pc[out_l[l]] \in {"ret", "end"} /\ cur[out_l[l]].k = l
<1>1. out_l \in [Conns -> Threads \cup {none}]
  BY Zenon DEF IInv, Typed
<1>2. pc[out_l[l]] \in {"ret", "end"} /\ cur[out_l[l]].k = l
  BY Zenon DEF IInv, Locks
<1> QED
  BY <1>1, <1>2

\* A step that writes to the stream of the connection whose lock its thread has, or takes.
LEMMA WriterKeeps ==
  ASSUME NEW t, NEW k, NEW p, IInv, Typed', Writes(t, k, p)
  PROVE  Locks' /\ Tails' /\ Whole'
<1>0. /\ t \in Threads /\ k = cur[t].k /\ p \in {"ret", "end", "clean"} /\ cur[t] # none
      /\ cur' = cur /\ w' = w /\ out_l[k] \in {none, t}
      /\ \A l \in Conns : l # k => out_l'[l] = out_l[l] /\ stream'[l] = stream[l]
  BY Zenon DEF Writes
<1>1. k \in Conns /\ t # none
  BY <1>0, CallTypes, ServerAssumption DEF IInv, Threads
<1>2. \A u \in Threads : pc'[u] = IF u = t THEN p ELSE pc[u]
  <2>1. pc \in [Threads -> {"idle", "begin", "ret", "end", "clean"}] /\ pc' = [pc EXCEPT ![t] = p]
    BY Zenon DEF IInv, Typed, Writes
  <2> QED
    BY <2>1
<1>a. out_l'[k] = IF p = "clean" THEN none ELSE t
  BY <1>1, Zenon DEF Writes
<1>3. \A u \in Threads : u # t /\ pc[u] \in {"ret", "end"} => cur[u].k \in Conns /\ cur[u].k # k /\ Length(u)' = Length(u)
  <2> SUFFICES ASSUME NEW u \in Threads, u # t, pc[u] \in {"ret", "end"}
               PROVE  cur[u].k \in Conns /\ cur[u].k # k /\ Length(u)' = Length(u)
    OBVIOUS
  <2>1. cur[u] # none /\ out_l[cur[u].k] = u
    BY DEF IInv, Calls, Locks
  <2>2. cur[u].k \in Conns /\ u # none
    BY <2>1, CallTypes, ServerAssumption DEF IInv, Threads
  <2>3. cur[u].k # k
    BY <1>0, <2>1, <2>2
  <2> QED
    BY <1>0, <1>2, <2>2, <2>3 DEF Length
<1>4. Locks'
  <2>1. ASSUME NEW u \in Threads, pc'[u] \in {"ret", "end"}
        PROVE  out_l'[cur[u].k] = u
    <3>1. CASE u = t
      BY <1>0, <1>2, <1>a, <2>1, <3>1
    <3>2. CASE u # t
      <4>1. pc[u] \in {"ret", "end"} /\ cur[u].k \in Conns /\ cur[u].k # k
        BY <1>2, <1>3, <2>1, <3>2
      <4>2. out_l[cur[u].k] = u
        BY <4>1, Zenon DEF IInv, Locks
      <4> QED
        BY <1>0, <4>1, <4>2
    <3> QED
      BY <3>1, <3>2
  <2>2. ASSUME NEW l \in Conns, out_l'[l] # none
        PROVE  pc'[out_l'[l]] \in {"ret", "end"} /\ cur[out_l'[l]].k = l
    <3>1. CASE l = k
      BY <1>0, <1>2, <1>a, <2>2, <3>1
    <3>2. CASE l # k
      <4>0. out_l'[l] = out_l[l] /\ out_l[l] # none
        BY <1>0, <2>2, <3>2
      <4>1. out_l[l] \in Threads /\ pc[out_l[l]] \in {"ret", "end"} /\ cur[out_l[l]].k = l
        BY <4>0, HoldsLock, Zenon
      <4>2. out_l[l] # t
        BY <1>0, <3>2, <4>1
      <4> QED
        BY <1>2, <4>0, <4>1, <4>2
    <3> QED
      BY <3>1, <3>2
  <2> QED
    BY <1>0, <2>1, <2>2, Zenon DEF Locks
<1>5. \A l \in Conns : l # k => Mark(l)' = Mark(l)
  <2> SUFFICES ASSUME NEW l \in Conns, l # k PROVE Mark(l)' = Mark(l)
    OBVIOUS
  <2>1. out_l[l] # none => out_l[l] \in Threads /\ pc[out_l[l]] \in {"ret", "end"} /\ cur[out_l[l]].k = l
    BY HoldsLock, Zenon
  <2>2. out_l[l] # none => Length(out_l[l])' = Length(out_l[l])
    <3> SUFFICES ASSUME out_l[l] # none PROVE Length(out_l[l])' = Length(out_l[l])
      OBVIOUS
    <3>1. out_l[l] # t
      BY <1>0, <2>1
    <3>2. out_l'[l] = out_l[l]
      BY <1>0
    <3> QED
      BY <1>3, <2>1, <3>1, <3>2
  <2>3. out_l'[l] = out_l[l] /\ stream'[l] = stream[l]
    BY <1>0
  <2> QED
    BY <2>2, <2>3 DEF Mark
<1>6. Whole'
  <2> SUFFICES ASSUME NEW l \in Conns
               PROVE  w[l] <= Mark(l)' /\ \A a \in 1 .. Mark(l)' : Fits(stream'[l], a)
    BY <1>0, Zenon DEF Whole
  <2>1. CASE l = k
    BY <2>1, Zenon DEF Writes
  <2>2. CASE l # k
    BY <1>0, <1>5, <2>2, Zenon DEF IInv, Whole
  <2> QED
    BY <2>1, <2>2
<1>7. Tails'
  <2> SUFFICES ASSUME NEW u \in Threads, pc'[u] \in {"ret", "end"}
               PROVE  /\ Mark(cur[u].k)' >= 0 /\ Open(stream'[cur[u].k], Mark(cur[u].k)', cur[u])
                      /\ pc'[u] = "ret" => cur[u].code = "0"
                      /\ Length(u)' = 4 => stream'[cur[u].k][Mark(cur[u].k)' + 4] = [u |-> "ret", v |-> cur[u].i]
    BY <1>0, Zenon DEF Tails
  <2>1. CASE u = t
    <3>1. pc'[u] = p /\ p # "clean"
      BY <1>2, <2>1
    <3> QED
      BY <2>1, <3>1, Zenon DEF Writes
  <2>2. CASE u # t
    <3>1. pc'[u] = pc[u] /\ cur[u].k \in Conns /\ cur[u].k # k /\ Length(u)' = Length(u)
      BY <1>2, <1>3, <2>2
    <3>2. Mark(cur[u].k)' = Mark(cur[u].k) /\ stream'[cur[u].k] = stream[cur[u].k]
      BY <1>0, <1>5, <3>1
    <3>3. pc[u] \in {"ret", "end"}
      BY <3>1
    <3> QED
      BY <3>1, <3>2, <3>3, Zenon DEF IInv, Tails
  <2> QED
    BY <2>1, <2>2, Zenon
<1> QED
  BY <1>4, <1>6, <1>7
==============================================================================
