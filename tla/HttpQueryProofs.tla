--------------------------- MODULE HttpQueryProofs --------------------------
(***************************************************************************)
(* Proofs about HttpQuery, for every result, channel, page size and number *)
(* of requests, cancellations, KILLs and lost connections.                 *)
(***************************************************************************)
EXTENDS HttpQuery, SequenceTheorems, TLAPS

-----------------------------------------------------------------------------
(* Sequences of blocks *)

\* The length of the result.
LEMMA Size == Len(Rows) \in Nat /\ Blocks = 1 .. Len(Rows) /\ \A b \in Blocks : Rows[b] \in Nat
BY QueryAssumption DEF Blocks

\* The blocks from one to another, as a sequence.
LEMMA BetweenSeq ==
  ASSUME NEW lo \in Nat, NEW hi \in 0 .. Len(Rows), lo <= hi
  PROVE  /\ Between(lo, hi) \in Seq(Blocks) /\ Len(Between(lo, hi)) = hi - lo
         /\ DOMAIN Between(lo, hi) = 1 .. hi - lo
         /\ \A i \in 1 .. hi - lo : Between(lo, hi)[i] = lo + i
         /\ Between(lo, hi) = << >> <=> lo = hi
<1>1. hi - lo \in Nat /\ \A i \in 1 .. hi - lo : lo + i \in Blocks
  BY Size
<1>2. PICK q : q = Between(lo, hi)
  OBVIOUS
<1>3. q \in Seq(Blocks) /\ Len(q) = hi - lo
  BY <1>1, <1>2 DEF Between
<1>4. DOMAIN q = 1 .. hi - lo /\ \A i \in 1 .. hi - lo : q[i] = lo + i
  BY <1>2 DEF Between
<1>5. q = << >> <=> Len(q) = 0
  BY <1>3
<1>6. hi - lo = 0 <=> lo = hi
  BY Size
<1> QED
  BY <1>2, <1>3, <1>4, <1>5, <1>6, Zenon

\* One block more at the end.
LEMMA BetweenAppend ==
  ASSUME NEW lo \in Nat, NEW hi \in 0 .. Len(Rows), lo <= hi, hi < Len(Rows)
  PROVE  Append(Between(lo, hi), hi + 1) = Between(lo, hi + 1)
<1>0. PICK q, m, p : q = Between(lo, hi) /\ m = hi + 1 /\ p = Between(lo, m)
  OBVIOUS
<1>1. q \in Seq(Blocks) /\ Len(q) = hi - lo /\ \A i \in 1 .. hi - lo : q[i] = lo + i
  BY <1>0, BetweenSeq, Zenon
<1>2. p \in Seq(Blocks) /\ Len(p) = m - lo /\ \A i \in 1 .. m - lo : p[i] = lo + i
  <2>1. m \in 0 .. Len(Rows) /\ lo <= m
    BY <1>0, Size
  <2>2. /\ Between(lo, m) \in Seq(Blocks) /\ Len(Between(lo, m)) = m - lo
        /\ \A i \in 1 .. m - lo : Between(lo, m)[i] = lo + i
    BY <2>1, BetweenSeq, Zenon
  <2> QED
    BY <1>0, <2>2
<1>3. m \in Blocks
  BY <1>0, Size
<1>4. PICK w : w = Append(q, m)
  OBVIOUS
<1>5. /\ w \in Seq(Blocks) /\ Len(w) = Len(q) + 1 /\ w[Len(q) + 1] = m
      /\ \A i \in 1 .. Len(q) : w[i] = q[i]
  BY <1>1, <1>3, <1>4, AppendProperties
<1>6. Len(w) = Len(p) /\ \A i \in 1 .. Len(w) : w[i] = p[i]
  <2>1. PICK n \in Nat : n = hi - lo
    BY Size
  <2>2. /\ m - lo = n + 1 /\ lo + (n + 1) = m /\ n + 1 \in 1 .. n + 1
        /\ \A i \in 1 .. n + 1 : i \in 1 .. n \/ i = n + 1
        /\ \A i \in 1 .. n : i \in 1 .. n + 1
    BY <1>0, <2>1, Size
  <2> QED
    BY <1>1, <1>2, <1>5, <2>1, <2>2, Zenon
<1>7. w = p
  BY <1>2, <1>5, <1>6, SeqEqual, Zenon
<1> QED
  BY <1>0, <1>4, <1>7, Zenon

\* The first block and the others.
LEMMA BetweenHead ==
  ASSUME NEW lo \in Nat, NEW hi \in 0 .. Len(Rows), lo < hi
  PROVE  Head(Between(lo, hi)) = lo + 1 /\ Tail(Between(lo, hi)) = Between(lo + 1, hi)
<1>1. lo <= hi /\ lo + 1 <= hi /\ lo + 1 \in Nat /\ lo # hi /\ 1 \in 1 .. hi - lo
  BY Size
<1>2. PICK q : q = Between(lo, hi)
  OBVIOUS
<1>3. /\ q \in Seq(Blocks) /\ Len(q) = hi - lo /\ (\A i \in 1 .. hi - lo : q[i] = lo + i)
      /\ q # << >>
  BY <1>1, <1>2, BetweenSeq, Zenon
<1>4. Head(q) = lo + 1
  BY <1>1, <1>3
<1>5. PICK w, m, p : w = Tail(q) /\ m = lo + 1 /\ p = Between(m, hi)
  OBVIOUS
<1>6. p \in Seq(Blocks) /\ Len(p) = hi - m /\ \A i \in 1 .. hi - m : p[i] = m + i
  BY <1>1, <1>5, BetweenSeq, Zenon
<1>7. w \in Seq(Blocks) /\ Len(w) = Len(q) - 1 /\ \A i \in 1 .. Len(w) : w[i] = q[i + 1]
  BY <1>3, <1>5, HeadTailProperties, Zenon
<1>8. Len(w) = Len(p) /\ \A i \in 1 .. Len(w) : w[i] = p[i]
  BY <1>3, <1>5, <1>6, <1>7, Size
<1>9. w = p
  BY <1>6, <1>7, <1>8, SeqEqual, Zenon
<1> QED
  BY <1>2, <1>4, <1>5, <1>9, Zenon

\* The blocks of such a sequence.
LEMMA BetweenRange ==
  ASSUME NEW lo \in Nat, NEW hi \in 0 .. Len(Rows), lo <= hi
  PROVE  Range(Between(lo, hi)) = lo + 1 .. hi
<1>0. PICK q : q = Between(lo, hi)
  OBVIOUS
<1>1. DOMAIN q = 1 .. hi - lo /\ \A i \in 1 .. hi - lo : q[i] = lo + i
  BY <1>0, BetweenSeq, Zenon
<1>2. ASSUME NEW b \in lo + 1 .. hi PROVE b \in Range(q)
  <2>1. b - lo \in 1 .. hi - lo /\ lo + (b - lo) = b
    BY Size
  <2> QED
    BY <1>1, <2>1, Zenon DEF Range
<1>3. ASSUME NEW b \in Range(q) PROVE b \in lo + 1 .. hi
  <2>1. PICK i \in 1 .. hi - lo : b = lo + i
    BY <1>1, Zenon DEF Range
  <2> QED
    BY <2>1, Size
<1> QED
  BY <1>0, <1>2, <1>3, Zenon

-----------------------------------------------------------------------------
(* What a page or the client holds *)

\* Nothing with rows.
LEMMA HoldsNothing ==
  ASSUME NEW lost, NEW q \in Seq(Blocks)
  PROVE  Holds(q, 0, 0, lost) <=> \A b \in Range(q) : ~HasRows(b)
<1>1. {b \in 0 + 1 .. 0 : HasRows(b) /\ b \notin lost} = {}
  OBVIOUS
<1>2. \A i \in DOMAIN q : q[i] \in Range(q)
  BY Zenon DEF Range
<1> QED
  BY <1>1, <1>2, Zenon DEF Holds

\* What a handler has collected.
LEMMA HoldsBetween ==
  ASSUME NEW lost, NEW lo \in Nat, NEW hi \in 0 .. Len(Rows), lo <= hi, lost \subseteq 1 .. lo
  PROVE  Holds(Between(lo, hi), lo, hi, lost)
<1>1. PICK q : q = Between(lo, hi)
  OBVIOUS
<1>2. DOMAIN q = 1 .. hi - lo /\ (\A i \in 1 .. hi - lo : q[i] = lo + i) /\ Range(q) = lo + 1 .. hi
  BY <1>1, BetweenSeq, BetweenRange, Zenon
<1>3. \A i, j \in 1 .. hi - lo : i < j => lo + i < lo + j
  BY Size
<1>4. \A i, j \in DOMAIN q : i < j => q[i] < q[j]
  BY <1>2, <1>3, Zenon
<1>5. \A b \in lo + 1 .. hi : b \notin lost
  BY Size
<1>6. {b \in Range(q) : HasRows(b)} = {b \in lo + 1 .. hi : HasRows(b) /\ b \notin lost}
  BY <1>2, <1>5, Zenon
<1> QED
  BY <1>1, <1>4, <1>6, Zenon DEF Holds

\* The blocks up to a later one, when those between have no rows or are lost.
LEMMA HoldsLonger ==
  ASSUME NEW q, NEW lo \in Nat, NEW hi \in Nat, NEW m \in Nat, lo <= hi, hi <= m,
         NEW before, NEW lost, Holds(q, lo, hi, before),
         \A b \in lo + 1 .. hi : b \in lost <=> b \in before,
         \A b \in hi + 1 .. m : ~HasRows(b) \/ b \in lost
  PROVE  Holds(q, lo, m, lost)
<1>1. \A b : b \in lo + 1 .. m <=> b \in lo + 1 .. hi \/ b \in hi + 1 .. m
  OBVIOUS
<1>2. {b \in lo + 1 .. m : HasRows(b) /\ b \notin lost} = {b \in lo + 1 .. hi : HasRows(b) /\ b \notin before}
  BY <1>1, Zenon
<1> QED
  BY <1>2, Zenon DEF Holds

\* w has the elements of p and after them those of q.
OneAfter(w, p, q) ==
  /\ Range(w) = Range(p) \cup Range(q)
  /\ \A i, j \in DOMAIN w : i < j =>
       \/ i \in DOMAIN p /\ j \in DOMAIN p /\ w[i] = p[i] /\ w[j] = p[j]
       \/ w[i] \in Range(p) /\ w[j] \in Range(q)
       \/ \E a, b \in DOMAIN q : a < b /\ w[i] = q[a] /\ w[j] = q[b]

\* The elements of two sequences one after the other.
LEMMA RangeConcat ==
  ASSUME NEW p \in Seq(Blocks), NEW q \in Seq(Blocks)
  PROVE  p \o q \in Seq(Blocks) /\ OneAfter(p \o q, p, q)
<1>1. PICK w, m, n : w = p \o q /\ m = Len(p) /\ n = Len(q)
  OBVIOUS
<1>2. m \in Nat /\ n \in Nat /\ DOMAIN p = 1 .. m /\ DOMAIN q = 1 .. n
  BY <1>1
<1>3. w \in Seq(Blocks) /\ Len(w) = m + n /\ \A i \in 1 .. m + n : w[i] = IF i <= m THEN p[i] ELSE q[i - m]
  BY <1>1, ConcatProperties, Zenon
<1>4. DOMAIN w = 1 .. m + n
  BY <1>3
<1>5. \A i \in 1 .. m : i \in 1 .. m + n /\ w[i] = p[i]
  BY <1>2, <1>3
<1>6. \A i \in 1 .. n : m + i \in 1 .. m + n /\ w[m + i] = q[i]
  <2>1. \A i \in 1 .. n : m + i \in 1 .. m + n /\ ~(m + i <= m) /\ (m + i) - m = i
    BY <1>2
  <2> QED
    BY <1>3, <2>1, Zenon
<1>7. \A i \in 1 .. m + n : i \in 1 .. m \/ (i - m \in 1 .. n /\ w[i] = q[i - m])
  <2>1. \A i \in 1 .. m + n : i \in 1 .. m \/ (i - m \in 1 .. n /\ ~(i <= m))
    BY <1>2
  <2> QED
    BY <1>3, <2>1, Zenon
<1>8. Range(w) = Range(p) \cup Range(q)
  <2>1. ASSUME NEW x \in Range(w) PROVE x \in Range(p) \cup Range(q)
    BY <1>2, <1>4, <1>5, <1>7, Zenon DEF Range
  <2>2. ASSUME NEW x \in Range(p) PROVE x \in Range(w)
    BY <1>2, <1>4, <1>5, Zenon DEF Range
  <2>3. ASSUME NEW x \in Range(q) PROVE x \in Range(w)
    BY <1>2, <1>4, <1>6, Zenon DEF Range
  <2> QED
    BY <2>1, <2>2, <2>3, Zenon
<1>9. ASSUME NEW i \in DOMAIN w, NEW j \in DOMAIN w, i < j
      PROVE  \/ i \in DOMAIN p /\ j \in DOMAIN p /\ w[i] = p[i] /\ w[j] = p[j]
             \/ w[i] \in Range(p) /\ w[j] \in Range(q)
             \/ \E a, b \in DOMAIN q : a < b /\ w[i] = q[a] /\ w[j] = q[b]
  <2>0. i \in 1 .. m + n /\ j \in 1 .. m + n
    BY <1>4, Zenon
  <2>1. CASE j \in 1 .. m
    <3>1. i \in 1 .. m
      BY <1>2, <1>9, <2>0, <2>1
    <3> QED
      BY <1>2, <1>5, <2>1, <3>1, Zenon
  <2>2. CASE i \in 1 .. m /\ j - m \in 1 .. n /\ w[j] = q[j - m]
    BY <1>2, <1>5, <2>2, Zenon DEF Range
  <2>3. CASE i - m \in 1 .. n /\ w[i] = q[i - m] /\ j - m \in 1 .. n /\ w[j] = q[j - m]
    <3>1. i - m < j - m
      BY <1>2, <1>9, <2>0
    <3> QED
      BY <1>2, <2>3, <3>1, Zenon
  <2> QED
    BY <1>7, <2>0, <2>1, <2>2, <2>3, Zenon
<1>10. OneAfter(w, p, q)
  BY <1>8, <1>9 DEF OneAfter
<1> QED
  BY <1>1, <1>3, <1>10, Zenon

\* A page after all pages before it.
LEMMA HoldsConcat ==
  ASSUME NEW lost, NEW p \in Seq(Blocks), NEW q \in Seq(Blocks), NEW m \in Nat, NEW hi \in Nat, m <= hi,
         Holds(p, 0, m, lost), Holds(q, m, hi, lost)
  PROVE  Holds(p \o q, 0, hi, lost)
<1>1. PICK w : w = p \o q
  OBVIOUS
<1>2. OneAfter(w, p, q)
  BY <1>1, RangeConcat, Zenon
<1>3. \A b : b \in 0 + 1 .. hi <=> b \in 0 + 1 .. m \/ b \in m + 1 .. hi
  OBVIOUS
<1>4. {b \in Range(w) : HasRows(b)} = {b \in 0 + 1 .. hi : HasRows(b) /\ b \notin lost}
  BY <1>2, <1>3, Zenon DEF Holds, OneAfter
<1>5. ASSUME NEW i \in DOMAIN w, NEW j \in DOMAIN w, i < j, HasRows(w[i]), HasRows(w[j])
      PROVE  w[i] < w[j]
  <2>1. CASE i \in DOMAIN p /\ j \in DOMAIN p /\ w[i] = p[i] /\ w[j] = p[j]
    BY <1>5, <2>1, Zenon DEF Holds
  <2>2. CASE w[i] \in Range(p) /\ w[j] \in Range(q)
    <3>1. w[i] \in 0 + 1 .. m /\ w[j] \in m + 1 .. hi
      BY <1>5, <2>2, Zenon DEF Holds
    <3> QED
      BY <3>1
  <2>3. CASE \E a, b \in DOMAIN q : a < b /\ w[i] = q[a] /\ w[j] = q[b]
    BY <1>5, <2>3, Zenon DEF Holds
  <2> QED
    BY <1>2, <1>5, <2>1, <2>2, <2>3, Zenon DEF OneAfter
<1> QED
  BY <1>1, <1>4, <1>5, Zenon DEF Holds

\* An answer without rows.
LEMMA HoldsSame ==
  ASSUME NEW lost, NEW p \in Seq(Blocks), NEW q \in Seq(Blocks), NEW hi, Holds(p, 0, hi, lost), Holds(q, 0, 0, lost)
  PROVE  Holds(p \o q, 0, hi, lost)
<1>1. PICK w : w = p \o q
  OBVIOUS
<1>2. OneAfter(w, p, q)
  BY <1>1, RangeConcat, Zenon
<1>3. \A b \in Range(q) : ~HasRows(b)
  BY HoldsNothing, Zenon
<1>4. {b \in Range(w) : HasRows(b)} = {b \in Range(p) : HasRows(b)}
  BY <1>2, <1>3, Zenon DEF OneAfter
<1>5. \A i \in DOMAIN q : q[i] \in Range(q)
  BY Zenon DEF Range
<1>6. ASSUME NEW i \in DOMAIN w, NEW j \in DOMAIN w, i < j, HasRows(w[i]), HasRows(w[j])
      PROVE  w[i] < w[j]
  BY <1>2, <1>3, <1>5, <1>6, Zenon DEF Holds, OneAfter
<1> QED
  BY <1>1, <1>4, <1>6, Zenon DEF Holds

-----------------------------------------------------------------------------
(* The parts of the invariant *)

\* The types follow from the rest.
LEMMA Conclude ==
  ASSUME ShapeOK', ExecOK', \A r \in Requests : ReqOK(r)',
         NEW l \in 0 .. Len(Rows), NEW h \in 0 .. Len(Rows), NEW c \in 0 .. Len(Rows),
         NEW e \in 0 .. Len(Rows), Cursors(l, h, c, e)'
  PROVE  HttpInv'
<1>1. chan' \in Seq(Blocks) /\ Len(chan') <= ChannelSize
  <2>1. c <= e /\ chan' = Between(c, e) /\ Len(chan') <= ChannelSize
    BY Zenon DEF Cursors, ChanOK
  <2>2. c \in Nat
    BY Size
  <2> QED
    BY <2>1, <2>2, BetweenSeq, Zenon
<1>2. data'.total_pages \in 0 .. Len(Rows)
  <2>1. data'.total_pages \in 0 .. h
    BY Zenon DEF Cursors, DataOK
  <2> QED
    BY <2>1, Size
<1>3. data'.last_page = None <=> data'.total_pages = 0
  BY QueryAssumption, Zenon DEF Cursors, DataOK
<1>4. client'.got \in Seq(Blocks)
  BY Zenon DEF Cursors, GotOK
<1>5. TypeOK'
  BY <1>1, <1>2, <1>3, <1>4, Zenon DEF TypeOK, ShapeOK, ExecOK, ReqOK, Blocks
<1> QED
  BY <1>5, Zenon DEF HttpInv

\* Initially nothing is sent, and the first request asks for page 0.
LEMMA InitInv ==
  ASSUME Init
  PROVE  HttpInv
<1> PICK n : n = Len(Rows)
  OBVIOUS
<1>1. n \in Nat /\ 0 \in 0 .. n /\ n \in 0 .. n
  BY Size
<1>2. PICK r \in Requests :
        /\ req = [q \in Requests |-> IF q = r THEN [Quiet EXCEPT !.pc = "lock"] ELSE Quiet]
        /\ client = [live |-> r, next |-> 0, got |-> <<>>, told |-> None]
  BY QueryAssumption, Zenon DEF Init
<1>3. /\ DOMAIN req = Requests /\ DOMAIN req[r] = DOMAIN Quiet /\ req[r].pc = "lock" /\ req[r].page_no = 0
      /\ req[r].page = NoPage
      /\ \A q \in Requests : q # r => req[q] = Quiet
  BY <1>2 DEF Quiet
<1>4. Quiet.pc = "idle" /\ Quiet.page = NoPage /\ Quiet.page_no = 0
  BY DEF Quiet
<1>5. client.live = r /\ client.next = 0 /\ client.got = <<>> /\ client.told = None /\ ~Done
      /\ DOMAIN client = {"live", "next", "got", "told"}
  BY <1>2 DEF Done
<1>6. data.total_pages = 0 /\ data.last_page = None /\ data.end = FALSE /\ holder = None
  BY DEF Init
<1>7. /\ task.pc = "start" /\ task.left = [b \in Blocks |-> b] /\ task.aborted = FALSE /\ task.error = FALSE
      /\ DOMAIN task = {"pc", "left", "aborted", "error"}
  BY DEF Init
<1>8. context \in [killed : BOOLEAN, abort : BOOLEAN, missed : BOOLEAN]
  BY DEF Init
<1>9. /\ DOMAIN ender = {"expiry", "cancel"} /\ ender["expiry"] # "close" /\ ender["cancel"] # "close"
  BY DEF Init
<1>10. /\ wait \in WaitTypes /\ exec = "Running" /\ chan = << >> /\ tx_open /\ rx_open
       /\ expire_at = None /\ dropped = {}
  BY Zenon DEF Init
<1>11. ShapeOK
  BY <1>3, <1>4, <1>5, <1>6, <1>7, <1>8, <1>9, <1>10, Zenon DEF ShapeOK
<1>12. ExecOK
  BY <1>6, <1>7, <1>9, <1>10, Zenon DEF ExecOK
<1>13. ASSUME NEW q \in Requests PROVE ReqOK(q)
  <2>1. 0 \in Nat /\ 0 <= 0 /\ None # q
    BY QueryAssumption
  <2>2. CASE q = r
    BY <1>3, <1>5, <1>6, <2>1, <2>2, Zenon DEF ReqOK
  <2>3. CASE q # r
    BY <1>3, <1>4, <1>6, <2>1, <2>3, Zenon DEF ReqOK
  <2> QED
    BY <2>2, <2>3, Zenon
<1>14. Between(0, 0) = << >> /\ Between(0, n) = [b \in Blocks |-> b]
  <2>0. 0 \in Nat /\ 0 <= 0 /\ 0 \in 0 .. Len(Rows)
    BY Size
  <2>1. Between(0, 0) = << >>
    BY <2>0, BetweenSeq, Zenon
  <2>2. n - 0 = n /\ \A i \in 1 .. n : 0 + i = i
    BY <1>1
  <2>3. Between(0, n) = [b \in 1 .. n |-> b]
    BY <2>2, Zenon DEF Between
  <2> QED
    BY <2>1, <2>3, Size, Zenon
<1>15. Len(chan) <= ChannelSize
  BY <1>10, QueryAssumption
<1>16. << >> \in Seq(Blocks) /\ Holds(<< >>, 0, 0, dropped)
  <2>1. << >> \in Seq(Blocks) /\ Range(<< >>) = {}
    BY DEF Range
  <2> QED
    BY <2>1, HoldsNothing, Zenon
<1>17. 0 <= 0 /\ 0 \in 0 .. 0 /\ 0 \in Nat
  OBVIOUS
<1>18. ChanOK(0, 0) /\ CollectOK(0, 0)
  <2>1. \A q \in Requests : req[q].pc # "collect"
    BY <1>3, <1>4, Zenon
  <2> QED
    BY <1>10, <1>14, <1>15, <1>17, <2>1, Zenon DEF ChanOK, CollectOK
<1>19. TaskOK(0)
  BY <1>1, <1>7, <1>10, <1>14, ZenonT(30) DEF TaskOK
<1>20. DataOK(0, 0) /\ GotOK(0, 0) /\ ToldOK(0)
  BY <1>5, <1>6, <1>16, <1>17, Zenon DEF DataOK, GotOK, ToldOK
<1>21. LiveOK(0, 0)
  BY <1>3, <1>5, Zenon DEF LiveOK
<1>22. Cursors(0, 0, 0, 0)
  BY <1>18, <1>19, <1>20, <1>21, Zenon DEF Cursors
<1>23. TypeOK
  <2>1. chan \in Seq(Blocks) /\ client.got \in Seq(Blocks)
    BY <1>5, <1>10, <1>16, Zenon
  <2> QED
    BY <1>1, <1>5, <1>6, <1>10, <1>13, <1>15, <1>11, <2>1, Zenon DEF TypeOK, ReqOK, ShapeOK
<1> QED
  BY <1>1, <1>11, <1>12, <1>13, <1>22, <1>23, Zenon DEF HttpInv

\* A step that leaves the pages, the handlers and the client alone.
LEMMA PagesKept ==
  ASSUME NEW l \in 0 .. Len(Rows), NEW h \in 0 .. Len(Rows), NEW c \in 0 .. Len(Rows),
         NEW e \in 0 .. Len(Rows), Cursors(l, h, c, e), \A r \in Requests : ReqOK(r),
         UNCHANGED <<data, holder, req, client, dropped>>
  PROVE  /\ \A r \in Requests : ReqOK(r)'
         /\ CollectOK(h, c)' /\ DataOK(l, h)' /\ GotOK(l, h)' /\ LiveOK(l, h)'
<1>1. ASSUME NEW r \in Requests PROVE ReqOK(r)'
  BY DEF ReqOK, Done
<1>2. CollectOK(h, c)'
  BY DEF Cursors, CollectOK
<1>3. DataOK(l, h)'
  BY DEF Cursors, DataOK
<1>4. GotOK(l, h)'
  <2>1. GotOK(l, h)
    BY Zenon DEF Cursors
  <2> QED
    BY <2>1, Zenon DEF GotOK, Done
<1>5. LiveOK(l, h)'
  <2>1. ASSUME NEW r \in Requests, AnswerOK(req[r].page, l, h) PROVE AnswerOK(req[r].page, l, h)'
    BY <2>1 DEF AnswerOK
  <2>2. ASSUME NEW r \in Requests, client'.live = r
        PROVE  /\ ~Done'
               /\ req'[r].pc \in {"get", "lock", "collect"} => req'[r].page_no = client'.next
               /\ req'[r].pc = "state" => AnswerOK(req[r].page, l, h)
    BY <2>2, Zenon DEF Cursors, LiveOK, Done
  <2> QED
    BY <2>1, <2>2, Zenon DEF LiveOK
<1> QED
  BY <1>1, <1>2, <1>3, <1>4, <1>5, Zenon

\* It keeps the invariant if it keeps what is said about the execution.
LEMMA KeepPages ==
  ASSUME NEW l \in 0 .. Len(Rows), NEW h \in 0 .. Len(Rows), NEW c \in 0 .. Len(Rows),
         NEW e \in 0 .. Len(Rows), Cursors(l, h, c, e), \A r \in Requests : ReqOK(r),
         UNCHANGED <<data, holder, req, client, dropped>>,
         exec = "Succeeded" => exec' = exec /\ context'.missed = context.missed,
         NEW f \in 0 .. Len(Rows), ShapeOK', ExecOK', ChanOK(c, f)', TaskOK(f)'
  PROVE  HttpInv'
<1>1. ToldOK(h)'
  <2>1. ToldOK(h)
    BY Zenon DEF Cursors
  <2>2. client' = client /\ data' = data /\ dropped' = dropped
    BY Zenon
  <2> QED
    BY <2>1, <2>2, Zenon DEF ToldOK, Done
<1>2. /\ \A r \in Requests : ReqOK(r)'
      /\ CollectOK(h, c)' /\ DataOK(l, h)' /\ GotOK(l, h)' /\ LiveOK(l, h)'
  BY PagesKept, Zenon
<1>3. Cursors(l, h, c, f)'
  BY <1>1, <1>2, Zenon DEF Cursors
<1> QED
  BY <1>2, <1>3, Conclude, Zenon

-----------------------------------------------------------------------------
(* The steps of the task *)

\* A step of execute that returns, or goes on and sends nothing.
LEMMA TaskGoesOn ==
  ASSUME NEW l \in 0 .. Len(Rows), NEW h \in 0 .. Len(Rows), NEW c \in 0 .. Len(Rows),
         NEW e \in 0 .. Len(Rows), Cursors(l, h, c, e), \A r \in Requests : ReqOK(r),
         ShapeOK, ExecOK, UNCHANGED <<wait, exec, channel, pages, req, fate, customer>>,
         task.pc \in {"start", "poll", "next", "send"}, DOMAIN task' = {"pc", "left", "aborted", "error"},
         task'.aborted \in BOOLEAN, task'.error \in BOOLEAN,
         context' \in [killed : BOOLEAN, abort : BOOLEAN, missed : BOOLEAN],
         \/ /\ task'.pc \in {"start", "poll", "next", "send"} /\ task'.left = task.left
            /\ task'.pc = "send" => task.left # << >>
         \/ /\ task'.pc = "stop"
            /\ ~task'.error /\ ~context'.missed => task.left = << >>
  PROVE  HttpInv'
<1>2. /\ wait' = wait /\ exec' = exec /\ chan' = chan /\ tx_open' = tx_open /\ rx_open' = rx_open
      /\ data' = data /\ holder' = holder /\ req' = req /\ registered' = registered
      /\ expire_at' = expire_at /\ ender' = ender /\ client' = client /\ dropped' = dropped
  BY Zenon DEF channel, pages, fate, customer
<1>3. ShapeOK'
  BY <1>2, Zenon DEF ShapeOK
<1>4. exec # "Succeeded" /\ tx_open /\ task'.pc \notin {"drop", "done"}
  BY Zenon DEF ExecOK
<1>5. ExecOK'
  BY <1>2, <1>4, Zenon DEF ExecOK
<1>6. ChanOK(c, e)'
  BY <1>2, Zenon DEF Cursors, ChanOK
<1>7. PICK s \in e .. Len(Rows) :
        task.left = Between(s, Len(Rows)) /\ (rx_open => s = e) /\ (task.pc = "send" => s < Len(Rows))
  BY Zenon DEF Cursors, TaskOK
<1>8. s \in Nat /\ s <= Len(Rows) /\ Len(Rows) \in 0 .. Len(Rows)
  BY Size
<1>9. task.left = << >> <=> s = Len(Rows)
  <2>1. Between(s, Len(Rows)) = << >> <=> s = Len(Rows)
    BY <1>8, BetweenSeq, Zenon
  <2> QED
    BY <1>7, <2>1
<1>10. s # Len(Rows) => s < Len(Rows)
  BY <1>8, Size
<1>11. TaskOK(e)'
  <2>1. CASE task'.pc = "stop" /\ (~task'.error /\ ~context'.missed => task.left = << >>)
    <3>1. ~task'.error /\ ~context'.missed /\ exec = "Running" => e = Len(Rows)
      <4>1. exec = "Running" => s = e
        BY <1>7, Zenon DEF ExecOK
      <4> QED
        BY <1>9, <2>1, <4>1, Zenon
    <3> QED
      BY <1>2, <1>4, <2>1, <3>1, Zenon DEF TaskOK
  <2>2. CASE /\ task'.pc \in {"start", "poll", "next", "send"} /\ task'.left = task.left
             /\ task'.pc = "send" => task.left # << >>
    <3>1. task'.left = Between(s, Len(Rows)) /\ (rx_open' => s = e) /\ (task'.pc = "send" => s < Len(Rows))
      BY <1>2, <1>7, <1>9, <1>10, <2>2
    <3> QED
      BY <1>2, <1>4, <2>2, <3>1, Zenon DEF TaskOK
  <2> QED
    BY <2>1, <2>2, Zenon
<1> QED
  BY <1>2, <1>3, <1>4, <1>5, <1>6, <1>11, KeepPages, Zenon

\* What execute returns with.
LEMMA Returned ==
  ASSUME ShapeOK, NEW err \in BOOLEAN, task' = Return(err)
  PROVE  /\ task'.pc = "stop" /\ task'.error = err /\ task'.aborted = FALSE
         /\ DOMAIN task' = {"pc", "left", "aborted", "error"}
BY DEF ShapeOK, Return

\* The stream is created, polled, and its end or the next block is found.
LEMMA PollInv ==
  ASSUME NEW l \in 0 .. Len(Rows), NEW h \in 0 .. Len(Rows), NEW c \in 0 .. Len(Rows),
         NEW e \in 0 .. Len(Rows), Cursors(l, h, c, e), \A r \in Requests : ReqOK(r),
         ShapeOK, ExecOK, execute \/ is_aborted \/ poll_next
  PROVE  HttpInv'
<1>1. {task.aborted, task.error, context.abort} \subseteq BOOLEAN
  BY DEF ShapeOK
<1>2. CASE execute
  <2>1. /\ UNCHANGED <<wait, exec, channel, pages, req, fate, customer>> /\ context' = context
        /\ task.pc = "start" /\ (task' = [task EXCEPT !.pc = "poll"] \/ task' = Return(TRUE))
    BY <1>2, Zenon DEF execute
  <2>2. context' \in [killed : BOOLEAN, abort : BOOLEAN, missed : BOOLEAN]
    BY <2>1, Zenon DEF ShapeOK
  <2>3. CASE task' = Return(TRUE)
    <3>1. /\ task'.pc = "stop" /\ task'.error = TRUE /\ task'.aborted = FALSE
          /\ DOMAIN task' = {"pc", "left", "aborted", "error"}
      BY <2>3, Returned, Zenon
    <3> QED
      BY <2>1, <2>2, <3>1, TaskGoesOn, Zenon
  <2>4. CASE task' = [task EXCEPT !.pc = "poll"]
    <3>1. /\ task'.pc = "poll" /\ task'.error = task.error /\ task'.aborted = task.aborted
          /\ task'.left = task.left /\ DOMAIN task' = {"pc", "left", "aborted", "error"}
      BY <2>4 DEF ShapeOK
    <3> QED
      BY <1>1, <2>1, <2>2, <3>1, TaskGoesOn, Zenon
  <2> QED
    BY <2>1, <2>3, <2>4, Zenon
<1>3. CASE is_aborted
  <2>1. /\ UNCHANGED <<wait, exec, channel, pages, req, fate, customer>> /\ context' = context
        /\ task.pc = "poll" /\ task' = [task EXCEPT !.pc = "next", !.aborted = context.abort]
    BY <1>3, Zenon DEF is_aborted
  <2>2. context' \in [killed : BOOLEAN, abort : BOOLEAN, missed : BOOLEAN]
    BY <2>1, Zenon DEF ShapeOK
  <2>3. /\ task'.pc = "next" /\ task'.error = task.error /\ task'.aborted = context.abort
        /\ task'.left = task.left /\ DOMAIN task' = {"pc", "left", "aborted", "error"}
    BY <2>1 DEF ShapeOK
  <2> QED
    BY <1>1, <2>1, <2>2, <2>3, TaskGoesOn, Zenon
<1>4. CASE poll_next
  <2>1. UNCHANGED <<wait, exec, channel, pages, req, fate, customer>> /\ task.pc = "next"
    BY <1>4, Zenon DEF poll_next
  <2>2. CASE /\ task' = Return(task.aborted)
             /\ context' = [context EXCEPT !.missed = ~task.aborted]
    <3>1. /\ task'.pc = "stop" /\ task'.error = task.aborted /\ task'.aborted = FALSE
          /\ DOMAIN task' = {"pc", "left", "aborted", "error"}
      BY <1>1, <2>2, Returned, Zenon
    <3>2. /\ context' \in [killed : BOOLEAN, abort : BOOLEAN, missed : BOOLEAN]
          /\ context'.missed = ~task.aborted
      BY <2>2 DEF ShapeOK
    <3>3. task'.error \/ context'.missed
      BY <3>1, <3>2
    <3> QED
      BY <1>1, <2>1, <3>1, <3>2, <3>3, TaskGoesOn, Zenon
  <2>3. CASE context' = context /\ (task' = Return(TRUE) \/ (task' = Return(FALSE) /\ task.left = << >>))
    <3>1. PICK err \in BOOLEAN : task' = Return(err) /\ (~err => task.left = << >>)
      BY <2>3, Zenon
    <3>2. /\ task'.pc = "stop" /\ task'.error = err /\ task'.aborted = FALSE
          /\ DOMAIN task' = {"pc", "left", "aborted", "error"}
      BY <3>1, Returned, Zenon
    <3>3. context' \in [killed : BOOLEAN, abort : BOOLEAN, missed : BOOLEAN]
      BY <2>3, Zenon DEF ShapeOK
    <3> QED
      BY <2>1, <3>1, <3>2, <3>3, TaskGoesOn, Zenon
  <2>4. CASE context' = context /\ task.left # << >> /\ task' = [task EXCEPT !.pc = "send"]
    <3>1. /\ task'.pc = "send" /\ task'.error = task.error /\ task'.aborted = task.aborted
          /\ task'.left = task.left /\ DOMAIN task' = {"pc", "left", "aborted", "error"}
      BY <2>4 DEF ShapeOK
    <3>2. context' \in [killed : BOOLEAN, abort : BOOLEAN, missed : BOOLEAN]
      BY <2>4, Zenon DEF ShapeOK
    <3> QED
      BY <1>1, <2>1, <2>4, <3>1, <3>2, TaskGoesOn, Zenon
  <2> QED
    BY <1>4, <2>2, <2>3, <2>4, Zenon DEF poll_next
<1> QED
  BY <1>2, <1>3, <1>4, Zenon

\* A block is sent, refused by a closed channel, or given up on.
LEMMA SendInv ==
  ASSUME NEW l \in 0 .. Len(Rows), NEW h \in 0 .. Len(Rows), NEW c \in 0 .. Len(Rows),
         NEW e \in 0 .. Len(Rows), Cursors(l, h, c, e), \A r \in Requests : ReqOK(r),
         ShapeOK, ExecOK, send
  PROVE  HttpInv'
<1>0. /\ task.pc = "send" /\ wait' = wait /\ exec' = exec /\ context' = context /\ tx_open' = tx_open
      /\ rx_open' = rx_open /\ data' = data /\ holder' = holder /\ req' = req /\ registered' = registered
      /\ expire_at' = expire_at /\ ender' = ender /\ client' = client /\ dropped' = dropped /\ events' = events
  BY Zenon DEF send, pages, fate, customer
<1>1. CASE chan' = chan /\ task' = Return(TRUE)
  <2>1. /\ task'.pc = "stop" /\ task'.error = TRUE /\ task'.aborted = FALSE
        /\ DOMAIN task' = {"pc", "left", "aborted", "error"}
    BY <1>1, Returned, Zenon
  <2>2. context' \in [killed : BOOLEAN, abort : BOOLEAN, missed : BOOLEAN]
    BY <1>0, Zenon DEF ShapeOK
  <2>3. UNCHANGED <<wait, exec, channel, pages, req, fate, customer>>
    BY <1>0, <1>1, Zenon DEF channel, pages, fate, customer
  <2> QED
    BY <1>0, <2>1, <2>2, <2>3, TaskGoesOn, Zenon
<1>2. PICK n : n = Len(Rows)
  OBVIOUS
<1>3. PICK s \in e .. n : task.left = Between(s, n) /\ (rx_open => s = e) /\ s < n
  BY <1>0, <1>2, Zenon DEF Cursors, TaskOK
<1>4. PICK t : t = s + 1
  OBVIOUS
<1>5. /\ s \in Nat /\ s < n /\ s \in 0 .. Len(Rows) /\ n \in 0 .. Len(Rows) /\ s < Len(Rows)
      /\ t \in 0 .. Len(Rows) /\ t \in e .. n /\ t \in t .. n
  BY <1>2, <1>3, <1>4, Size
<1>6. Head(task.left) = t /\ Tail(task.left) = Between(t, n)
  BY <1>3, <1>4, <1>5, BetweenHead, Zenon
<1>7. exec # "Succeeded" /\ tx_open
  BY <1>0, Zenon DEF ExecOK
<1>8. ASSUME task' = [task EXCEPT !.pc = "poll", !.left = Tail(@)],
             NEW f \in 0 .. Len(Rows), t \in f .. n, rx_open => t = f /\ ~data.end /\ ~data'.end, ChanOK(c, f)',
             ~rx_open => chan' = chan
      PROVE  HttpInv'
  <2>1. /\ task'.pc = "poll" /\ task'.left = Between(t, n) /\ task'.aborted = task.aborted
        /\ task'.error = task.error /\ DOMAIN task' = {"pc", "left", "aborted", "error"}
    BY <1>6, <1>8 DEF ShapeOK
  <2>2. ShapeOK'
    BY <1>0, <2>1, Zenon DEF ShapeOK
  <2>3. ExecOK'
    BY <1>0, <1>7, <1>8, <2>1, Zenon DEF ExecOK
  <2>4. TaskOK(f)'
    BY <1>0, <1>2, <1>7, <1>8, <2>1, Zenon DEF TaskOK
  <2> QED
    BY <1>0, <1>7, <1>8, <2>2, <2>3, <2>4, KeepPages, Zenon
<1>9. CASE ~rx_open /\ chan' = chan /\ task' = [task EXCEPT !.pc = "poll", !.left = Tail(@)]
  <2>1. ChanOK(c, e)'
    BY <1>9, Zenon DEF Cursors, ChanOK
  <2> QED
    BY <1>5, <1>8, <1>9, <2>1, Zenon
<1>10. CASE /\ rx_open /\ Len(chan) < ChannelSize
            /\ chan' = Append(chan, Head(task.left))
            /\ task' = [task EXCEPT !.pc = "poll", !.left = Tail(@)]
  <2>1. s = e /\ ~data.end /\ ~data'.end
    BY <1>0, <1>3, <1>7, <1>10, Zenon DEF ExecOK
  <2>2. c <= s /\ c \in Nat /\ c <= t /\ chan = Between(c, s)
    BY <1>4, <1>5, <2>1, Size DEF Cursors, ChanOK
  <2>3. chan' = Between(c, t)
    <3>1. Append(Between(c, s), t) = Between(c, t)
      BY <1>4, <1>5, <2>2, BetweenAppend, Zenon
    <3> QED
      BY <1>6, <1>10, <2>2, <3>1
  <2>4. Len(chan') <= ChannelSize
    <3>1. Len(chan') = t - c /\ Len(chan) = s - c
      BY <1>5, <2>2, <2>3, BetweenSeq, Zenon
    <3> QED
      BY <1>4, <1>5, <1>10, <2>2, <3>1, QueryAssumption
  <2>5. ChanOK(c, t)'
    BY <2>2, <2>3, <2>4, Zenon DEF ChanOK
  <2> QED
    BY <1>5, <1>8, <1>10, <2>1, <2>5, Zenon
<1> QED
  BY <1>1, <1>9, <1>10, Zenon DEF send

\* Executor::stop, and the sender is dropped.
LEMMA StopInv ==
  ASSUME NEW l \in 0 .. Len(Rows), NEW h \in 0 .. Len(Rows), NEW c \in 0 .. Len(Rows),
         NEW e \in 0 .. Len(Rows), Cursors(l, h, c, e), \A r \in Requests : ReqOK(r),
         ShapeOK, ExecOK, stop \/ drop_tx
  PROVE  HttpInv'
<1>0. /\ wait' = wait /\ context' = context /\ chan' = chan
      /\ rx_open' = rx_open /\ data' = data /\ holder' = holder /\ req' = req /\ registered' = registered
      /\ expire_at' = expire_at /\ ender' = ender /\ client' = client /\ dropped' = dropped
  BY Zenon DEF stop, drop_tx, channel, pages, fate, customer
<1>1. ChanOK(c, e)'
  BY <1>0, Zenon DEF Cursors, ChanOK
<1>2. CASE stop
  <2>1. /\ task.pc = "stop" /\ tx_open' = tx_open
        /\ exec' = IF exec # "Running" THEN exec ELSE IF task.error THEN "Failed" ELSE "Succeeded"
        /\ task' = [task EXCEPT !.pc = "drop", !.error = FALSE]
    BY <1>2, Zenon DEF stop, channel
  <2>2. /\ task'.pc = "drop" /\ task'.error = FALSE /\ task'.aborted = task.aborted
        /\ DOMAIN task' = {"pc", "left", "aborted", "error"}
    BY <2>1 DEF ShapeOK
  <2>3. /\ exec' # "Running" /\ exec' \in {"Running", "Succeeded", "Failed"} /\ tx_open
        /\ exec # "Succeeded" /\ (exec' = "Succeeded" => exec = "Running" /\ ~task.error)
    BY <2>1, Zenon DEF ExecOK
  <2>4. ShapeOK'
    BY <1>0, <2>2, Zenon DEF ShapeOK
  <2>5. ExecOK'
    BY <1>0, <2>1, <2>2, <2>3, Zenon DEF ExecOK
  <2>6. TaskOK(e)'
    BY <1>0, <2>1, <2>2, <2>3, Zenon DEF Cursors, TaskOK
  <2> QED
    BY <1>0, <1>1, <2>3, <2>4, <2>5, <2>6, KeepPages, Zenon
<1>3. CASE drop_tx
  <2>1. /\ task.pc = "drop" /\ exec' = exec /\ tx_open' = FALSE
        /\ task' = [task EXCEPT !.pc = "done"]
    BY <1>3, Zenon DEF drop_tx
  <2>2. /\ task'.pc = "done" /\ task'.error = task.error /\ task'.aborted = task.aborted
        /\ DOMAIN task' = {"pc", "left", "aborted", "error"}
    BY <2>1 DEF ShapeOK
  <2>3. ShapeOK'
    BY <1>0, <2>2, Zenon DEF ShapeOK
  <2>4. ExecOK'
    BY <1>0, <2>1, <2>2, Zenon DEF ExecOK
  <2>5. TaskOK(e)'
    BY <1>0, <2>1, <2>2, Zenon DEF Cursors, TaskOK
  <2> QED
    BY <1>0, <1>1, <2>1, <2>3, <2>4, <2>5, KeepPages, Zenon
<1> QED
  BY <1>2, <1>3, Zenon

-----------------------------------------------------------------------------
(* The end of a query *)

\* A step that ends the query leaves the task where it is.
LEMMA TaskKept ==
  ASSUME NEW l \in 0 .. Len(Rows), NEW h \in 0 .. Len(Rows), NEW c \in 0 .. Len(Rows),
         NEW e \in 0 .. Len(Rows), Cursors(l, h, c, e), \A r \in Requests : ReqOK(r),
         ShapeOK, ExecOK, UNCHANGED <<wait, task, chan, tx_open, pages, req, client, dropped>>,
         expire_at' \in {None, "later", "past"}, DOMAIN ender' = {"expiry", "cancel"},
         context' \in [killed : BOOLEAN, abort : BOOLEAN, missed : BOOLEAN],
         context'.missed = context.missed, exec' = exec \/ (exec = "Running" /\ exec' = "Failed"),
         rx_open' = rx_open \/ (rx_open' = FALSE /\ exec' # "Running"),
         \A x \in {"expiry", "cancel"} : ender'[x] = "close" => ender[x] = "close" \/ exec' # "Running"
  PROVE  HttpInv'
<1>1. /\ wait' = wait /\ task' = task /\ chan' = chan /\ tx_open' = tx_open /\ data' = data
      /\ holder' = holder /\ req' = req /\ client' = client /\ dropped' = dropped
  BY Zenon DEF pages
<1>2. ShapeOK'
  BY <1>1, Zenon DEF ShapeOK
<1>3. exec' \in {"Running", "Succeeded", "Failed"} /\ (exec # "Running" => exec' # "Running")
      /\ (exec' = "Succeeded" <=> exec = "Succeeded") /\ (exec' = "Running" => exec = "Running")
  BY Zenon DEF ExecOK
<1>4. ExecOK'
  <2>1. \A x \in {"expiry", "cancel"} : ender'[x] = "close" => exec' # "Running"
    BY <1>3, Zenon DEF ExecOK
  <2>2. (~rx_open' => exec' # "Running") /\ (~rx_open => ~rx_open')
    <3>1. rx_open \/ exec' # "Running"
      BY <1>3, Zenon DEF ExecOK
    <3> QED
      BY <3>1
  <2>3. ~tx_open' <=> ~tx_open
    BY <1>1
  <2> QED
    BY <1>1, <1>3, <2>1, <2>2, <2>3, Zenon DEF ExecOK
<1>5. ChanOK(c, e)'
  BY <1>1, Zenon DEF Cursors, ChanOK
<1>6. TaskOK(e)'
  <2>1. ASSUME task.pc \in {"start", "poll", "next", "send"}
        PROVE  \E s \in e .. Len(Rows) :
                 task.left = Between(s, Len(Rows)) /\ (rx_open' => s = e) /\ (task.pc = "send" => s < Len(Rows))
    <3>1. rx_open' => rx_open
      OBVIOUS
    <3> QED
      BY <2>1, <3>1, Zenon DEF Cursors, TaskOK
  <2>2. TaskOK(e)
    BY Zenon DEF Cursors
  <2> QED
    BY <1>1, <1>3, <2>1, <2>2, Zenon DEF TaskOK
<1> QED
  BY <1>1, <1>2, <1>3, <1>4, <1>5, <1>6, KeepPages, Zenon

\* What a kill does to the context.
LEMMA KilledContext ==
  ASSUME ShapeOK
  PROVE  Killed \in [killed : BOOLEAN, abort : BOOLEAN, missed : BOOLEAN] /\ Killed.missed = context.missed
<1>1. (task.pc # "start") \in BOOLEAN
  OBVIOUS
<1> QED
  BY <1>1 DEF ShapeOK, Killed

\* The expiry, the cancellation and the KILL.
LEMMA EndInv ==
  ASSUME NEW l \in 0 .. Len(Rows), NEW h \in 0 .. Len(Rows), NEW c \in 0 .. Len(Rows),
         NEW e \in 0 .. Len(Rows), Cursors(l, h, c, e), \A r \in Requests : ReqOK(r),
         ShapeOK, ExecOK,
         \/ \E x \in {"expiry", "cancel"} : End(x)
         \/ expire \/ check_expire \/ cancel \/ force_kill_query
  PROVE  HttpInv'
<1>1. /\ context \in [killed : BOOLEAN, abort : BOOLEAN, missed : BOOLEAN]
      /\ expire_at \in {None, "later", "past"} /\ DOMAIN ender = {"expiry", "cancel"}
  BY Zenon DEF ShapeOK
<1>2. ASSUME NEW x \in {"expiry", "cancel"}, NEW v, Ender(x, v)
      PROVE  /\ DOMAIN ender' = {"expiry", "cancel"}
             /\ \A y \in {"expiry", "cancel"} : ender'[y] = IF y = x THEN v ELSE ender[y]
  BY <1>1, <1>2 DEF Ender
<1>3. CASE expire \/ check_expire \/ cancel \/ \E x \in {"expiry", "cancel"} : remove_query(x)
  <2>1. /\ UNCHANGED <<wait, task, chan, tx_open, pages, req, client, dropped>>
        /\ context' = context /\ exec' = exec /\ rx_open' = rx_open
    BY <1>3, Zenon DEF expire, check_expire, cancel, remove_query, executor, channel, customer
  <2>2. expire_at' \in {None, "later", "past"}
    BY <1>1, <1>3, Zenon DEF expire, check_expire, cancel, remove_query
  <2>3. ender' = ender \/ \E x \in {"expiry", "cancel"}, v \in {"remove", "kill", "done"} : Ender(x, v)
    BY <1>3 DEF expire, check_expire, cancel, remove_query
  <2>4. /\ DOMAIN ender' = {"expiry", "cancel"}
        /\ \A x \in {"expiry", "cancel"} : ender'[x] = "close" => ender[x] = "close"
    <3>1. CASE ender' = ender
      BY <1>1, <3>1, Zenon
    <3>2. ASSUME NEW x \in {"expiry", "cancel"}, NEW v \in {"remove", "kill", "done"}, Ender(x, v)
          PROVE  /\ DOMAIN ender' = {"expiry", "cancel"}
                 /\ \A y \in {"expiry", "cancel"} : ender'[y] = "close" => ender[y] = "close"
      <4>1. v # "close"
        BY <3>2
      <4>2. /\ DOMAIN ender' = {"expiry", "cancel"}
            /\ \A y \in {"expiry", "cancel"} : ender'[y] = IF y = x THEN v ELSE ender[y]
        BY <1>2, <3>2, Zenon
      <4> QED
        BY <4>1, <4>2
    <3> QED
      BY <2>3, <3>1, <3>2, Zenon
  <2> QED
    BY <1>1, <2>1, <2>2, <2>4, TaskKept, Zenon
<1>4. ASSUME NEW x \in {"expiry", "cancel"}, kill(x) PROVE HttpInv'
  <2>1. /\ UNCHANGED <<wait, task, chan, tx_open, pages, req, client, dropped>>
        /\ expire_at' = expire_at /\ rx_open' = rx_open /\ Ender(x, "close")
        /\ exec' = IF exec = "Running" THEN "Failed" ELSE exec
        /\ context' = IF exec = "Running" THEN Killed ELSE context
    BY <1>4, Zenon DEF kill, channel, customer
  <2>2. /\ DOMAIN ender' = {"expiry", "cancel"}
        /\ \A y \in {"expiry", "cancel"} : ender'[y] = IF y = x THEN "close" ELSE ender[y]
    BY <1>2, <2>1, Zenon
  <2>3. exec' # "Running" /\ (exec' = exec \/ (exec = "Running" /\ exec' = "Failed"))
    BY <2>1
  <2>4. /\ context' \in [killed : BOOLEAN, abort : BOOLEAN, missed : BOOLEAN]
        /\ context'.missed = context.missed
    BY <1>1, <2>1, KilledContext, Zenon
  <2> QED
    BY <1>1, <2>1, <2>2, <2>3, <2>4, TaskKept, Zenon
<1>5. ASSUME NEW x \in {"expiry", "cancel"}, close(x) PROVE HttpInv'
  <2>1. /\ UNCHANGED <<wait, task, chan, tx_open, pages, req, client, dropped>>
        /\ expire_at' = expire_at /\ context' = context /\ exec' = exec
        /\ ender[x] = "close" /\ rx_open' = FALSE
    BY <1>5, Zenon DEF close, executor, customer
  <2>2. \E v : Ender(x, v)
    BY <1>5, Zenon DEF close
  <2>3. DOMAIN ender' = {"expiry", "cancel"}
    BY <1>2, <2>2, Zenon
  <2>4. exec' # "Running"
    BY <2>1, Zenon DEF ExecOK
  <2> QED
    BY <1>1, <2>1, <2>3, <2>4, TaskKept, Zenon
<1>6. CASE force_kill_query
  <2>1. /\ UNCHANGED <<wait, task, chan, tx_open, pages, req, client, dropped>>
        /\ expire_at' = expire_at /\ rx_open' = rx_open /\ ender' = ender /\ exec' = exec
        /\ context' = Killed
    BY <1>6, Zenon DEF force_kill_query, channel, fate
  <2> QED
    BY <1>1, <2>1, KilledContext, TaskKept, Zenon
<1> QED
  BY <1>3, <1>4, <1>5, <1>6, Zenon DEF End

-----------------------------------------------------------------------------
(* The handlers *)

\* A step of the handler of r alone.
Others(r) == DOMAIN req' = Requests /\ \A q \in Requests : q # r => req'[q] = req[q]

\* The handler gets to another step, and has a page.
LEMMA Updated ==
  ASSUME ShapeOK, NEW r \in Requests, NEW pc, NEW page, Respond(r, pc, page)
  PROVE  /\ Others(r) /\ req'[r].pc = pc /\ req'[r].page = page /\ req'[r].page_no = req[r].page_no
         /\ DOMAIN req'[r] = DOMAIN Quiet
<1>1. /\ DOMAIN req = Requests /\ DOMAIN req[r] = DOMAIN Quiet
      /\ DOMAIN Quiet = {"pc", "page_no", "page"}
  BY DEF ShapeOK, Quiet
<1> QED
  BY <1>1 DEF Respond, Others

\* Or the page it had.
LEMMA Stepped ==
  ASSUME ShapeOK, NEW r \in Requests, NEW pc, Step(r, pc)
  PROVE  /\ Others(r) /\ req'[r].pc = pc /\ req'[r].page = req[r].page /\ req'[r].page_no = req[r].page_no
         /\ DOMAIN req'[r] = DOMAIN Quiet
<1>1. /\ DOMAIN req = Requests /\ DOMAIN req[r] = DOMAIN Quiet
      /\ DOMAIN Quiet = {"pc", "page_no", "page"}
  BY DEF ShapeOK, Quiet
<1> QED
  BY <1>1 DEF Step, Others

\* The request is over.
LEMMA Over ==
  ASSUME ShapeOK, NEW r \in Requests, NEW x, req' = [req EXCEPT ![r] = x]
  PROVE  Others(r) /\ req'[r] = x
BY DEF ShapeOK, Others

\* The shape of the state after such a step.
LEMMA ShapeKept ==
  ASSUME ShapeOK, NEW r \in Requests, Others(r), DOMAIN req'[r] = DOMAIN Quiet,
         DOMAIN req'[r].page = DOMAIN NoPage, UNCHANGED <<wait, task, context, ender>>,
         expire_at' \in {None, "later", "past"}, data'.end \in BOOLEAN, holder' \in Requests \cup {None},
         DOMAIN client' = {"live", "next", "got", "told"}
  PROVE  ShapeOK'
<1>1. wait' = wait /\ task' = task /\ context' = context /\ ender' = ender
  BY Zenon
<1>2. \A q \in Requests : DOMAIN req'[q] = DOMAIN Quiet /\ DOMAIN req'[q].page = DOMAIN NoPage
  BY Zenon DEF ShapeOK, Others
<1> QED
  BY <1>1, <1>2, Zenon DEF ShapeOK, Others, Quiet, NoPage

\* The handlers step without the execution.
LEMMA ExecutionKept ==
  ASSUME NEW e \in 0 .. Len(Rows), TaskOK(e), UNCHANGED <<exec, task, context, rx_open>>
  PROVE  TaskOK(e)'
<1>1. exec' = exec /\ task' = task /\ context' = context /\ rx_open' = rx_open
  BY Zenon
<1>2. rx_open' <=> rx_open
  BY <1>1
<1> QED
  BY <1>1, <1>2, Zenon DEF TaskOK

LEMMA ChannelKept ==
  ASSUME NEW c, NEW e, ChanOK(c, e), ExecOK,
         UNCHANGED <<exec, task, chan, tx_open, rx_open, data, ender>>
  PROVE  ChanOK(c, e)' /\ ExecOK'
<1>1. /\ exec' = exec /\ task' = task /\ chan' = chan /\ tx_open' = tx_open /\ rx_open' = rx_open
      /\ data' = data /\ ender' = ender
  BY Zenon
<1>2. (rx_open' <=> rx_open) /\ (tx_open' <=> tx_open)
  BY <1>1
<1> QED
  BY <1>1, <1>2, Zenon DEF ExecOK, ChanOK

\* A handler finds the query, gets the lock, or the last page once more.
LEMMA RequestGoesOn ==
  ASSUME NEW l \in 0 .. Len(Rows), NEW h \in 0 .. Len(Rows), NEW c \in 0 .. Len(Rows),
         NEW e \in 0 .. Len(Rows), Cursors(l, h, c, e), \A r \in Requests : ReqOK(r),
         ShapeOK, ExecOK, NEW r \in Requests, Others(r), DOMAIN req'[r] = DOMAIN Quiet,
         DOMAIN req'[r].page = DOMAIN NoPage,
         UNCHANGED <<wait, exec, task, context, chan, tx_open, rx_open, data, ender, client, dropped>>,
         expire_at' \in {None, "later", "past"}, req'[r].page_no = req[r].page_no,
         req[r].pc \in {"get", "lock"}, req'[r].pc \in {"lock", "collect", "state"},
         IF req'[r].pc = "collect"
         THEN /\ holder = None /\ holder' = r /\ req'[r].page = NoPage
              /\ req[r].page_no = data.total_pages /\ ~data.end
         ELSE holder' = holder,
         req'[r].pc = "state" /\ client.live = r => AnswerOK(req'[r].page, l, h)
  PROVE  HttpInv'
<1>1. /\ client' = client /\ dropped' = dropped /\ data' = data /\ exec' = exec /\ context' = context
  BY Zenon
<1>2. /\ holder' \in Requests \cup {None} /\ holder # r /\ None # r /\ data'.end \in BOOLEAN
      /\ DOMAIN client' = {"live", "next", "got", "told"} /\ (req'[r].pc = "collect" <=> holder' = r)
  <2>1. holder \in Requests \cup {None} /\ data.end \in BOOLEAN
        /\ DOMAIN client = {"live", "next", "got", "told"}
    BY Zenon DEF ShapeOK
  <2>2. ReqOK(r)
    BY Zenon
  <2>3. holder # r
    BY <2>2, Zenon DEF ReqOK
  <2>4. holder' \in Requests \cup {None} /\ (req'[r].pc = "collect" <=> holder' = r)
    BY <2>1, <2>3, Zenon
  <2> QED
    BY <1>1, <2>1, <2>3, <2>4, QueryAssumption, Zenon
<1>3. ShapeOK'
  BY <1>2, ShapeKept, Zenon
<1>4. ChanOK(c, e)' /\ ExecOK' /\ TaskOK(e)'
  BY ChannelKept, ExecutionKept, Zenon DEF Cursors
<1>5. ASSUME NEW q \in Requests PROVE ReqOK(q)'
  <2>1. ReqOK(q) /\ ReqOK(r) /\ (Done' <=> Done)
    BY <1>1, Zenon DEF Done
  <2>2. ReqOK(r)'
    <3>1. req[r].pc # "idle"
      OBVIOUS
    <3>2. req'[r].page_no \in Nat /\ (~Done' => req'[r].page_no <= client'.next)
      BY <1>1, <2>1, <3>1, Zenon DEF ReqOK
    <3>3. req'[r].pc = "collect" => req'[r].page_no = data'.total_pages /\ ~data'.end
      BY <1>1, Zenon
    <3> QED
      BY <1>2, <3>2, <3>3, Zenon DEF ReqOK
  <2>3. CASE q # r
    <3>1. req'[q] = req[q] /\ (holder' = q <=> holder = q)
      <4>1. req'[q] = req[q]
        BY <2>3, Zenon DEF Others
      <4>2. holder' = holder \/ (holder = None /\ holder' = r)
        BY Zenon
      <4>3. q # None
        BY QueryAssumption, Zenon
      <4> QED
        BY <2>3, <4>1, <4>2, <4>3, Zenon
    <3> QED
      BY <1>1, <2>1, <3>1, Zenon DEF ReqOK
  <2> QED
    BY <2>2, <2>3, Zenon
<1>6. CollectOK(h, c)'
  <2>1. CollectOK(h, c)
    BY Zenon DEF Cursors
  <2>2. holder' = None => h = c
    BY <1>2, <2>1, QueryAssumption, Zenon DEF CollectOK
  <2>3. ASSUME NEW q \in Requests, req'[q].pc = "collect"
        PROVE  /\ req'[q].page.data = Between(h, c) /\ req'[q].page.rows \in Nat
               /\ req'[q].page.rows > 0 <=> \E b \in h + 1 .. c : HasRows(b)
    <3>1. CASE q = r
      <4>1. h = c /\ req'[q].page = NoPage
        BY <2>1, <2>3, <3>1, Zenon DEF CollectOK
      <4>2. NoPage.data = << >> /\ NoPage.rows = 0
        BY DEF NoPage
      <4>3. h \in Nat /\ h <= h /\ ~(0 > 0) /\ 0 \in Nat /\ \A b \in h + 1 .. h : FALSE
        BY Size
      <4>4. Between(h, h) = << >>
        BY <4>3, BetweenSeq, Zenon
      <4> QED
        BY <4>1, <4>2, <4>3, <4>4, Zenon
    <3>2. CASE q # r
      <4>1. req'[q] = req[q]
        BY <3>2, Zenon DEF Others
      <4> QED
        BY <2>1, <2>3, <4>1, Zenon DEF CollectOK
    <3> QED
      BY <3>1, <3>2, Zenon
  <2> QED
    BY <1>1, <2>1, <2>2, <2>3, Zenon DEF CollectOK
<1>7. DataOK(l, h)' /\ GotOK(l, h)' /\ ToldOK(h)'
  BY <1>1, Zenon DEF Cursors, DataOK, GotOK, ToldOK, Done
<1>8. LiveOK(l, h)'
  <2>1. ASSUME NEW q \in Requests, AnswerOK(req'[q].page, l, h) PROVE AnswerOK(req[q].page, l, h)'
    BY <1>1, <2>1, Zenon DEF AnswerOK
  <2>2. ASSUME NEW q \in Requests, client'.live = q
        PROVE  /\ ~Done'
               /\ req'[q].pc \in {"get", "lock", "collect"} => req'[q].page_no = client'.next
               /\ req'[q].pc = "state" => AnswerOK(req'[q].page, l, h)
    <3>1. client.live = q /\ (Done' <=> Done)
      BY <1>1, <2>2, Zenon DEF Done
    <3>2. CASE q = r
      BY <1>1, <3>1, <3>2, Zenon DEF Cursors, LiveOK
    <3>3. CASE q # r
      <4>1. req'[q] = req[q]
        BY <3>3, Zenon DEF Others
      <4> QED
        BY <1>1, <3>1, <4>1, Zenon DEF Cursors, LiveOK
    <3> QED
      BY <3>2, <3>3, Zenon
  <2> QED
    BY <2>1, <2>2, Zenon DEF LiveOK
<1>9. Cursors(l, h, c, e)'
  BY <1>4, <1>6, <1>7, <1>8, Zenon DEF Cursors
<1> QED
  BY <1>3, <1>4, <1>5, <1>9, Conclude, Zenon

\* Only the newest request of the client changes, nothing it has or was told.
ClientKept == /\ client'.got = client.got /\ client'.told = client.told /\ client'.next = client.next
              /\ DOMAIN client' = {"live", "next", "got", "told"}

LEMMA ClientSame ==
  ASSUME NEW l \in 0 .. Len(Rows), NEW h \in 0 .. Len(Rows), GotOK(l, h), ToldOK(h),
         UNCHANGED <<exec, context, data, dropped>>, ClientKept,
         client'.live = client.live \/ client'.live = None
  PROVE  GotOK(l, h)' /\ ToldOK(h)' /\ (~Done' => ~Done /\ client.next <= client'.next)
<1>1. dropped' = dropped /\ data' = data /\ exec' = exec /\ context' = context
  BY Zenon
<1>2. Done' <=> Done
  BY Zenon DEF ClientKept, Done
<1>3. GotOK(l, h)'
  BY <1>1, <1>2, Zenon DEF GotOK, ClientKept
<1>4. ToldOK(h)'
  BY <1>1, <1>2, Zenon DEF ToldOK, ClientKept
<1>5. ~Done => client.next \in Nat
  BY Zenon DEF GotOK
<1>6. ~Done => client.next <= client'.next
  BY <1>5 DEF ClientKept
<1> QED
  BY <1>2, <1>3, <1>4, <1>6, Zenon

\* A handler that does not collect is done, and the client has its answer, or
\* the answer is not for it.
LEMMA RequestEnds ==
  ASSUME NEW l \in 0 .. Len(Rows), NEW h \in 0 .. Len(Rows), NEW c \in 0 .. Len(Rows),
         NEW e \in 0 .. Len(Rows), Cursors(l, h, c, e), \A r \in Requests : ReqOK(r),
         ShapeOK, ExecOK, NEW r \in Requests, req' = [req EXCEPT ![r] = Quiet],
         UNCHANGED <<wait, exec, task, context, chan, tx_open, rx_open, data, holder, ender, dropped>>,
         expire_at' \in {None, "later", "past"}, req[r].pc # "collect",
         \/ ClientKept /\ client'.live = client.live /\ client.live # r
         \/ /\ client'.live = None /\ DOMAIN client' = {"live", "next", "got", "told"}
            /\ GotOK(l, h)' /\ ToldOK(h)' /\ (~Done' => ~Done /\ client.next <= client'.next)
  PROVE  HttpInv'
<1>0. ASSUME ClientKept, client'.live = client.live
      PROVE  /\ DOMAIN client' = {"live", "next", "got", "told"}
             /\ GotOK(l, h)' /\ ToldOK(h)' /\ (~Done' => ~Done /\ client.next <= client'.next)
  <2>1. UNCHANGED <<exec, context, data, dropped>> /\ GotOK(l, h) /\ ToldOK(h)
    BY Zenon DEF Cursors
  <2> QED
    BY <1>0, <2>1, ClientSame, Zenon DEF ClientKept
<1>1. /\ (ClientKept /\ client'.live = client.live /\ client.live # r) \/ client'.live = None
      /\ DOMAIN client' = {"live", "next", "got", "told"}
      /\ GotOK(l, h)' /\ ToldOK(h)' /\ (~Done' => ~Done /\ client.next <= client'.next)
  BY <1>0, Zenon
<1>2. dropped' = dropped /\ data' = data /\ holder' = holder
  BY Zenon
<1>3. Others(r) /\ req'[r] = Quiet
  BY Over, Zenon
<1>4. Quiet.pc = "idle" /\ DOMAIN Quiet.page = DOMAIN NoPage
  BY DEF Quiet
<1>5. ShapeOK'
  <2>1. data'.end \in BOOLEAN /\ holder' \in Requests \cup {None}
    BY <1>2, Zenon DEF ShapeOK
  <2>2. DOMAIN req'[r] = DOMAIN Quiet /\ DOMAIN req'[r].page = DOMAIN NoPage
    BY <1>3, <1>4, Zenon
  <2> QED
    BY <1>1, <1>3, <2>1, <2>2, ShapeKept, Zenon
<1>6. ChanOK(c, e)' /\ ExecOK' /\ TaskOK(e)'
  BY ChannelKept, ExecutionKept, Zenon DEF Cursors
<1>7. ASSUME NEW q \in Requests PROVE ReqOK(q)'
  <2>1. CASE q # r
    <3>1. ReqOK(q) /\ req'[q] = req[q]
      BY <1>3, <2>1, Zenon DEF Others
    <3>2. ASSUME ~Done', req[q].pc # "idle" PROVE req[q].page_no <= client'.next
      <4>1. /\ req[q].page_no \in Nat /\ req[q].page_no <= client.next /\ client.next <= client'.next
            /\ client.next \in Nat /\ client'.next \in Nat
        BY <1>1, <3>1, <3>2, Zenon DEF ReqOK, GotOK, Cursors
      <4> QED
        BY <4>1
    <3> QED
      BY <1>2, <3>1, <3>2, Zenon DEF ReqOK
  <2>2. ReqOK(r)'
    <3>1. holder # r
      BY Zenon DEF ReqOK
    <3> QED
      BY <1>2, <1>3, <1>4, <3>1, Zenon DEF ReqOK
  <2> QED
    BY <2>1, <2>2, Zenon
<1>8. ASSUME NEW q \in Requests, req'[q].pc # "idle" PROVE q # r /\ req'[q] = req[q]
  BY <1>3, <1>4, <1>8, Zenon DEF Others
<1>9. CollectOK(h, c)'
  <2>1. CollectOK(h, c)
    BY Zenon DEF Cursors
  <2>2. ASSUME NEW q \in Requests, req'[q].pc = "collect" PROVE req'[q] = req[q]
    BY <1>8, <2>2, Zenon
  <2> QED
    BY <1>2, <2>1, <2>2, Zenon DEF CollectOK
<1>10. DataOK(l, h)'
  BY <1>2, Zenon DEF Cursors, DataOK
<1>11. LiveOK(l, h)'
  <2>1. ASSUME NEW q \in Requests, client'.live = q
        PROVE  /\ ~Done'
               /\ req'[q].pc \in {"get", "lock", "collect"} => req'[q].page_no = client'.next
               /\ req'[q].pc = "state" => AnswerOK(req[q].page, l, h)'
    <3>1. client'.next = client.next /\ client'.told = client.told /\ q # r /\ client.live = q
      BY <1>1, <2>1, QueryAssumption, Zenon DEF ClientKept
    <3>2. req'[q] = req[q] /\ (Done' <=> Done)
      BY <1>3, <3>1, Zenon DEF Others, Done
    <3>3. /\ ~Done
          /\ req[q].pc \in {"get", "lock", "collect"} => req[q].page_no = client.next
          /\ req[q].pc = "state" => AnswerOK(req[q].page, l, h)
      BY <3>1, Zenon DEF Cursors, LiveOK
    <3>4. AnswerOK(req[q].page, l, h) => AnswerOK(req[q].page, l, h)'
      BY <1>2, <3>1, <3>2, Zenon DEF AnswerOK
    <3> QED
      BY <3>1, <3>2, <3>3, <3>4, Zenon
  <2> QED
    BY <2>1, Zenon DEF LiveOK
<1>12. Cursors(l, h, c, e)'
  BY <1>1, <1>6, <1>9, <1>10, <1>11, Zenon DEF Cursors
<1> QED
  BY <1>5, <1>6, <1>7, <1>12, Conclude, Zenon

\* The client has an answer.
LEMMA Delivered ==
  ASSUME ShapeOK, NEW r \in Requests, NEW page, client.live = r, Deliver(r, page)
  PROVE  /\ client'.live = None /\ client'.got = client.got \o page.data /\ client'.next = page.next
         /\ client'.told = (IF page.next = None THEN page.state ELSE None)
         /\ DOMAIN client' = {"live", "next", "got", "told"}
BY DEF ShapeOK, Deliver

\* The query or the page is not found.
LEMMA NotFoundInv ==
  ASSUME NEW l \in 0 .. Len(Rows), NEW h \in 0 .. Len(Rows), NEW c \in 0 .. Len(Rows),
         NEW e \in 0 .. Len(Rows), Cursors(l, h, c, e), \A r \in Requests : ReqOK(r),
         ShapeOK, ExecOK, NEW r \in Requests, NotFound(r), req[r].pc # "collect",
         UNCHANGED <<wait, exec, task, context, chan, tx_open, rx_open, data, holder, ender, dropped, expire_at>>
  PROVE  HttpInv'
<1>1. PICK page : page = [NoPage EXCEPT !.state = "NotFound"]
  OBVIOUS
<1>2. page.data = << >> /\ page.next = None /\ page.state = "NotFound"
  BY <1>1 DEF NoPage
<1>3. Deliver(r, page) /\ req' = [req EXCEPT ![r] = Quiet] /\ dropped' = dropped
      /\ expire_at' \in {None, "later", "past"}
  BY <1>1, Zenon DEF NotFound, ShapeOK
<1>4. CASE client.live # r
  <2>1. ClientKept /\ client'.live = client.live
    <3>1. client' = client
      BY <1>3, <1>4 DEF Deliver
    <3> QED
      BY <3>1, Zenon DEF ClientKept, ShapeOK
  <2> QED
    BY <1>3, <1>4, <2>1, RequestEnds, Zenon
<1>5. CASE client.live = r
  <2>1. /\ client'.live = None /\ client'.got = client.got \o page.data /\ client'.next = page.next
        /\ client'.told = (IF page.next = None THEN page.state ELSE None)
        /\ DOMAIN client' = {"live", "next", "got", "told"}
    BY <1>3, <1>5, Delivered, Zenon
  <2>2. client'.told = "NotFound" /\ "NotFound" # None /\ "NotFound" # "Running" /\ "NotFound" # "Succeeded"
    BY <1>2, <2>1, QueryAssumption
  <2>3. client.got \in Seq(Blocks) /\ ~Done
    BY <1>5, Zenon DEF Cursors, GotOK, LiveOK
  <2>4. client'.got = client.got
    BY <1>2, <2>1, <2>3
  <2>5. l \in 0 .. h /\ h \in 0 .. h
    BY Size DEF Cursors, DataOK
  <2>6. \E k \in 0 .. h : Holds(client.got, 0, k, dropped)
    BY <2>3, <2>5, Zenon DEF Cursors, GotOK
  <2>7. GotOK(l, h)'
    BY <2>2, <2>3, <2>4, Zenon DEF GotOK, Done, Blocks
  <2>8. ToldOK(h)'
    BY <1>3, <2>1, <2>2, <2>4, <2>6, Zenon DEF ToldOK, Done
  <2>9. Done'
    BY <2>2, Zenon DEF Done
  <2> QED
    BY <1>3, <2>1, <2>7, <2>8, <2>9, RequestEnds, Zenon
<1> QED
  BY <1>4, <1>5, Zenon

\* The handler asks for the query and for the lock of its pages.
LEMMA LookupInv ==
  ASSUME NEW l \in 0 .. Len(Rows), NEW h \in 0 .. Len(Rows), NEW c \in 0 .. Len(Rows),
         NEW e \in 0 .. Len(Rows), Cursors(l, h, c, e), \A r \in Requests : ReqOK(r),
         ShapeOK, ExecOK, NEW r \in Requests, get_query(r) \/ get_a_page(r)
  PROVE  HttpInv'
<1>1. DOMAIN req[r].page = DOMAIN NoPage /\ expire_at \in {None, "later", "past"} /\ data.end \in BOOLEAN
  BY Zenon DEF ShapeOK
<1>2. /\ UNCHANGED <<wait, exec, task, context, chan, tx_open, rx_open, data, ender, dropped>>
      /\ req[r].pc \in {"get", "lock"}
  BY Zenon DEF get_query, get_a_page, executor, channel, pages, fate
<1>3. CASE get_query(r)
  <2>1. req[r].pc = "get" /\ holder' = holder
    BY <1>3, Zenon DEF get_query, pages
  <2>2. CASE registered /\ expire_at' = None /\ Step(r, "lock") /\ UNCHANGED client
    <3>1. /\ Others(r) /\ req'[r].pc = "lock" /\ req'[r].page = req[r].page
          /\ req'[r].page_no = req[r].page_no /\ DOMAIN req'[r] = DOMAIN Quiet
      BY <2>2, Stepped, Zenon
    <3>2. DOMAIN req'[r].page = DOMAIN NoPage
      BY <1>1, <3>1, Zenon
    <3> QED
      BY <1>2, <2>1, <2>2, <3>1, <3>2, RequestGoesOn, Zenon
  <2>3. CASE ~registered /\ UNCHANGED expire_at /\ NotFound(r)
    BY <1>2, <2>1, <2>3, NotFoundInv, Zenon
  <2> QED
    BY <1>3, <2>2, <2>3, Zenon DEF get_query
<1>4. CASE get_a_page(r)
  <2>1. req[r].pc = "lock" /\ holder = None /\ expire_at' = expire_at
    BY <1>4, Zenon DEF get_a_page, fate
  <2>2. PICK n : n = req[r].page_no
    OBVIOUS
  <2>3. CASE /\ n = data.total_pages /\ ~data.end
             /\ holder' = r /\ Respond(r, "collect", NoPage) /\ UNCHANGED client
    <3>1. /\ Others(r) /\ req'[r].pc = "collect" /\ req'[r].page = NoPage
          /\ req'[r].page_no = req[r].page_no /\ DOMAIN req'[r] = DOMAIN Quiet
      BY <2>3, Updated, Zenon
    <3> QED
      BY <1>1, <1>2, <2>1, <2>2, <2>3, <3>1, RequestGoesOn, Zenon
  <2>4. CASE /\ n + 1 = data.total_pages /\ UNCHANGED <<holder, client>>
             /\ Respond(r, "state", [NoPage EXCEPT !.data = data.last_page,
                                                   !.next = next_page_no(data)])
    <3>1. PICK page : page = [NoPage EXCEPT !.data = data.last_page, !.next = next_page_no(data)]
      OBVIOUS
    <3>2. page.data = data.last_page /\ page.next = next_page_no(data) /\ DOMAIN page = DOMAIN NoPage
      BY <3>1 DEF NoPage
    <3>3. /\ Others(r) /\ req'[r].pc = "state" /\ req'[r].page = page
          /\ req'[r].page_no = req[r].page_no /\ DOMAIN req'[r] = DOMAIN Quiet
      <4>1. Respond(r, "state", page)
        BY <2>4, <3>1
      <4> QED
        BY <3>2, <4>1, Updated, Zenon
    <3>4. client.live = r => AnswerOK(page, l, h)
      <4>1. SUFFICES ASSUME client.live = r PROVE AnswerOK(page, l, h)
        BY Zenon
      <4>2. n = client.next /\ ~Done
        BY <2>1, <2>2, <4>1, Zenon DEF Cursors, LiveOK
      <4>3. n \in Nat
        BY <2>1, <2>2, Zenon DEF ReqOK
      <4>4. data.total_pages # 0
        BY <2>4, <4>3
      <4>5. page.data \in Seq(Blocks) /\ Holds(page.data, l, h, dropped)
        BY <3>2, <4>4, Zenon DEF Cursors, DataOK
      <4>6. page.next = data.total_pages \/ (page.next = None /\ data.end)
        BY <3>2, Zenon DEF next_page_no
      <4> QED
        BY <2>4, <4>2, <4>5, <4>6, Zenon DEF AnswerOK
    <3>5. DOMAIN req'[r].page = DOMAIN NoPage /\ (client.live = r => AnswerOK(req'[r].page, l, h))
      BY <3>2, <3>3, <3>4, Zenon
    <3> QED
      BY <1>1, <1>2, <2>1, <2>4, <3>3, <3>5, RequestGoesOn, Zenon
  <2>5. CASE UNCHANGED holder /\ NotFound(r)
    BY <1>2, <2>1, <2>5, NotFoundInv, Zenon
  <2> QED
    BY <1>4, <2>2, <2>3, <2>4, <2>5, Zenon DEF get_a_page
<1> QED
  BY <1>3, <1>4, Zenon

\* At the end of the data, the outcome is known, and everything is in the pages
\* if the query succeeded.
LEMMA EndOfData ==
  ASSUME NEW l \in 0 .. Len(Rows), NEW h \in 0 .. Len(Rows), NEW c \in 0 .. Len(Rows),
         NEW e \in 0 .. Len(Rows), Cursors(l, h, c, e), \A r \in Requests : ReqOK(r),
         ShapeOK, ExecOK, data.end
  PROVE  /\ exec # "Running" /\ exec # None
         /\ exec = "Succeeded" /\ ~context.missed => h = Len(Rows)
<1>1. exec # "Running" /\ chan = << >>
  BY Zenon DEF ExecOK
<1>2. exec # None
  BY QueryAssumption, Zenon DEF ExecOK
<1>3. holder = None
  BY Zenon DEF ShapeOK, ReqOK
<1>4. h = c
  BY <1>3, Zenon DEF Cursors, CollectOK
<1>5. c = e
  <2>1. c \in Nat /\ c <= e /\ chan = Between(c, e)
    BY Size DEF Cursors, ChanOK
  <2>2. Between(c, e) = << >> <=> c = e
    BY <2>1, BetweenSeq, Zenon
  <2> QED
    BY <1>1, <2>1, <2>2, Zenon
<1>6. exec = "Succeeded" /\ ~context.missed => e = Len(Rows)
  BY Zenon DEF Cursors, TaskOK
<1> QED
  BY <1>1, <1>2, <1>4, <1>5, <1>6

\* The response goes out.
LEMMA RespondInv ==
  ASSUME NEW l \in 0 .. Len(Rows), NEW h \in 0 .. Len(Rows), NEW c \in 0 .. Len(Rows),
         NEW e \in 0 .. Len(Rows), Cursors(l, h, c, e), \A r \in Requests : ReqOK(r),
         ShapeOK, ExecOK, NEW r \in Requests, respond(r)
  PROVE  HttpInv'
<1>1. PICK page : page = [req[r].page EXCEPT !.state = exec]
  OBVIOUS
<1>2. page.data = req[r].page.data /\ page.next = req[r].page.next /\ page.state = exec
  <2>1. DOMAIN req[r].page = DOMAIN NoPage
    BY Zenon DEF ShapeOK
  <2> QED
    BY <1>1, <2>1 DEF NoPage
<1>3. /\ req[r].pc = "state" /\ Deliver(r, page) /\ req' = [req EXCEPT ![r] = Quiet]
      /\ expire_at' \in {None, "later", "past"}
      /\ UNCHANGED <<wait, exec, task, context, chan, tx_open, rx_open, data, holder, ender, dropped>>
  BY <1>1, Zenon DEF respond, executor, channel, pages
<1>4. CASE client.live # r
  <2>1. ClientKept /\ client'.live = client.live
    <3>1. client' = client
      BY <1>3, <1>4 DEF Deliver
    <3> QED
      BY <3>1, Zenon DEF ClientKept, ShapeOK
  <2> QED
    BY <1>3, <1>4, <2>1, RequestEnds, Zenon
<1>5. CASE client.live = r
  <2>1. /\ client'.live = None /\ client'.got = client.got \o page.data /\ client'.next = page.next
        /\ client'.told = (IF page.next = None THEN exec ELSE None)
        /\ DOMAIN client' = {"live", "next", "got", "told"}
    BY <1>2, <1>3, <1>5, Delivered, Zenon
  <2>2. /\ exec' = exec /\ context' = context /\ data' = data /\ dropped' = dropped
    BY <1>3, Zenon
  <2>3. ~Done /\ AnswerOK(req[r].page, l, h)
    BY <1>3, <1>5, Zenon DEF Cursors, LiveOK
  <2>4. AnswerOK(page, l, h)
    BY <1>2, <2>3, Zenon DEF AnswerOK
  <2>5. /\ client.got \in Seq(Blocks) /\ client.next \in Nat /\ page.data \in Seq(Blocks)
        /\ \/ client.next = data.total_pages /\ Holds(client.got, 0, h, dropped)
           \/ client.next + 1 = data.total_pages /\ Holds(client.got, 0, l, dropped)
    BY <2>3, <2>4, Zenon DEF Cursors, GotOK, AnswerOK
  <2>6. PICK got : got = client.got \o page.data
    OBVIOUS
  <2>7. got \in Seq(Blocks) /\ client'.got = got
    BY <2>1, <2>5, <2>6, RangeConcat, Zenon
  <2>8. data.total_pages \in Nat /\ l <= h /\ l \in Nat /\ h \in Nat /\ h \in 0 .. h
    BY Size DEF Cursors, DataOK
  <2>9. client.next + 1 = data.total_pages => client.next # data.total_pages
    BY <2>5, <2>8
  <2>10. ASSUME page.next \in Nat, client.next <= page.next,
                \/ page.next = data.total_pages /\ Holds(got, 0, h, dropped)
                \/ page.next + 1 = data.total_pages /\ Holds(got, 0, l, dropped)
         PROVE  HttpInv'
    <3>1. client'.told = None /\ client'.next = page.next /\ ~Done'
      BY <2>1, <2>10, QueryAssumption, Zenon DEF Done
    <3>2. GotOK(l, h)'
      BY <2>2, <2>7, <2>10, <3>1, Zenon DEF GotOK
    <3>3. ToldOK(h)' /\ client.next <= client'.next
      BY <2>10, <3>1, Zenon DEF ToldOK
    <3> QED
      BY <1>3, <2>1, <2>3, <3>2, <3>3, RequestEnds, Zenon
  <2>11. ASSUME page.next = None, data.end, Holds(got, 0, h, dropped)
         PROVE  HttpInv'
    <3>1. /\ exec # "Running" /\ exec # None
          /\ exec = "Succeeded" /\ ~context.missed => h = Len(Rows)
      BY <2>11, EndOfData, Zenon
    <3>2. client'.told = exec /\ Done'
      BY <2>1, <2>11, <3>1, Zenon DEF Done
    <3>3. GotOK(l, h)'
      BY <2>7, <3>2, Zenon DEF GotOK, Blocks
    <3>4. ToldOK(h)'
      BY <2>1, <2>2, <2>7, <2>8, <2>11, <3>1, <3>2, Zenon DEF ToldOK
    <3> QED
      BY <1>3, <2>1, <3>2, <3>3, <3>4, RequestEnds, Zenon
  <2>12. CASE Holds(page.data, 0, 0, dropped) /\ page.next = client.next
    <3>1. Holds(client.got, 0, h, dropped) => Holds(got, 0, h, dropped)
      BY <2>5, <2>6, <2>12, HoldsSame, Zenon
    <3>2. Holds(client.got, 0, l, dropped) => Holds(got, 0, l, dropped)
      BY <2>5, <2>6, <2>12, HoldsSame, Zenon
    <3>3. page.next \in Nat /\ client.next <= page.next
      BY <2>5, <2>12
    <3> QED
      BY <2>5, <2>10, <2>12, <3>1, <3>2, <3>3, Zenon
  <2>13. CASE Holds(page.data, 0, 0, dropped) /\ page.next = None /\ data.end /\ client.next = data.total_pages
    <3>1. Holds(client.got, 0, h, dropped)
      BY <2>5, <2>9, <2>13, Zenon
    <3>2. Holds(got, 0, h, dropped)
      BY <2>5, <2>6, <2>13, <3>1, HoldsSame, Zenon
    <3> QED
      BY <2>11, <2>13, <3>2, Zenon
  <2>14. CASE /\ Holds(page.data, l, h, dropped) /\ client.next + 1 = data.total_pages
              /\ page.next = data.total_pages \/ (page.next = None /\ data.end)
    <3>1. Holds(client.got, 0, l, dropped)
      BY <2>5, <2>9, <2>14, Zenon
    <3>2. Holds(got, 0, h, dropped)
      BY <2>5, <2>6, <2>8, <2>14, <3>1, HoldsConcat, Zenon
    <3>3. CASE page.next = data.total_pages
      <4>1. page.next \in Nat /\ client.next <= page.next
        BY <2>5, <2>8, <2>14, <3>3
      <4> QED
        BY <2>10, <3>2, <3>3, <4>1, Zenon
    <3> QED
      BY <2>11, <2>14, <3>2, <3>3, Zenon
  <2> QED
    BY <2>4, <2>12, <2>13, <2>14, Zenon DEF AnswerOK
<1> QED
  BY <1>4, <1>5, Zenon

-----------------------------------------------------------------------------
(* The client and the network *)

\* The client asks for a page, for the first time or again.
LEMMA AskInv ==
  ASSUME NEW l \in 0 .. Len(Rows), NEW h \in 0 .. Len(Rows), NEW c \in 0 .. Len(Rows),
         NEW e \in 0 .. Len(Rows), Cursors(l, h, c, e), \A r \in Requests : ReqOK(r),
         ShapeOK, ExecOK, NEW r \in Requests, ask(r)
  PROVE  HttpInv'
<1>1. PICK new : new = [Quiet EXCEPT !.pc = "get", !.page_no = client.next]
  OBVIOUS
<1>2. new.pc = "get" /\ new.page_no = client.next /\ DOMAIN new = DOMAIN Quiet /\ new.page = NoPage
  BY <1>1 DEF Quiet
<1>3. /\ ~Done /\ req[r].pc = "idle" /\ req' = [req EXCEPT ![r] = new] /\ client' = [client EXCEPT !.live = r]
      /\ UNCHANGED <<wait, exec, task, context, chan, tx_open, rx_open, data, holder, ender, expire_at, dropped>>
  BY <1>1, Zenon DEF ask, Free, executor, channel, pages, fate
<1>4. ClientKept /\ client'.live = r /\ ~Done'
  <2>1. ClientKept /\ client'.live = r
    BY <1>3 DEF ShapeOK, ClientKept
  <2> QED
    BY <1>3, <2>1, Zenon DEF ClientKept, Done
<1>5. Others(r) /\ req'[r] = new
  BY <1>3, Over, Zenon
<1>6. data' = data /\ holder' = holder /\ dropped' = dropped /\ expire_at' = expire_at
  BY <1>3, Zenon
<1>7. client.next \in Nat /\ client.next <= client.next /\ holder # r
  <2>1. client.next \in Nat /\ holder # r
    BY <1>3, Zenon DEF Cursors, GotOK, ReqOK
  <2> QED
    BY <2>1
<1>8. ShapeOK'
  <2>1. DOMAIN req'[r] = DOMAIN Quiet /\ DOMAIN req'[r].page = DOMAIN NoPage
    BY <1>2, <1>5, Zenon
  <2>2. /\ data'.end \in BOOLEAN /\ holder' \in Requests \cup {None} /\ expire_at' \in {None, "later", "past"}
        /\ DOMAIN client' = {"live", "next", "got", "told"}
    BY <1>4, <1>6, Zenon DEF ShapeOK, ClientKept
  <2> QED
    BY <1>3, <1>5, <2>1, <2>2, ShapeKept, Zenon
<1>9. ChanOK(c, e)' /\ ExecOK' /\ TaskOK(e)'
  BY <1>3, ChannelKept, ExecutionKept, Zenon DEF Cursors
<1>10. ASSUME NEW q \in Requests PROVE ReqOK(q)'
  <2>1. CASE q # r
    <3>1. ReqOK(q) /\ req'[q] = req[q]
      BY <1>5, <2>1, Zenon DEF Others
    <3> QED
      BY <1>3, <1>4, <1>6, <3>1, Zenon DEF ReqOK, ClientKept
  <2>2. ReqOK(r)'
    BY <1>2, <1>4, <1>5, <1>6, <1>7, Zenon DEF ReqOK, ClientKept
  <2> QED
    BY <2>1, <2>2, Zenon
<1>11. CollectOK(h, c)'
  <2>1. CollectOK(h, c)
    BY Zenon DEF Cursors
  <2>2. ASSUME NEW q \in Requests, req'[q].pc = "collect" PROVE req'[q] = req[q]
    BY <1>2, <1>5, <2>2, Zenon DEF Others
  <2> QED
    BY <1>6, <2>1, <2>2, Zenon DEF CollectOK
<1>12. DataOK(l, h)'
  BY <1>6, Zenon DEF Cursors, DataOK
<1>13. GotOK(l, h)'
  BY <1>3, <1>4, <1>6, Zenon DEF Cursors, GotOK, ClientKept
<1>14. ToldOK(h)'
  BY <1>4, Zenon DEF ToldOK
<1>15. LiveOK(l, h)'
  <2>1. ASSUME NEW q \in Requests, client'.live = q
        PROVE  /\ req'[q].pc = "get" /\ req'[q].page_no = client'.next
    BY <1>2, <1>4, <1>5, <2>1, Zenon DEF ClientKept
  <2> QED
    BY <1>4, <2>1, Zenon DEF LiveOK
<1>16. Cursors(l, h, c, e)'
  BY <1>9, <1>11, <1>12, <1>13, <1>14, <1>15, Zenon DEF Cursors
<1> QED
  BY <1>8, <1>9, <1>10, <1>16, Conclude, Zenon

\* What was there is there when more is lost.
StillThere(l, h, c, before, lost) ==
  /\ lost \subseteq 1 .. c
  /\ \A q : \A k \in 0 .. h : Holds(q, 0, k, before) => Holds(q, 0, k, lost)
  /\ \A q : Holds(q, 0, h, before) => Holds(q, 0, c, lost)
  /\ \A q : Holds(q, l, h, before) => Holds(q, l, c, lost)

\* The blocks a handler had collected are lost with it, and no others.
LEMMA LostWithIt ==
  ASSUME NEW l \in 0 .. Len(Rows), NEW h \in 0 .. Len(Rows), NEW c \in 0 .. Len(Rows), l <= h, h <= c,
         NEW before, NEW lost, before \subseteq 1 .. h, lost = before \cup (h + 1 .. c)
  PROVE  StillThere(l, h, c, before, lost)
<1>1. l \in Nat /\ h \in Nat /\ c \in Nat /\ 0 \in Nat /\ 0 <= h /\ h \in 0 .. h
  BY Size
<1>2. lost \subseteq 1 .. c
  BY <1>1
<1>3. \A b \in h + 1 .. c : ~HasRows(b) \/ b \in lost
  BY Zenon
<1>4. ASSUME NEW q, NEW k \in 0 .. h, Holds(q, 0, k, before) PROVE Holds(q, 0, k, lost)
  <2>1. k \in Nat /\ 0 <= k /\ k <= k
    BY <1>1
  <2>2. \A b \in 0 + 1 .. k : b \in lost <=> b \in before
    BY <1>1
  <2>3. \A b \in k + 1 .. k : ~HasRows(b) \/ b \in lost
    BY <1>1
  <2> QED
    BY <1>1, <1>4, <2>1, <2>2, <2>3, HoldsLonger
<1>5. ASSUME NEW q, Holds(q, 0, h, before) PROVE Holds(q, 0, c, lost)
  <2>1. \A b \in 0 + 1 .. h : b \in lost <=> b \in before
    BY <1>1
  <2> QED
    BY <1>1, <1>3, <1>5, <2>1, HoldsLonger
<1>6. ASSUME NEW q, Holds(q, l, h, before) PROVE Holds(q, l, c, lost)
  <2>1. \A b \in l + 1 .. h : b \in lost <=> b \in before
    BY <1>1
  <2> QED
    BY <1>1, <1>3, <1>6, <2>1, HoldsLonger
<1> QED
  BY <1>2, <1>4, <1>5, <1>6, Zenon DEF StillThere

\* A connection is closed.
LEMMA DisconnectInv ==
  ASSUME NEW l \in 0 .. Len(Rows), NEW h \in 0 .. Len(Rows), NEW c \in 0 .. Len(Rows),
         NEW e \in 0 .. Len(Rows), Cursors(l, h, c, e), \A r \in Requests : ReqOK(r),
         ShapeOK, ExecOK, NEW r \in Requests, disconnect(r)
  PROVE  HttpInv'
<1>1. /\ req' = [req EXCEPT ![r] = Quiet]
      /\ client' = [client EXCEPT !.live = IF @ = r THEN None ELSE @]
      /\ holder' = IF holder = r THEN None ELSE holder
      /\ dropped' = dropped \cup (IF req[r].pc = "collect" THEN Range(req[r].page.data) ELSE {})
      /\ UNCHANGED <<wait, exec, task, context, chan, tx_open, rx_open, data, ender, expire_at>>
  BY Zenon DEF disconnect, executor, channel, fate
<1>2. ClientKept /\ client'.live = IF client.live = r THEN None ELSE client.live
  BY <1>1 DEF ShapeOK, ClientKept
<1>3. expire_at' \in {None, "later", "past"} /\ (holder = r <=> req[r].pc = "collect")
  BY <1>1, Zenon DEF ShapeOK, ReqOK
<1>4. CASE req[r].pc # "collect"
  <2>1. dropped' = dropped
    BY <1>1, <1>4
  <2>2. holder' = holder
    BY <1>1, <1>3, <1>4, Zenon
  <2>3. CASE client.live # r
    BY <1>1, <1>2, <1>3, <1>4, <2>1, <2>2, <2>3, RequestEnds, Zenon
  <2>4. CASE client.live = r
    <3>1. client'.live = None
      BY <1>2, <2>4, Zenon
    <3>2. GotOK(l, h)' /\ ToldOK(h)' /\ (~Done' => ~Done /\ client.next <= client'.next)
      BY <1>1, <1>2, <2>1, <3>1, ClientSame, Zenon DEF Cursors
    <3> QED
      BY <1>1, <1>2, <1>3, <1>4, <2>1, <2>2, <3>1, <3>2, RequestEnds, Zenon DEF ClientKept
  <2> QED
    BY <2>3, <2>4, Zenon
<1>5. CASE req[r].pc = "collect"
  <2>1. h <= c /\ dropped \subseteq 1 .. h /\ req[r].page.data = Between(h, c) /\ l <= h
    BY <1>5, Zenon DEF Cursors, CollectOK, DataOK
  <2>2. h \in Nat /\ c \in 0 .. c /\ c <= c /\ l <= c /\ 0 .. h \subseteq 0 .. c
    BY <2>1, Size
  <2>3. PICK lost : lost = dropped'
    OBVIOUS
  <2>4. lost = dropped \cup (h + 1 .. c)
    BY <1>1, <1>5, <2>1, <2>2, <2>3, BetweenRange, Zenon
  <2>5. /\ lost \subseteq 1 .. c
        /\ \A q : \A k \in 0 .. h : Holds(q, 0, k, dropped) => Holds(q, 0, k, lost)
        /\ \A q : Holds(q, 0, h, dropped) => Holds(q, 0, c, lost)
        /\ \A q : Holds(q, l, h, dropped) => Holds(q, l, c, lost)
    <3>1. StillThere(l, h, c, dropped, lost)
      BY <2>1, <2>4, LostWithIt, Zenon
    <3> QED
      BY <3>1, Zenon DEF StillThere
  <2>6. /\ holder = r /\ holder' = None /\ ~data.end /\ data' = data /\ exec' = exec /\ context' = context
        /\ data.total_pages \in 0 .. h /\ (Done' <=> Done)
    BY <1>1, <1>2, <1>3, <1>5, Zenon DEF ReqOK, Cursors, DataOK, Done, ClientKept
  <2>7. /\ Others(r) /\ req'[r] = Quiet /\ Quiet.pc = "idle" /\ DOMAIN req'[r] = DOMAIN Quiet
        /\ DOMAIN req'[r].page = DOMAIN NoPage
    <3>1. Others(r) /\ req'[r] = Quiet
      BY <1>1, Over, Zenon
    <3>2. Quiet.pc = "idle" /\ DOMAIN Quiet.page = DOMAIN NoPage
      BY DEF Quiet
    <3> QED
      BY <3>1, <3>2, Zenon
  <2>8. ShapeOK'
    <3>1. data'.end \in BOOLEAN /\ holder' \in Requests \cup {None}
      BY <2>6, Zenon DEF ShapeOK
    <3> QED
      BY <1>1, <1>2, <1>3, <2>7, <3>1, ShapeKept, Zenon DEF ClientKept
  <2>9. ChanOK(c, e)' /\ ExecOK' /\ TaskOK(e)'
    BY <1>1, ChannelKept, ExecutionKept, Zenon DEF Cursors
  <2>10. ASSUME NEW q \in Requests PROVE req'[q].pc # "collect" /\ ReqOK(q)'
    <3>1. q # None
      BY QueryAssumption, Zenon
    <3>2. CASE q # r
      <4>1. ReqOK(q) /\ req'[q] = req[q] /\ req[q].pc # "collect"
        BY <2>6, <2>7, <3>2, Zenon DEF Others, ReqOK
      <4> QED
        BY <1>2, <2>6, <3>1, <4>1, Zenon DEF ReqOK, ClientKept
    <3>3. req'[r].pc # "collect" /\ ReqOK(r)'
      BY <2>6, <2>7, QueryAssumption, Zenon DEF ReqOK
    <3> QED
      BY <3>2, <3>3, Zenon
  <2>11. CollectOK(c, c)'
    BY <2>2, <2>3, <2>5, <2>10, Zenon DEF CollectOK
  <2>12. DataOK(l, c)'
    <3>1. data.total_pages \in 0 .. c
      BY <2>2, <2>6, Zenon
    <3>2. data.total_pages # 0 => data.last_page \in Seq(Blocks) /\ Holds(data.last_page, l, c, lost)
      BY <2>5, Zenon DEF Cursors, DataOK
    <3> QED
      BY <2>2, <2>3, <2>6, <3>1, <3>2, Zenon DEF Cursors, DataOK
  <2>13. GotOK(l, c)'
    <3>1. l \in 0 .. h
      BY <2>1, <2>2
    <3>2. /\ client.got \in Seq(Blocks)
          /\ ~Done => /\ client.next \in Nat
                      /\ \/ client.next = data.total_pages /\ Holds(client.got, 0, c, lost)
                         \/ client.next + 1 = data.total_pages /\ Holds(client.got, 0, l, lost)
      BY <2>5, <3>1, Zenon DEF Cursors, GotOK
    <3> QED
      BY <1>2, <2>3, <2>6, <3>2, Zenon DEF GotOK, ClientKept
  <2>14. ToldOK(c)'
    <3>1. Done => /\ client.live = None /\ client.told # "Running" /\ client.told # "Succeeded"
                  /\ \E k \in 0 .. c : Holds(client.got, 0, k, lost)
      BY <2>2, <2>5, <2>6, Zenon DEF Cursors, ToldOK
    <3>2. client.live = None => client'.live = None
      BY <1>2, Zenon
    <3> QED
      BY <1>2, <2>3, <2>6, <3>1, <3>2, Zenon DEF ToldOK, ClientKept
  <2>15. LiveOK(l, c)'
    <3>1. ASSUME NEW q \in Requests, client'.live = q
          PROVE  /\ ~Done'
                 /\ req'[q].pc \in {"get", "lock", "collect"} => req'[q].page_no = client'.next
                 /\ req'[q].pc = "state" => AnswerOK(req[q].page, l, c)'
      <4>1. client'.next = client.next /\ q # r /\ client.live = q
        BY <1>2, <3>1, QueryAssumption, Zenon DEF ClientKept
      <4>2. req'[q] = req[q]
        BY <2>7, <4>1, Zenon DEF Others
      <4>3. /\ ~Done
            /\ req[q].pc \in {"get", "lock", "collect"} => req[q].page_no = client.next
            /\ req[q].pc = "state" => AnswerOK(req[q].page, l, h)
        BY <4>1, Zenon DEF Cursors, LiveOK
      <4>4. ASSUME AnswerOK(req[q].page, l, h) PROVE AnswerOK(req[q].page, l, c)'
        <5>1. PICK page : page = req[q].page
          OBVIOUS
        <5>2. 0 \in 0 .. h
          BY <2>2
        <5>3. /\ page.data \in Seq(Blocks)
              /\ \/ Holds(page.data, 0, 0, lost) /\ page.next = client.next
                 \/ Holds(page.data, 0, 0, lost) /\ page.next = None /\ data.end /\ client.next = data.total_pages
                 \/ /\ Holds(page.data, l, c, lost) /\ client.next + 1 = data.total_pages
                    /\ page.next = data.total_pages \/ (page.next = None /\ data.end)
          BY <2>5, <4>4, <5>1, <5>2, Zenon DEF AnswerOK
        <5>4. page = req'[q].page
          BY <4>2, <5>1, Zenon
        <5> QED
          BY <2>3, <2>6, <4>1, <5>3, <5>4, Zenon DEF AnswerOK
      <4> QED
        BY <2>6, <4>1, <4>2, <4>3, <4>4, Zenon
    <3> QED
      BY <3>1, Zenon DEF LiveOK
  <2>16. Cursors(l, c, c, e)'
    BY <2>9, <2>11, <2>12, <2>13, <2>14, <2>15, Zenon DEF Cursors
  <2> QED
    BY <2>8, <2>9, <2>10, <2>16, Conclude, Zenon
<1> QED
  BY <1>4, <1>5, Zenon

-----------------------------------------------------------------------------
(* Collecting a page *)

\* What the client has while a page is collected: it asks for no later page, and
\* the answers on their way to it tell it nothing new.
LEMMA WhileCollecting ==
  ASSUME NEW l \in 0 .. Len(Rows), NEW h \in 0 .. Len(Rows), NEW c \in 0 .. Len(Rows),
         NEW e \in 0 .. Len(Rows), Cursors(l, h, c, e), \A r \in Requests : ReqOK(r),
         NEW r \in Requests, req[r].pc = "collect"
  PROVE  /\ holder = r /\ ~data.end /\ data.total_pages \in 0 .. h /\ client.got \in Seq(Blocks)
         /\ ~Done => client.next = data.total_pages /\ Holds(client.got, 0, h, dropped)
         /\ Done => /\ client.live = None /\ client.told # "Running" /\ client.told # "Succeeded"
                    /\ \E k \in 0 .. h : Holds(client.got, 0, k, dropped)
         /\ \A q \in Requests : client.live = q /\ req[q].pc = "state" =>
              /\ req[q].page.data \in Seq(Blocks) /\ Holds(req[q].page.data, 0, 0, dropped)
              /\ req[q].page.next = client.next
<1>1. /\ holder = r /\ ~data.end /\ data.total_pages \in 0 .. h /\ client.got \in Seq(Blocks)
      /\ req[r].page_no = data.total_pages
  BY Zenon DEF Cursors, ReqOK, DataOK, GotOK
<1>2. ASSUME ~Done
      PROVE  /\ client.next = data.total_pages /\ Holds(client.got, 0, h, dropped)
             /\ client.next + 1 # data.total_pages
  <2>1. /\ client.next \in Nat /\ data.total_pages <= client.next
        /\ \/ client.next = data.total_pages /\ Holds(client.got, 0, h, dropped)
           \/ client.next + 1 = data.total_pages /\ Holds(client.got, 0, l, dropped)
    BY <1>1, <1>2, Zenon DEF Cursors, GotOK, ReqOK
  <2>2. data.total_pages \in Nat
    BY <1>1
  <2>3. client.next + 1 # data.total_pages
    BY <2>1, <2>2
  <2> QED
    BY <2>1, <2>3, Zenon
<1>3. ASSUME Done
      PROVE  /\ client.live = None /\ client.told # "Running" /\ client.told # "Succeeded"
             /\ \E k \in 0 .. h : Holds(client.got, 0, k, dropped)
  BY <1>1, <1>3, Zenon DEF Cursors, ToldOK
<1>4. ASSUME NEW q \in Requests, client.live = q, req[q].pc = "state"
      PROVE  /\ req[q].page.data \in Seq(Blocks) /\ Holds(req[q].page.data, 0, 0, dropped)
             /\ req[q].page.next = client.next
  <2>1. ~Done /\ AnswerOK(req[q].page, l, h)
    BY <1>4, Zenon DEF Cursors, LiveOK
  <2> QED
    BY <1>1, <1>2, <2>1, Zenon DEF AnswerOK
<1> QED
  BY <1>1, <1>2, <1>3, <1>4, Zenon

\* The ends of the channel are the same.
LEMMA EndsKept ==
  ASSUME UNCHANGED <<tx_open, rx_open>>
  PROVE  (tx_open' <=> tx_open) /\ (rx_open' <=> rx_open)
OBVIOUS

\* The number of a page with rows is at most that of the blocks.
LEMMA PageNumber ==
  ASSUME NEW h \in Nat, NEW d \in Nat, NEW b \in h + 1 .. d, NEW n \in 0 .. h
  PROVE  n + 1 \in 0 .. d /\ n + 1 # 0
OBVIOUS

\* What new_page assigns.
PageMade(r, results, rows, end) ==
  /\ rows > 0 => data'.total_pages = data.total_pages + 1 /\ data'.last_page = results
  /\ ~(rows > 0) => data'.total_pages = data.total_pages /\ data'.last_page = data.last_page
  /\ data'.end = end /\ holder' = None
  /\ Others(r) /\ req'[r].pc = "state" /\ DOMAIN req'[r] = DOMAIN Quiet
  /\ DOMAIN req'[r].page = DOMAIN NoPage /\ req'[r].page.data = results
  /\ req'[r].page_no = req[r].page_no
  /\ req'[r].page.next = data'.total_pages \/ (req'[r].page.next = None /\ data'.end)

LEMMA NewPage ==
  ASSUME ShapeOK, NEW r \in Requests, NEW results, NEW rows, NEW end, new_page(r, results, rows, end),
         data.total_pages \in Nat
  PROVE  PageMade(r, results, rows, end)
<1>1. PICK d : d = [total_pages |-> data.total_pages + (IF rows > 0 THEN 1 ELSE 0),
                    last_page |-> IF rows > 0 THEN results ELSE data.last_page, end |-> end]
  OBVIOUS
<1>2. PICK page : page = [NoPage EXCEPT !.data = results, !.next = next_page_no(d)]
  OBVIOUS
<1>3. data' = d /\ holder' = None /\ Respond(r, "state", page)
  BY <1>1, <1>2 DEF new_page
<1>4. /\ rows > 0 => d.total_pages = data.total_pages + 1 /\ d.last_page = results
      /\ ~(rows > 0) => d.total_pages = data.total_pages /\ d.last_page = data.last_page
      /\ d.end = end
  BY <1>1
<1>5. DOMAIN page = DOMAIN NoPage /\ page.data = results /\ page.next = next_page_no(d)
  BY <1>2 DEF NoPage
<1>6. /\ Others(r) /\ req'[r].pc = "state" /\ req'[r].page = page
      /\ DOMAIN req'[r] = DOMAIN Quiet /\ req'[r].page_no = req[r].page_no
  BY <1>3, Updated, Zenon
<1>7. page.next = d.total_pages \/ (page.next = None /\ d.end)
  BY <1>5, Zenon DEF next_page_no
<1> QED
  BY <1>3, <1>4, <1>5, <1>6, <1>7, Zenon DEF PageMade

\* A page is made of the blocks after the first h up to d.
LEMMA NewPageInv ==
  ASSUME NEW l \in 0 .. Len(Rows), NEW h \in 0 .. Len(Rows), NEW c \in 0 .. Len(Rows),
         NEW e \in 0 .. Len(Rows), Cursors(l, h, c, e), \A r \in Requests : ReqOK(r),
         ShapeOK, ExecOK, NEW r \in Requests, req[r].pc = "collect",
         NEW d \in 0 .. Len(Rows), h <= d, NEW results, results = Between(h, d), NEW rows \in Nat,
         rows > 0 <=> \E b \in h + 1 .. d : HasRows(b), NEW end \in BOOLEAN,
         new_page(r, results, rows, end), ChanOK(d, e)', end => chan' = << >> /\ (~tx_open \/ ~rx_open),
         UNCHANGED <<wait, exec, task, context, tx_open, rx_open, ender, expire_at, client, dropped>>
  PROVE  HttpInv'
<1>1. /\ holder = r /\ ~data.end /\ data.total_pages \in 0 .. h /\ client.got \in Seq(Blocks)
      /\ ~Done => client.next = data.total_pages /\ Holds(client.got, 0, h, dropped)
      /\ Done => /\ client.live = None /\ client.told # "Running" /\ client.told # "Succeeded"
                 /\ \E k \in 0 .. h : Holds(client.got, 0, k, dropped)
      /\ \A q \in Requests : client.live = q /\ req[q].pc = "state" =>
           /\ req[q].page.data \in Seq(Blocks) /\ Holds(req[q].page.data, 0, 0, dropped)
           /\ req[q].page.next = client.next
  BY WhileCollecting, Zenon
<1>2. /\ PageMade(r, results, rows, end) /\ Others(r) /\ holder' = None /\ data'.end = end
      /\ data.total_pages \in Nat
  <2>1. data.total_pages \in 0 .. h
    BY <1>1, Zenon
  <2>2. data.total_pages \in Nat
    BY <2>1
  <2>3. PageMade(r, results, rows, end)
    BY <2>2, NewPage, Zenon
  <2> QED
    BY <2>2, <2>3, Zenon DEF PageMade
<1>3. /\ exec' = exec /\ task' = task /\ context' = context /\ (tx_open' <=> tx_open) /\ (rx_open' <=> rx_open)
      /\ ender' = ender /\ expire_at' = expire_at /\ client' = client /\ dropped' = dropped /\ (Done' <=> Done)
  BY EndsKept, Zenon DEF Done
<1>4. /\ l \in Nat /\ h \in Nat /\ d \in Nat /\ 0 \in Nat /\ 0 <= h /\ l <= h /\ l <= d /\ h \in 0 .. h
      /\ 0 .. h \subseteq 0 .. d /\ d <= d
  <2>1. l <= h
    BY Zenon DEF Cursors, DataOK
  <2> QED
    BY <2>1, Size
<1>5. dropped \subseteq 1 .. h /\ dropped \subseteq 1 .. d
  <2>1. dropped \subseteq 1 .. h
    BY Zenon DEF Cursors, CollectOK
  <2> QED
    BY <1>4, <2>1
<1>6. ShapeOK'
  <2>1. data'.end \in BOOLEAN /\ holder' \in Requests \cup {None} /\ expire_at' \in {None, "later", "past"}
        /\ DOMAIN client' = {"live", "next", "got", "told"}
    BY <1>2, <1>3, Zenon DEF ShapeOK
  <2> QED
    BY <1>2, <2>1, ShapeKept, Zenon DEF PageMade
<1>7. ExecOK'
  BY <1>2, <1>3, Zenon DEF ExecOK
<1>8. TaskOK(e)'
  BY ExecutionKept, Zenon DEF Cursors
<1>9. ASSUME NEW q \in Requests PROVE req'[q].pc # "collect" /\ ReqOK(q)'
  <2>1. q # None
    BY QueryAssumption, Zenon
  <2>2. CASE q # r
    <3>1. ReqOK(q) /\ req'[q] = req[q] /\ req[q].pc # "collect"
      BY <1>1, <1>2, <2>2, Zenon DEF Others, ReqOK
    <3> QED
      BY <1>2, <1>3, <2>1, <3>1, Zenon DEF ReqOK
  <2>3. req'[r].pc # "collect" /\ ReqOK(r)'
    <3>1. req'[r].pc = "state" /\ req'[r].page_no = req[r].page_no
      BY <1>2, Zenon DEF PageMade
    <3>2. req[r].page_no \in Nat /\ (~Done => req[r].page_no <= client.next) /\ holder' # r
      BY <1>2, QueryAssumption, Zenon DEF ReqOK
    <3> QED
      BY <1>3, <3>1, <3>2, Zenon DEF ReqOK
  <2> QED
    BY <2>2, <2>3, Zenon
<1>10. CollectOK(d, d)'
  BY <1>3, <1>4, <1>5, <1>9, Zenon DEF CollectOK
<1>11. results \in Seq(Blocks) /\ Range(results) = h + 1 .. d /\ Holds(results, h, d, dropped)
  BY <1>4, <1>5, BetweenSeq, BetweenRange, HoldsBetween, Zenon
<1>12. ToldOK(d)'
  BY <1>1, <1>3, <1>4, Zenon DEF ToldOK
<1>13. ASSUME NEW m \in 0 .. Len(Rows), DataOK(m, d)', GotOK(m, d)',
              client.live = r /\ ~Done => AnswerOK(req[r].page, m, d)'
       PROVE  HttpInv'
  <2>1. ASSUME NEW q \in Requests, client'.live = q
        PROVE  /\ ~Done'
               /\ req'[q].pc \in {"get", "lock", "collect"} => req'[q].page_no = client'.next
               /\ req'[q].pc = "state" => AnswerOK(req[q].page, m, d)'
    <3>1. client.live = q /\ ~Done
      BY <1>3, <2>1, Zenon DEF Cursors, LiveOK
    <3>2. CASE q = r
      BY <1>2, <1>3, <1>13, <3>1, <3>2, Zenon DEF PageMade
    <3>3. CASE q # r
      <4>1. req'[q] = req[q]
        BY <1>2, <3>3, Zenon DEF Others
      <4>2. req'[q].pc \in {"get", "lock", "collect"} => req'[q].page_no = client'.next
        BY <1>3, <3>1, <4>1, Zenon DEF Cursors, LiveOK
      <4>3. ASSUME req'[q].pc = "state" PROVE AnswerOK(req[q].page, m, d)'
        <5>1. /\ req'[q].page.data \in Seq(Blocks) /\ Holds(req'[q].page.data, 0, 0, dropped)
              /\ req'[q].page.next = client'.next
          BY <1>1, <1>3, <3>1, <4>1, <4>3, Zenon
        <5> QED
          BY <1>3, <5>1, Zenon DEF AnswerOK
      <4> QED
        BY <1>3, <3>1, <4>2, <4>3, Zenon
    <3> QED
      BY <3>2, <3>3, Zenon
  <2>2. LiveOK(m, d)'
    BY <2>1, Zenon DEF LiveOK
  <2>3. Cursors(m, d, d, e)'
    BY <1>8, <1>10, <1>12, <1>13, <2>2, Zenon DEF Cursors
  <2> QED
    BY <1>6, <1>7, <1>9, <1>13, <2>3, Conclude, Zenon
<1>14. CASE rows > 0
  <2>1. PICK t : t = data.total_pages + 1
    BY Zenon
  <2>2. data'.total_pages = t /\ data'.last_page = results
    BY <1>2, <1>14, <2>1, Zenon DEF PageMade
  <2>3. t \in 0 .. d /\ t # 0
    <3>1. PICK b \in h + 1 .. d : HasRows(b)
      BY <1>14, Zenon
    <3>2. data.total_pages \in 0 .. h
      BY <1>1, Zenon
    <3> QED
      BY <1>4, <2>1, <3>1, <3>2, PageNumber, Zenon
  <2>4. DataOK(h, d)'
    BY <1>3, <1>11, <2>2, <2>3, Zenon DEF DataOK
  <2>5. ~Done => client.next \in Nat /\ client.next + 1 = t /\ Holds(client.got, 0, h, dropped)
    BY <1>1, <1>2, <2>1, Zenon
  <2>6. GotOK(h, d)'
    BY <1>1, <1>3, <2>2, <2>5, Zenon DEF GotOK
  <2>7. req'[r].page.next = t \/ (req'[r].page.next = None /\ data'.end)
    BY <1>2, <2>2, Zenon DEF PageMade
  <2>8. ~Done => AnswerOK(req[r].page, h, d)'
    BY <1>2, <1>3, <1>11, <2>2, <2>5, <2>7, Zenon DEF AnswerOK, PageMade
  <2> QED
    BY <1>13, <2>4, <2>6, <2>8, Zenon
<1>15. CASE ~(rows > 0)
  <2>1. \A b \in h + 1 .. d : ~HasRows(b) \/ b \in dropped
    BY <1>15, Zenon
  <2>2. data'.total_pages = data.total_pages /\ data'.last_page = data.last_page
    BY <1>2, <1>15, Zenon DEF PageMade
  <2>3. ASSUME NEW q, Holds(q, l, h, dropped) PROVE Holds(q, l, d, dropped)
    BY <1>4, <2>1, <2>3, HoldsLonger
  <2>4. ASSUME NEW q, Holds(q, 0, h, dropped) PROVE Holds(q, 0, d, dropped)
    BY <1>4, <2>1, <2>4, HoldsLonger
  <2>5. data.total_pages # 0 => data.last_page \in Seq(Blocks) /\ Holds(data.last_page, l, d, dropped)
    BY <2>3, Zenon DEF Cursors, DataOK
  <2>6. DataOK(l, d)'
    BY <1>1, <1>3, <1>4, <2>2, <2>5, Zenon DEF Cursors, DataOK
  <2>7. ~Done => /\ client.next \in Nat /\ client.next = data.total_pages
                 /\ Holds(client.got, 0, d, dropped)
    BY <1>1, <2>4, Zenon DEF Cursors, GotOK
  <2>8. GotOK(l, d)'
    BY <1>1, <1>3, <2>2, <2>7, Zenon DEF GotOK
  <2>9. Holds(results, 0, 0, dropped)
    <3>1. \A b \in Range(results) : ~HasRows(b)
      BY <1>11, <1>15, Zenon
    <3> QED
      BY <1>11, <3>1, HoldsNothing, Zenon
  <2>10. req'[r].page.next = data'.total_pages \/ (req'[r].page.next = None /\ data'.end)
    BY <1>2, Zenon DEF PageMade
  <2>11. ~Done => AnswerOK(req[r].page, l, d)'
    BY <1>2, <1>3, <1>11, <2>2, <2>7, <2>9, <2>10, Zenon DEF AnswerOK, PageMade
  <2> QED
    BY <1>13, <2>6, <2>8, <2>11, Zenon
<1> QED
  BY <1>14, <1>15, Zenon

\* The handler has one block more, and goes on collecting.
LEMMA CollectsOn ==
  ASSUME NEW l \in 0 .. Len(Rows), NEW h \in 0 .. Len(Rows), NEW c \in 0 .. Len(Rows),
         NEW e \in 0 .. Len(Rows), Cursors(l, h, c, e), \A r \in Requests : ReqOK(r),
         ShapeOK, ExecOK, NEW r \in Requests, req[r].pc = "collect",
         NEW d \in 0 .. Len(Rows), h <= d, NEW rows \in Nat,
         rows > 0 <=> \E b \in h + 1 .. d : HasRows(b),
         Respond(r, "collect", [NoPage EXCEPT !.data = Between(h, d), !.rows = rows]), ChanOK(d, e)',
         UNCHANGED <<wait, exec, task, context, tx_open, rx_open, data, holder, ender, expire_at, client, dropped>>
  PROVE  HttpInv'
<1>1. PICK page : page = [NoPage EXCEPT !.data = Between(h, d), !.rows = rows]
  OBVIOUS
<1>2. page.data = Between(h, d) /\ page.rows = rows /\ DOMAIN page = DOMAIN NoPage
  BY <1>1 DEF NoPage
<1>3. /\ Others(r) /\ req'[r].pc = "collect" /\ req'[r].page = page /\ req'[r].page_no = req[r].page_no
      /\ DOMAIN req'[r] = DOMAIN Quiet
  <2>1. Respond(r, "collect", page)
    BY <1>1
  <2> QED
    BY <1>2, <2>1, Updated, Zenon
<1>4. /\ exec' = exec /\ task' = task /\ context' = context /\ (tx_open' <=> tx_open) /\ (rx_open' <=> rx_open)
      /\ ender' = ender /\ expire_at' = expire_at /\ client' = client /\ dropped' = dropped /\ (Done' <=> Done)
      /\ data' = data /\ holder' = holder
  BY EndsKept, Zenon DEF Done
<1>5. holder = r /\ ~data.end /\ r # None
  BY QueryAssumption, Zenon DEF ReqOK
<1>6. ShapeOK'
  <2>1. data'.end \in BOOLEAN /\ holder' \in Requests \cup {None} /\ expire_at' \in {None, "later", "past"}
        /\ DOMAIN client' = {"live", "next", "got", "told"}
    BY <1>4, Zenon DEF ShapeOK
  <2>2. DOMAIN req'[r].page = DOMAIN NoPage
    BY <1>2, <1>3, Zenon
  <2> QED
    BY <1>3, <2>1, <2>2, ShapeKept, Zenon
<1>7. ExecOK'
  BY <1>4, <1>5, Zenon DEF ExecOK
<1>8. TaskOK(e)'
  BY ExecutionKept, Zenon DEF Cursors
<1>9. ASSUME NEW q \in Requests PROVE ReqOK(q)'
  <2>1. CASE q # r
    <3>1. ReqOK(q) /\ req'[q] = req[q]
      BY <1>3, <2>1, Zenon DEF Others
    <3> QED
      BY <1>4, <3>1, Zenon DEF ReqOK
  <2>2. ReqOK(r)'
    <3>1. ReqOK(r)
      BY Zenon
    <3> QED
      BY <1>3, <1>4, <3>1, Zenon DEF ReqOK
  <2> QED
    BY <2>1, <2>2, Zenon
<1>10. CollectOK(h, d)'
  <2>1. ASSUME NEW q \in Requests, req'[q].pc = "collect"
        PROVE  /\ req'[q].page.data = Between(h, d) /\ req'[q].page.rows \in Nat
               /\ req'[q].page.rows > 0 <=> \E b \in h + 1 .. d : HasRows(b)
    <3>1. q = r
      BY <1>3, <1>5, <2>1, Zenon DEF Others, ReqOK
    <3> QED
      BY <1>2, <1>3, <3>1, Zenon
  <2>2. dropped' \subseteq 1 .. h /\ holder' # None
    BY <1>4, <1>5, Zenon DEF Cursors, CollectOK
  <2> QED
    BY <2>1, <2>2, Zenon DEF CollectOK
<1>11. DataOK(l, h)' /\ GotOK(l, h)' /\ ToldOK(h)'
  BY <1>4, Zenon DEF Cursors, DataOK, GotOK, ToldOK, Done
<1>12. LiveOK(l, h)'
  <2>1. ASSUME NEW q \in Requests, client'.live = q
        PROVE  /\ ~Done'
               /\ req'[q].pc \in {"get", "lock", "collect"} => req'[q].page_no = client'.next
               /\ req'[q].pc = "state" => AnswerOK(req[q].page, l, h)'
    <3>1. /\ client.live = q /\ ~Done
          /\ req[q].pc \in {"get", "lock", "collect"} => req[q].page_no = client.next
          /\ req[q].pc = "state" => AnswerOK(req[q].page, l, h)
      BY <1>4, <2>1, Zenon DEF Cursors, LiveOK
    <3>2. CASE q = r
      BY <1>3, <1>4, <3>1, <3>2, Zenon
    <3>3. CASE q # r
      <4>1. req'[q] = req[q]
        BY <1>3, <3>3, Zenon DEF Others
      <4>2. AnswerOK(req[q].page, l, h) => AnswerOK(req[q].page, l, h)'
        BY <1>4, <4>1, Zenon DEF AnswerOK
      <4> QED
        BY <1>4, <3>1, <4>1, <4>2, Zenon
    <3> QED
      BY <3>2, <3>3, Zenon
  <2> QED
    BY <2>1, Zenon DEF LiveOK
<1>13. Cursors(l, h, d, e)'
  BY <1>8, <1>10, <1>11, <1>12, Zenon DEF Cursors
<1> QED
  BY <1>6, <1>7, <1>9, <1>13, Conclude, Zenon

\* There are rows when one block more is counted.
LEMMA SomeRows ==
  ASSUME NEW n \in Nat, NEW x \in Nat
  PROVE  n + x \in Nat /\ (n + x > 0 <=> n > 0 \/ x > 0)
OBVIOUS

\* One receive of collect_new_page.
LEMMA ReceiveInv ==
  ASSUME NEW l \in 0 .. Len(Rows), NEW h \in 0 .. Len(Rows), NEW c \in 0 .. Len(Rows),
         NEW e \in 0 .. Len(Rows), Cursors(l, h, c, e), \A r \in Requests : ReqOK(r),
         ShapeOK, ExecOK, NEW r \in Requests, receive(r)
  PROVE  HttpInv'
<1>1. /\ req[r].pc = "collect"
      /\ UNCHANGED <<wait, exec, task, context, tx_open, rx_open, ender, expire_at, client, dropped>>
  BY Zenon DEF receive, executor, fate, customer
<1>2. PICK got, n : got = req[r].page.data /\ n = req[r].page.rows
  OBVIOUS
<1>3. /\ got = Between(h, c) /\ n \in Nat /\ (n > 0 <=> \E b \in h + 1 .. c : HasRows(b))
      /\ c <= e /\ chan = Between(c, e) /\ Len(chan) <= ChannelSize /\ h <= c
  BY <1>1, <1>2, Zenon DEF Cursors, CollectOK, ChanOK
<1>4. c \in Nat /\ h \in Nat
  BY Size
<1>5. ASSUME NEW end \in BOOLEAN, chan' = chan, new_page(r, got, n, end),
             end => chan = << >> /\ (~tx_open \/ ~rx_open)
      PROVE  HttpInv'
  <2>1. ChanOK(c, e)'
    BY <1>3, <1>5, Zenon DEF ChanOK
  <2>2. end => chan' = << >> /\ (~tx_open \/ ~rx_open)
    BY <1>5, Zenon
  <2> QED
    BY <1>1, <1>3, <1>5, <2>1, <2>2, NewPageInv, Zenon
<1>6. CASE chan = << >> /\ Disconnected /\ UNCHANGED chan /\ new_page(r, got, n, TRUE)
  <2>1. ~tx_open \/ ~rx_open
    BY <1>6, Zenon DEF Disconnected
  <2> QED
    BY <1>5, <1>6, <2>1, Zenon
<1>7. CASE UNCHANGED chan /\ new_page(r, got, n, FALSE)
  BY <1>5, <1>7, Zenon
<1>8. PICK d, results, rows : d = Head(chan) /\ results = Append(got, d) /\ rows = n + Rows[d]
  OBVIOUS
<1>9. CASE /\ chan # << >> /\ chan' = Tail(chan)
           /\ IF rows >= Target THEN new_page(r, results, rows, FALSE)
              ELSE Respond(r, "collect", [NoPage EXCEPT !.data = results, !.rows = rows]) /\ UNCHANGED pages
  <2>1. c < e
    <3>1. Between(c, e) = << >> <=> c = e
      BY <1>3, <1>4, BetweenSeq, Zenon
    <3>2. c # e
      BY <1>3, <1>9, <3>1, Zenon
    <3> QED
      BY <1>3, <1>4, <3>2, Size
  <2>2. d = c + 1 /\ chan' = Between(c + 1, e)
    BY <1>3, <1>4, <1>8, <1>9, <2>1, BetweenHead, Zenon
  <2>3. /\ d \in 0 .. Len(Rows) /\ h <= d /\ c <= d /\ d <= e /\ c < Len(Rows) /\ d \in Nat /\ d \in Blocks
    BY <1>3, <1>4, <2>1, <2>2, Size
  <2>4. results = Between(h, d)
    BY <1>3, <1>4, <1>8, <2>2, <2>3, BetweenAppend, Zenon
  <2>5. Rows[d] \in Nat
    BY <2>3, Size, Zenon
  <2>6. rows \in Nat /\ (rows > 0 <=> n > 0 \/ HasRows(d))
    <3>1. PICK x \in Nat : x = Rows[d]
      BY <2>5, Zenon
    <3>2. n \in Nat /\ rows = n + x /\ (HasRows(d) <=> x > 0)
      BY <1>3, <1>8, <3>1, Zenon DEF HasRows
    <3> QED
      BY <3>1, <3>2, SomeRows, Zenon
  <2>7. rows > 0 <=> \E b \in h + 1 .. d : HasRows(b)
    <3>1. \A b : b \in h + 1 .. d <=> b \in h + 1 .. c \/ b = d
      BY <1>3, <1>4, <2>2
    <3> QED
      BY <1>3, <2>6, <3>1, Zenon
  <2>8. ChanOK(d, e)'
    <3>1. chan' = Between(d, e)
      BY <2>2, Zenon
    <3>2. Len(chan') = e - d
      BY <2>3, <3>1, BetweenSeq, Zenon
    <3>3. Len(chan) = e - c
      BY <1>3, <1>4, BetweenSeq, Zenon
    <3>4. Len(chan') <= ChannelSize
      <4>1. PICK x, y : x = Len(chan) /\ y = Len(chan')
        OBVIOUS
      <4> QED
        BY <1>3, <1>4, <2>2, <3>2, <3>3, <4>1, QueryAssumption, Size
    <3> QED
      BY <2>3, <3>1, <3>4, Zenon DEF ChanOK
  <2>9. CASE rows >= Target
    <3>1. new_page(r, results, rows, FALSE)
      BY <1>9, <2>9, Zenon
    <3> QED
      BY <1>1, <2>3, <2>4, <2>6, <2>7, <2>8, <3>1, NewPageInv, Zenon
  <2>10. CASE ~(rows >= Target)
    <3>1. /\ Respond(r, "collect", [NoPage EXCEPT !.data = results, !.rows = rows])
          /\ data' = data /\ holder' = holder
      BY <1>9, <2>10, Zenon DEF pages
    <3>2. Respond(r, "collect", [NoPage EXCEPT !.data = Between(h, d), !.rows = rows])
      BY <2>4, <3>1, Zenon
    <3> QED
      BY <1>1, <2>3, <2>6, <2>7, <2>8, <3>1, <3>2, CollectsOn, Zenon
  <2> QED
    BY <2>9, <2>10, Zenon
<1> QED
  BY <1>2, <1>6, <1>7, <1>8, <1>9, Zenon DEF receive

-----------------------------------------------------------------------------
(* The theorems *)

\* Every step keeps the invariant.
LEMMA NextInv ==
  ASSUME HttpInv, [Next]_vars
  PROVE  HttpInv'
<1>1. PICK l \in 0 .. Len(Rows), h \in 0 .. Len(Rows), c \in 0 .. Len(Rows), e \in 0 .. Len(Rows) :
        Cursors(l, h, c, e)
  BY Zenon DEF HttpInv
<1>2. ShapeOK /\ ExecOK /\ \A r \in Requests : ReqOK(r)
  BY Zenon DEF HttpInv
<1>3. CASE Task
  BY <1>1, <1>2, <1>3, PollInv, SendInv, StopInv, Zenon DEF Task
<1>4. ASSUME NEW r \in Requests, Handler(r) \/ ask(r) \/ disconnect(r) PROVE HttpInv'
  BY <1>1, <1>2, <1>4, LookupInv, ReceiveInv, RespondInv, AskInv, DisconnectInv, Zenon DEF Handler
<1>5. CASE \/ \E e1 \in {"expiry", "cancel"} : End(e1)
           \/ expire \/ check_expire \/ cancel \/ force_kill_query
  BY <1>1, <1>2, <1>5, EndInv, Zenon
<1>6. CASE UNCHANGED vars
  <2>1. /\ UNCHANGED <<wait, task, chan, tx_open, pages, req, client, dropped>>
        /\ exec' = exec /\ context' = context /\ rx_open' = rx_open /\ ender' = ender /\ expire_at' = expire_at
    BY <1>6, Zenon DEF vars, pages
  <2>2. /\ expire_at' \in {None, "later", "past"} /\ DOMAIN ender' = {"expiry", "cancel"}
        /\ context' \in [killed : BOOLEAN, abort : BOOLEAN, missed : BOOLEAN]
    BY <1>2, <2>1, Zenon DEF ShapeOK
  <2> QED
    BY <1>1, <1>2, <2>1, <2>2, TaskKept, Zenon
<1> QED
  BY <1>3, <1>4, <1>5, <1>6, Zenon DEF Next

\* The invariant holds: at any time the pages, what a handler has collected, the
\* channel and what the task has yet to send are the result, in this order.
THEOREM HttpInvHolds == Spec => []HttpInv
<1>1. Init => HttpInv
  BY InitInv
<1>2. HttpInv /\ [Next]_vars => HttpInv'
  BY NextInv
<1> QED
  BY <1>1, <1>2, PTL DEF Spec

\* A client has a prefix of the result, in order and once, however often it asks
\* for a page again, and misses only what went with a dropped handler.
THEOREM PagesComeInOrder == Spec => []PagesInOrder
<1>1. HttpInv => PagesInOrder
  <2>1. SUFFICES ASSUME HttpInv PROVE PagesInOrder
    BY Zenon
  <2>2. PICK l \in 0 .. Len(Rows), h \in 0 .. Len(Rows), c \in 0 .. Len(Rows), e \in 0 .. Len(Rows) :
          Cursors(l, h, c, e)
    BY <2>1, Zenon DEF HttpInv
  <2>3. \A k \in 0 .. h : k \in 0 .. Len(Rows)
    BY Size
  <2> QED
    BY <2>2, <2>3, Zenon DEF Cursors, GotOK, ToldOK, PagesInOrder
<1> QED
  BY <1>1, HttpInvHolds, PTL

\* The client is told a final state with the last page.
THEOREM OutcomeIsTold == Spec => []LastPageTellsOutcome
<1>1. HttpInv => LastPageTellsOutcome
  BY Zenon DEF HttpInv, Cursors, ToldOK, LastPageTellsOutcome
<1> QED
  BY <1>1, HttpInvHolds, PTL

\* Of the rows of a query that is called a success the client misses none but
\* those that a dropped handler had received, unless the stream was aborted by
\* KILL between is_aborted and poll_next.
THEOREM SuccessMissesOnlyThese == Spec => []OnlyTheseAreMissing
<1>1. HttpInv => OnlyTheseAreMissing
  <2>1. client.told = "Succeeded" => Done
    BY QueryAssumption, Zenon DEF Done
  <2>2. HttpInv /\ client.told = "Succeeded" /\ ~context.missed
          => Holds(client.got, 0, Len(Rows), dropped)
    BY <2>1, Zenon DEF HttpInv, Cursors, ToldOK
  <2>3. DOMAIN Rows = 0 + 1 .. Len(Rows)
    BY QueryAssumption
  <2> QED
    BY <2>2, <2>3, Zenon DEF OnlyTheseAreMissing, Missing, Holds
<1> QED
  BY <1>1, HttpInvHolds, PTL
=============================================================================
