-------------------------- MODULE FfiClient_proofs --------------------------
(***************************************************************************)
(* Proofs about the calls of the C client library, for every unit size,    *)
(* frame limit, timeout pattern and number of calls.                       *)
(*                                                                         *)
(* What is hard here is that a frame is read in pieces and a call may give *)
(* up between two of them.  ReportInv puts what the call under way holds   *)
(* back in front of the stream: together they carry exactly the frames     *)
(* that are not reported yet, at every step.  PostInv says the same of the *)
(* other direction, and StdoutInv of the chunks of STDOUT.  That a stream  *)
(* carries a sequence of frames (Carries) is stated position by position,  *)
(* so that no induction over the stream is needed.                         *)
(***************************************************************************)
EXTENDS FfiClient, DataFacts

----------------------------------------------------------------------------
(* Frames *)

LEMMA Width == Base * Base \in Nat \ {0}
<1>1. Base \in Nat \ {0, 1}
  BY FramingAssumption
<1>2. Base * Base >= Base
  BY <1>1
<1> QED BY <1>1, <1>2

\* A length that fits the header survives it.
LEMMA HeaderRoundTrip ==
    ASSUME NEW n \in 0..(Base * Base - 1)
    PROVE  /\ to_be_bytes(n) \in Seq(Unit) /\ Len(to_be_bytes(n)) = HeaderLen
           /\ from_be_bytes(to_be_bytes(n)) = n
<1>1. n \in Nat /\ Base \in Nat \ {0}
  BY FramingAssumption, Width
<1>2. n % Base \in Unit /\ n = Base * (n \div Base) + (n % Base)
  BY <1>1, DivMod DEF Unit
<1>3. n \div Base \in Unit
  BY <1>1, DivSmall DEF Unit
<1> DEFINE q == n \div Base
           r == n % Base
<1>4. q \in Nat /\ r \in Nat /\ q * Base = Base * q
  BY <1>1, DivMod
<1>5. to_be_bytes(n) = <<q, r>>
  BY DEF to_be_bytes
<1> HIDE DEF q, r
<1>6. from_be_bytes(<<q, r>>) = q * Base + r
  BY DEF from_be_bytes
<1>7. <<q, r>> \in Seq(Unit) /\ Len(<<q, r>>) = 2
  BY <1>2, <1>3 DEF q, r
<1>8. from_be_bytes(to_be_bytes(n)) = n
  BY <1>2, <1>4, <1>5, <1>6 DEF q, r
<1> QED BY <1>5, <1>7, <1>8 DEF HeaderLen

\* What a frame is, unit by unit.
LEMMA FrameUnits ==
    ASSUME NEW p \in Seq(Unit)
    PROVE  /\ encode_frame(p) \in Seq(Unit)
           /\ Len(encode_frame(p)) = HeaderLen + Len(p)
           /\ \A i \in 1..Len(p) : encode_frame(p)[HeaderLen + i] = p[i]
           /\ Len(p) < Base * Base =>
                /\ from_be_bytes(encode_frame(p)) = Len(p)
                /\ \A i \in 1..HeaderLen : encode_frame(p)[i] = to_be_bytes(Len(p))[i]
<1> DEFINE L == Len(p) % (Base * Base)
           h == to_be_bytes(L)
           f == encode_frame(p)
<1>1. Len(p) \in Nat
  OBVIOUS
<1>2. L \in 0..(Base * Base - 1)
  BY <1>1, Width, DivMod
<1>3. Len(p) < Base * Base => L = Len(p)
  BY <1>1, Width, ModSmall
<1> HIDE DEF L
<1>4. h \in Seq(Unit) /\ Len(h) = HeaderLen /\ from_be_bytes(h) = L
  BY <1>2, HeaderRoundTrip
<1>5. f = h \o p
  BY DEF encode_frame, L
<1> HIDE DEF h
<1>6. /\ f \in Seq(Unit) /\ Len(f) = HeaderLen + Len(p)
      /\ \A i \in 1..(HeaderLen + Len(p)) :
           f[i] = IF i <= HeaderLen THEN h[i] ELSE p[i - HeaderLen]
  <2>1. h \in Seq(Unit) /\ Len(h) = HeaderLen
    BY <1>4
  <2>2. /\ h \o p \in Seq(Unit) /\ Len(h \o p) = Len(h) + Len(p)
        /\ \A i \in 1..(Len(h) + Len(p)) :
             (h \o p)[i] = IF i <= Len(h) THEN h[i] ELSE p[i - Len(h)]
    BY <2>1, ConcatProperties, Zenon
  <2> QED BY <1>5, <2>1, <2>2, Zenon
<1> HIDE DEF f
<1>7. from_be_bytes(f) = from_be_bytes(h)
  BY <1>1, <1>6 DEF from_be_bytes, HeaderLen
<1>8. \A i \in 1..Len(p) : f[HeaderLen + i] = p[i]
  BY <1>1, <1>6 DEF HeaderLen
<1>9. \A i \in 1..HeaderLen : f[i] = h[i]
  BY <1>1, <1>6 DEF HeaderLen
<1> QED BY <1>3, <1>4, <1>6, <1>7, <1>8, <1>9 DEF f, h

----------------------------------------------------------------------------
(* Streams that carry frames *)

LEMMA CarriesNothing == ASSUME NEW w \in Seq(Unit) PROVE Carries(w, <<>>) <=> w = <<>>
<1>1. ASSUME Carries(w, <<>>) PROVE w = <<>>
  BY <1>1 DEF Carries
<1>2. Carries(<<>>, <<>>)
  <2> DEFINE e == [i \in 0..0 |-> 0]
  <2>1. e \in [0..0 -> 0..0] /\ e[0] = 0
    OBVIOUS
  <2>2. Len(<<>>) = 0 /\ 1..0 = {}
    OBVIOUS
  <2> HIDE DEF e
  <2> QED BY <2>1, <2>2 DEF Carries
<1> QED BY <1>1, <1>2

\* A frame written at the end of a stream.
LEMMA CarriesAppend ==
    ASSUME NEW w \in Seq(Unit), NEW fs \in Seq(Seq(Unit)), NEW p \in Seq(Unit),
           Carries(w, fs)
    PROVE  Carries(w \o encode_frame(p), Append(fs, p))
<1> DEFINE f == encode_frame(p)
           u == w \o f
           gs == Append(fs, p)
           n == Len(fs)
           m == Len(w)
<1>1. f \in Seq(Unit) /\ n \in Nat /\ m \in Nat /\ Len(f) \in Nat
  <2>1. f \in Seq(Unit)
    BY FrameUnits
  <2> HIDE DEF f
  <2> QED BY <2>1
<1>2. Len(u) = m + Len(f) /\ \A i \in 1..(m + Len(f)) : u[i] = IF i <= m THEN w[i] ELSE f[i - m]
  <2> HIDE DEF f
  <2> QED BY <1>1, ConcatProperties
<1>3. Len(gs) = n + 1 /\ gs[n + 1] = p /\ \A i \in 1..n : gs[i] = fs[i]
  BY AppendProperties
<1>4. PICK end \in [0..n -> 0..m] :
        /\ end[0] = 0 /\ end[n] = m
        /\ \A i \in 1..n :
             /\ end[i] = end[i - 1] + Len(encode_frame(fs[i]))
             /\ \A j \in 1..Len(encode_frame(fs[i])) :
                  w[end[i - 1] + j] = encode_frame(fs[i])[j]
  BY Zenon DEF Carries
<1> DEFINE e == [i \in 0..(n + 1) |-> IF i <= n THEN end[i] ELSE m + Len(f)]
<1> HIDE DEF f, u, gs, n, m
<1>5. e \in [0..(n + 1) -> 0..(m + Len(f))]
  <2>1. end \in [0..n -> 0..m]
    OBVIOUS
  <2> QED BY <1>1, <2>1
<1>6. e[n + 1] = m + Len(f) /\ \A i \in 0..n : e[i] = end[i]
  BY <1>1
<1>7. e[0] = 0 /\ e[n] = m
  BY <1>1, <1>4, <1>6
<1> HIDE DEF e
<1>8. ASSUME NEW i \in 1..n
      PROVE  /\ e[i] = e[i - 1] + Len(encode_frame(gs[i]))
             /\ \A j \in 1..Len(encode_frame(gs[i])) :
                  u[e[i - 1] + j] = encode_frame(gs[i])[j]
  <2> DEFINE g == encode_frame(fs[i])
             k == end[i - 1]
  <2>1. i \in 0..n /\ i - 1 \in 0..n
    BY <1>1
  <2>2. fs[i] \in Seq(Unit)
    BY DEF n
  <2>3. Len(g) \in Nat
    BY <2>2, FrameUnits
  <2>4. end[i] = k + Len(g) /\ \A j \in 1..Len(g) : w[k + j] = g[j]
    BY <1>4
  <2>5. e[i] = end[i] /\ e[i - 1] = k /\ gs[i] = fs[i]
    BY <1>3, <1>6, <2>1
  <2>6. k \in Nat /\ end[i] \in 0..m
    BY <1>1, <2>1
  <2> HIDE DEF g, k
  <2>7. \A j \in 1..Len(g) : u[k + j] = g[j]
    <3> TAKE j \in 1..Len(g)
    <3>1. k + j \in 1..(m + Len(f)) /\ k + j <= m
      BY <1>1, <2>3, <2>4, <2>6
    <3> QED BY <1>2, <2>4, <3>1
  <2> QED BY <2>4, <2>5, <2>7 DEF g
<1>9. /\ e[n + 1] = e[n] + Len(encode_frame(gs[n + 1]))
      /\ \A j \in 1..Len(encode_frame(gs[n + 1])) :
           u[e[n] + j] = encode_frame(gs[n + 1])[j]
  <2>1. encode_frame(gs[n + 1]) = f
    BY <1>3 DEF f
  <2>2. \A j \in 1..Len(f) : u[m + j] = f[j]
    BY <1>1, <1>2
  <2> QED BY <1>6, <1>7, <2>1, <2>2
<1>10. ASSUME NEW i \in 1..(n + 1)
       PROVE  /\ e[i] = e[i - 1] + Len(encode_frame(gs[i]))
              /\ \A j \in 1..Len(encode_frame(gs[i])) :
                   u[e[i - 1] + j] = encode_frame(gs[i])[j]
  <2>1. CASE i \in 1..n
    BY <1>8, <2>1
  <2>2. CASE i = n + 1
    <3>1. i - 1 = n
      BY <1>1, <2>2
    <3> QED BY <1>9, <2>2, <3>1
  <2> QED BY <1>1, <2>1, <2>2
<1>11. e \in [0..Len(gs) -> 0..Len(u)] /\ e[0] = 0 /\ e[Len(gs)] = Len(u)
  BY <1>2, <1>3, <1>5, <1>6, <1>7
<1>12. \A i \in 1..Len(gs) :
         /\ e[i] = e[i - 1] + Len(encode_frame(gs[i]))
         /\ \A j \in 1..Len(encode_frame(gs[i])) :
              u[e[i - 1] + j] = encode_frame(gs[i])[j]
  BY <1>3, <1>10
<1>13. Carries(u, gs)
  BY <1>11, <1>12, Zenon DEF Carries
<1> QED BY <1>13 DEF u, gs, f

\* The frame at the start of a stream, and what is left without it.
LEMMA CarriesHead ==
    ASSUME NEW w \in Seq(Unit), NEW fs \in Seq(Seq(Unit)), fs # <<>>, Carries(w, fs)
    PROVE  LET f == encode_frame(fs[1]) IN
           /\ Len(f) <= Len(w) /\ \A j \in 1..Len(f) : w[j] = f[j]
           /\ Carries(SubSeq(w, Len(f) + 1, Len(w)), Tail(fs))
<1> DEFINE f == encode_frame(fs[1])
           n == Len(fs)
           m == Len(w)
           c == Len(f)
           u == SubSeq(w, c + 1, m)
           gs == Tail(fs)
<1>1. n \in Nat \ {0} /\ m \in Nat
  BY EmptySeq
<1>2. \A i \in 1..n : fs[i] \in Seq(Unit) /\ Len(encode_frame(fs[i])) \in Nat
  <2> TAKE i \in 1..n
  <2>1. fs[i] \in Seq(Unit)
    OBVIOUS
  <2> QED BY <2>1, FrameUnits DEF HeaderLen
<1>3. c \in Nat
  BY <1>1, <1>2
<1>4. PICK end \in [0..n -> 0..m] :
        /\ end[0] = 0 /\ end[n] = m
        /\ \A i \in 1..n :
             /\ end[i] = end[i - 1] + Len(encode_frame(fs[i]))
             /\ \A j \in 1..Len(encode_frame(fs[i])) :
                  w[end[i - 1] + j] = encode_frame(fs[i])[j]
  BY Zenon DEF Carries
<1>5. Len(gs) = n - 1 /\ \A i \in 1..(n - 1) : gs[i] = fs[i + 1]
  BY HeadTailProperties
<1>6. end[1] = c /\ \A j \in 1..c : w[j] = f[j]
  <2>1. 1 \in 1..n /\ 1 - 1 = 0
    BY <1>1
  <2>2. end[1] = 0 + c /\ \A j \in 1..c : w[0 + j] = f[j]
    BY <1>4, <2>1
  <2> HIDE DEF f, c
  <2> QED BY <1>3, <2>2
<1> HIDE DEF f, c, n, m, gs
<1>7. \A i \in 0..n : end[i] \in 0..m
  <2>1. end \in [0..n -> 0..m]
    OBVIOUS
  <2> QED BY <2>1
<1>8. c <= m
  BY <1>1, <1>6, <1>7
<1>9. \A i \in 1..n : c <= end[i]
  <2> DEFINE T == {i \in 1..n : end[i] < c}
  <2>0. SUFFICES ASSUME NEW z \in 1..n, ~ (c <= end[z]) PROVE FALSE
    OBVIOUS
  <2>1. T # {}
    <3>1. z \in 0..n /\ end[z] \in Int
      BY <1>1, <1>7
    <3> QED BY <1>3, <2>0, <3>1
  <2>2. PICK x \in T : \A y \in T : x <= y
    <3>1. T \in SUBSET Nat
      BY <1>1
    <3> HIDE DEF T
    <3> QED BY <2>1, <3>1, NatMin
  <2>3. x \in 1..n /\ end[x] < c
    BY <2>2
  <2>4. x # 1
    BY <1>3, <1>6, <2>3
  <2>5. x - 1 \in 1..n /\ x - 1 \notin T
    <3>1. x - 1 \in 1..n /\ ~ (x <= x - 1)
      BY <1>1, <2>3, <2>4
    <3> HIDE DEF T
    <3> QED BY <2>2, <3>1
  <2>6. end[x - 1] \in Nat /\ end[x - 1] >= c
    BY <1>1, <1>3, <1>7, <2>5
  <2>7. end[x] = end[x - 1] + Len(encode_frame(fs[x]))
    BY <1>4, <2>3
  <2>8. Len(encode_frame(fs[x])) \in Nat
    BY <1>2, <2>3
  <2> HIDE DEF T
  <2> QED BY <1>3, <2>3, <2>6, <2>7, <2>8
<1>10. u \in Seq(Unit) /\ Len(u) = m - c /\ \A i \in 1..(m - c) : u[i] = w[c + i]
  BY <1>1, <1>3, <1>8, SliceProperties DEF m
<1> DEFINE e == [i \in 0..(n - 1) |-> end[i + 1] - c]
<1> HIDE DEF u
<1>11. e \in [0..(n - 1) -> 0..(m - c)] /\ e[0] = 0 /\ e[n - 1] = m - c
  <2>1. \A i \in 0..(n - 1) : i + 1 \in 1..n /\ end[i + 1] \in 0..m /\ c <= end[i + 1]
    BY <1>1, <1>7, <1>9
  <2>2. \A i \in 0..(n - 1) : end[i + 1] - c \in 0..(m - c)
    BY <1>1, <1>3, <2>1
  <2>3. e[0] = end[1] - c /\ e[n - 1] = end[n] - c
    BY <1>1
  <2> QED BY <1>3, <1>4, <1>6, <2>2, <2>3
<1>12. \A i \in 0..(n - 1) : e[i] = end[i + 1] - c
  OBVIOUS
<1> HIDE DEF e
<1>13. ASSUME NEW i \in 1..(n - 1)
       PROVE  /\ e[i] = e[i - 1] + Len(encode_frame(gs[i]))
              /\ \A j \in 1..Len(encode_frame(gs[i])) :
                   u[e[i - 1] + j] = encode_frame(gs[i])[j]
  <2> DEFINE g == encode_frame(fs[i + 1])
             k == end[i]
  <2>1. i + 1 \in 1..n /\ i + 1 - 1 = i /\ i \in 0..n /\ i \in 1..n
    BY <1>1
  <2>2. Len(g) \in Nat
    BY <1>2, <2>1
  <2>3. end[i + 1] = k + Len(g) /\ \A j \in 1..Len(g) : w[k + j] = g[j]
    BY <1>4, <2>1
  <2>4. e[i] = end[i + 1] - c /\ e[i - 1] = k - c /\ gs[i] = fs[i + 1]
    BY <1>1, <1>5, <1>12
  <2>5. k \in Nat /\ c <= k /\ end[i + 1] \in 0..m
    BY <1>1, <1>7, <1>9, <2>1
  <2> HIDE DEF g, k
  <2>6. \A j \in 1..Len(g) : u[(k - c) + j] = g[j]
    <3> TAKE j \in 1..Len(g)
    <3>1. (k - c) + j \in 1..(m - c) /\ c + ((k - c) + j) = k + j
      BY <1>1, <1>3, <2>2, <2>3, <2>5
    <3> QED BY <1>10, <2>3, <3>1
  <2>7. end[i + 1] - c = (k - c) + Len(g)
    BY <1>3, <2>2, <2>3, <2>5
  <2> QED BY <2>4, <2>6, <2>7 DEF g
<1>14. e \in [0..Len(gs) -> 0..Len(u)] /\ e[0] = 0 /\ e[Len(gs)] = Len(u)
  BY <1>5, <1>10, <1>11
<1>15. \A i \in 1..Len(gs) :
         /\ e[i] = e[i - 1] + Len(encode_frame(gs[i]))
         /\ \A j \in 1..Len(encode_frame(gs[i])) :
              u[e[i - 1] + j] = encode_frame(gs[i])[j]
  BY <1>5, <1>13
<1>16. Carries(u, gs)
  BY <1>14, <1>15, Zenon DEF Carries
<1> QED BY <1>6, <1>8, <1>16 DEF u, gs, f, c, m

----------------------------------------------------------------------------
(* The frames of a history that are still on their way *)

\* One more at the end of a history.
LEMMA RestAppend ==
    ASSUME NEW S, NEW h \in Seq(S), NEW k \in 0..Len(h), NEW p \in S
    PROVE  /\ SubSeq(h, k + 1, Len(h)) \in Seq(S)
           /\ SubSeq(Append(h, p), k + 1, Len(Append(h, p)))
                = Append(SubSeq(h, k + 1, Len(h)), p)
<1> DEFINE n == Len(h)
           r == SubSeq(h, k + 1, n)
           g == Append(h, p)
           t == SubSeq(g, k + 1, n + 1)
<1>1. n \in Nat /\ k \in Nat /\ k <= n
  OBVIOUS
<1>2. r \in Seq(S) /\ Len(r) = n - k /\ \A i \in 1..(n - k) : r[i] = h[k + i]
  BY <1>1, SliceProperties
<1>3. /\ g \in Seq(S) /\ Len(g) = n + 1 /\ g[n + 1] = p
      /\ \A i \in 1..n : g[i] = h[i]
  BY AppendProperties
<1> HIDE DEF g
<1>4. t \in Seq(S) /\ Len(t) = (n + 1) - k /\ \A i \in 1..((n + 1) - k) : t[i] = g[k + i]
  <2>1. n + 1 \in Nat /\ k <= n + 1
    BY <1>1
  <2> QED BY <1>1, <1>3, <2>1, SliceProperties
<1> HIDE DEF r, t, n
<1>5. /\ Append(r, p) \in Seq(S) /\ Len(Append(r, p)) = Len(r) + 1
      /\ Append(r, p)[Len(r) + 1] = p /\ \A i \in 1..Len(r) : Append(r, p)[i] = r[i]
  BY <1>2, AppendProperties
<1>6. \A i \in 1..Len(t) : t[i] = Append(r, p)[i]
  <2> TAKE i \in 1..Len(t)
  <2>1. CASE i <= n - k
    <3>1. i \in 1..(n - k) /\ k + i \in 1..n /\ i \in 1..Len(r) /\ i \in 1..((n + 1) - k)
      BY <1>1, <1>2, <1>4, <2>1
    <3> QED BY <1>2, <1>3, <1>4, <1>5, <3>1
  <2>2. CASE i > n - k
    <3>1. i = Len(r) + 1 /\ k + i = n + 1 /\ i \in 1..((n + 1) - k)
      BY <1>1, <1>2, <1>4, <2>2
    <3> QED BY <1>3, <1>4, <1>5, <3>1
  <2>3. i <= n - k \/ i > n - k
    BY <1>1
  <2> QED BY <2>1, <2>2, <2>3
<1>7. t = Append(r, p)
  <2>1. Len(t) = Len(Append(r, p))
    BY <1>1, <1>2, <1>4, <1>5
  <2> QED BY <1>4, <1>5, <1>6, <2>1, SeqEqual
<1> QED BY <1>2, <1>3, <1>7 DEF r, t, g, n

\* The next one of a history.
LEMMA RestNext ==
    ASSUME NEW S, NEW h \in Seq(S), NEW k \in 0..Len(h), SubSeq(h, k + 1, Len(h)) # <<>>
    PROVE  /\ SubSeq(h, k + 1, Len(h)) \in Seq(S)
           /\ k + 1 \in 1..Len(h) /\ SubSeq(h, k + 1, Len(h))[1] = h[k + 1]
           /\ Tail(SubSeq(h, k + 1, Len(h))) = SubSeq(h, (k + 1) + 1, Len(h))
<1> DEFINE n == Len(h)
           r == SubSeq(h, k + 1, n)
<1>1. n \in Nat /\ k \in Nat /\ k <= n
  OBVIOUS
<1>2. r \in Seq(S) /\ Len(r) = n - k /\ \A i \in 1..(n - k) : r[i] = h[k + i]
  BY <1>1, SliceProperties
<1>3. r # <<>>
  OBVIOUS
<1> HIDE DEF r, n
<1>4. k < n
  <2>1. Len(r) # 0
    BY <1>2, <1>3, EmptySeq
  <2> QED BY <1>1, <1>2, <2>1
<1>5. k + 1 \in 1..n /\ n \in (k + 1)..n /\ 1 \in 1..(n - k)
  BY <1>1, <1>4
<1>6. Tail(SubSeq(h, k + 1, n)) = SubSeq(h, (k + 1) + 1, n)
  BY <1>5, HeadTailOfSubSeq DEF n
<1>7. r[1] = h[k + 1]
  BY <1>2, <1>5
<1> QED BY <1>2, <1>5, <1>6, <1>7 DEF r, n

\* A stream that carries the rest of a history starts with the frame that is next.
LEMMA FirstFrame ==
    ASSUME NEW w \in Seq(Unit), w # <<>>,
           NEW h \in Seq(Seq(Unit)), NEW k \in 0..Len(h),
           \A i \in 1..Len(h) : Len(h[i]) < Base * Base,
           Carries(w, SubSeq(h, k + 1, Len(h)))
    PROVE  LET p == h[k + 1] IN
           /\ k + 1 \in 1..Len(h) /\ HeaderLen + Len(p) <= Len(w)
           /\ from_be_bytes(w) = Len(p)
           /\ \A i \in 1..HeaderLen : w[i] = to_be_bytes(Len(p))[i]
           /\ \A i \in 1..Len(p) : w[HeaderLen + i] = p[i]
           /\ Carries(SubSeq(w, HeaderLen + Len(p) + 1, Len(w)),
                      SubSeq(h, (k + 1) + 1, Len(h)))
<1> DEFINE r == SubSeq(h, k + 1, Len(h))
           p == h[k + 1]
           f == encode_frame(p)
<1>1. r # <<>> /\ Carries(w, r)
  BY CarriesNothing
<1>2. /\ r \in Seq(Seq(Unit)) /\ k + 1 \in 1..Len(h) /\ r[1] = p
      /\ Tail(r) = SubSeq(h, (k + 1) + 1, Len(h))
  BY <1>1, RestNext
<1> HIDE DEF r
<1>5. p \in Seq(Unit) /\ Len(p) < Base * Base
  BY <1>2, ElementOfSeq
<1> HIDE DEF p
<1>6. /\ f \in Seq(Unit) /\ Len(f) = HeaderLen + Len(p)
      /\ \A i \in 1..Len(p) : f[HeaderLen + i] = p[i]
      /\ from_be_bytes(f) = Len(p)
      /\ \A i \in 1..HeaderLen : f[i] = to_be_bytes(Len(p))[i]
  BY <1>5, FrameUnits
<1>7. /\ Len(f) <= Len(w) /\ \A j \in 1..Len(f) : w[j] = f[j]
      /\ Carries(SubSeq(w, Len(f) + 1, Len(w)), Tail(r))
  BY <1>1, <1>2, CarriesHead
<1> HIDE DEF f
<1>8. Len(p) \in Nat
  BY <1>5
<1>9. /\ \A i \in 1..HeaderLen : i \in 1..Len(f)
      /\ \A i \in 1..Len(p) : HeaderLen + i \in 1..Len(f)
      /\ 1 \in 1..Len(f) /\ 2 \in 1..Len(f)
  BY <1>6, <1>8 DEF HeaderLen
<1>10. from_be_bytes(w) = from_be_bytes(f)
  BY <1>7, <1>9 DEF from_be_bytes
<1>11. /\ \A i \in 1..HeaderLen : w[i] = to_be_bytes(Len(p))[i]
       /\ \A i \in 1..Len(p) : w[HeaderLen + i] = p[i]
  BY <1>6, <1>7, <1>9
<1> QED BY <1>2, <1>6, <1>7, <1>10, <1>11 DEF p

----------------------------------------------------------------------------
(* Types *)

\* A read of the length or of the payload never holds more than it asked for,
\* and between two calls nothing is held.
CallOK ==
    /\ handle \in {"null", "open", "freed"} /\ up \in BOOLEAN
    /\ handle = "null" => call = "none" /\ ~ up
    /\ call \in {"none", "header", "payload", "streams", "stdout"}
    /\ got \in Seq(Unit) /\ need \in 0..MaxFrame /\ cap \in Caps \cup {None}
    /\ call = "header" => Len(got) < HeaderLen
    /\ call = "payload" => Len(got) <= need
    /\ call \notin {"header", "payload"} => got = <<>>

ControlOK ==
    /\ sent \in Seq(Seq(Unit)) /\ \A i \in 1..Len(sent) : Len(sent[i]) <= MaxPayload
    /\ wire \in Seq(Unit) /\ arrived \in 0..Len(wire)
    /\ taken \in Seq([code : Code, out_len : Nat, payload : Seq(Unit)])
    /\ torn \in BOOLEAN

SendOK == outbox \in Seq(Unit) /\ posted \in Seq(Seq(Unit)) /\ received \in Seq(Seq(Unit))

DataOK ==
    /\ stdin_send \in {"none", "open", "finished"}
    /\ data \in {"none", "offered", "open"}
    /\ chunks \in Seq(0..MaxStdout) /\ produced \in 0..(MaxStdout + 1)
    /\ shown \in Seq(0..MaxStdout)

TypeInv == CallOK /\ ControlOK /\ SendOK /\ DataOK

LEMMA TypeInvIsEnough == TypeInv => TypeOK
<1> SUFFICES ASSUME TypeInv PROVE TypeOK
  OBVIOUS
<1>1. got \in Seq(Unit) /\ need \in 0..MaxFrame
  BY DEF TypeInv, CallOK
<1>2. MaxFrame \in Nat
  BY FramingAssumption
<1>3. Len(<<>>) = 0
  OBVIOUS
<1>4. Len(got) <= HeaderLen + MaxFrame
  BY <1>1, <1>2, <1>3 DEF TypeInv, CallOK, HeaderLen
<1> QED BY <1>4 DEF TypeInv, CallOK, ControlOK, SendOK, DataOK, TypeOK

LEMMA InitTypeInv == Init => TypeInv
<1> SUFFICES ASSUME Init PROVE TypeInv
  OBVIOUS
<1>1. MaxFrame \in Nat /\ MaxStdout \in Nat
  BY FramingAssumption, FfiAssumption
<1>0. up \in BOOLEAN /\ ~ up /\ torn \in BOOLEAN
  BY Zenon DEF Init
<1>2. CallOK
  BY <1>0, <1>1 DEF Init, CallOK
<1>3. ControlOK
  BY <1>0 DEF Init, ControlOK
<1>4. SendOK /\ DataOK
  BY <1>1 DEF Init, SendOK, DataOK
<1> QED BY <1>2, <1>3, <1>4 DEF TypeInv

\* What a step leaves alone keeps its type.
LEMMA CallFrame == ASSUME CallOK, UNCHANGED <<handle, up, callVars>> PROVE CallOK'
  BY DEF CallOK, callVars

LEMMA ControlFrame == ASSUME ControlOK, UNCHANGED controlVars PROVE ControlOK'
  BY DEF ControlOK, controlVars

LEMMA SendFrame == ASSUME SendOK, UNCHANGED sendVars PROVE SendOK'
  BY DEF SendOK, sendVars

LEMMA DataFrame == ASSUME DataOK, UNCHANGED <<stdin_send, dataVars>> PROVE DataOK'
  BY DEF DataOK, dataVars

\* A call that returns.
LEMMA DoneOK == ASSUME CallOK, Done, UNCHANGED <<handle, up>> PROVE CallOK'
<1>1. MaxFrame \in Nat
  BY FramingAssumption
<1> QED BY <1>1 DEF CallOK, Done

\* A unit of the stream, and what is left of it.
LEMMA TakeUnit ==
    ASSUME ControlOK, arrived > 0
    PROVE  /\ wire # <<>> /\ Head(wire) \in Unit /\ Tail(wire) \in Seq(Unit)
           /\ Len(Tail(wire)) = Len(wire) - 1 /\ arrived - 1 \in 0..Len(Tail(wire))
<1>1. wire \in Seq(Unit) /\ arrived \in 0..Len(wire)
  BY DEF ControlOK
<1>2. wire # <<>>
  BY <1>1
<1>3. /\ Head(wire) \in Unit /\ Tail(wire) \in Seq(Unit)
      /\ Len(Tail(wire)) = Len(wire) - 1
  BY <1>1, <1>2, HeadTailProperties
<1> QED BY <1>1, <1>2, <1>3

LEMMA LengthIsNat ==
    ASSUME NEW h \in Seq(Unit), Len(h) >= HeaderLen
    PROVE  from_be_bytes(h) \in Nat
<1>1. h[1] \in Nat /\ h[2] \in Nat
  <2>1. 1 \in 1..Len(h) /\ 2 \in 1..Len(h)
    BY DEF HeaderLen
  <2>2. h[1] \in Unit /\ h[2] \in Unit
    BY <2>1, ElementOfSeq
  <2> QED BY <2>2 DEF Unit
<1>2. Base \in Nat
  BY FramingAssumption
<1>3. h[1] * Base \in Nat
  BY <1>1, <1>2
<1> QED BY <1>1, <1>3 DEF from_be_bytes

\* The calls that touch neither the frames nor the chunks, and the connection.
LEMMA PlainTypeInv ==
    ASSUME TypeInv,
           \/ Connect \/ Free \/ (\E c \in Caps : RecvControl(c)) \/ OpenStreams
           \/ FinishStdin \/ RecvStdout \/ ReadFails \/ StreamsOpened \/ StdoutTimeout
           \/ OfferStdout \/ ConnLost
    PROVE  TypeInv'
<1> USE DEF TypeInv
<1>1. CASE Connect \/ Free \/ ConnLost
  <2>1. CallOK'
    BY <1>1 DEF Connect, Free, ConnLost, Idle, CallOK, callVars
  <2> QED BY <1>1, <2>1, ControlFrame, SendFrame, DataFrame DEF Connect, Free, ConnLost
<1>2. CASE (\E c \in Caps : RecvControl(c)) \/ OpenStreams \/ RecvStdout
  <2>1. Len(<<>>) < HeaderLen
    BY DEF HeaderLen
  <2>2. CallOK'
    BY <1>2, <2>1 DEF RecvControl, OpenStreams, RecvStdout, Idle, CallOK
  <2> QED BY <1>2, <2>2, ControlFrame, SendFrame, DataFrame
             DEF RecvControl, OpenStreams, RecvStdout
<1>3. CASE ReadFails \/ StdoutTimeout
  BY <1>3, DoneOK, ControlFrame, SendFrame, DataFrame DEF ReadFails, StdoutTimeout
<1>4. CASE StreamsOpened
  <2>1. DataOK'
    BY <1>4 DEF StreamsOpened, DataOK
  <2> QED BY <1>4, <2>1, DoneOK, ControlFrame, SendFrame DEF StreamsOpened
<1>5. CASE FinishStdin \/ OfferStdout
  <2>1. DataOK'
    BY <1>5 DEF FinishStdin, OfferStdout, DataOK, dataVars
  <2> QED BY <1>5, <2>1, CallFrame, ControlFrame, SendFrame DEF FinishStdin, OfferStdout
<1> QED BY <1>1, <1>2, <1>3, <1>4, <1>5

\* recv_control_json.
LEMMA RecvTypeInv ==
    ASSUME TypeInv, ReadHeader \/ HeaderTimeout \/ ReadPayload \/ PayloadDone
    PROVE  TypeInv'
<1> USE DEF TypeInv
<1>1. CASE ReadHeader
  <2> DEFINE h == Append(got, Head(wire))
  <2>1. /\ call = "header" /\ arrived > 0 /\ wire' = Tail(wire) /\ arrived' = arrived - 1
        /\ UNCHANGED <<handle, up, sent, taken, torn, sendVars, stdin_send, dataVars>>
    BY <1>1 DEF ReadHeader
  <2>2. ControlOK'
    BY <2>1, TakeUnit DEF ControlOK
  <2>3. h \in Seq(Unit) /\ Len(h) \in Nat
    BY <2>1, TakeUnit, AppendProperties DEF CallOK
  <2> HIDE DEF h
  <2>4. CallOK'
    <3>1. CASE Len(h) < HeaderLen
      <4>1. got' = h /\ UNCHANGED <<call, need, cap>>
        BY <1>1, <3>1 DEF ReadHeader, h
      <4> QED BY <2>1, <2>3, <3>1, <4>1 DEF CallOK
    <3>2. CASE Len(h) >= HeaderLen /\ too_large(from_be_bytes(h))
      <4>1. Done
        BY <1>1, <2>3, <3>2 DEF ReadHeader, h, HeaderLen
      <4> QED BY <2>1, <4>1, DoneOK
    <3>3. CASE Len(h) >= HeaderLen /\ ~ too_large(from_be_bytes(h))
      <4>1. call' = "payload" /\ got' = <<>> /\ need' = from_be_bytes(h) /\ cap' = cap
        BY <1>1, <2>3, <3>3 DEF ReadHeader, h, HeaderLen
      <4>2. need' \in 0..MaxFrame
        BY <2>3, <3>3, <4>1, LengthIsNat, FramingAssumption DEF too_large
      <4>3. got' \in Seq(Unit) /\ Len(got') = 0
        BY <4>1
      <4> QED BY <2>1, <4>1, <4>2, <4>3 DEF CallOK
    <3> QED BY <2>3, <3>1, <3>2, <3>3 DEF HeaderLen
  <2> QED BY <2>1, <2>2, <2>4, SendFrame, DataFrame
<1>2. CASE HeaderTimeout
  <2>1. torn' \in BOOLEAN
    BY <1>2, Zenon DEF HeaderTimeout
  <2>2. ControlOK'
    BY <1>2, <2>1 DEF HeaderTimeout, ControlOK
  <2> QED BY <1>2, <2>2, DoneOK, SendFrame, DataFrame DEF HeaderTimeout
<1>3. CASE ReadPayload
  <2>1. /\ call = "payload" /\ arrived > 0 /\ wire' = Tail(wire) /\ arrived' = arrived - 1
        /\ Len(got) < need /\ got' = Append(got, Head(wire))
        /\ UNCHANGED <<handle, up, call, need, cap, sent, taken, torn, sendVars, stdin_send,
                       dataVars>>
    BY <1>3 DEF ReadPayload
  <2>2. ControlOK'
    BY <2>1, TakeUnit DEF ControlOK
  <2>3. got \in Seq(Unit) /\ need \in Nat
    BY FramingAssumption DEF CallOK
  <2>4. got' \in Seq(Unit) /\ Len(got') = Len(got) + 1
    BY <2>1, <2>3, TakeUnit, AppendProperties
  <2>5. Len(got') <= need
    BY <2>1, <2>3, <2>4
  <2>6. CallOK'
    BY <2>1, <2>4, <2>5 DEF CallOK
  <2> QED BY <2>1, <2>2, <2>6, SendFrame, DataFrame
<1>4. CASE PayloadDone
  <2> DEFINE R == [code : Code, out_len : Nat, payload : Seq(Unit)]
             x == [code |-> result_code(got), out_len |-> need, payload |-> got]
  <2>1. x \in R
    <3>1. result_code(got) \in Code
      BY DEF result_code, Code
    <3>2. need \in Nat /\ got \in Seq(Unit)
      BY FramingAssumption DEF CallOK
    <3> QED BY <3>1, <3>2
  <2>2. taken' = Append(taken, x) /\ UNCHANGED <<sent, wire, arrived, torn>>
    BY <1>4 DEF PayloadDone
  <2>3. taken \in Seq(R)
    BY DEF ControlOK
  <2> HIDE DEF R, x
  <2>4. taken' \in Seq(R)
    BY <2>1, <2>2, <2>3, AppendProperties
  <2>5. ControlOK'
    BY <2>2, <2>4 DEF ControlOK, R
  <2> QED BY <1>4, <2>5, DoneOK, SendFrame, DataFrame DEF PayloadDone
<1> QED BY <1>1, <1>2, <1>3, <1>4

\* A payload of equal units.
LEMMA PayloadIsSeq ==
    ASSUME NEW n \in Nat, NEW k \in Unit
    PROVE  [i \in 1..n |-> k] \in Seq(Unit) /\ Len([i \in 1..n |-> k]) = n
  OBVIOUS

LEMMA PostsAreSeqs ==
    ASSUME NEW payload \in Posts
    PROVE  payload \in Seq(Unit) /\ Len(payload) <= MaxFrame + 1
<1>1. MaxFrame + 1 \in Nat /\ 1 \in Nat /\ 1 \in Unit /\ 1 <= MaxFrame + 1
  BY FramingAssumption DEF Unit
<1>2. PICK n \in {1, MaxFrame + 1} : payload = [i \in 1..n |-> 1]
  BY DEF Posts
<1> QED BY <1>1, <1>2, PayloadIsSeq

LEMMA ServerPayload ==
    ASSUME ControlOK, NEW n \in 0..MaxPayload, ServerSends(n)
    PROVE  LET p == [i \in 1..n |-> Len(sent) + 1] IN
           p \in Seq(Unit) /\ Len(p) = n /\ n <= MaxPayload /\ n \in Nat
<1>1. Len(sent) \in Nat /\ Len(sent) < MaxFrames
  BY DEF ControlOK, ServerSends
<1>2. MaxFrames \in 0..(Base - 1) /\ Base \in Nat /\ MaxPayload \in Nat
  BY FfiAssumption, FramingAssumption
<1>3. Len(sent) + 1 \in Unit /\ n \in Nat /\ n <= MaxPayload
  BY <1>1, <1>2 DEF Unit
<1> QED BY <1>3, PayloadIsSeq

\* What neoshd makes of the first frame of what it has got.
LEMMA DecodedFrame ==
    ASSUME NEW w \in Seq(Unit), NEW n \in Nat, Len(w) >= HeaderLen + n
    PROVE  LET d == decode_frame(SubSeq(w, 1, HeaderLen + n)) IN
           /\ d \in Seq(Unit) /\ Len(d) = n /\ \A i \in 1..n : d[i] = w[HeaderLen + i]
           /\ SubSeq(w, HeaderLen + n + 1, Len(w)) \in Seq(Unit)
<1> DEFINE f == SubSeq(w, 1, HeaderLen + n)
           c == HeaderLen + n
<1>1. c \in Nat /\ Len(w) \in Nat /\ c <= Len(w) /\ 0 \in Nat /\ HeaderLen \in Nat
      /\ HeaderLen <= c /\ c - HeaderLen = n
  BY DEF HeaderLen
<1> HIDE DEF c
<1>2. SubSeq(w, c + 1, Len(w)) \in Seq(Unit)
  BY <1>1, SliceProperties
<1>3. /\ SubSeq(w, 0 + 1, c) \in Seq(Unit) /\ Len(SubSeq(w, 0 + 1, c)) = c - 0
      /\ \A i \in 1..(c - 0) : SubSeq(w, 0 + 1, c)[i] = w[0 + i]
  BY <1>1, SliceProperties
<1>4. f \in Seq(Unit) /\ Len(f) = c /\ \A i \in 1..c : f[i] = w[i]
  BY <1>1, <1>3 DEF c
<1> HIDE DEF f
<1>5. /\ SubSeq(f, HeaderLen + 1, c) \in Seq(Unit) /\ Len(SubSeq(f, HeaderLen + 1, c)) = n
      /\ \A i \in 1..n : SubSeq(f, HeaderLen + 1, c)[i] = f[HeaderLen + i]
  <2>1. c <= Len(f)
    BY <1>1, <1>4
  <2>2. f \in Seq(Unit) /\ HeaderLen \in Nat /\ c \in Nat /\ HeaderLen <= c
    BY <1>1, <1>4
  <2>3. /\ SubSeq(f, HeaderLen + 1, c) \in Seq(Unit)
        /\ Len(SubSeq(f, HeaderLen + 1, c)) = c - HeaderLen
        /\ \A i \in 1..(c - HeaderLen) : SubSeq(f, HeaderLen + 1, c)[i] = f[HeaderLen + i]
    BY <2>1, <2>2, SliceProperties, Zenon
  <2>4. c - HeaderLen = n
    BY <1>1
  <2> QED BY <2>3, <2>4, Zenon
<1>6. decode_frame(f) = SubSeq(f, HeaderLen + 1, c)
  BY <1>4 DEF decode_frame
<1>7. \A i \in 1..n : f[HeaderLen + i] = w[HeaderLen + i]
  BY <1>1, <1>4 DEF c, HeaderLen
<1> QED BY <1>2, <1>5, <1>6, <1>7 DEF f, c

\* The frames both sides write and read.
LEMMA FrameTypeInv ==
    ASSUME TypeInv,
           \/ \E payload \in Posts : SendControl(payload)
           \/ \E n \in 0..MaxPayload : ServerSends(n)
           \/ Arrive \/ ServerReads
    PROVE  TypeInv'
<1> USE DEF TypeInv
<1>1. ASSUME NEW payload \in Posts, SendControl(payload) PROVE TypeInv'
  <2>1. payload \in Seq(Unit)
    BY PostsAreSeqs
  <2>2. encode_frame(payload) \in Seq(Unit)
    BY <2>1, FrameUnits
  <2>3. /\ outbox' = outbox \o encode_frame(payload) /\ posted' = Append(posted, payload)
        /\ UNCHANGED <<handle, up, callVars, controlVars, received, stdin_send, dataVars>>
    BY <1>1 DEF SendControl
  <2>4. SendOK'
    BY <2>1, <2>2, <2>3, AppendProperties, ConcatProperties DEF SendOK
  <2> QED BY <2>3, <2>4, CallFrame, ControlFrame, DataFrame
<1>2. ASSUME NEW n \in 0..MaxPayload, ServerSends(n) PROVE TypeInv'
  <2> DEFINE p == [i \in 1..n |-> Len(sent) + 1]
  <2>1. /\ sent' = Append(sent, p) /\ wire' = wire \o encode_frame(p)
        /\ UNCHANGED <<handle, up, callVars, arrived, taken, torn, sendVars, stdin_send,
                       dataVars>>
    BY <1>2 DEF ServerSends
  <2>2. p \in Seq(Unit) /\ Len(p) = n /\ n <= MaxPayload /\ n \in Nat
    BY <1>2, ServerPayload
  <2> HIDE DEF p
  <2>3. encode_frame(p) \in Seq(Unit) /\ Len(encode_frame(p)) \in Nat
    BY <2>2, FrameUnits
  <2>4. sent \in Seq(Seq(Unit)) /\ wire \in Seq(Unit) /\ arrived \in 0..Len(wire)
    BY DEF ControlOK
  <2>5. sent' \in Seq(Seq(Unit)) /\ \A i \in 1..Len(sent') : Len(sent'[i]) <= MaxPayload
    <3>1. /\ sent' \in Seq(Seq(Unit)) /\ Len(sent') = Len(sent) + 1
          /\ sent'[Len(sent) + 1] = p /\ \A i \in 1..Len(sent) : sent'[i] = sent[i]
      BY <2>1, <2>2, <2>4, AppendProperties
    <3>2. \A i \in 1..Len(sent) : Len(sent[i]) <= MaxPayload
      BY DEF ControlOK
    <3>3. \A i \in 1..Len(sent') : i = Len(sent) + 1 \/ i \in 1..Len(sent)
      BY <2>4, <3>1
    <3> QED BY <2>2, <3>1, <3>2, <3>3
  <2>6. wire' \in Seq(Unit) /\ Len(wire') = Len(wire) + Len(encode_frame(p))
    BY <2>1, <2>3, <2>4, ConcatProperties
  <2>7. arrived' \in 0..Len(wire')
    BY <2>1, <2>3, <2>4, <2>6
  <2>8. ControlOK'
    BY <2>1, <2>5, <2>6, <2>7 DEF ControlOK
  <2> QED BY <2>1, <2>8, CallFrame, SendFrame, DataFrame
<1>3. CASE Arrive
  <2>1. ControlOK'
    BY <1>3 DEF Arrive, ControlOK
  <2> QED BY <1>3, <2>1, CallFrame, SendFrame, DataFrame DEF Arrive
<1>4. CASE ServerReads
  <2>1. CallOK'
    BY <1>4 DEF ServerReads, CallOK, callVars
  <2>2. SendOK'
    <3> DEFINE n == from_be_bytes(outbox)
               frame == SubSeq(outbox, 1, HeaderLen + n)
    <3>1. CASE UNCHANGED sendVars
      BY <3>1, SendFrame
    <3>2. CASE /\ Len(outbox) >= HeaderLen /\ Len(outbox) >= HeaderLen + n
               /\ received' = Append(received, decode_frame(frame))
               /\ outbox' = SubSeq(outbox, HeaderLen + n + 1, Len(outbox))
               /\ posted' = posted
      <4>1. decode_frame(frame) \in Seq(Unit) /\ outbox' \in Seq(Unit)
        <5>1. outbox \in Seq(Unit) /\ n \in Nat
          BY <3>2, LengthIsNat DEF SendOK
        <5> HIDE DEF n
        <5> QED BY <3>2, <5>1, DecodedFrame
      <4> QED BY <3>2, <4>1, AppendProperties DEF SendOK
    <3> QED BY <1>4, <3>1, <3>2 DEF ServerReads, sendVars
  <2> QED BY <1>4, <2>1, <2>2, ControlFrame, DataFrame DEF ServerReads
<1> QED BY <1>1, <1>2, <1>3, <1>4

\* The STDOUT chunks.
LEMMA StdoutTypeInv == ASSUME TypeInv, StdoutRead \/ StdoutArrives PROVE TypeInv'
<1> USE DEF TypeInv
<1>0. MaxStdout \in Nat
  BY FfiAssumption
<1> DEFINE S == 0..MaxStdout
<1>1. chunks \in Seq(S) /\ shown \in Seq(S) /\ produced \in 0..(MaxStdout + 1) /\ 0 \in S
  BY <1>0 DEF DataOK
<1>2. CASE StdoutRead
  <2>1. chunks # <<>> /\ \/ shown' \in {shown, Append(shown, 0)} /\ chunks' = chunks
                         \/ shown' = Append(shown, Head(chunks)) /\ chunks' = Tail(chunks)
    BY <1>2 DEF StdoutRead
  <2> HIDE DEF S
  <2>2. chunks' \in Seq(S) /\ shown' \in Seq(S)
    <3>1. Head(chunks) \in S /\ Tail(chunks) \in Seq(S)
      BY <1>1, <2>1, HeadTailProperties
    <3>2. Append(shown, 0) \in Seq(S) /\ Append(shown, Head(chunks)) \in Seq(S)
      BY <1>1, <3>1, AppendProperties
    <3> QED BY <1>1, <2>1, <3>1, <3>2
  <2>3. DataOK'
    BY <1>2, <2>2 DEF StdoutRead, DataOK, S
  <2> QED BY <1>2, <2>3, DoneOK, ControlFrame, SendFrame DEF StdoutRead
<1>3. CASE StdoutArrives
  <2> DEFINE v == IF produced = MaxStdout THEN 0 ELSE produced + 1
  <2>1. v \in S /\ produced + 1 \in 0..(MaxStdout + 1)
    BY <1>0, <1>1, <1>3 DEF StdoutArrives
  <2>2. chunks' = Append(chunks, v) /\ produced' = produced + 1
    BY <1>3 DEF StdoutArrives
  <2> HIDE DEF S, v
  <2>3. chunks' \in Seq(S)
    BY <1>1, <2>1, <2>2, AppendProperties
  <2>4. DataOK'
    BY <1>3, <2>1, <2>2, <2>3 DEF StdoutArrives, DataOK, S
  <2> QED BY <1>3, <2>4, CallFrame, ControlFrame, SendFrame DEF StdoutArrives
<1> QED BY <1>2, <1>3

LEMMA NextTypeInv == TypeInv /\ [Next]_vars => TypeInv'
<1> SUFFICES ASSUME TypeInv, [Next]_vars PROVE TypeInv'
  OBVIOUS
<1>1. CASE UNCHANGED vars
  BY <1>1, CallFrame, ControlFrame, SendFrame, DataFrame DEF TypeInv, vars
<1> QED BY <1>1, PlainTypeInv, RecvTypeInv, FrameTypeInv, StdoutTypeInv DEF Next, Call

\* The inductive form of the types: what each call and each task of the library
\* holds while it waits is of its type, and consistent with where it waits.
THEOREM TypeInvHolds == Spec => []TypeInv
  BY InitTypeInv, NextTypeInv, PTL DEF Spec

\* A read holds no more units than it asked for, the length it waits for is one
\* the limit allows, and every history is a history of payloads: in every call
\* sequence of the library, whatever the sizes.
THEOREM FfiTypeCorrect == Spec => []TypeOK
  BY TypeInvHolds, TypeInvIsEnough, PTL

----------------------------------------------------------------------------
(* STDOUT *)

\* The i-th thing neoshd writes to the stream; the end of it stays there.
Chunk(i) == IF i <= MaxStdout THEN i ELSE 0

Passed == IF Len(shown) = MaxStdout + 1 THEN MaxStdout ELSE Len(shown)

\* What the caller got and what has arrived are, together and in order, what
\* neoshd has written.
StdoutInv ==
    /\ Len(shown) <= MaxStdout + 1 /\ StdoutIsLossless
    /\ Passed + Len(chunks) = produced
    /\ \A j \in 1..Len(chunks) : chunks[j] = Chunk(Passed + j)

LEMMA StdoutFrame == ASSUME StdoutInv, UNCHANGED dataVars PROVE StdoutInv'
  BY DEF StdoutInv, StdoutIsLossless, Passed, Chunk, dataVars

LEMMA StdoutReadInv == ASSUME TypeInv, StdoutInv, StdoutRead PROVE StdoutInv'
<1> DEFINE S == 0..MaxStdout
           m == Len(shown)
           c == Len(chunks)
<1>1. chunks \in Seq(S) /\ shown \in Seq(S) /\ produced \in 0..(MaxStdout + 1) /\ 0 \in S
  BY FfiAssumption DEF TypeInv, DataOK
<1>2. MaxStdout \in Nat
  BY FfiAssumption
<1> HIDE DEF S
<1>3. chunks # <<>> /\ produced' = produced
  BY DEF StdoutRead
<1>4. m \in Nat /\ c \in Nat \ {0}
  BY <1>1, <1>3, EmptySeq
<1>5. /\ m <= MaxStdout + 1 /\ \A i \in 1..m : shown[i] = Chunk(i)
      /\ Passed + c = produced /\ \A j \in 1..c : chunks[j] = Chunk(Passed + j)
  BY DEF StdoutInv, StdoutIsLossless, Chunk
<1>6. Head(chunks) = Chunk(Passed + 1) /\ Head(chunks) \in S
  <2>1. Head(chunks) = chunks[1] /\ 1 \in 1..c
    BY <1>1, <1>3, <1>4
  <2> QED BY <1>1, <1>3, <1>5, <2>1, HeadTailProperties
<1>7. CASE Head(chunks) # 0
  <2>1. shown' = Append(shown, Head(chunks)) /\ chunks' = Tail(chunks)
    BY <1>7 DEF StdoutRead
  <2>2. m < MaxStdout /\ Passed = m /\ Head(chunks) = m + 1
    BY <1>2, <1>4, <1>5, <1>6, <1>7 DEF Chunk, Passed
  <2>3. Len(shown') = m + 1 /\ shown'[m + 1] = m + 1 /\ \A i \in 1..m : shown'[i] = shown[i]
    BY <1>1, <1>6, <2>1, <2>2, AppendProperties
  <2>4. Len(chunks') = c - 1 /\ \A j \in 1..(c - 1) : chunks'[j] = chunks[j + 1]
    BY <1>1, <1>3, <2>1, HeadTailProperties
  <2>5. Passed' = m + 1
    BY <1>2, <1>4, <2>2, <2>3 DEF Passed
  <2> HIDE DEF m, c
  <2>6. \A i \in 1..(m + 1) : shown'[i] = Chunk(i)
    <3>1. \A i \in 1..(m + 1) : i = m + 1 \/ i \in 1..m
      BY <1>4
    <3>2. Chunk(m + 1) = m + 1
      BY <1>2, <1>4, <2>2 DEF Chunk
    <3> QED BY <1>5, <2>3, <3>1, <3>2
  <2>7. \A j \in 1..(c - 1) : chunks'[j] = Chunk(Passed' + j)
    <3> TAKE j \in 1..(c - 1)
    <3>1. j + 1 \in 1..c /\ Passed + (j + 1) = Passed' + j
      BY <1>4, <2>2, <2>5
    <3> QED BY <1>5, <2>4, <3>1
  <2>8. Passed' + (c - 1) = produced'
    BY <1>1, <1>3, <1>4, <1>5, <2>2, <2>5
  <2>9. StdoutIsLossless'
    BY <2>3, <2>6 DEF StdoutIsLossless, Chunk
  <2>10. Len(shown') <= MaxStdout + 1
    BY <1>2, <1>4, <2>2, <2>3
  <2> QED BY <2>3, <2>4, <2>7, <2>8, <2>9, <2>10 DEF StdoutInv, Chunk
<1>8. CASE Head(chunks) = 0
  <2>1. Passed = MaxStdout /\ (m = MaxStdout \/ m = MaxStdout + 1)
    BY <1>2, <1>4, <1>5, <1>6, <1>8 DEF Chunk, Passed
  <2>2. chunks' = chunks
    BY <1>8 DEF StdoutRead
  <2>3. CASE m = MaxStdout + 1
    <3>1. shown[m] = 0 /\ m \in 1..m
      BY <1>2, <1>4, <1>5, <2>3 DEF Chunk
    <3>2. DOMAIN shown = 1..m
      BY <1>1
    <3>3. shown' = shown
      BY <1>8, <3>1, <3>2 DEF StdoutRead
    <3> QED BY <1>3, <2>2, <3>3 DEF StdoutInv, StdoutIsLossless, Passed, Chunk
  <2>4. CASE m = MaxStdout
    <3>1. \A i \in 1..m : shown[i] # 0
      BY <1>2, <1>5, <2>4 DEF Chunk
    <3>2. DOMAIN shown = 1..m
      BY <1>1
    <3>3. shown' = Append(shown, 0)
      BY <1>8, <3>1, <3>2 DEF StdoutRead
    <3>4. Len(shown') = m + 1 /\ shown'[m + 1] = 0 /\ \A i \in 1..m : shown'[i] = shown[i]
      BY <1>1, <3>3, AppendProperties
    <3>5. Passed' = MaxStdout
      BY <2>4, <3>4 DEF Passed
    <3> HIDE DEF m
    <3>6. \A i \in 1..(m + 1) : shown'[i] = Chunk(i)
      <4>1. \A i \in 1..(m + 1) : i = m + 1 \/ i \in 1..m
        BY <1>4
      <4>2. Chunk(m + 1) = 0
        BY <1>2, <2>4 DEF Chunk
      <4> QED BY <1>5, <3>4, <4>1, <4>2
    <3>7. StdoutIsLossless'
      BY <3>4, <3>6 DEF StdoutIsLossless, Chunk
    <3>8. \A j \in 1..c : chunks'[j] = Chunk(Passed' + j)
      BY <1>5, <2>1, <2>2, <3>5
    <3> QED BY <1>3, <1>5, <2>1, <2>2, <2>4, <3>4, <3>5, <3>7, <3>8 DEF StdoutInv, Chunk
  <2> QED BY <2>1, <2>3, <2>4
<1> QED BY <1>7, <1>8

LEMMA StdoutArrivesInv == ASSUME TypeInv, StdoutInv, StdoutArrives PROVE StdoutInv'
<1> DEFINE S == 0..MaxStdout
           c == Len(chunks)
           v == IF produced = MaxStdout THEN 0 ELSE produced + 1
<1>1. chunks \in Seq(S) /\ Len(shown) \in Nat /\ produced \in 0..(MaxStdout + 1)
  BY DEF TypeInv, DataOK
<1>2. MaxStdout \in Nat
  BY FfiAssumption
<1>3. /\ produced <= MaxStdout /\ produced' = produced + 1 /\ shown' = shown
      /\ chunks' = Append(chunks, v)
  BY DEF StdoutArrives
<1>4. v \in S /\ v = Chunk(produced + 1)
  BY <1>1, <1>2, <1>3 DEF Chunk
<1> HIDE DEF S, v
<1>5. c \in Nat
  BY <1>1
<1>6. Len(chunks') = c + 1 /\ chunks'[c + 1] = v /\ \A j \in 1..c : chunks'[j] = chunks[j]
  BY <1>1, <1>3, <1>4, AppendProperties
<1>7. Passed' = Passed /\ Passed \in Nat
  BY <1>1, <1>2, <1>3 DEF Passed
<1>8. Passed + c = produced /\ \A j \in 1..c : chunks[j] = Chunk(Passed + j)
  BY DEF StdoutInv
<1> HIDE DEF c
<1>9. \A j \in 1..(c + 1) : chunks'[j] = Chunk(Passed' + j)
  <2> TAKE j \in 1..(c + 1)
  <2>1. CASE j \in 1..c
    BY <1>6, <1>7, <1>8, <2>1
  <2>2. CASE j = c + 1
    <3>1. Passed' + j = produced + 1
      BY <1>5, <1>7, <1>8, <2>2
    <3> QED BY <1>4, <1>6, <2>2, <3>1
  <2> QED BY <1>5, <2>1, <2>2
<1>10. Passed' + (c + 1) = produced'
  BY <1>3, <1>5, <1>7, <1>8
<1>11. StdoutIsLossless' /\ Len(shown') <= MaxStdout + 1
  BY <1>3 DEF StdoutInv, StdoutIsLossless
<1> QED BY <1>6, <1>9, <1>10, <1>11 DEF StdoutInv, Chunk

LEMMA StdoutInvHolds == Spec => []StdoutInv
<1>1. Init => StdoutInv
  <2> SUFFICES ASSUME Init PROVE StdoutInv
    OBVIOUS
  <2>1. MaxStdout \in Nat /\ Len(<<>>) = 0 /\ 1..0 = {}
    BY FfiAssumption
  <2> QED BY <2>1 DEF Init, StdoutInv, StdoutIsLossless, Passed
<1>2. TypeInv /\ StdoutInv /\ [Next]_vars => StdoutInv'
  <2> SUFFICES ASSUME TypeInv, StdoutInv, [Next]_vars PROVE StdoutInv'
    OBVIOUS
  <2>1. CASE UNCHANGED dataVars
    BY <2>1, StdoutFrame
  <2>2. CASE data' \in {"offered", "open"} /\ UNCHANGED <<chunks, produced, shown>>
    BY <2>2 DEF StdoutInv, StdoutIsLossless, Passed, Chunk
  <2>3. UNCHANGED dataVars \/ StreamsOpened \/ OfferStdout \/ StdoutRead \/ StdoutArrives
    BY DEF vars, Next, Call, Connect, Free, SendControl, RecvControl, OpenStreams,
           FinishStdin, RecvStdout, ReadHeader, HeaderTimeout, ReadPayload, PayloadDone,
           ReadFails, StdoutTimeout, ServerSends, Arrive, ServerReads, ConnLost
  <2> QED BY <2>1, <2>2, <2>3, StdoutReadInv, StdoutArrivesInv
             DEF StreamsOpened, OfferStdout
<1> QED BY <1>1, <1>2, TypeInvHolds, PTL DEF Spec

\* Polling with a timeout loses no chunk of STDOUT, repeats none and reports the
\* end only after the last one, however many chunks and polls there are.
THEOREM StdoutIsAlwaysLossless == Spec => []StdoutIsLossless
<1>1. StdoutInv => StdoutIsLossless
  BY DEF StdoutInv
<1> QED BY <1>1, StdoutInvHolds, PTL

----------------------------------------------------------------------------
(* What the library sends *)

\* What neoshd has read is a beginning of what was posted, and the rest is still on
\* the stream, frame for frame.
PostInv ==
    /\ Len(received) <= Len(posted) /\ \A i \in 1..Len(received) : received[i] = posted[i]
    /\ \A i \in 1..Len(posted) : Len(posted[i]) <= MaxFrame + 1
    /\ Carries(outbox, SubSeq(posted, Len(received) + 1, Len(posted)))

LEMMA PostFrame == ASSUME PostInv, UNCHANGED sendVars PROVE PostInv'
  BY DEF PostInv, sendVars

LEMMA SendControlInv ==
    ASSUME TypeInv, PostInv, NEW payload \in Posts, SendControl(payload)
    PROVE  PostInv'
<1> DEFINE r == SubSeq(posted, Len(received) + 1, Len(posted))
<1>1. payload \in Seq(Unit) /\ Len(payload) <= MaxFrame + 1
  BY PostsAreSeqs
<1>2. /\ outbox' = outbox \o encode_frame(payload) /\ posted' = Append(posted, payload)
      /\ received' = received
  BY DEF SendControl
<1>3. /\ posted \in Seq(Seq(Unit)) /\ outbox \in Seq(Unit) /\ Len(received) \in Nat
      /\ Len(posted) \in Nat
  BY DEF TypeInv, SendOK
<1>4. Len(received) \in 0..Len(posted) /\ Carries(outbox, r)
  BY <1>3 DEF PostInv
<1>5. r \in Seq(Seq(Unit)) /\ SubSeq(posted', Len(received) + 1, Len(posted')) = Append(r, payload)
  <2>1. payload \in Seq(Unit) /\ posted \in Seq(Seq(Unit)) /\ Len(received) \in 0..Len(posted)
    BY <1>1, <1>3, <1>4
  <2>2. /\ SubSeq(posted, Len(received) + 1, Len(posted)) \in Seq(Seq(Unit))
        /\ SubSeq(Append(posted, payload), Len(received) + 1, Len(Append(posted, payload)))
             = Append(SubSeq(posted, Len(received) + 1, Len(posted)), payload)
    BY <2>1, RestAppend, Zenon
  <2>3. posted' = Append(posted, payload)
    BY <1>2
  <2> QED BY <2>2, <2>3, Zenon
<1> HIDE DEF r
<1>6. Carries(outbox', SubSeq(posted', Len(received') + 1, Len(posted')))
  BY <1>1, <1>2, <1>3, <1>4, <1>5, CarriesAppend
<1>7. /\ Len(posted') = Len(posted) + 1 /\ posted'[Len(posted) + 1] = payload
      /\ \A i \in 1..Len(posted) : posted'[i] = posted[i]
  BY <1>1, <1>2, <1>3, AppendProperties
<1>8. \A i \in 1..Len(posted') : Len(posted'[i]) <= MaxFrame + 1
  <2>1. \A i \in 1..Len(posted') : i = Len(posted) + 1 \/ i \in 1..Len(posted)
    BY <1>3, <1>7
  <2>2. \A i \in 1..Len(posted) : Len(posted[i]) <= MaxFrame + 1
    BY DEF PostInv
  <2> QED BY <1>1, <1>7, <2>1, <2>2
<1>9. Len(received') <= Len(posted') /\ \A i \in 1..Len(received') : received'[i] = posted'[i]
  <2>1. \A i \in 1..Len(received) : i \in 1..Len(posted)
    BY <1>3, <1>4
  <2>2. \A i \in 1..Len(received) : received[i] = posted[i]
    BY DEF PostInv
  <2>3. Len(received) <= Len(posted) + 1
    BY <1>3, <1>4
  <2> QED BY <1>2, <1>7, <2>1, <2>2, <2>3
<1> QED BY <1>6, <1>8, <1>9 DEF PostInv

LEMMA ServerReadsInv == ASSUME TypeInv, PostInv, ServerReads PROVE PostInv'
<1> DEFINE k == Len(received)
           p == posted[k + 1]
           d == decode_frame(SubSeq(outbox, 1, HeaderLen + from_be_bytes(outbox)))
<1>1. /\ posted \in Seq(Seq(Unit)) /\ outbox \in Seq(Unit) /\ received \in Seq(Seq(Unit))
      /\ k \in Nat /\ Len(posted) \in Nat
  BY DEF TypeInv, SendOK
<1>2. CASE UNCHANGED sendVars
  BY <1>2, PostFrame
<1>3. CASE /\ Len(outbox) >= HeaderLen /\ Len(outbox) >= HeaderLen + from_be_bytes(outbox)
           /\ received' = Append(received, d)
           /\ outbox' = SubSeq(outbox, HeaderLen + from_be_bytes(outbox) + 1, Len(outbox))
           /\ posted' = posted
  <2>1. \A i \in 1..Len(posted) : Len(posted[i]) < Base * Base
    <3>1. MaxFrame \in Int /\ Base * Base \in Nat /\ MaxFrame + 1 < Base * Base
      BY FramingAssumption, Width
    <3>2. \A i \in 1..Len(posted) : Len(posted[i]) <= MaxFrame + 1 /\ Len(posted[i]) \in Nat
      BY <1>1 DEF PostInv
    <3> DEFINE B == Base * Base
    <3> HIDE DEF B
    <3>3. MaxFrame \in Int /\ B \in Nat /\ MaxFrame + 1 < B
      BY <3>1 DEF B
    <3> QED BY <3>2, <3>3 DEF B
  <2>2. outbox # <<>>
    BY <1>1, <1>3 DEF HeaderLen
  <2>3. k \in 0..Len(posted) /\ Carries(outbox, SubSeq(posted, k + 1, Len(posted)))
    BY <1>1 DEF PostInv
  <2>4. /\ k + 1 \in 1..Len(posted) /\ from_be_bytes(outbox) = Len(p)
        /\ \A i \in 1..Len(p) : outbox[HeaderLen + i] = p[i]
        /\ Carries(SubSeq(outbox, HeaderLen + Len(p) + 1, Len(outbox)),
                   SubSeq(posted, (k + 1) + 1, Len(posted)))
    BY <1>1, <2>1, <2>2, <2>3, FirstFrame
  <2>5. p \in Seq(Unit)
    BY <1>1, <2>4, ElementOfSeq
  <2> HIDE DEF p
  <2>6. Len(p) \in Nat
    BY <2>5
  <2>7. d \in Seq(Unit) /\ Len(d) = Len(p) /\ \A i \in 1..Len(p) : d[i] = outbox[HeaderLen + i]
    BY <1>1, <1>3, <2>4, <2>6, DecodedFrame
  <2> HIDE DEF d
  <2>8. d = p
    BY <2>4, <2>5, <2>7, SeqEqual
  <2>9. /\ Len(received') = k + 1 /\ received'[k + 1] = p
        /\ \A i \in 1..k : received'[i] = received[i]
    BY <1>1, <1>3, <2>5, <2>8, AppendProperties
  <2> HIDE DEF k
  <2>10. \A i \in 1..(k + 1) : received'[i] = posted'[i]
    <3>1. \A i \in 1..(k + 1) : i = k + 1 \/ i \in 1..k
      BY <1>1
    <3>2. \A i \in 1..k : received[i] = posted[i]
      BY DEF PostInv, k
    <3> QED BY <1>3, <2>9, <3>1, <3>2 DEF p
  <2>11. k + 1 <= Len(posted')
    BY <1>3, <2>4
  <2>12. Carries(outbox', SubSeq(posted', (k + 1) + 1, Len(posted')))
    BY <1>3, <2>4
  <2>13. \A i \in 1..Len(posted') : Len(posted'[i]) <= MaxFrame + 1
    BY <1>3 DEF PostInv
  <2> QED BY <2>9, <2>10, <2>11, <2>12, <2>13 DEF PostInv
<1> QED BY <1>2, <1>3 DEF ServerReads, sendVars

LEMMA PostInvHolds == Spec => []PostInv
<1>1. Init => PostInv
  <2> SUFFICES ASSUME Init PROVE PostInv
    OBVIOUS
  <2>1. SubSeq(<<>>, 0 + 1, 0) = <<>>
    BY SubSeqEmpty
  <2>2. Carries(<<>>, <<>>)
    <3>1. <<>> \in Seq(Unit)
      OBVIOUS
    <3> QED BY <3>1, CarriesNothing
  <2>3. Len(<<>>) = 0 /\ 1..0 = {} /\ 0 <= 0
    OBVIOUS
  <2>4. outbox = <<>> /\ posted = <<>> /\ received = <<>>
    BY DEF Init
  <2> QED BY <2>1, <2>2, <2>3, <2>4, Zenon DEF PostInv
<1>2. TypeInv /\ PostInv /\ [Next]_vars => PostInv'
  <2> SUFFICES ASSUME TypeInv, PostInv, [Next]_vars PROVE PostInv'
    OBVIOUS
  <2>1. UNCHANGED sendVars \/ (\E payload \in Posts : SendControl(payload)) \/ ServerReads
    BY DEF vars, Next, Call, Connect, Free, RecvControl, OpenStreams, FinishStdin,
           RecvStdout, ReadHeader, HeaderTimeout, ReadPayload, PayloadDone, ReadFails,
           StreamsOpened, StdoutRead, StdoutTimeout, ServerSends, Arrive, OfferStdout,
           StdoutArrives, ConnLost
  <2> QED BY <2>1, PostFrame, SendControlInv, ServerReadsInv
<1> QED BY <1>1, <1>2, TypeInvHolds, PTL DEF Spec

\* neoshd reads the payloads the caller sent, whole, in order and never one that
\* was not sent, for every unit size and limit for which one unit more than the
\* limit still fits the header: the sender checks no limit, and an oversized frame
\* must not be taken for a shorter one.
THEOREM PostedIsAlwaysReceived == Spec => []PostedIsReceived
<1>1. TypeInv /\ PostInv => PostedIsReceived
  <2> SUFFICES ASSUME TypeInv, PostInv PROVE PostedIsReceived
    OBVIOUS
  <2> DEFINE S == Seq(Unit)
             k == Len(received)
             t == SubSeq(posted, 0 + 1, k)
  <2>1. posted \in Seq(S) /\ received \in Seq(S) /\ k \in Nat /\ k <= Len(posted) /\ 0 <= k
    BY DEF TypeInv, SendOK, PostInv
  <2> HIDE DEF S
  <2>2. t \in Seq(S) /\ Len(t) = k - 0 /\ \A i \in 1..(k - 0) : t[i] = posted[0 + i]
    BY <2>1, SliceProperties
  <2>3. Len(t) = k /\ \A i \in 1..k : t[i] = received[i]
    BY <2>1, <2>2 DEF PostInv
  <2>4. t = received
    BY <2>1, <2>2, <2>3, SeqEqual
  <2> QED BY <2>4 DEF PostedIsReceived
<1> QED BY <1>1, PostInvHolds, TypeInvHolds, PTL

----------------------------------------------------------------------------
(* What the library receives *)

\* Payloads neoshd has written and recv_control_json has not reported.
Rest == SubSeq(sent, Len(taken) + 1, Len(sent))

\* What the call under way has taken off the stream; a length is held as a number
\* while its payload is read.
Consumed ==
    IF call = "header" THEN got
    ELSE IF call = "payload" THEN to_be_bytes(need) \o got ELSE <<>>

Reported ==
    /\ Len(taken) <= Len(sent)
    /\ \A i \in 1..Len(taken) : taken[i].payload = sent[i] /\ taken[i].out_len = Len(sent[i])

\* The connection was lost and no unit will be read any more.
Dead == ~ up /\ arrived = 0 /\ call # "payload" /\ handle # "null"

\* With what the call under way holds, the stream carries the frames that are not
\* reported.
ReportInv == ~ torn => Reported /\ (Carries(Consumed \o wire, Rest) \/ Dead)

LEMMA ReportImplies == TypeInv /\ ReportInv => FramesAreReported
<1> SUFFICES ASSUME TypeInv, ReportInv, ~ torn PROVE FramesAreReported
  BY DEF FramesAreReported
<1>1. Reported /\ (Carries(Consumed \o wire, Rest) \/ Dead)
  BY DEF ReportInv
<1>2. ASSUME Idle, up PROVE Carries(wire, Rest)
  <2>1. Consumed = <<>> /\ ~ Dead
    BY <1>2 DEF Idle, Consumed, Dead
  <2>2. <<>> \o wire = wire
    BY ConcatEmptySeq DEF TypeInv, ControlOK
  <2> QED BY <1>1, <2>1, <2>2
<1> QED BY <1>1, <1>2 DEF FramesAreReported, Reported, Rest

LEMMA InitReportInv == Init => ReportInv
<1> SUFFICES ASSUME Init PROVE ReportInv
  OBVIOUS
<1>1. SubSeq(<<>>, 0 + 1, 0) = <<>> /\ Len(<<>>) = 0
  BY SubSeqEmpty
<1>2. <<>> \in Seq(Unit) /\ <<>> \o <<>> = <<>>
  BY ConcatEmptySeq
<1>3. Carries(<<>>, <<>>)
  BY <1>2, CarriesNothing
<1>4. Consumed = <<>> /\ wire = <<>> /\ Rest = <<>>
  BY <1>1 DEF Init, Consumed, Rest
<1>5. Reported
  <2>1. 1..0 = {} /\ 0 <= 0
    OBVIOUS
  <2> QED BY <1>1, <2>1 DEF Init, Reported
<1> QED BY <1>2, <1>3, <1>4, <1>5 DEF ReportInv

\* A step that neither writes nor reports a frame and holds on to what it takes.
LEMMA SameStream ==
    ASSUME ReportInv, UNCHANGED <<sent, taken>>, torn => torn',
           Consumed' \o wire' = Consumed \o wire \/ Dead', Dead => Dead'
    PROVE  ReportInv'
  BY DEF ReportInv, Reported, Rest

LEMMA NeedFits == ASSUME TypeInv PROVE need \in 0..(Base * Base - 1)
<1> DEFINE B == Base * Base
<1>1. B \in Nat /\ MaxFrame \in 0..(B - 2)
  BY FramingAssumption, Width
<1> HIDE DEF B
<1>2. need \in 0..(B - 1)
  BY <1>1 DEF TypeInv, CallOK
<1> QED BY <1>2 DEF B

LEMMA ConsumedIsSeq == ASSUME TypeInv PROVE Consumed \in Seq(Unit)
<1>1. got \in Seq(Unit) /\ <<>> \in Seq(Unit)
  BY DEF TypeInv, CallOK
<1>3. to_be_bytes(need) \in Seq(Unit)
  BY NeedFits, HeaderRoundTrip
<1>4. to_be_bytes(need) \o got \in Seq(Unit)
  BY <1>1, <1>3, ConcatProperties
<1> QED BY <1>1, <1>4 DEF Consumed

\* One unit moves from the stream to what was read.
LEMMA MoveUnit ==
    ASSUME NEW a \in Seq(Unit), NEW w \in Seq(Unit), w # <<>>
    PROVE  Append(a, Head(w)) \o Tail(w) = a \o w
<1>1. Head(w) \in Unit /\ Tail(w) \in Seq(Unit) /\ <<Head(w)>> \in Seq(Unit)
  BY HeadTailProperties
<1>2. <<Head(w)>> \o Tail(w) = w
  <2> DEFINE x == <<Head(w)>>
             t == Tail(w)
             u == x \o t
  <2>1. Len(x) = 1 /\ x[1] = w[1] /\ x \in Seq(Unit)
    BY <1>1
  <2>2. Len(w) \in Nat \ {0}
    BY EmptySeq
  <2>3. Len(t) = Len(w) - 1 /\ t \in Seq(Unit) /\ \A i \in 1..Len(t) : t[i] = w[i + 1]
    BY HeadTailProperties
  <2> HIDE DEF x, t
  <2>4. /\ u \in Seq(Unit) /\ Len(u) = Len(x) + Len(t)
        /\ \A i \in 1..(Len(x) + Len(t)) : u[i] = IF i <= Len(x) THEN x[i] ELSE t[i - Len(x)]
    <3>1. x \in Seq(Unit) /\ t \in Seq(Unit)
      BY <2>1, <2>3
    <3> QED BY <3>1, ConcatProperties
  <2> HIDE DEF u
  <2>5. Len(u) = Len(w)
    BY <2>1, <2>2, <2>3, <2>4
  <2>6. \A i \in 1..Len(u) : u[i] = w[i]
    <3> TAKE i \in 1..Len(u)
    <3>1. CASE i = 1
      BY <2>1, <2>2, <2>3, <2>4, <3>1
    <3>2. CASE i # 1
      <4>1. i - 1 \in 1..Len(t) /\ ~ (i <= 1) /\ (i - 1) + 1 = i /\ i \in 1..(1 + Len(t))
        BY <2>2, <2>3, <2>5, <3>2
      <4> QED BY <2>1, <2>3, <2>4, <4>1
    <3> QED BY <3>1, <3>2
  <2>7. u = w
    BY <2>4, <2>5, <2>6, SeqEqual
  <2> QED BY <2>7 DEF u, x, t
<1>3. Append(a, Head(w)) = a \o <<Head(w)>>
  BY <1>1, AppendIsConcat
<1>4. (a \o <<Head(w)>>) \o Tail(w) = a \o (<<Head(w)>> \o Tail(w))
  BY <1>1, ConcatAssociative
<1> QED BY <1>2, <1>3, <1>4

\* The payloads neoshd writes are within what the library accepts.
LEMMA SentFits ==
    ASSUME TypeInv
    PROVE  \A i \in 1..Len(sent) : Len(sent[i]) <= MaxFrame /\ Len(sent[i]) < Base * Base
<1> DEFINE B == Base * Base
<1>1. B \in Nat /\ MaxFrame \in 0..(B - 2) /\ MaxPayload \in 0..MaxFrame
  BY FramingAssumption, FfiAssumption, Width
<1> HIDE DEF B
<1>2. \A i \in 1..Len(sent) : Len(sent[i]) <= MaxPayload /\ Len(sent[i]) \in Nat
  BY DEF TypeInv, ControlOK
<1>3. \A i \in 1..Len(sent) : Len(sent[i]) <= MaxFrame /\ Len(sent[i]) < B
  BY <1>1, <1>2
<1> QED BY <1>3 DEF B

\* Everything but the reads of recv_control_json and the writes of neoshd.
LEMMA PlainReportInv ==
    ASSUME TypeInv, ReportInv,
           \/ Connect \/ Free \/ (\E payload \in Posts : SendControl(payload))
           \/ (\E c \in Caps : RecvControl(c)) \/ OpenStreams \/ FinishStdin \/ RecvStdout
           \/ HeaderTimeout \/ ReadFails \/ StreamsOpened \/ StdoutRead \/ StdoutTimeout
           \/ Arrive \/ ServerReads \/ OfferStdout \/ StdoutArrives \/ ConnLost
    PROVE  ReportInv'
<1>0. /\ handle = "null" => call = "none" /\ ~ up
      /\ call \notin {"header", "payload"} => got = <<>>
  BY DEF TypeInv, CallOK
<1>1. CASE \/ Connect \/ Free \/ (\E payload \in Posts : SendControl(payload))
           \/ FinishStdin \/ Arrive \/ ServerReads \/ OfferStdout \/ StdoutArrives \/ ConnLost
  <2>1. UNCHANGED <<call, got, need, sent, wire, taken, torn>>
    BY <1>1 DEF Connect, Free, SendControl, FinishStdin, Arrive, ServerReads, OfferStdout,
                StdoutArrives, ConnLost, callVars, controlVars
  <2>2. Dead => Dead'
    BY <1>1, <2>1 DEF Dead, Connect, Free, SendControl, FinishStdin, Arrive, ServerReads,
                OfferStdout, StdoutArrives, ConnLost, controlVars
  <2>3. Consumed' = Consumed
    BY <2>1 DEF Consumed
  <2> QED BY <2>1, <2>2, <2>3, SameStream
<1>2. CASE (\E c \in Caps : RecvControl(c)) \/ OpenStreams \/ RecvStdout
  <2>1. /\ call = "none" /\ call' \in {"header", "streams", "stdout"} /\ got' = got
        /\ UNCHANGED <<handle, up, controlVars>>
    BY <1>2 DEF RecvControl, OpenStreams, RecvStdout, Idle
  <2>2. Consumed' = Consumed
    BY <1>0, <2>1 DEF Consumed
  <2> QED BY <2>1, <2>2, SameStream DEF Dead, controlVars
<1>3. CASE StreamsOpened \/ StdoutRead \/ StdoutTimeout
  <2>1. /\ call \in {"streams", "stdout"} /\ call' = "none"
        /\ UNCHANGED <<handle, up, controlVars>>
    BY <1>3 DEF StreamsOpened, StdoutRead, StdoutTimeout, Done
  <2>2. Consumed' = Consumed
    BY <2>1 DEF Consumed
  <2> QED BY <2>1, <2>2, SameStream DEF Dead, controlVars
<1>4. CASE HeaderTimeout
  <2>1. /\ call = "header" /\ call' = "none" /\ torn' = (torn \/ got # <<>>)
        /\ UNCHANGED <<handle, up, sent, wire, arrived, taken>>
    BY <1>4 DEF HeaderTimeout, Done
  <2>2. CASE got # <<>>
    BY <2>1, <2>2 DEF ReportInv
  <2>3. CASE got = <<>>
    <3>1. Consumed' = Consumed
      BY <2>1, <2>3 DEF Consumed
    <3> QED BY <2>1, <3>1, SameStream DEF Dead
  <2> QED BY <2>2, <2>3
<1>5. CASE ReadFails
  <2>1. /\ call' = "none" /\ ~ up /\ call \in {"header", "payload", "streams", "stdout"}
        /\ call \in {"header", "payload"} => arrived = 0
        /\ UNCHANGED <<handle, up, controlVars>>
    BY <1>5 DEF ReadFails, Done
  <2>2. Dead => Dead'
    BY <2>1 DEF Dead, controlVars
  <2>3. CASE call \in {"header", "payload"}
    <3>1. Dead'
      BY <1>0, <2>1, <2>3 DEF Dead, controlVars
    <3> QED BY <2>1, <2>2, <3>1, SameStream DEF controlVars
  <2>4. CASE call \in {"streams", "stdout"}
    <3>1. Consumed' = Consumed
      BY <2>1, <2>4 DEF Consumed
    <3> QED BY <2>1, <2>2, <3>1, SameStream DEF controlVars
  <2> QED BY <2>1, <2>3, <2>4
<1> QED BY <1>1, <1>2, <1>3, <1>4, <1>5

\* neoshd writes a frame: it is the last of the rest.
LEMMA ServerSendsInv ==
    ASSUME TypeInv, ReportInv, NEW n \in 0..MaxPayload, ServerSends(n)
    PROVE  ReportInv'
<1> DEFINE p == [i \in 1..n |-> Len(sent) + 1]
           f == encode_frame(p)
<1>1. /\ up /\ sent' = Append(sent, p) /\ wire' = wire \o f
      /\ UNCHANGED <<handle, up, callVars, arrived, taken, torn>>
  BY DEF ServerSends
<1>2. p \in Seq(Unit)
  BY ServerPayload DEF TypeInv
<1> HIDE DEF p
<1>3. f \in Seq(Unit)
  BY <1>2, FrameUnits
<1>4. SUFFICES ASSUME ~ torn PROVE Reported' /\ Carries(Consumed' \o wire', Rest')
  BY <1>1 DEF ReportInv
<1>5. Reported /\ Carries(Consumed \o wire, Rest)
  BY <1>1, <1>4 DEF ReportInv, Dead
<1>6. /\ sent \in Seq(Seq(Unit)) /\ wire \in Seq(Unit) /\ Len(taken) \in 0..Len(sent)
      /\ Len(sent) \in Nat
  BY <1>5 DEF TypeInv, ControlOK, Reported
<1>7. Rest \in Seq(Seq(Unit)) /\ Rest' = Append(Rest, p)
  <2>1. sent \in Seq(Seq(Unit)) /\ Len(taken) \in 0..Len(sent) /\ p \in Seq(Unit)
    BY <1>2, <1>6
  <2>2. /\ SubSeq(sent, Len(taken) + 1, Len(sent)) \in Seq(Seq(Unit))
        /\ SubSeq(Append(sent, p), Len(taken) + 1, Len(Append(sent, p)))
             = Append(SubSeq(sent, Len(taken) + 1, Len(sent)), p)
    BY <2>1, RestAppend, Zenon
  <2>3. sent' = Append(sent, p) /\ taken' = taken
    BY <1>1
  <2> QED BY <2>2, <2>3 DEF Rest
<1>8. Consumed \in Seq(Unit) /\ Consumed' = Consumed
  BY <1>1, ConsumedIsSeq DEF Consumed, callVars
<1>9. Consumed' \o wire' = (Consumed \o wire) \o f /\ Consumed \o wire \in Seq(Unit)
  <2>1. wire \in Seq(Unit)
    BY <1>6
  <2>2. (Consumed \o wire) \o f = Consumed \o (wire \o f) /\ Consumed \o wire \in Seq(Unit)
    <3> HIDE DEF f
    <3> QED BY <1>3, <1>8, <2>1, ConcatAssociative, ConcatProperties
  <2> QED BY <1>1, <1>8, <2>2
<1>10. Carries(Consumed' \o wire', Rest')
  BY <1>2, <1>5, <1>7, <1>9, CarriesAppend
<1>11. Reported'
  <2>1. Len(sent') = Len(sent) + 1 /\ \A i \in 1..Len(sent) : sent'[i] = sent[i]
    BY <1>1, <1>2, <1>6, AppendProperties
  <2>2. /\ \A i \in 1..Len(taken) : i \in 1..Len(sent)
        /\ Len(taken) <= Len(sent) + 1
    BY <1>6
  <2>3. taken' = taken
    BY <1>1
  <2> QED BY <1>5, <2>1, <2>2, <2>3 DEF Reported
<1> QED BY <1>10, <1>11

\* A unit of the length.  The last one completes the length of the frame that is
\* next, which is never over the limit.
LEMMA ReadHeaderInv == ASSUME TypeInv, ReportInv, ReadHeader PROVE ReportInv'
<1> DEFINE h == Append(got, Head(wire))
           w == Consumed \o wire
           k == Len(taken)
           p == sent[k + 1]
<1>1. /\ call = "header" /\ arrived > 0 /\ wire' = Tail(wire)
      /\ UNCHANGED <<handle, up, sent, taken, torn>>
  BY DEF ReadHeader
<1>2. wire # <<>> /\ Head(wire) \in Unit /\ wire \in Seq(Unit) /\ Tail(wire) \in Seq(Unit)
  BY <1>1, TakeUnit DEF TypeInv, ControlOK
<1>3. got \in Seq(Unit) /\ Len(got) < HeaderLen /\ Len(got) \in Nat
  BY <1>1 DEF TypeInv, CallOK
<1>4. SUFFICES ASSUME ~ torn PROVE Reported' /\ Carries(Consumed' \o wire', Rest')
  BY <1>1 DEF ReportInv
<1>5. Reported /\ Carries(w, Rest)
  BY <1>1, <1>4 DEF ReportInv, Dead
<1>6. Reported' /\ Rest' = Rest
  BY <1>1, <1>5 DEF Reported, Rest
<1>7. h \in Seq(Unit) /\ Len(h) = Len(got) + 1
  BY <1>2, <1>3, AppendProperties
<1>8. h \o Tail(wire) = w
  BY <1>1, <1>2, <1>3, MoveUnit DEF Consumed
<1> HIDE DEF h
<1>9. CASE Len(h) < HeaderLen
  <2>1. got' = h /\ call' = call
    BY <1>9 DEF ReadHeader, h
  <2>2. Consumed' = h
    BY <1>1, <2>1 DEF Consumed
  <2> QED BY <1>1, <1>5, <1>6, <1>8, <2>2
<1>10. CASE Len(h) = HeaderLen
  <2>1. /\ w \in Seq(Unit) /\ Len(w) = HeaderLen + Len(Tail(wire))
        /\ \A i \in 1..(HeaderLen + Len(Tail(wire))) :
             w[i] = IF i <= HeaderLen THEN h[i] ELSE Tail(wire)[i - HeaderLen]
    <3> DEFINE t == Tail(wire)
    <3>1. h \in Seq(Unit) /\ t \in Seq(Unit) /\ h \o t = w
      BY <1>2, <1>7, <1>8
    <3> HIDE DEF t, w
    <3>2. /\ w \in Seq(Unit) /\ Len(w) = Len(h) + Len(t)
          /\ \A i \in 1..(Len(h) + Len(t)) : w[i] = IF i <= Len(h) THEN h[i] ELSE t[i - Len(h)]
      BY <3>1, ConcatProperties
    <3> QED BY <1>10, <3>2 DEF t
  <2>2. Len(Tail(wire)) \in Nat
    BY <1>2
  <2> HIDE DEF w
  <2>3. w # <<>> /\ \A i \in 1..HeaderLen : w[i] = h[i]
    BY <2>1, <2>2 DEF HeaderLen
  <2>4. sent \in Seq(Seq(Unit)) /\ k \in 0..Len(sent)
    BY <1>5 DEF TypeInv, ControlOK, Reported
  <2>5. \A i \in 1..Len(sent) : Len(sent[i]) <= MaxFrame /\ Len(sent[i]) < Base * Base
    BY SentFits
  <2>6. /\ k + 1 \in 1..Len(sent) /\ from_be_bytes(w) = Len(p)
        /\ \A i \in 1..HeaderLen : w[i] = to_be_bytes(Len(p))[i]
    BY <1>5, <2>1, <2>3, <2>4, <2>5, FirstFrame DEF Rest
  <2>7. p \in Seq(Unit) /\ Len(p) <= MaxFrame /\ Len(p) \in 0..(Base * Base - 1)
    <3>1. p \in Seq(Unit)
      BY <2>4, <2>6, ElementOfSeq
    <3>2. Len(p) < Base * Base /\ Len(p) <= MaxFrame
      BY <2>5, <2>6
    <3> HIDE DEF p
    <3> DEFINE B == Base * Base
    <3>3. Len(p) \in Nat /\ Len(p) < B /\ B \in Nat
      BY <3>1, <3>2, Width
    <3> HIDE DEF B
    <3>4. Len(p) \in 0..(B - 1)
      BY <3>3
    <3> QED BY <3>1, <3>2, <3>4 DEF B
  <2> HIDE DEF p
  <2>8. from_be_bytes(h) = Len(p)
    BY <2>3, <2>6 DEF from_be_bytes, HeaderLen
  <2>9. to_be_bytes(Len(p)) = h
    <3>1. to_be_bytes(Len(p)) \in Seq(Unit) /\ Len(to_be_bytes(Len(p))) = HeaderLen
      BY <2>7, HeaderRoundTrip
    <3>2. \A i \in 1..HeaderLen : to_be_bytes(Len(p))[i] = h[i]
      BY <2>3, <2>6
    <3> QED BY <1>7, <1>10, <3>1, <3>2, SeqEqual
  <2>10. ~ too_large(from_be_bytes(h))
    <3>1. MaxFrame \in Nat /\ Len(p) \in Nat
      BY <2>7, FramingAssumption
    <3> QED BY <2>7, <2>8, <3>1 DEF too_large
  <2>11. call' = "payload" /\ got' = <<>> /\ need' = Len(p)
    BY <1>10, <2>8, <2>10 DEF ReadHeader, h, HeaderLen
  <2>12. Consumed' = h
    <3>1. h \o <<>> = h
      BY <1>7, ConcatEmptySeq
    <3>2. to_be_bytes(need)' = to_be_bytes(Len(p))
      BY <2>11 DEF to_be_bytes
    <3> QED BY <2>9, <2>11, <3>1, <3>2 DEF Consumed
  <2> QED BY <1>1, <1>5, <1>6, <1>8, <2>12 DEF w
<1> QED BY <1>3, <1>7, <1>9, <1>10 DEF HeaderLen

LEMMA ReadPayloadInv == ASSUME TypeInv, ReportInv, ReadPayload PROVE ReportInv'
<1> DEFINE b == to_be_bytes(need)
<1>1. /\ call = "payload" /\ arrived > 0 /\ got' = Append(got, Head(wire))
      /\ wire' = Tail(wire) /\ UNCHANGED <<handle, up, call, need, sent, taken, torn>>
  BY DEF ReadPayload
<1>2. wire # <<>> /\ Head(wire) \in Unit /\ wire \in Seq(Unit) /\ Tail(wire) \in Seq(Unit)
  BY <1>1, TakeUnit DEF TypeInv, ControlOK
<1>3. got \in Seq(Unit) /\ got' \in Seq(Unit)
  <2>1. got \in Seq(Unit)
    BY DEF TypeInv, CallOK
  <2> QED BY <1>1, <1>2, <2>1, AppendProperties
<1>4. b \in Seq(Unit)
  BY NeedFits, HeaderRoundTrip
<1>5. Consumed = b \o got /\ Consumed' = b \o got'
  <2>1. to_be_bytes(need)' = b
    BY <1>1 DEF to_be_bytes
  <2> QED BY <1>1, <2>1 DEF Consumed
<1> HIDE DEF b
<1>6. (b \o got') \o Tail(wire) = b \o (got' \o Tail(wire))
  <2> DEFINE g == got'
             u == Tail(wire)
  <2>1. b \in Seq(Unit) /\ g \in Seq(Unit) /\ u \in Seq(Unit)
    BY <1>2, <1>3, <1>4
  <2> HIDE DEF g, u
  <2>2. (b \o g) \o u = b \o (g \o u)
    BY <2>1, ConcatAssociative
  <2> QED BY <2>2 DEF g, u
<1>7. got' \o Tail(wire) = got \o wire
  BY <1>1, <1>2, <1>3, MoveUnit
<1>8. (b \o got) \o wire = b \o (got \o wire)
  <2>1. b \in Seq(Unit) /\ got \in Seq(Unit) /\ wire \in Seq(Unit)
    BY <1>2, <1>3, <1>4
  <2> QED BY <2>1, ConcatAssociative
<1>9. Consumed' \o wire' = Consumed \o wire
  BY <1>1, <1>5, <1>6, <1>7, <1>8
<1> QED BY <1>1, <1>9, SameStream DEF Dead

\* The payload is complete: it is the one that was next, and the stream goes on
\* after it.
LEMMA PayloadDoneInv == ASSUME TypeInv, ReportInv, PayloadDone PROVE ReportInv'
<1> DEFINE b == to_be_bytes(need)
           c == b \o got
           w == c \o wire
           k == Len(taken)
           p == sent[k + 1]
           x == [code |-> result_code(got), out_len |-> need, payload |-> got]
<1>1. /\ call = "payload" /\ Len(got) = need /\ taken' = Append(taken, x)
      /\ call' = "none" /\ UNCHANGED <<sent, wire, torn>>
  BY DEF PayloadDone, Done
<1>2. got \in Seq(Unit) /\ wire \in Seq(Unit) /\ need \in Nat /\ Len(wire) \in Nat
  BY FramingAssumption DEF TypeInv, CallOK, ControlOK
<1>3. b \in Seq(Unit) /\ Len(b) = HeaderLen /\ from_be_bytes(b) = need
  BY NeedFits, HeaderRoundTrip
<1>4. SUFFICES ASSUME ~ torn PROVE Reported' /\ Carries(Consumed' \o wire', Rest')
  BY <1>1 DEF ReportInv
<1>5. Reported /\ Carries(w, Rest)
  BY <1>1, <1>4 DEF ReportInv, Dead, Consumed
<1> HIDE DEF b
<1>6. /\ c \in Seq(Unit) /\ Len(c) = HeaderLen + need
      /\ \A i \in 1..(HeaderLen + need) : c[i] = IF i <= HeaderLen THEN b[i] ELSE got[i - HeaderLen]
  <2>1. b \in Seq(Unit) /\ got \in Seq(Unit)
    BY <1>2, <1>3
  <2>2. /\ c \in Seq(Unit) /\ Len(c) = Len(b) + Len(got)
        /\ \A i \in 1..(Len(b) + Len(got)) : c[i] = IF i <= Len(b) THEN b[i] ELSE got[i - Len(b)]
    BY <2>1, ConcatProperties
  <2> HIDE DEF c
  <2> QED BY <1>1, <1>3, <2>2
<1> HIDE DEF c
<1>7. /\ w \in Seq(Unit) /\ Len(w) = HeaderLen + need + Len(wire)
      /\ \A i \in 1..(HeaderLen + need + Len(wire)) :
           w[i] = IF i <= HeaderLen + need THEN c[i] ELSE wire[i - (HeaderLen + need)]
  <2>1. c \in Seq(Unit) /\ wire \in Seq(Unit)
    BY <1>2, <1>6
  <2>2. /\ w \in Seq(Unit) /\ Len(w) = Len(c) + Len(wire)
        /\ \A i \in 1..(Len(c) + Len(wire)) : w[i] = IF i <= Len(c) THEN c[i] ELSE wire[i - Len(c)]
    BY <2>1, ConcatProperties
  <2> HIDE DEF w
  <2> QED BY <1>6, <2>2
<1> HIDE DEF w
<1>8. w # <<>> /\ w[1] = b[1] /\ w[2] = b[2]
  BY <1>2, <1>6, <1>7 DEF HeaderLen
<1>9. sent \in Seq(Seq(Unit)) /\ k \in 0..Len(sent) /\ k \in Nat /\ Len(sent) \in Nat
  BY <1>5 DEF TypeInv, ControlOK, Reported
<1>10. \A i \in 1..Len(sent) : Len(sent[i]) < Base * Base
  BY SentFits
<1>11. /\ k + 1 \in 1..Len(sent) /\ from_be_bytes(w) = Len(p)
       /\ \A i \in 1..Len(p) : w[HeaderLen + i] = p[i]
       /\ Carries(SubSeq(w, HeaderLen + Len(p) + 1, Len(w)),
                  SubSeq(sent, (k + 1) + 1, Len(sent)))
  BY <1>5, <1>7, <1>8, <1>9, <1>10, FirstFrame DEF Rest
<1>12. p \in Seq(Unit)
  BY <1>9, <1>11, ElementOfSeq
<1>13. Len(p) = need
  BY <1>3, <1>8, <1>11 DEF from_be_bytes
<1> HIDE DEF p
<1>14. got = p
  <2>1. \A i \in 1..need : HeaderLen + i \in 1..(HeaderLen + need) /\ ~ (HeaderLen + i <= HeaderLen)
                           /\ HeaderLen + i <= HeaderLen + need
                           /\ HeaderLen + i \in 1..(HeaderLen + need + Len(wire))
                           /\ (HeaderLen + i) - HeaderLen = i
    BY <1>2 DEF HeaderLen
  <2>2. \A i \in 1..need : w[HeaderLen + i] = got[i]
    BY <1>6, <1>7, <2>1
  <2>3. \A i \in 1..need : got[i] = p[i]
    BY <1>11, <1>13, <2>2
  <2> QED BY <1>1, <1>2, <1>12, <1>13, <2>3, SeqEqual
<1>15. SubSeq(w, HeaderLen + need + 1, Len(w)) = wire
  <2> DEFINE a == HeaderLen + need
             u == SubSeq(w, a + 1, Len(w))
  <2>1. a \in Nat /\ Len(w) \in Nat /\ a <= Len(w) /\ Len(w) - a = Len(wire)
    BY <1>2, <1>7 DEF HeaderLen
  <2> HIDE DEF a
  <2>2. u \in Seq(Unit) /\ Len(u) = Len(w) - a /\ \A i \in 1..(Len(w) - a) : u[i] = w[a + i]
    BY <1>7, <2>1, SliceProperties
  <2> HIDE DEF u
  <2>3. \A i \in 1..Len(wire) : u[i] = wire[i]
    <3> TAKE i \in 1..Len(wire)
    <3>1. a + i \in 1..(a + Len(wire)) /\ ~ (a + i <= a) /\ (a + i) - a = i
      BY <1>2, <2>1
    <3>2. w[a + i] = wire[(a + i) - a]
      BY <1>7, <3>1 DEF a
    <3> QED BY <2>1, <2>2, <3>1, <3>2
  <2>4. u = wire
    BY <1>2, <2>1, <2>2, <2>3, SeqEqual
  <2> QED BY <2>4 DEF u, a
<1>16. taken \in Seq([code : Code, out_len : Nat, payload : Seq(Unit)])
  BY DEF TypeInv, ControlOK
<1>17. x \in [code : Code, out_len : Nat, payload : Seq(Unit)]
  <2>1. result_code(got) \in Code
    BY DEF result_code, Code
  <2> QED BY <1>2, <2>1
<1>18. x.payload = p /\ x.out_len = Len(p)
  BY <1>13, <1>14
<1> HIDE DEF x
<1>19. Len(taken') = k + 1 /\ taken'[k + 1] = x /\ \A i \in 1..k : taken'[i] = taken[i]
  BY <1>1, <1>16, <1>17, AppendProperties
<1>20. Reported'
  <2> HIDE DEF k
  <2>1. \A i \in 1..(k + 1) : i = k + 1 \/ i \in 1..k
    BY <1>9
  <2>2. \A i \in 1..k : taken[i].payload = sent[i] /\ taken[i].out_len = Len(sent[i])
    BY <1>5 DEF Reported, k
  <2>3. \A i \in 1..(k + 1) : taken'[i].payload = sent[i] /\ taken'[i].out_len = Len(sent[i])
    BY <1>18, <1>19, <2>1, <2>2 DEF p
  <2>4. k + 1 <= Len(sent)
    BY <1>9, <1>11
  <2> QED BY <1>1, <1>19, <2>3, <2>4 DEF Reported
<1>21. Carries(Consumed' \o wire', Rest')
  <2>1. Rest' = SubSeq(sent, (k + 1) + 1, Len(sent))
    BY <1>1, <1>19 DEF Rest
  <2>2. Consumed' \o wire' = wire
    BY <1>1, <1>2, ConcatEmptySeq DEF Consumed
  <2> QED BY <1>11, <1>13, <1>15, <2>1, <2>2
<1> QED BY <1>20, <1>21

LEMMA ReportInvHolds == Spec => []ReportInv
<1>1. TypeInv /\ ReportInv /\ [Next]_vars => ReportInv'
  <2> SUFFICES ASSUME TypeInv, ReportInv, [Next]_vars PROVE ReportInv'
    OBVIOUS
  <2>1. CASE UNCHANGED vars
    BY <2>1, SameStream DEF vars, callVars, controlVars, Consumed, Dead
  <2> QED BY <2>1, PlainReportInv, ServerSendsInv, ReadHeaderInv, ReadPayloadInv,
             PayloadDoneInv DEF Next, Call
<1> QED BY <1>1, InitReportInv, TypeInvHolds, PTL DEF Spec

\* Until a timeout cuts a length in two, recv_control_json reports every frame of
\* neoshd once, whole and in order, whatever the buffer it was given, and leaves
\* the stream at the start of the next frame: for every unit size, frame size and
\* number of frames, and wherever the timeouts and the loss of the connection fall.
THEOREM FramesAreAlwaysReported == Spec => []FramesAreReported
  BY ReportInvHolds, TypeInvHolds, ReportImplies, PTL

=============================================================================
