---------------------------- MODULE PanelUart_proofs ----------------------------
(***************************************************************************)
(* Proofs about PanelUart, for any table of addresses and any number of    *)
(* frames.  What the daemon has not finished with, the bytes assembled and *)
(* those on the wire, is one stream of bytes that the MCU sent, in order.  *)
(*                                                                         *)
(*  - UartInv: with no fault the stream has no gap, with one fault it has  *)
(*    one.  Four bytes with one gap among them that read as a frame of the *)
(*    table are one that was sent, by its first byte or by its last.       *)
(*  - KeptInv: a frame that lost nothing, after one that lost nothing,     *)
(*    lies whole on the stream until it is acted on, and the four bytes    *)
(*    that are assembled never end inside it.                              *)
(*  - ForwardInv: while nothing is lost every read is of the next frame    *)
(*    sent, so what the daemon knows of forwarding, and what it means to   *)
(*    restore, follow the MCU by the frames still to be read.              *)
(***************************************************************************)
EXTENDS PanelUart, SequenceTheorems, TLAPS

\* The bytes that the daemon has not finished with, each at the place where the
\* MCU wrote it, and the place after the last byte that it wrote.
Places == [byte : Int, from : Nat, at : 1..4]
Stream == frame \o wire
Pos(b) == 4 * b.from + b.at
EndPos(told) == 4 * Len(told) + 5

\* Where the byte after the k-th should be, or the next one to be written.
After(s, told, k) == IF k < Len(s) THEN Pos(s[k + 1]) ELSE EndPos(told)

\* The bytes s are bytes of the frames told, in order;
Carries(s, told) ==
  /\ s \in Seq(Places)
  /\ \A k \in 1..Len(s) : /\ s[k].from \in 1..Len(told)
                          /\ s[k].byte = told[s[k].from][s[k].at]
  /\ \A k, l \in 1..Len(s) : k < l => Pos(s[k]) < Pos(s[l])

\* none of them is missing;
Intact(s, told) == \A k \in 1..Len(s) : After(s, told, k) = Pos(s[k]) + 1

\* there is one gap at the most;
OneGap(s, told) ==
  \A k, l \in 1..Len(s) : /\ After(s, told, k) # Pos(s[k]) + 1
                          /\ After(s, told, l) # Pos(s[l]) + 1
                          => k = l

\* only the frames in hit have lost bytes.
Guarded(s, told, hit) ==
  \A k \in 1..Len(s), m \in Nat, a \in 1..4 :
    m \notin hit /\ After(s, told, k) = 4 * m + a + 1 => Pos(s[k]) = 4 * m + a

Dropped(s, j) == SubSeq(s, j + 1, Len(s))
Cut(s, i, n) == SubSeq(s, 1, i - 1) \o SubSeq(s, i + n, Len(s))

LEMMA PosIs ==
  ASSUME NEW b \in Places
  PROVE  /\ Pos(b) = 4 * b.from + b.at /\ Pos(b) \in Nat
         /\ b.from \in Nat /\ b.at \in 1..4 /\ b.byte \in Int
BY DEF Pos, Places

LEMMA SamePlace ==
  ASSUME NEW m \in Nat, NEW n \in Nat, NEW a \in 1..4, NEW b \in 1..4
  PROVE  /\ 4 * m + a = 4 * n + b => m = n /\ a = b
         /\ 4 * m + a < 4 * n + b => m <= n /\ (m = n => a < b)
OBVIOUS

LEMMA CarriedIs ==
  ASSUME NEW s, NEW told, Carries(s, told)
  PROVE  /\ s \in Seq(Places) /\ Len(s) \in Nat
         /\ \A k \in 1..Len(s) : s[k] \in Places /\ Pos(s[k]) \in Nat
BY PosIs DEF Carries

LEMMA DroppedIs ==
  ASSUME NEW S, NEW s \in Seq(S), NEW j \in 0..Len(s)
  PROVE  /\ Dropped(s, j) \in Seq(S) /\ Len(Dropped(s, j)) = Len(s) - j
         /\ \A k \in 1..Len(s) - j : Dropped(s, j)[k] = s[k + j]
BY SubSeqProperties DEF Dropped

LEMMA CutIs ==
  ASSUME NEW S, NEW s \in Seq(S), NEW i \in 1..Len(s), NEW n \in Nat,
         n > 0, i + n - 1 <= Len(s)
  PROVE  /\ Cut(s, i, n) \in Seq(S) /\ Len(Cut(s, i, n)) = Len(s) - n
         /\ \A k \in 1..Len(s) - n :
              Cut(s, i, n)[k] = IF k < i THEN s[k] ELSE s[k + n]
<1> DEFINE front == SubSeq(s, 1, i - 1)
           back == SubSeq(s, i + n, Len(s))
<1>1. /\ front \in Seq(S) /\ Len(front) = i - 1
      /\ \A k \in 1..i - 1 : front[k] = s[k]
  BY SubSeqProperties
<1>2. /\ back \in Seq(S) /\ Len(back) = Len(s) - (i + n) + 1
      /\ \A k \in 1..Len(s) - (i + n) + 1 : back[k] = s[k + i + n - 1]
  BY SubSeqProperties
<1> HIDE DEF front, back
<1>3. /\ front \o back \in Seq(S) /\ Len(front \o back) = Len(s) - n
      /\ \A k \in 1..Len(s) - n :
           (front \o back)[k] = IF k <= i - 1 THEN front[k] ELSE back[k - (i - 1)]
  BY <1>1, <1>2, ConcatProperties
<1>4. ASSUME NEW k \in 1..Len(s) - n
      PROVE  (front \o back)[k] = IF k < i THEN s[k] ELSE s[k + n]
  <2>1. CASE k < i
    BY <1>1, <1>3, <2>1
  <2>2. CASE ~(k < i)
    <3>1. k - (i - 1) \in 1..Len(s) - (i + n) + 1
      BY <1>1, <2>2
    <3>2. back[k - (i - 1)] = s[k - (i - 1) + i + n - 1]
      BY <1>2, <3>1
    <3>3. k - (i - 1) + i + n - 1 = k + n
      OBVIOUS
    <3> QED
      BY <1>3, <2>2, <3>2, <3>3
  <2> QED
    BY <2>1, <2>2
<1> QED
  BY <1>3, <1>4 DEF Cut, front, back

\* Bytes that are read take none of this away.
LEMMA DropKeeps ==
  ASSUME NEW s, NEW told, NEW hit, Len(told) \in Nat, Carries(s, told),
         NEW j \in 0..Len(s)
  PROVE  /\ Carries(Dropped(s, j), told)
         /\ Intact(s, told) => Intact(Dropped(s, j), told)
         /\ OneGap(s, told) => OneGap(Dropped(s, j), told)
         /\ Guarded(s, told, hit) => Guarded(Dropped(s, j), told, hit)
<1> DEFINE d == Dropped(s, j)
<1>1. s \in Seq(Places) /\ Len(s) \in Nat
  BY DEF Carries
<1>0. /\ d \in Seq(Places) /\ Len(d) = Len(s) - j
      /\ \A k \in 1..Len(s) - j : d[k] = s[k + j]
  BY <1>1, DroppedIs, Zenon
<1> HIDE DEF d
<1>2. /\ d \in Seq(Places) /\ Len(d) = Len(s) - j
      /\ Len(d) \in Nat /\ \A k \in 1..Len(d) : d[k] = s[k + j]
  <2>1. Len(d) \in Nat
    BY <1>0
  <2> QED
    BY <1>0, <2>1, Zenon
<1>3. ASSUME NEW k \in 1..Len(d)
      PROVE  /\ k + j \in 1..Len(s) /\ d[k] = s[k + j]
             /\ After(d, told, k) = After(s, told, k + j)
  <2>1. k + j \in 1..Len(s) /\ d[k] = s[k + j]
    BY <1>1, <1>2
  <2>2. CASE k < Len(d)
    <3>1. k + 1 \in 1..Len(d) /\ (k + 1) + j = (k + j) + 1 /\ k + j < Len(s)
      BY <1>1, <1>2, <2>2
    <3>2. d[k + 1] = s[(k + j) + 1]
      BY <1>2, <3>1
    <3> QED
      BY <2>1, <2>2, <3>1, <3>2 DEF After
  <2>3. CASE ~(k < Len(d))
    BY <1>1, <1>2, <2>1, <2>3 DEF After
  <2> QED
    BY <2>1, <2>2, <2>3
<1>4. Carries(d, told)
  <2>1. ASSUME NEW k \in 1..Len(d), NEW l \in 1..Len(d), k < l
        PROVE  Pos(d[k]) < Pos(d[l])
    BY <1>1, <1>3, <2>1 DEF Carries
  <2> QED
    BY <1>2, <1>3, <2>1 DEF Carries
<1>5. Intact(s, told) => Intact(d, told)
  BY <1>1, <1>2, <1>3 DEF Intact
<1>6. OneGap(s, told) => OneGap(d, told)
  BY <1>1, <1>2, <1>3 DEF OneGap
<1>7. Guarded(s, told, hit) => Guarded(d, told, hit)
  <2> SUFFICES ASSUME Guarded(s, told, hit),
                      NEW k \in 1..Len(d), NEW m \in Nat, NEW a \in 1..4,
                      m \notin hit, After(d, told, k) = 4 * m + a + 1
               PROVE  Pos(d[k]) = 4 * m + a
    BY DEF Guarded
  <2>1. k + j \in 1..Len(s) /\ After(s, told, k + j) = 4 * m + a + 1
    BY <1>3
  <2>2. Pos(s[k + j]) = 4 * m + a
    BY <2>1 DEF Guarded
  <2> QED
    BY <1>3, <2>2
<1> QED
  BY <1>4, <1>5, <1>6, <1>7 DEF d

\* A run of bytes that is lost leaves a gap, and marks the frames it was in.
LEMMA CutKeeps ==
  ASSUME NEW s, NEW told, NEW hit, Len(told) \in Nat, Carries(s, told),
         NEW i \in 1..Len(s), NEW n \in Nat, n > 0, i + n - 1 <= Len(s)
  PROVE  /\ Carries(Cut(s, i, n), told)
         /\ Intact(s, told) => OneGap(Cut(s, i, n), told)
         /\ Guarded(s, told, hit) =>
              Guarded(Cut(s, i, n), told, hit \cup { s[k].from : k \in i..(i + n - 1) })
<1> DEFINE c == Cut(s, i, n)
           all == hit \cup { s[k].from : k \in i..(i + n - 1) }
<1>1. s \in Seq(Places) /\ Len(s) \in Nat
  BY DEF Carries
<1>2. /\ c \in Seq(Places) /\ Len(c) = Len(s) - n
      /\ Len(c) \in Nat /\ \A k \in 1..Len(c) : c[k] = IF k < i THEN s[k] ELSE s[k + n]
  BY <1>1, CutIs
<1> HIDE DEF c
<1>3. ASSUME NEW k \in 1..Len(c), k < i
      PROVE  k \in 1..Len(s) /\ c[k] = s[k]
  <2>1. k \in 1..Len(s)
    BY <1>1, <1>2
  <2> QED
    BY <1>2, <1>3, <2>1
<1>4. ASSUME NEW k \in 1..Len(c), k >= i - 1
      PROVE  /\ k + n \in 1..Len(s) /\ (k >= i => c[k] = s[k + n])
             /\ After(c, told, k) = After(s, told, k + n)
  <2>1. k + n \in 1..Len(s) /\ (k >= i => c[k] = s[k + n])
    BY <1>1, <1>2, <1>4
  <2>2. CASE k < Len(c)
    <3>1. k + 1 \in 1..Len(c) /\ (k + 1) + n = (k + n) + 1 /\ k + n < Len(s)
          /\ k + 1 >= i
      BY <1>1, <1>2, <1>4, <2>2
    <3>2. c[k + 1] = s[(k + 1) + n]
      <4> DEFINE l == k + 1
      <4>1. l \in 1..Len(c) /\ ~(l < i)
        BY <1>1, <1>4, <3>1
      <4> HIDE DEF l
      <4>2. c[l] = s[l + n]
        BY <1>2, <4>1
      <4> QED
        BY <4>2 DEF l
    <3> QED
      BY <2>1, <2>2, <3>1, <3>2 DEF After
  <2>3. CASE ~(k < Len(c))
    BY <1>1, <1>2, <2>1, <2>3 DEF After
  <2> QED
    BY <2>1, <2>2, <2>3
<1>8. ASSUME NEW k \in 1..Len(c), k < i - 1
      PROVE  After(c, told, k) = After(s, told, k)
  <2>1. k + 1 \in 1..Len(c) /\ k + 1 < i /\ k < Len(s)
    BY <1>1, <1>2, <1>8
  <2>2. c[k + 1] = s[k + 1]
    BY <1>3, <2>1
  <2> QED
    BY <1>1, <1>2, <2>1, <2>2 DEF After
<1>5. Carries(c, told)
  <2>1. ASSUME NEW k \in 1..Len(c), NEW l \in 1..Len(c), k < l
        PROVE  Pos(c[k]) < Pos(c[l])
    <3>1. CASE l < i
      <4>1. k < i
        BY <1>1, <1>2, <2>1, <3>1
      <4> QED
        BY <1>3, <2>1, <3>1, <4>1 DEF Carries
    <3>2. CASE l >= i /\ k < i
      <4>1. k < l + n /\ l + n \in 1..Len(s) /\ k \in 1..Len(s)
        BY <1>1, <1>3, <1>4, <2>1, <3>2
      <4> QED
        BY <1>3, <1>4, <3>2, <4>1 DEF Carries
    <3>3. CASE k >= i
      <4>1. l >= i /\ k + n < l + n /\ l + n \in 1..Len(s) /\ k + n \in 1..Len(s)
        BY <1>1, <1>4, <2>1, <3>3
      <4> QED
        BY <1>4, <3>3, <4>1 DEF Carries
    <3> QED
      BY <3>1, <3>2, <3>3
  <2>2. ASSUME NEW k \in 1..Len(c)
        PROVE  /\ c[k].from \in 1..Len(told)
               /\ c[k].byte = told[c[k].from][c[k].at]
    <3>1. CASE k < i
      BY <1>3, <3>1 DEF Carries
    <3>2. CASE ~(k < i)
      <4>1. k + n \in 1..Len(s) /\ c[k] = s[k + n]
        BY <1>4, <3>2
      <4> QED
        BY <4>1 DEF Carries
    <3> QED
      BY <3>1, <3>2
  <2> QED
    BY <1>2, <2>1, <2>2 DEF Carries
<1>6. Intact(s, told) => OneGap(c, told)
  <2>1. ASSUME Intact(s, told), NEW k \in 1..Len(c), k # i - 1
        PROVE  After(c, told, k) = Pos(c[k]) + 1
    <3>1. CASE k < i - 1
      BY <1>3, <1>8, <2>1, <3>1 DEF Intact
    <3>2. CASE k >= i
      BY <1>4, <2>1, <3>2 DEF Intact
    <3> QED
      BY <2>1, <3>1, <3>2
  <2> QED
    BY <2>1 DEF OneGap
<1>7. Guarded(s, told, hit) => Guarded(c, told, all)
  <2> SUFFICES ASSUME Guarded(s, told, hit),
                      NEW k \in 1..Len(c), NEW m \in Nat, NEW a \in 1..4,
                      m \notin all, After(c, told, k) = 4 * m + a + 1
               PROVE  Pos(c[k]) = 4 * m + a
    BY DEF Guarded
  <2>1. m \notin hit /\ \A l \in i..(i + n - 1) : s[l].from # m
    OBVIOUS
  <2> HIDE DEF all
  <2>2. CASE k # i - 1
    <3>1. CASE k < i - 1
      <4>1. k < i /\ After(s, told, k) = 4 * m + a + 1
        BY <1>8, <3>1
      <4>2. k \in 1..Len(s) /\ c[k] = s[k]
        BY <1>3, <4>1
      <4> QED
        BY <2>1, <4>1, <4>2 DEF Guarded
    <3>2. CASE ~(k < i - 1)
      <4>1. k >= i /\ k >= i - 1
        BY <2>2, <3>2
      <4>2. k + n \in 1..Len(s) /\ c[k] = s[k + n] /\ After(s, told, k + n) = 4 * m + a + 1
        BY <1>4, <4>1
      <4> QED
        BY <2>1, <4>2 DEF Guarded
    <3> QED
      BY <1>1, <2>2, <3>1, <3>2
  <2>3. CASE k = i - 1
    <3>1. i + n - 1 \in 1..Len(s) /\ After(s, told, i + n - 1) = 4 * m + a + 1
      <4>1. i + n - 1 \in 1..Len(s) /\ k + n = i + n - 1
        BY <1>1, <2>3
      <4> QED
        BY <1>4, <2>3, <4>1
    <3>2. Pos(s[i + n - 1]) = 4 * m + a
      BY <2>1, <3>1 DEF Guarded
    <3>3. s[i + n - 1] \in Places
      BY <1>1, <3>1
    <3>4. s[i + n - 1].from = m
      <4> DEFINE b == s[i + n - 1]
      <4>1. /\ Pos(b) = 4 * b.from + b.at /\ b.from \in Nat /\ b.at \in 1..4
        BY <3>3, PosIs
      <4> HIDE DEF b
      <4>2. Pos(b) = 4 * m + a
        BY <3>2 DEF b
      <4>3. b.from = m
        BY <4>1, <4>2, SamePlace
      <4> QED
        BY <4>3 DEF b
    <3>5. i + n - 1 \in i..(i + n - 1)
      OBVIOUS
    <3> QED
      BY <2>1, <3>4, <3>5
  <2> QED
    BY <2>2, <2>3
<1> QED
  BY <1>5, <1>6, <1>7 DEF c, all

\* The frames told are frames.
Told(told) == told \in Seq([1..4 -> Int])

\* The bytes w are those of the frames more, written after the frames told.
Continues(w, told, more) ==
  /\ w \in Seq(Places) /\ Len(w) = 4 * Len(more)
  /\ \A k \in 1..Len(w) : /\ Pos(w[k]) = 4 * Len(told) + 4 + k
                          /\ w[k].from \in 1..Len(told) + Len(more)
                          /\ w[k].byte = (told \o more)[w[k].from][w[k].at]

\* What the MCU writes continues the stream.
LEMMA WriteKeeps ==
  ASSUME NEW s, NEW told, NEW more, NEW w, NEW hit,
         Told(told), Told(more), Carries(s, told), Continues(w, told, more)
  PROVE  /\ Carries(s \o w, told \o more)
         /\ Intact(s, told) => Intact(s \o w, told \o more)
         /\ OneGap(s, told) => OneGap(s \o w, told \o more)
         /\ Guarded(s, told, hit) => Guarded(s \o w, told \o more, hit)
<1> DEFINE all == s \o w
           says == told \o more
<1>1. /\ s \in Seq(Places) /\ Len(s) \in Nat /\ Len(told) \in Nat /\ Len(more) \in Nat
      /\ w \in Seq(Places) /\ Len(w) = 4 * Len(more) /\ Len(w) \in Nat
  BY DEF Carries, Continues, Told
<1>0. /\ Len(s) \in Nat /\ Len(told) \in Nat /\ Len(more) \in Nat /\ Len(w) \in Nat
      /\ Len(w) = 4 * Len(more)
  BY <1>1
<1>2. /\ all \in Seq(Places) /\ Len(all) = Len(s) + Len(w) /\ Len(all) \in Nat
      /\ \A k \in 1..Len(all) : all[k] = IF k <= Len(s) THEN s[k] ELSE w[k - Len(s)]
  <2>1. /\ all \in Seq(Places) /\ Len(all) = Len(s) + Len(w)
        /\ \A k \in 1..Len(s) + Len(w) :
             all[k] = IF k <= Len(s) THEN s[k] ELSE w[k - Len(s)]
    BY <1>1, ConcatProperties
  <2> HIDE DEF all
  <2> QED
    BY <1>0, <2>1
<1>3. /\ Len(says) = Len(told) + Len(more) /\ Len(says) \in Nat
      /\ \A n \in 1..Len(told) : says[n] = told[n]
  <2>1. \A n \in 1..Len(told) + Len(more) :
          says[n] = IF n <= Len(told) THEN told[n] ELSE more[n - Len(told)]
    BY ConcatProperties DEF Told
  <2>2. Len(says) = Len(told) + Len(more)
    BY ConcatProperties DEF Told
  <2> HIDE DEF says
  <2> QED
    BY <1>0, <2>1, <2>2
<1>4. EndPos(told) = 4 * Len(told) + 5 /\ EndPos(says) = 4 * Len(told) + 5 + Len(w)
  BY <1>1, <1>3 DEF EndPos
<1> HIDE DEF all, says
<1>5. ASSUME NEW k \in 1..Len(s)
      PROVE  k \in 1..Len(all) /\ all[k] = s[k] /\ Pos(all[k]) < 4 * Len(told) + 5
             /\ Pos(all[k]) \in Nat
  <2>1. k \in 1..Len(all) /\ all[k] = s[k] /\ s[k] \in Places
    BY <1>1, <1>2
  <2> DEFINE b == s[k]
  <2>2. /\ Pos(b) = 4 * b.from + b.at /\ b.from \in Nat /\ b.at \in 1..4
        /\ Pos(b) \in Nat
    BY <2>1, PosIs
  <2>3. b.from \in 1..Len(told)
    BY DEF Carries
  <2> HIDE DEF b
  <2>4. Pos(b) < 4 * Len(told) + 5
    BY <1>0, <2>2, <2>3
  <2> QED
    BY <2>1, <2>2, <2>4 DEF b
<1>6. ASSUME NEW k \in 1..Len(all), ~(k <= Len(s))
      PROVE  /\ k - Len(s) \in 1..Len(w) /\ all[k] = w[k - Len(s)]
             /\ Pos(all[k]) = 4 * Len(told) + 4 + (k - Len(s))
             /\ Pos(all[k]) \in Nat
  <2>1. k - Len(s) \in 1..Len(w) /\ all[k] = w[k - Len(s)]
    BY <1>1, <1>2, <1>6
  <2>2. Pos(all[k]) = 4 * Len(told) + 4 + (k - Len(s))
    BY <2>1 DEF Continues
  <2> QED
    BY <1>1, <2>1, <2>2
<1>7. Carries(all, says)
  <2>1. ASSUME NEW k \in 1..Len(all)
        PROVE  /\ all[k].from \in 1..Len(says)
               /\ all[k].byte = says[all[k].from][all[k].at]
    <3>1. CASE k <= Len(s)
      <4>1. k \in 1..Len(s)
        BY <1>1, <1>2, <3>1
      <4>2. /\ all[k] = s[k] /\ s[k].from \in 1..Len(told)
            /\ s[k].byte = told[s[k].from][s[k].at]
        BY <1>5, <4>1 DEF Carries
      <4>3. s[k].from \in 1..Len(says) /\ says[s[k].from] = told[s[k].from]
        BY <1>1, <1>3, <4>2
      <4> QED
        BY <4>2, <4>3
    <3>2. CASE ~(k <= Len(s))
      <4>1. k - Len(s) \in 1..Len(w) /\ all[k] = w[k - Len(s)]
        BY <1>6, <3>2
      <4> QED
        BY <1>3, <4>1 DEF says, Continues
    <3> QED
      BY <3>1, <3>2
  <2>2. ASSUME NEW k \in 1..Len(all), NEW l \in 1..Len(all), k < l
        PROVE  Pos(all[k]) < Pos(all[l])
    <3>1. CASE l <= Len(s)
      <4>1. k \in 1..Len(s) /\ l \in 1..Len(s)
        BY <1>1, <1>2, <2>2, <3>1
      <4>2. all[k] = s[k] /\ all[l] = s[l]
        BY <1>5, <4>1
      <4> QED
        BY <2>2, <4>1, <4>2 DEF Carries
    <3>2. CASE k <= Len(s) /\ ~(l <= Len(s))
      <4>1. k \in 1..Len(s)
        BY <1>1, <1>2, <3>2
      <4>2. Pos(all[k]) < 4 * Len(told) + 5 /\ Pos(all[k]) \in Nat
        BY <1>5, <4>1
      <4>3. Pos(all[l]) = 4 * Len(told) + 4 + (l - Len(s)) /\ l - Len(s) \in 1..Len(w)
        BY <1>6, <3>2
      <4> QED
        BY <1>1, <1>4, <4>2, <4>3
    <3>3. CASE ~(k <= Len(s))
      <4>1. ~(l <= Len(s))
        BY <1>1, <1>2, <2>2, <3>3
      <4>2. Pos(all[k]) = 4 * Len(told) + 4 + (k - Len(s))
        BY <1>6, <3>3
      <4>3. Pos(all[l]) = 4 * Len(told) + 4 + (l - Len(s))
        BY <1>6, <4>1
      <4> QED
        BY <1>1, <1>2, <1>4, <2>2, <4>2, <4>3
    <3> QED
      BY <3>1, <3>2, <3>3
  <2> QED
    BY <1>2, <2>1, <2>2 DEF Carries
<1>8. ASSUME NEW k \in 1..Len(s)
      PROVE  After(all, says, k) = After(s, told, k)
  <2>1. CASE k < Len(s)
    <3>1. k + 1 \in 1..Len(s) /\ k < Len(all)
      BY <1>1, <1>2, <2>1
    <3>2. all[k + 1] = s[k + 1]
      BY <1>5, <3>1
    <3> QED
      BY <2>1, <3>1, <3>2 DEF After
  <2>2. CASE ~(k < Len(s)) /\ k < Len(all)
    <3>1. k + 1 \in 1..Len(all) /\ ~(k + 1 <= Len(s)) /\ (k + 1) - Len(s) = 1
      BY <1>1, <1>2, <2>2
    <3>2. Pos(all[k + 1]) = 4 * Len(told) + 4 + ((k + 1) - Len(s))
      BY <1>6, <3>1
    <3>3. Pos(all[k + 1]) = 4 * Len(told) + 5
      BY <1>0, <3>1, <3>2
    <3> QED
      BY <1>4, <2>2, <3>3 DEF After
  <2>3. CASE ~(k < Len(s)) /\ ~(k < Len(all))
    <3>1. Len(w) = 0
      BY <1>1, <1>2, <2>3
    <3>2. 4 * Len(told) + 5 + Len(w) = 4 * Len(told) + 5
      <4>1. Len(told) \in Nat
        BY <1>0
      <4> QED
        BY <3>1, <4>1
    <3> QED
      BY <1>4, <2>3, <3>2 DEF After
  <2> QED
    BY <2>1, <2>2, <2>3
<1>9. ASSUME NEW k \in 1..Len(all), ~(k <= Len(s))
      PROVE  After(all, says, k) = Pos(all[k]) + 1
  <2>1. Pos(all[k]) = 4 * Len(told) + 4 + (k - Len(s))
    BY <1>6, <1>9
  <2>2. CASE k < Len(all)
    <3>1. k + 1 \in 1..Len(all) /\ ~(k + 1 <= Len(s))
      BY <1>1, <1>2, <1>9, <2>2
    <3>2. Pos(all[k + 1]) = 4 * Len(told) + 4 + ((k + 1) - Len(s))
      BY <1>6, <3>1
    <3>3. Pos(all[k + 1]) = Pos(all[k]) + 1
      BY <1>1, <1>4, <2>1, <3>2
    <3> QED
      BY <2>2, <3>3 DEF After
  <2>3. CASE ~(k < Len(all))
    <3>0. k = Len(s) + Len(w)
      BY <1>0, <1>2, <2>3
    <3>1. EndPos(says) = Pos(all[k]) + 1
      BY <1>0, <1>4, <2>1, <3>0
    <3> QED
      BY <2>3, <3>1 DEF After
  <2> QED
    BY <2>2, <2>3
<1>10. \A k \in 1..Len(all) : After(all, says, k) # Pos(all[k]) + 1 =>
          /\ k \in 1..Len(s) /\ all[k] = s[k] /\ After(all, says, k) = After(s, told, k)
  <2> SUFFICES ASSUME NEW k \in 1..Len(all), After(all, says, k) # Pos(all[k]) + 1
               PROVE  /\ k \in 1..Len(s) /\ all[k] = s[k]
                      /\ After(all, says, k) = After(s, told, k)
    OBVIOUS
  <2>1. k <= Len(s)
    BY <1>9
  <2>2. k \in 1..Len(s)
    BY <1>1, <1>2, <2>1
  <2> QED
    BY <1>5, <1>8, <2>2
<1>11. Intact(s, told) => Intact(all, says)
  BY <1>10 DEF Intact
<1>12. OneGap(s, told) => OneGap(all, says)
  BY <1>10 DEF OneGap
<1>13. Guarded(s, told, hit) => Guarded(all, says, hit)
  <2> SUFFICES ASSUME Guarded(s, told, hit),
                      NEW k \in 1..Len(all), NEW m \in Nat, NEW a \in 1..4,
                      m \notin hit, After(all, says, k) = 4 * m + a + 1
               PROVE  Pos(all[k]) = 4 * m + a
    BY DEF Guarded
  <2>1. CASE After(all, says, k) = Pos(all[k]) + 1
    <3>1. Pos(all[k]) \in Nat
      BY <1>1, <1>2, <1>5, <1>6
    <3> QED
      BY <2>1, <3>1
  <2>2. CASE After(all, says, k) # Pos(all[k]) + 1
    BY <1>10, <2>2 DEF Guarded
  <2> QED
    BY <2>1, <2>2
<1> QED
  BY <1>7, <1>11, <1>12, <1>13 DEF all, says

\* The bytes of frames written back to back are where they should be.
LEMMA Fourths ==
  \A k \in Nat : k # 0 =>
    /\ ((k - 1) \div 4) + 1 \in Nat /\ ((k - 1) % 4) + 1 \in 1..4
    /\ 4 * (((k - 1) \div 4) + 1) + ((k - 1) % 4) + 1 = k + 4
OBVIOUS

LEMMA Fourfold ==
  \A l, n, a, k \in Int : 4 * n + a = k + 4 => 4 * (l + n) + a = 4 * l + 4 + k
OBVIOUS

LEMMA ConcatAfter ==
  ASSUME NEW told, NEW more, Told(told), Told(more), NEW n \in 1..Len(more)
  PROVE  (told \o more)[Len(told) + n] = more[n]
<1> DEFINE both == told \o more
           i == Len(told) + n
<1>1. \A l \in 1..Len(told) + Len(more) :
        both[l] = IF l <= Len(told) THEN told[l] ELSE more[l - Len(told)]
  BY ConcatProperties DEF Told
<1>2. Len(told) \in Nat /\ Len(more) \in Nat
  BY DEF Told
<1>3. i \in 1..Len(told) + Len(more) /\ ~(i <= Len(told)) /\ i - Len(told) = n
  BY <1>2
<1> HIDE DEF both, i
<1>4. both[i] = more[i - Len(told)]
  BY <1>1, <1>3
<1> QED
  BY <1>3, <1>4 DEF both, i

LEMMA OnWireIs ==
  ASSUME Told(sent), NEW more, Told(more)
  PROVE  Continues(OnWire(more), sent, more)
<1>1. Len(sent) \in Nat /\ Len(more) \in Nat
  BY DEF Told
<1> DEFINE nth(k) == ((k - 1) \div 4) + 1
           at(k) == ((k - 1) % 4) + 1
           b(k) == [byte |-> more[nth(k)][at(k)], from |-> Len(sent) + nth(k), at |-> at(k)]
<1>2. \A k \in 1..4 * Len(more) :
        nth(k) \in 1..Len(more) /\ at(k) \in 1..4 /\ 4 * nth(k) + at(k) = k + 4
  <2> TAKE k \in 1..4 * Len(more)
  <2>1. k \in Nat /\ k # 0 /\ k <= 4 * Len(more)
    BY <1>1
  <2>2. nth(k) \in Nat /\ at(k) \in 1..4 /\ 4 * nth(k) + at(k) = k + 4
    BY <2>1, Fourths
  <2> HIDE DEF nth, at
  <2> QED
    BY <1>1, <2>1, <2>2
<1> HIDE DEF nth, at
<1>3. \A k \in 1..4 * Len(more) : b(k) \in Places
  <2> TAKE k \in 1..4 * Len(more)
  <2>1. at(k) \in 1..4 /\ nth(k) \in Nat
    BY <1>1, <1>2
  <2> QED
    <3>1. more[nth(k)] \in [1..4 -> Int]
      BY <1>2, ElementOfSeq DEF Told
    <3>2. more[nth(k)][at(k)] \in Int
      BY <2>1, <3>1
    <3>3. Len(sent) + nth(k) \in Nat
      BY <1>1, <2>1
    <3> QED
      BY <2>1, <3>2, <3>3 DEF Places
<1>4. OnWire(more) = [k \in 1..4 * Len(more) |-> b(k)]
  BY DEF OnWire, nth, at
<1>5. OnWire(more) \in Seq(Places) /\ Len(OnWire(more)) = 4 * Len(more)
      /\ \A k \in 1..Len(OnWire(more)) : OnWire(more)[k] = b(k)
  <2>1. 4 * Len(more) \in Nat
    BY <1>1
  <2> HIDE DEF b
  <2> QED
    BY <1>3, <1>4, <2>1
<1>6. \A k \in 1..4 * Len(more) :
        /\ Pos(b(k)) = 4 * Len(sent) + 4 + k
        /\ b(k).from \in 1..Len(sent) + Len(more)
        /\ b(k).byte = (sent \o more)[b(k).from][b(k).at]
  <2> TAKE k \in 1..4 * Len(more)
  <2>1. nth(k) \in 1..Len(more) /\ at(k) \in 1..4 /\ 4 * nth(k) + at(k) = k + 4
    BY <1>2
  <2>2. Pos(b(k)) = 4 * (Len(sent) + nth(k)) + at(k)
    BY DEF Pos
  <2>3. Pos(b(k)) = 4 * Len(sent) + 4 + k
    <3>1. 4 * (Len(sent) + nth(k)) + at(k) = 4 * Len(sent) + 4 + k
      <4>1. Len(sent) \in Int /\ nth(k) \in Int /\ at(k) \in Int /\ k \in Int
        BY <1>1, <2>1
      <4> QED
        BY <2>1, <4>1, Fourfold
    <3> QED
      BY <2>2, <3>1
  <2>4. Len(sent) + nth(k) \in 1..Len(sent) + Len(more)
    BY <1>1, <2>1
  <2>5. (sent \o more)[Len(sent) + nth(k)] = more[nth(k)]
    BY <2>1, ConcatAfter
  <2> QED
    BY <2>3, <2>4, <2>5
<1> HIDE DEF b
<1> QED
  BY <1>5, <1>6 DEF Continues

-----------------------------------------------------------------------------
\* Frames, and what four bytes of them can be.
Frames == Known \cup { SaveAddr(a) : a \in Addresses }

FrameLike(f) ==
  /\ f \in [1..4 -> Int] /\ f[1] = 251 /\ f[2] \in 17..36 /\ f[3] \in 0..250
  /\ f[4] = (251 + f[2] + f[3]) % 240

LEMMA FrameOfIs ==
  ASSUME NEW cmd \in 17..36, NEW data \in 0..250
  PROVE  /\ FrameLike(FrameOf(cmd, data))
         /\ FrameOf(cmd, data)[2] = cmd /\ FrameOf(cmd, data)[3] = data
<1> DEFINE sum == (Marker + cmd + data) % 240
<1>1. sum \in Int /\ sum = (251 + cmd + data) % 240
  BY DEF Marker
<1> HIDE DEF sum
<1>2. FrameOf(cmd, data) = << 251, cmd, data, sum >>
  BY DEF FrameOf, Marker, sum
<1> DEFINE f == << 251, cmd, data, sum >>
<1>3. f \in [1..4 -> Int] /\ f[1] = 251 /\ f[2] = cmd /\ f[3] = data /\ f[4] = sum
  BY <1>1
<1> HIDE DEF f
<1> QED
  BY <1>1, <1>2, <1>3 DEF f, FrameLike

LEMMA KnownIs == \A f \in Known : FrameLike(f) /\ f[3] \in 0..2 /\ f[2] # 24
<1> SUFFICES ASSUME NEW cmd \in 17..36, NEW data \in 0..2, cmd # 24
             PROVE  LET f == FrameOf(cmd, data)
                    IN  FrameLike(f) /\ f[3] \in 0..2 /\ f[2] # 24
  BY DEF Known, Alarm, HangUp0, HangUp1, StartCall, McuState0, McuState1,
         PushState0, PushState1, CmdReset, StaToAp, Handset, LongDown1, LongDown2
<1>1. data \in 0..250
  OBVIOUS
<1> QED
  BY <1>1, FrameOfIs

LEMMA FramesAre == \A f \in Frames : FrameLike(f) /\ f \in [1..4 -> Int]
<1>1. \A a \in Addresses : FrameLike(SaveAddr(a))
  <2> TAKE a \in Addresses
  <2>1. 24 \in 17..36 /\ a \in 0..250
    BY PanelAssumption
  <2> QED
    BY <2>1, FrameOfIs DEF SaveAddr
<1> QED
  BY <1>1, KnownIs DEF Frames, FrameLike

\* Command and data make a frame, and so do data and sum, of the table's frames.
LEMMA SameFrame ==
  ASSUME NEW f, NEW g, FrameLike(f), FrameLike(g), f[3] = g[3],
         f[2] = g[2] \/ f[4] = g[4]
  PROVE  f = g
<1>1. \A c, d \in 17..36, x \in 0..250 :
        (251 + c + x) % 240 = (251 + d + x) % 240 => c = d
  OBVIOUS
<1>2. f[2] = g[2]
  <2>1. f[2] \in 17..36 /\ g[2] \in 17..36 /\ f[3] \in 0..250
    BY DEF FrameLike
  <2>2. f[4] = g[4] => (251 + f[2] + f[3]) % 240 = (251 + g[2] + f[3]) % 240
    BY DEF FrameLike
  <2> DEFINE c == f[2]
             d == g[2]
             x == f[3]
  <2>3. (251 + c + x) % 240 = (251 + d + x) % 240 => c = d
    <3> HIDE DEF c, d, x
    <3>1. c \in 17..36 /\ d \in 17..36 /\ x \in 0..250
      BY <2>1 DEF c, d, x
    <3> QED
      BY <1>1, <3>1
  <2> QED
    BY <2>2, <2>3, Zenon
<1>3. f[1] = g[1] /\ f[4] = g[4]
  BY <1>2 DEF FrameLike
<1>4. \A i \in 1..4 : i = 1 \/ i = 2 \/ i = 3 \/ i = 4
  OBVIOUS
<1> QED
  BY <1>2, <1>3, <1>4 DEF FrameLike

LEMMA FrameBytes ==
  ASSUME NEW f, FrameLike(f)
  PROVE  /\ f[1] = 251 /\ f[2] \in 17..36 /\ f[3] \in 0..250 /\ f[4] \in 0..239
         /\ f[2] # 251 /\ f[4] # 251
<1>1. \A x \in Int : x % 240 \in 0..239
  OBVIOUS
<1>2. f[4] \in 0..239
  BY <1>1 DEF FrameLike
<1>3. f[1] = 251 /\ f[2] \in 17..36 /\ f[3] \in 0..250
  BY DEF FrameLike
<1> QED
  BY <1>2, <1>3

LEMMA Successor ==
  ASSUME NEW b \in Places, NEW c \in Places
  PROVE  /\ Pos(c) = Pos(b) + 1 =>
              /\ b.at = 1 => c.from = b.from /\ c.at = 2
              /\ b.at = 2 => c.from = b.from /\ c.at = 3
              /\ b.at = 3 => c.from = b.from /\ c.at = 4
              /\ b.at = 4 => c.from = b.from + 1 /\ c.at = 1
         /\ Pos(b) < Pos(c) => /\ b.from <= c.from
                               /\ c.at = 1 => b.from < c.from
<1>1. /\ b.from \in Nat /\ b.at \in 1..4 /\ c.from \in Nat /\ c.at \in 1..4
      /\ Pos(b) = 4 * b.from + b.at /\ Pos(c) = 4 * c.from + c.at
  BY PosIs
<1>2. \A m, n \in Nat, i, j \in 1..4 :
        /\ 4 * n + j = 4 * m + i + 1 =>
             /\ i = 1 => n = m /\ j = 2
             /\ i = 2 => n = m /\ j = 3
             /\ i = 3 => n = m /\ j = 4
             /\ i = 4 => n = m + 1 /\ j = 1
        /\ 4 * m + i < 4 * n + j => m <= n /\ (j = 1 => m < n)
  OBVIOUS
<1> QED
  BY <1>1, <1>2

\* A byte of the stream of frames told.
ByteOf(b, told) ==
  b \in Places /\ b.from \in 1..Len(told) /\ b.byte = told[b.from][b.at]

\* Four bytes with one gap among them that read as a frame of the table are a
\* frame that was sent: it ends where they end, or begins where they begin.
LEMMA FourBytes ==
  ASSUME NEW told, \A n \in 1..Len(told) : FrameLike(told[n]),
         NEW b1, NEW b2, NEW b3, NEW b4,
         ByteOf(b1, told), ByteOf(b2, told), ByteOf(b3, told), ByteOf(b4, told),
         b1.at = 1, Pos(b1) < Pos(b4),
         \/ Pos(b2) = Pos(b1) + 1 /\ Pos(b3) = Pos(b2) + 1
         \/ Pos(b2) = Pos(b1) + 1 /\ Pos(b4) = Pos(b3) + 1
         \/ Pos(b3) = Pos(b2) + 1 /\ Pos(b4) = Pos(b3) + 1,
         NEW f, FrameLike(f), f[3] \in 0..2,
         b1.byte = f[1], b2.byte = f[2], b3.byte = f[3], b4.byte = f[4]
  PROVE  told[b1.from] = f \/ told[b4.from] = f
<1> DEFINE F == told[b1.from]
           G == told[b4.from]
<1>0. FrameLike(F) /\ FrameLike(G)
  BY DEF ByteOf
<1>1. f[2] # 251 /\ f[3] # 251 /\ f[4] # 251 /\ f[3] \notin 17..36
  <2>1. f[2] # 251 /\ f[4] # 251
    BY FrameBytes
  <2>2. \A x \in 0..2 : x # 251 /\ x \notin 17..36
    OBVIOUS
  <2> QED
    BY <2>1, <2>2, Zenon
<1>2. \A b : ByteOf(b, told) =>
        /\ b.at \in 1..4
        /\ b.at = 1 => b.byte = 251
        /\ b.at = 2 => b.byte \in 17..36
  <2> SUFFICES ASSUME NEW b, ByteOf(b, told)
               PROVE  /\ b.at \in 1..4
                      /\ b.at = 1 => b.byte = 251
                      /\ b.at = 2 => b.byte \in 17..36
    OBVIOUS
  <2>1. FrameLike(told[b.from]) /\ b.byte = told[b.from][b.at] /\ b.at \in 1..4
    BY PosIs DEF ByteOf
  <2> QED
    BY <2>1, FrameBytes
<1>3. b2.at # 1 /\ b3.at # 1 /\ b4.at # 1
  <2>1. b2.byte # 251 /\ b3.byte # 251 /\ b4.byte # 251
    BY <1>1, Zenon
  <2> QED
    BY <1>2, <2>1
<1>4. b3.at # 2
  <2>1. b3.byte \notin 17..36
    BY <1>1, Zenon
  <2> QED
    BY <1>2, <2>1
<1>5. /\ b1 \in Places /\ b2 \in Places /\ b3 \in Places /\ b4 \in Places
      /\ b2.at \in 1..4 /\ b3.at \in 1..4 /\ b4.at \in 1..4
  BY <1>2 DEF ByteOf
<1>6. CASE Pos(b2) = Pos(b1) + 1 /\ Pos(b3) = Pos(b2) + 1
  <2>1. b2.from = b1.from /\ b2.at = 2
    BY <1>5, <1>6, Successor
  <2>2. b3.from = b1.from /\ b3.at = 3
    BY <1>5, <1>6, <2>1, Successor
  <2>3. f[2] = F[2] /\ f[3] = F[3]
    BY <2>1, <2>2 DEF ByteOf
  <2> QED
    BY <1>0, <2>3, SameFrame
<1>7. CASE Pos(b2) = Pos(b1) + 1 /\ Pos(b4) = Pos(b3) + 1
  <2>1. b3.at = 3
    <3>1. b3.at # 4
      BY <1>3, <1>5, <1>7, Successor
    <3> QED
      BY <1>3, <1>4, <1>5, <3>1
  <2>2. b4.from = b3.from /\ b4.at = 4
    BY <1>5, <1>7, <2>1, Successor
  <2>3. f[3] = G[3] /\ f[4] = G[4]
    BY <2>1, <2>2 DEF ByteOf
  <2> QED
    BY <1>0, <2>3, SameFrame
<1>8. CASE Pos(b3) = Pos(b2) + 1 /\ Pos(b4) = Pos(b3) + 1
  <2>1. b2.at # 4
    BY <1>3, <1>5, <1>8, Successor
  <2>2. b2.at # 3
    <3> SUFFICES ASSUME b2.at = 3 PROVE FALSE
      OBVIOUS
    <3>1. b3.at = 4
      BY <1>5, <1>8, Successor
    <3> QED
      BY <1>3, <1>5, <1>8, <3>1, Successor
  <2>3. b2.at = 2
    BY <1>3, <1>5, <2>1, <2>2
  <2>4. b3.from = b2.from /\ b3.at = 3
    BY <1>5, <1>8, <2>3, Successor
  <2>5. b4.from = b2.from
    BY <1>5, <1>8, <2>4, Successor
  <2>6. f[2] = G[2] /\ f[3] = G[3]
    BY <2>3, <2>4, <2>5 DEF ByteOf
  <2> QED
    BY <1>0, <2>6, SameFrame
<1> QED
  BY <1>6, <1>7, <1>8

-----------------------------------------------------------------------------
\* How the monitor cuts the stream.
LEMMA JoinedIs ==
  ASSUME NEW fr \in Seq(Places), NEW w \in Seq(Places)
  PROVE  /\ fr \o w \in Seq(Places) /\ Len(fr \o w) = Len(fr) + Len(w)
         /\ \A k \in 1..Len(fr) : (fr \o w)[k] = fr[k]
         /\ \A k \in 1..Len(w) : (fr \o w)[Len(fr) + k] = w[k]
<1> DEFINE all == fr \o w
<1>1. /\ all \in Seq(Places) /\ Len(all) = Len(fr) + Len(w)
      /\ \A k \in 1..Len(fr) + Len(w) :
           all[k] = IF k <= Len(fr) THEN fr[k] ELSE w[k - Len(fr)]
  BY ConcatProperties
<1>2. Len(fr) \in Nat /\ Len(w) \in Nat
  OBVIOUS
<1> HIDE DEF all
<1>3. \A k \in 1..Len(fr) : all[k] = fr[k]
  BY <1>1, <1>2
<1>4. ASSUME NEW k \in 1..Len(w) PROVE all[Len(fr) + k] = w[k]
  <2> DEFINE i == Len(fr) + k
  <2>1. i \in 1..Len(fr) + Len(w) /\ ~(i <= Len(fr)) /\ i - Len(fr) = k
    BY <1>2
  <2> HIDE DEF i
  <2>2. all[i] = w[i - Len(fr)]
    BY <1>1, <2>1
  <2> QED
    BY <2>1, <2>2 DEF i
<1> QED
  BY <1>1, <1>3, <1>4 DEF all

LEMMA DroppedBehind ==
  ASSUME NEW fr \in Seq(Places), NEW w \in Seq(Places), NEW j \in 0..Len(w)
  PROVE  Len(fr) + j \in 0..Len(fr \o w) /\ Dropped(fr \o w, Len(fr) + j) = Dropped(w, j)
<1> DEFINE s == fr \o w
           i == Len(fr) + j
<1>1. /\ s \in Seq(Places) /\ Len(s) = Len(fr) + Len(w)
      /\ \A k \in 1..Len(w) : s[Len(fr) + k] = w[k]
  BY JoinedIs
<1>2. Len(fr) \in Nat /\ Len(w) \in Nat
  OBVIOUS
<1>3. i \in 0..Len(s)
  BY <1>1, <1>2
<1> HIDE DEF s
<1>4. /\ Dropped(s, i) \in Seq(Places) /\ Len(Dropped(s, i)) = Len(s) - i
      /\ \A k \in 1..Len(s) - i : Dropped(s, i)[k] = s[k + i]
  BY <1>1, <1>3, DroppedIs
<1>5. /\ Dropped(w, j) \in Seq(Places) /\ Len(Dropped(w, j)) = Len(w) - j
      /\ \A k \in 1..Len(w) - j : Dropped(w, j)[k] = w[k + j]
  BY DroppedIs
<1>6. Len(s) - i = Len(w) - j
  BY <1>1, <1>2
<1>7. ASSUME NEW k \in 1..Len(w) - j PROVE Dropped(s, i)[k] = Dropped(w, j)[k]
  <2>1. k + j \in 1..Len(w) /\ k + i = Len(fr) + (k + j)
    BY <1>2
  <2>2. s[Len(fr) + (k + j)] = w[k + j]
    BY <1>1, <2>1
  <2>3. Dropped(s, i)[k] = s[k + i]
    BY <1>4, <1>6
  <2> HIDE DEF i
  <2> QED
    BY <1>5, <2>1, <2>2, <2>3
<1>8. Dropped(s, i) = Dropped(w, j)
  <2> HIDE DEF i
  <2> DEFINE x == Dropped(s, i)
             y == Dropped(w, j)
  <2>1. x \in Seq(Places) /\ y \in Seq(Places) /\ Len(x) = Len(y)
        /\ \A k \in 1..Len(x) : x[k] = y[k]
    BY <1>4, <1>5, <1>6, <1>7
  <2> HIDE DEF x, y
  <2>2. x = y
    BY <2>1, SeqEqual
  <2> QED
    BY <2>2 DEF x, y
<1> QED
  BY <1>3, <1>8 DEF s

LEMMA CutBehind ==
  ASSUME NEW fr \in Seq(Places), NEW w \in Seq(Places), NEW i \in 1..Len(w),
         NEW n \in Nat, n > 0, i + n - 1 <= Len(w)
  PROVE  /\ Cut(w, i, n) \in Seq(Places)
         /\ fr \o Cut(w, i, n) = Cut(fr \o w, Len(fr) + i, n)
<1> DEFINE s == fr \o w
           j == Len(fr) + i
           c == Cut(w, i, n)
           x == fr \o c
           y == Cut(s, j, n)
<1>1. /\ s \in Seq(Places) /\ Len(s) = Len(fr) + Len(w)
      /\ \A k \in 1..Len(fr) : s[k] = fr[k]
      /\ \A k \in 1..Len(w) : s[Len(fr) + k] = w[k]
  BY JoinedIs
<1>2. Len(fr) \in Nat /\ Len(w) \in Nat
  OBVIOUS
<1>3. j \in 1..Len(s) /\ j + n - 1 <= Len(s)
  BY <1>1, <1>2
<1>4. /\ c \in Seq(Places) /\ Len(c) = Len(w) - n
      /\ \A k \in 1..Len(w) - n : c[k] = IF k < i THEN w[k] ELSE w[k + n]
  BY CutIs
<1> HIDE DEF s, c, j
<1>5. /\ y \in Seq(Places) /\ Len(y) = Len(s) - n
      /\ \A k \in 1..Len(s) - n : y[k] = IF k < j THEN s[k] ELSE s[k + n]
  BY <1>1, <1>3, CutIs
<1>6. /\ x \in Seq(Places) /\ Len(x) = Len(fr) + Len(c)
      /\ \A k \in 1..Len(fr) : x[k] = fr[k]
      /\ \A k \in 1..Len(c) : x[Len(fr) + k] = c[k]
  BY <1>4, JoinedIs
<1> HIDE DEF x, y
<1>7. Len(x) = Len(y) /\ Len(x) = Len(fr) + (Len(w) - n) /\ Len(w) - n \in Nat
  BY <1>1, <1>2, <1>4, <1>5, <1>6
<1>8. ASSUME NEW k \in 1..Len(x) PROVE x[k] = y[k]
  <2>1. k \in 1..Len(s) - n
    BY <1>1, <1>2, <1>7
  <2>2. CASE k <= Len(fr)
    <3>1. k \in 1..Len(fr) /\ k < j
      BY <1>2, <2>2 DEF j
    <3> QED
      BY <1>1, <1>5, <1>6, <2>1, <3>1
  <2>3. CASE ~(k <= Len(fr))
    <3> DEFINE l == k - Len(fr)
    <3>1. l \in 1..Len(c) /\ l \in 1..Len(w) - n /\ Len(fr) + l = k /\ (k < j <=> l < i)
      BY <1>2, <1>4, <1>7, <2>3 DEF j
    <3>2. k + n = Len(fr) + (l + n) /\ l + n \in 1..Len(w) /\ (l < i => l \in 1..Len(w))
      BY <1>2, <3>1
    <3> HIDE DEF l
    <3>3. x[k] = c[l]
      BY <1>6, <3>1
    <3>4. CASE l < i
      <4>1. c[l] = w[l] /\ y[k] = s[k]
        BY <1>4, <1>5, <2>1, <3>1, <3>4
      <4>2. s[Len(fr) + l] = w[l]
        BY <1>1, <3>2, <3>4
      <4> QED
        BY <3>1, <3>3, <4>1, <4>2
    <3>5. CASE ~(l < i)
      <4>1. c[l] = w[l + n] /\ y[k] = s[k + n]
        BY <1>4, <1>5, <2>1, <3>1, <3>5
      <4>2. s[Len(fr) + (l + n)] = w[l + n]
        BY <1>1, <3>2
      <4> QED
        BY <3>2, <3>3, <4>1, <4>2
    <3> QED
      BY <3>4, <3>5
  <2> QED
    BY <2>2, <2>3
<1>9. x = y
  BY <1>5, <1>6, <1>7, <1>8, SeqEqual
<1> QED
  BY <1>4, <1>9 DEF x, y, c, s, j

\* The bytes that a read takes off the wire.
LEMMA ReadsAre ==
  ASSUME NEW fr \in Seq(Places), NEW w \in Seq(Places), w # << >>
  PROVE  /\ Tail(w) \in Seq(Places) /\ Head(w) \in Places
         /\ Append(fr, Head(w)) \in Seq(Places)
         /\ << >> \o Tail(w) = Dropped(fr \o w, Len(fr) + 1)
         /\ Append(fr, Head(w)) \o Tail(w) = fr \o w
         /\ Len(fr) + 1 \in 1..Len(fr \o w)
         /\ (fr \o w)[Len(fr) + 1] = Head(w)
<1>1. Len(w) \in Nat /\ Len(w) # 0 /\ Len(fr) \in Nat
  OBVIOUS
<1>2. /\ Tail(w) \in Seq(Places) /\ Head(w) \in Places
      /\ Len(Tail(w)) = Len(w) - 1
      /\ \A k \in 1..Len(Tail(w)) : Tail(w)[k] = w[k + 1]
  BY HeadTailProperties
<1>3. Head(w) = w[1]
  BY <1>1
<1>4. Tail(w) = Dropped(w, 1)
  BY TailIsSubSeq DEF Dropped
<1>5. 1 \in 0..Len(w) /\ 1 \in 1..Len(w)
  BY <1>1
<1>6. << >> \o Tail(w) = Dropped(fr \o w, Len(fr) + 1)
  BY <1>2, <1>4, <1>5, DroppedBehind, ConcatEmptySeq
<1> DEFINE more == Append(fr, Head(w))
           rest == Tail(w)
           x == more \o rest
           y == fr \o w
<1>7. /\ more \in Seq(Places) /\ Len(more) = Len(fr) + 1
      /\ \A k \in 1..Len(fr) : more[k] = fr[k]
      /\ more[Len(fr) + 1] = w[1]
  BY <1>2, <1>3, AppendProperties
<1>8. /\ y \in Seq(Places) /\ Len(y) = Len(fr) + Len(w)
      /\ \A k \in 1..Len(fr) : y[k] = fr[k]
      /\ \A k \in 1..Len(w) : y[Len(fr) + k] = w[k]
  BY JoinedIs
<1> HIDE DEF more, y
<1>9. /\ x \in Seq(Places) /\ Len(x) = Len(more) + Len(rest)
      /\ \A k \in 1..Len(more) : x[k] = more[k]
      /\ \A k \in 1..Len(rest) : x[Len(more) + k] = rest[k]
  BY <1>2, <1>7, JoinedIs
<1> HIDE DEF x
<1>10. Len(rest) = Len(w) - 1 /\ \A k \in 1..Len(rest) : rest[k] = w[k + 1]
  BY <1>2
<1> HIDE DEF rest
<1>11. Len(x) = Len(y)
  BY <1>1, <1>7, <1>8, <1>9, <1>10
<1>12. ASSUME NEW k \in 1..Len(y) PROVE x[k] = y[k]
  <2>1. CASE k <= Len(fr)
    <3>1. k \in 1..Len(fr) /\ k \in 1..Len(more)
      BY <1>1, <1>7, <2>1
    <3> QED
      BY <1>7, <1>8, <1>9, <3>1
  <2>2. CASE k = Len(fr) + 1
    <3>1. k \in 1..Len(more) /\ k = Len(fr) + 1
      BY <1>1, <1>7, <2>2
    <3>2. x[k] = w[1]
      BY <1>7, <1>9, <3>1
    <3> QED
      BY <1>5, <1>8, <3>1, <3>2
  <2>3. CASE k > Len(fr) + 1
    <3> DEFINE l == k - (Len(fr) + 1)
    <3>1. l \in 1..Len(rest) /\ Len(more) + l = k /\ Len(fr) + (l + 1) = k
          /\ l + 1 \in 1..Len(w)
      BY <1>1, <1>7, <1>8, <1>10, <2>3
    <3> HIDE DEF l
    <3>2. x[k] = rest[l] /\ rest[l] = w[l + 1]
      BY <1>9, <1>10, <3>1
    <3>3. y[Len(fr) + (l + 1)] = w[l + 1]
      BY <1>8, <3>1
    <3> QED
      BY <3>1, <3>2, <3>3
  <2>4. k <= Len(fr) \/ k = Len(fr) + 1 \/ k > Len(fr) + 1
    BY <1>1, <1>8
  <2> QED
    BY <2>1, <2>2, <2>3, <2>4
<1>13. x = y
  BY <1>8, <1>9, <1>11, <1>12, SeqEqual
<1>14. Len(fr) + 1 \in 1..Len(y) /\ y[Len(fr) + 1] = w[1]
  BY <1>1, <1>5, <1>8
<1> QED
  BY <1>2, <1>3, <1>6, <1>7, <1>13, <1>14 DEF x, y, more, rest

-----------------------------------------------------------------------------
\* What is left on the stream is newer than the last frame acted on, and has as
\* few gaps as there were faults.
Newer(s, last) == \A k \in 1..Len(s) : s[k].at = 1 => last < s[k].from

Sound(s, told, last, faults) ==
  /\ Told(told) /\ Carries(s, told)
  /\ last \in Nat /\ last <= Len(told) /\ Newer(s, last)
  /\ faults \in Nat
  /\ faults = 0 => Intact(s, told)
  /\ faults <= 1 => OneGap(s, told)

LEMMA SoundIs ==
  ASSUME NEW s, NEW told, NEW last, NEW faults, Sound(s, told, last, faults)
  PROVE  /\ Told(told) /\ Carries(s, told) /\ Len(told) \in Nat
         /\ last \in Nat /\ last <= Len(told) /\ faults \in Nat
         /\ s \in Seq(Places) /\ Len(s) \in Nat
         /\ \A k \in 1..Len(s) : ByteOf(s[k], told)
         /\ \A k, l \in 1..Len(s) : k < l => Pos(s[k]) < Pos(s[l])
<1>1. /\ Told(told) /\ Carries(s, told)
      /\ last \in Nat /\ last <= Len(told) /\ faults \in Nat
  BY DEF Sound
<1>2. Len(told) \in Nat
  BY <1>1 DEF Told
<1>3. /\ s \in Seq(Places) /\ Len(s) \in Nat
      /\ \A k \in 1..Len(s) : s[k] \in Places
  BY <1>1, CarriedIs
<1>4. /\ \A k \in 1..Len(s) : /\ s[k].from \in 1..Len(told)
                              /\ s[k].byte = told[s[k].from][s[k].at]
      /\ \A k, l \in 1..Len(s) : k < l => Pos(s[k]) < Pos(s[l])
  BY <1>1, Zenon DEF Carries
<1>5. \A k \in 1..Len(s) : ByteOf(s[k], told)
  BY <1>3, <1>4, Zenon DEF ByteOf
<1> QED
  BY <1>1, <1>2, <1>3, <1>4, <1>5, Zenon

LEMMA IntactHasOneGap ==
  ASSUME NEW s, NEW told, Intact(s, told)
  PROVE  OneGap(s, told)
BY DEF Intact, OneGap

LEMMA SoundDrop ==
  ASSUME NEW s, NEW told, NEW last, NEW faults, Sound(s, told, last, faults),
         NEW j \in 0..Len(s)
  PROVE  Sound(Dropped(s, j), told, last, faults)
<1>1. s \in Seq(Places) /\ Len(s) \in Nat /\ Len(told) \in Nat /\ Carries(s, told)
  BY SoundIs
<1> DEFINE d == Dropped(s, j)
<1>2. /\ Carries(d, told) /\ (Intact(s, told) => Intact(d, told))
      /\ OneGap(s, told) => OneGap(d, told)
  BY <1>1, DropKeeps
<1>3. Len(d) = Len(s) - j /\ \A k \in 1..Len(s) - j : d[k] = s[k + j]
  BY <1>1, DroppedIs
<1> HIDE DEF d
<1>4. ASSUME NEW k \in 1..Len(d) PROVE k + j \in 1..Len(s) /\ d[k] = s[k + j]
  BY <1>1, <1>3
<1>5. Newer(s, last) => Newer(d, last)
  BY <1>4 DEF Newer
<1> QED
  BY <1>2, <1>5 DEF Sound, d

LEMMA SoundNext ==
  ASSUME NEW s, NEW told, NEW last, NEW faults, Sound(s, told, last, faults),
         NEW j \in 1..Len(s), NEW n \in 1..Len(told), n <= s[j].from
  PROVE  Sound(Dropped(s, j), told, n, faults)
<1>1. /\ s \in Seq(Places) /\ Len(s) \in Nat /\ Len(told) \in Nat
      /\ \A k, l \in 1..Len(s) : k < l => Pos(s[k]) < Pos(s[l])
  BY SoundIs
<1>2. j \in 0..Len(s) /\ s[j] \in Places
  BY <1>1
<1> DEFINE d == Dropped(s, j)
<1>3. Sound(d, told, last, faults)
  BY <1>2, SoundDrop
<1>4. Len(d) = Len(s) - j /\ \A k \in 1..Len(s) - j : d[k] = s[k + j]
  BY <1>1, <1>2, DroppedIs
<1> HIDE DEF d
<1>5. ASSUME NEW k \in 1..Len(d), d[k].at = 1 PROVE n < d[k].from
  <2>1. k + j \in 1..Len(s) /\ d[k] = s[k + j] /\ j < k + j
    BY <1>1, <1>4
  <2>2. s[k + j] \in Places /\ Pos(s[j]) < Pos(s[k + j])
    BY <1>1, <2>1
  <2>3. s[j].from < s[k + j].from
    BY <1>2, <1>5, <2>1, <2>2, Successor
  <2>4. s[j].from \in Nat /\ s[k + j].from \in Nat
    BY <1>2, <2>2, PosIs
  <2>5. n \in Nat
    BY <1>1
  <2> DEFINE p == s[j].from
             q == s[k + j].from
  <2>6. p \in Nat /\ q \in Nat /\ p < q /\ n <= p
    BY <2>3, <2>4
  <2> HIDE DEF p, q
  <2>7. n < q
    BY <2>5, <2>6
  <2> QED
    BY <2>1, <2>7 DEF q
<1>6. Newer(d, n)
  BY <1>5 DEF Newer
<1>7. n \in Nat /\ n <= Len(told)
  BY <1>1
<1> QED
  BY <1>3, <1>6, <1>7 DEF Sound, d

LEMMA SoundCut ==
  ASSUME NEW s, NEW told, NEW last, NEW faults, Sound(s, told, last, faults),
         NEW i \in 1..Len(s), NEW n \in Nat, n > 0, i + n - 1 <= Len(s)
  PROVE  Sound(Cut(s, i, n), told, last, faults + 1)
<1>1. /\ s \in Seq(Places) /\ Len(s) \in Nat /\ Len(told) \in Nat /\ Carries(s, told)
      /\ faults \in Nat
  BY SoundIs
<1> DEFINE c == Cut(s, i, n)
<1>2. Carries(c, told) /\ (Intact(s, told) => OneGap(c, told))
  BY <1>1, CutKeeps
<1>3. /\ Len(c) = Len(s) - n
      /\ \A k \in 1..Len(s) - n : c[k] = IF k < i THEN s[k] ELSE s[k + n]
  BY <1>1, CutIs
<1> HIDE DEF c
<1>4. ASSUME NEW k \in 1..Len(c) PROVE \E l \in 1..Len(s) : c[k] = s[l]
  <2>1. CASE k < i
    <3>1. k \in 1..Len(s) /\ c[k] = s[k]
      BY <1>1, <1>3, <2>1
    <3> QED
      BY <3>1
  <2>2. CASE ~(k < i)
    <3>1. k + n \in 1..Len(s) /\ c[k] = s[k + n]
      BY <1>1, <1>3, <2>2
    <3> QED
      BY <3>1
  <2> QED
    BY <2>1, <2>2
<1>5. Newer(s, last) => Newer(c, last)
  BY <1>4 DEF Newer
<1>6. faults + 1 \in Nat /\ faults + 1 # 0 /\ (faults + 1 <= 1 => faults = 0)
  BY <1>1
<1> HIDE DEF c
<1>7. Told(told) /\ last \in Nat /\ last <= Len(told) /\ Newer(c, last)
  BY <1>5 DEF Sound
<1>8. faults + 1 <= 1 => OneGap(c, told)
  BY <1>2, <1>6 DEF Sound
<1> QED
  BY <1>2, <1>6, <1>7, <1>8 DEF Sound, c

LEMMA SoundWrite ==
  ASSUME NEW s, NEW told, NEW last, NEW faults, Sound(s, told, last, faults),
         NEW more, NEW w, Told(more), Continues(w, told, more)
  PROVE  Sound(s \o w, told \o more, last, faults)
<1>1. /\ s \in Seq(Places) /\ Len(s) \in Nat /\ Told(told) /\ Len(told) \in Nat
      /\ Carries(s, told) /\ last \in Nat /\ last <= Len(told)
  BY SoundIs
<1>2. /\ Carries(s \o w, told \o more)
      /\ Intact(s, told) => Intact(s \o w, told \o more)
      /\ OneGap(s, told) => OneGap(s \o w, told \o more)
  BY <1>1, WriteKeeps
<1>3. Told(told \o more) /\ Len(told \o more) = Len(told) + Len(more)
      /\ Len(more) \in Nat
  BY <1>1, ConcatProperties DEF Told
<1>4. last <= Len(told) + Len(more)
  BY <1>1, <1>3
<1>5. w \in Seq(Places) /\ Len(w) \in Nat
      /\ \A k \in 1..Len(w) : Pos(w[k]) = 4 * Len(told) + 4 + k
  BY <1>3 DEF Continues
<1> DEFINE all == s \o w
<1>6. /\ Len(all) = Len(s) + Len(w)
      /\ \A k \in 1..Len(s) : all[k] = s[k]
      /\ \A k \in 1..Len(w) : all[Len(s) + k] = w[k]
  BY <1>1, <1>5, JoinedIs
<1> HIDE DEF all
<1>7. ASSUME Newer(s, last), NEW k \in 1..Len(all), all[k].at = 1
      PROVE  last < all[k].from
  <2>1. CASE k <= Len(s)
    <3>1. k \in 1..Len(s)
      BY <1>1, <2>1
    <3> QED
      BY <1>6, <1>7, <3>1 DEF Newer
  <2>2. CASE ~(k <= Len(s))
    <3> DEFINE l == k - Len(s)
               b == w[l]
    <3>1. l \in 1..Len(w) /\ Len(s) + l = k
      BY <1>1, <1>5, <1>6, <2>2
    <3> HIDE DEF l
    <3>2. all[k] = b /\ Pos(b) = 4 * Len(told) + 4 + l /\ b \in Places
      BY <1>5, <1>6, <3>1
    <3>3. Pos(b) = 4 * b.from + b.at /\ b.from \in Nat
      BY <3>2, PosIs
    <3>4. b.at = 1
      BY <1>7, <3>2
    <3> HIDE DEF b
    <3>5. 4 * b.from + 1 = 4 * Len(told) + 4 + l
      BY <3>2, <3>3, <3>4
    <3>6. last < b.from
      BY <1>1, <1>5, <3>1, <3>3, <3>5
    <3> QED
      BY <3>2, <3>6
  <2> QED
    BY <2>1, <2>2
<1>8. Newer(s, last) => Newer(all, last)
  BY <1>7 DEF Newer
<1> QED
  BY <1>2, <1>3, <1>4, <1>8 DEF Sound, all

-----------------------------------------------------------------------------
\* The state of the stream.
UartTypeOK ==
  /\ sent \in Seq(Frames) /\ frame \in Seq(Places) /\ wire \in Seq(Places)
  /\ Len(frame) <= 3 /\ (~port => frame = << >>)
  /\ frame # << >> => frame[1].at = 1

UartInv == UartTypeOK /\ Sound(Stream, sent, taken, bursts)

\* What a step does with the stream.
Calm == UNCHANGED << wire, port, frame, traceVars, bursts >>

Writes == \E more \in Seq(Frames) :
  /\ sent' = sent \o more /\ wire' = wire \o OnWire(more)
  /\ UNCHANGED << port, frame, taken, acted, seen, touched, bursts >>

FindsKnown == \E f \in Known : Finds(f)
FindsAddress ==
  /\ Assembled[1] = Marker /\ Assembled[2] = 24
  /\ seen' = seen \cup { Head(wire).from } /\ UNCHANGED << taken, acted >>
FindsNothing ==
  /\ Assembled[2] # 24 /\ Assembled \notin Known
  /\ UNCHANGED << taken, acted, seen >>

\* A frame is read, and may be answered at once.
Reads == /\ Whole /\ frame' = << >>
         /\ \/ sent' = sent /\ wire' = Tail(wire)
            \/ \E more \in Seq(Frames) :
                 /\ sent' = sent \o more /\ wire' = Tail(wire) \o OnWire(more)
         /\ FindsKnown \/ FindsAddress \/ FindsNothing
         /\ UNCHANGED << port, touched, bursts >>

LEMMA StepCases ==
  ASSUME [PanelNext]_panelVars
  PROVE  Calm \/ Writes \/ Reads \/ LoseBytes \/ ReadError \/ OpenPort \/ TakeByte
<1> USE DEF lineVars, traceVars
<1>0. /\ Alarm \in Known /\ HangUp0 \in Known /\ HangUp1 \in Known /\ StartCall \in Known
      /\ McuState0 \in Known /\ McuState1 \in Known /\ PushState0 \in Known
      /\ PushState1 \in Known /\ CmdReset \in Known /\ StaToAp \in Known
      /\ Handset \in Known /\ LongDown1 \in Known /\ LongDown2 \in Known
  BY DEF Known
<1>1. \A f \in Frames : << f >> \in Seq(Frames)
  OBVIOUS
<1>2. \A f \in Known : f \in Frames /\ << f >> \in Seq(Frames)
  BY <1>1 DEF Frames
<1>3. ASSUME NEW more \in Seq(Frames), Transmit(more), UNCHANGED << port, frame, bursts >>
      PROVE  Writes
  BY <1>3 DEF Transmit, Writes
<1>4. \A on : Report(on) \in Seq(Frames)
  BY <1>0, <1>2 DEF Report
<1>5. CASE Talk
  <2>1. PICK f \in Codes \cup { SaveAddr(a) : a \in Addresses } : Transmit(<< f >>)
    BY <1>5 DEF Talk
  <2>2. f \in Frames
    BY PanelAssumption DEF Frames
  <2> QED
    BY <1>1, <1>3, <1>5, <2>1, <2>2 DEF Talk
<1>6. CASE Toggle
  BY <1>3, <1>4, <1>6 DEF Toggle
<1>7. CASE EnterProgramming
  <2>1. << McuState1 >> \in Seq(Frames) /\ << PushState0, McuState1 >> \in Seq(Frames)
    <3>1. McuState1 \in Frames /\ PushState0 \in Frames
      BY <1>0, <1>2
    <3> QED
      BY <3>1
  <2> QED
    BY <1>3, <1>7, <2>1 DEF EnterProgramming
<1>8. CASE LeaveProgramming
  BY <1>0, <1>2, <1>3, <1>8 DEF LeaveProgramming
<1>9. CASE ButtonDown
  BY <1>0, <1>2, <1>3, <1>9 DEF ButtonDown
<1>10. ASSUME Consumes, FindsKnown \/ FindsAddress \/ FindsNothing, Whole
       PROVE  Reads
  BY <1>10 DEF Consumes, Reads
<1>11. \A f : Finds(f) => Whole
  BY DEF Finds
<1>12. CASE AddressReported
  BY <1>10, <1>12 DEF AddressReported, FindsAddress
<1>13. CASE Unknown
  BY <1>10, <1>13 DEF Unknown, FindsNothing
<1>14. CASE CallFrame
  BY <1>0, <1>10, <1>11, <1>14 DEF CallFrame, FindsKnown
<1>15. CASE ForwardingOff
  BY <1>0, <1>10, <1>11, <1>15 DEF ForwardingOff, FindsKnown
<1>16. CASE ForwardingOn
  BY <1>0, <1>10, <1>11, <1>16 DEF ForwardingOn, FindsKnown
<1>17. CASE ProgrammingBegins
  BY <1>0, <1>10, <1>11, <1>17 DEF ProgrammingBegins, FindsKnown
<1>18. CASE ProgrammingEnds
  <2>1. Finds(McuState0) /\ UNCHANGED << scene, port, sent, touched, unit, bursts >>
        /\ wire' = Tail(wire) /\ frame' = << >>
    BY <1>18 DEF ProgrammingEnds, Consumes
  <2> QED
    BY <1>0, <1>11, <2>1 DEF Reads, FindsKnown
<1>19. CASE FirstStage
  BY <1>0, <1>10, <1>11, <1>19 DEF FirstStage, FindsKnown
<1>20. CASE SecondStage
  BY <1>0, <1>10, <1>11, <1>20 DEF SecondStage, FindsKnown
<1>21. CASE DirectRequest
  BY <1>0, <1>10, <1>11, <1>21 DEF DirectRequest, FindsKnown
<1>22. CASE Restores
  <2>1. Finds(McuState0) /\ Obeys(TRUE, Tail(wire)) /\ frame' = << >>
        /\ UNCHANGED << port, touched, bursts >>
    BY <1>22 DEF Restores
  <2>2. FindsKnown /\ Whole
    BY <1>0, <1>11, <2>1 DEF FindsKnown
  <2>3. CASE unit.echoes
    BY <1>4, <2>1, <2>2, <2>3 DEF Reads, Obeys
  <2>4. CASE ~unit.echoes
    <3>1. sent' = sent \o << >> /\ wire' = Tail(wire) \o << >>
      BY <2>1, <2>4 DEF Obeys
    <3> QED
      BY <2>1, <2>2, <3>1 DEF Reads
  <2> QED
    BY <2>3, <2>4
<1>23. ASSUME NEW on \in {0, 1}, SetForwarding(on)
       PROVE  Calm \/ Writes
  <2>1. Obeys(on = 1, wire) /\ UNCHANGED << port, frame, taken, acted, seen, touched, bursts >>
    BY <1>23 DEF SetForwarding
  <2>2. CASE unit.echoes
    BY <1>4, <2>1, <2>2 DEF Writes, Obeys
  <2>3. CASE ~unit.echoes
    <3>1. sent' = sent \o << >> /\ wire' = wire \o << >>
      BY <2>1, <2>3 DEF Obeys
    <3> QED
      BY <2>1, <3>1 DEF Calm
  <2> QED
    BY <2>2, <2>3
<1>24. CASE PublishSetting
  BY <1>24 DEF PublishSetting, Calm
<1>25. CASE WindowPasses
  BY <1>25 DEF WindowPasses, Calm
<1>26. CASE PressAges
  BY <1>26 DEF PressAges, Calm
<1>27. CASE UNCHANGED panelVars
  BY <1>27 DEF panelVars, Calm
<1> QED
  BY <1>5, <1>6, <1>7, <1>8, <1>9, <1>12, <1>13, <1>14, <1>15, <1>16, <1>17, <1>18,
     <1>19, <1>20, <1>21, <1>22, <1>23, <1>24, <1>25, <1>26, <1>27
  DEF PanelNext, Monitor

LEMMA UartIs ==
  ASSUME UartInv
  PROVE  /\ Told(sent) /\ Len(sent) \in Nat
         /\ \A n \in 1..Len(sent) : sent[n] \in Frames /\ FrameLike(sent[n])
         /\ Stream \in Seq(Places) /\ Len(Stream) = Len(frame) + Len(wire)
         /\ Len(Stream) \in Nat /\ Len(frame) \in Nat /\ Len(wire) \in Nat
         /\ \A k \in 1..Len(frame) : Stream[k] = frame[k]
         /\ \A k \in 1..Len(wire) : Stream[Len(frame) + k] = wire[k]
<1>1. sent \in Seq(Frames) /\ frame \in Seq(Places) /\ wire \in Seq(Places)
  BY DEF UartInv, UartTypeOK
<1>2. \A n \in 1..Len(sent) : sent[n] \in Frames /\ FrameLike(sent[n])
  BY <1>1, ElementOfSeq, FramesAre
<1>3. Told(sent) /\ Len(sent) \in Nat
  BY SoundIs DEF UartInv
<1>4. Len(frame) \in Nat /\ Len(wire) \in Nat
  BY <1>1
<1>5. /\ Stream \in Seq(Places) /\ Len(Stream) = Len(frame) + Len(wire)
      /\ \A k \in 1..Len(frame) : Stream[k] = frame[k]
      /\ \A k \in 1..Len(wire) : Stream[Len(frame) + k] = wire[k]
  BY <1>1, JoinedIs DEF Stream
<1>6. Len(Stream) \in Nat
  BY <1>5
<1> QED
  BY <1>2, <1>3, <1>4, <1>5, <1>6

LEMMA TellsMore ==
  ASSUME sent \in Seq(Frames), NEW more \in Seq(Frames)
  PROVE  Told(more) /\ sent \o more \in Seq(Frames)
BY FramesAre, SeqMonotonic, ConcatProperties DEF Told

\* The four bytes that a read takes off the stream.
LEMMA WholeIs ==
  ASSUME UartInv, Whole
  PROVE  /\ Len(Stream) >= 4 /\ Stream[4] = Head(wire) /\ Stream[1] = frame[1]
         /\ \A i \in 1..4 : Assembled[i] = Stream[i].byte
         /\ Stream[1].at = 1
         /\ << >> \o Tail(wire) = Dropped(Stream, 4) /\ Tail(wire) \in Seq(Places)
<1>1. frame \in Seq(Places) /\ wire \in Seq(Places) /\ wire # << >> /\ Len(frame) = 3
      /\ frame[1].at = 1
  <2>1. frame \in Seq(Places) /\ wire \in Seq(Places) /\ wire # << >> /\ Len(frame) = 3
        /\ (frame # << >> => frame[1].at = 1)
    BY DEF UartInv, UartTypeOK, Whole
  <2>2. frame # << >>
    <3>1. Len(<< >>) = 0
      BY EmptySeq
    <3>2. 3 # 0
      OBVIOUS
    <3> QED
      BY <2>1, <3>1, <3>2, Zenon
  <2> QED
    BY <2>1, <2>2
<1>2. /\ Tail(wire) \in Seq(Places) /\ Head(wire) \in Places
      /\ << >> \o Tail(wire) = Dropped(Stream, 3 + 1)
      /\ 3 + 1 \in 1..Len(Stream) /\ Stream[3 + 1] = Head(wire)
  BY <1>1, ReadsAre, Zenon DEF Stream
<1>3. /\ Len(Append(frame, Head(wire))) = 4
      /\ \A i \in 1..3 : Append(frame, Head(wire))[i] = frame[i]
      /\ Append(frame, Head(wire))[4] = Head(wire)
  <2> DEFINE e == Head(wire)
             a == Append(frame, e)
  <2>1. e \in Places /\ frame \in Seq(Places)
    BY <1>1, <1>2
  <2> HIDE DEF e
  <2>2. /\ Len(a) = Len(frame) + 1 /\ \A i \in 1..Len(frame) : a[i] = frame[i]
        /\ a[Len(frame) + 1] = e
    BY <2>1, AppendProperties
  <2> HIDE DEF a
  <2>3. Len(frame) = 3 /\ Len(frame) + 1 = 4
    BY <1>1
  <2>4. Len(a) = 4 /\ (\A i \in 1..3 : a[i] = frame[i]) /\ a[4] = e
    BY <2>2, <2>3, Zenon
  <2> QED
    BY <2>4, Zenon DEF a, e
<1>4. \A k \in 1..3 : Stream[k] = frame[k]
  BY <1>1, UartIs
<1>5. 3 + 1 = 4
  OBVIOUS
<1>6. Stream[4] = Head(wire) /\ << >> \o Tail(wire) = Dropped(Stream, 4)
  BY <1>2, <1>5, Zenon
<1>7. Len(Stream) >= 4
  BY <1>2, UartIs
<1>8. ASSUME NEW i \in 1..4 PROVE Assembled[i] = Stream[i].byte
  <2>1. Assembled[i] = Append(frame, Head(wire))[i].byte
    BY DEF Assembled
  <2>2. CASE i \in 1..3
    BY <1>3, <1>4, <2>1, <2>2
  <2>3. CASE i = 4
    BY <1>3, <1>6, <2>1, <2>3
  <2> QED
    BY <2>2, <2>3
<1> QED
  BY <1>1, <1>2, <1>4, <1>6, <1>7, <1>8

\* With one fault at the most, a frame of the table that is acted on is one
\* that was sent, and none that was acted on before.
LEMMA FoundWasSent ==
  ASSUME UartInv, bursts <= 1, NEW f \in Known, Finds(f)
  PROVE  /\ Number(f) \in 1..Len(sent) /\ sent[Number(f)] = f
         /\ taken < Number(f) /\ Number(f) <= Stream[4].from
<1>1. Whole /\ Assembled = f
  BY DEF Finds
<1>2. /\ Sound(Stream, sent, taken, bursts) /\ OneGap(Stream, sent)
      /\ Newer(Stream, taken)
  BY DEF UartInv, Sound
<1> DEFINE b1 == Stream[1]
           b2 == Stream[2]
           b3 == Stream[3]
           b4 == Stream[4]
<1>3. /\ Len(Stream) \in Nat /\ Len(Stream) >= 4 /\ b4 = Head(wire) /\ b1 = frame[1]
      /\ b1.at = 1 /\ b1.byte = f[1] /\ b2.byte = f[2] /\ b3.byte = f[3] /\ b4.byte = f[4]
  BY <1>1, UartIs, WholeIs
<1>4. 1 \in 1..Len(Stream) /\ 2 \in 1..Len(Stream) /\ 3 \in 1..Len(Stream)
      /\ 4 \in 1..Len(Stream) /\ 1 < Len(Stream) /\ 2 < Len(Stream) /\ 3 < Len(Stream)
  BY <1>3
<1>5. ByteOf(b1, sent) /\ ByteOf(b2, sent) /\ ByteOf(b3, sent) /\ ByteOf(b4, sent)
      /\ Pos(b1) < Pos(b4)
  BY <1>2, <1>4, SoundIs
<1>6. /\ After(Stream, sent, 1) = Pos(b2) /\ After(Stream, sent, 2) = Pos(b3)
      /\ After(Stream, sent, 3) = Pos(b4)
  BY <1>4 DEF After
<1>7. \/ Pos(b2) = Pos(b1) + 1 /\ Pos(b3) = Pos(b2) + 1
      \/ Pos(b2) = Pos(b1) + 1 /\ Pos(b4) = Pos(b3) + 1
      \/ Pos(b3) = Pos(b2) + 1 /\ Pos(b4) = Pos(b3) + 1
  <2>1. \A k, l \in {1, 2, 3} : /\ After(Stream, sent, k) # Pos(Stream[k]) + 1
                                /\ After(Stream, sent, l) # Pos(Stream[l]) + 1
                                => k = l
    <3>1. \A k \in {1, 2, 3} : k \in 1..Len(Stream)
      BY <1>4
    <3> SUFFICES ASSUME NEW k \in {1, 2, 3}, NEW l \in {1, 2, 3},
                        After(Stream, sent, k) # Pos(Stream[k]) + 1,
                        After(Stream, sent, l) # Pos(Stream[l]) + 1
                 PROVE  k = l
      OBVIOUS
    <3>2. k \in 1..Len(Stream) /\ l \in 1..Len(Stream)
      BY <3>1
    <3>3. OneGap(Stream, sent)
      BY <1>2
    <3> QED
      BY <3>2, <3>3 DEF OneGap
  <2>2. 1 # 2 /\ 1 # 3 /\ 2 # 3
    OBVIOUS
  <2> QED
    BY <1>6, <2>1, <2>2
<1>8. FrameLike(f) /\ f[3] \in 0..2
  BY KnownIs
<1>9. \A n \in 1..Len(sent) : FrameLike(sent[n])
  BY UartIs
<1>10. taken < b1.from
  BY <1>2, <1>3, <1>4 DEF Newer
<1> HIDE DEF b1, b2, b3, b4
<1>11. sent[b1.from] = f \/ sent[b4.from] = f
  BY <1>3, <1>5, <1>7, <1>8, <1>9, FourBytes
<1>12. Number(f) = IF sent[b4.from] = f THEN b4.from ELSE b1.from
  BY <1>3 DEF Number
<1>13. /\ b1 \in Places /\ b4 \in Places /\ b1.from \in 1..Len(sent) /\ b4.from \in 1..Len(sent)
  BY <1>5 DEF ByteOf
<1>14. b1.from <= b4.from /\ b1.from \in Nat /\ b4.from \in Nat
  BY <1>5, <1>13, PosIs, Successor
<1>15. taken \in Nat
  BY <1>2, SoundIs
<1>16. CASE sent[b4.from] = f
  BY <1>10, <1>12, <1>13, <1>14, <1>15, <1>16 DEF b4
<1>17. CASE sent[b4.from] # f
  BY <1>10, <1>11, <1>12, <1>13, <1>14, <1>17 DEF b4
<1> QED
  BY <1>16, <1>17

LEMMA Regrouped ==
  ASSUME NEW a \in Seq(Places), NEW b \in Seq(Places), NEW c \in Seq(Places)
  PROVE  a \o (b \o c) = (a \o b) \o c
BY ConcatAssociative

\* How each step changes the stream.
LEMMA StreamWrites ==
  ASSUME UartInv, NEW more \in Seq(Frames), wire' = wire \o OnWire(more), frame' = frame
  PROVE  /\ Stream' = Stream \o OnWire(more) /\ wire' \in Seq(Places)
         /\ Told(more) /\ Continues(OnWire(more), sent, more)
<1>1. frame \in Seq(Places) /\ wire \in Seq(Places) /\ sent \in Seq(Frames)
  BY DEF UartInv, UartTypeOK
<1>2. Told(sent) /\ Told(more)
  BY <1>1, TellsMore, UartIs
<1>3. Continues(OnWire(more), sent, more) /\ OnWire(more) \in Seq(Places)
  BY <1>2, OnWireIs DEF Continues
<1>4. wire' \in Seq(Places)
  BY <1>1, <1>3, ConcatProperties
<1>5. frame \o (wire \o OnWire(more)) = (frame \o wire) \o OnWire(more)
  BY <1>1, <1>3, Regrouped, Zenon
<1>6. Stream' = Stream \o OnWire(more)
  BY <1>5 DEF Stream
<1> QED
  BY <1>2, <1>3, <1>4, <1>6

LEMMA StreamReads ==
  ASSUME UartInv, Whole, frame' = << >>, NEW more \in Seq(Frames),
         wire' = Tail(wire) \o OnWire(more)
  PROVE  /\ Stream' = Dropped(Stream, 4) \o OnWire(more) /\ wire' \in Seq(Places)
         /\ Told(more) /\ Continues(OnWire(more), sent, more)
<1>1. sent \in Seq(Frames)
  BY DEF UartInv, UartTypeOK
<1>2. Told(sent) /\ Told(more)
  BY <1>1, TellsMore, UartIs
<1>3. Continues(OnWire(more), sent, more) /\ OnWire(more) \in Seq(Places)
  BY <1>2, OnWireIs DEF Continues
<1>4. << >> \o Tail(wire) = Dropped(Stream, 4) /\ Tail(wire) \in Seq(Places)
  BY WholeIs
<1>5. << >> \in Seq(Places)
  OBVIOUS
<1>6. << >> \o (Tail(wire) \o OnWire(more)) = (<< >> \o Tail(wire)) \o OnWire(more)
  BY <1>3, <1>4, <1>5, ConcatAssociative
<1>7. wire' \in Seq(Places)
  BY <1>3, <1>4, ConcatProperties
<1> QED
  BY <1>2, <1>3, <1>4, <1>6, <1>7 DEF Stream

LEMMA StreamLoses ==
  ASSUME UartInv, LoseBytes
  PROVE  /\ wire' \in Seq(Places) /\ bursts' = bursts + 1
         /\ \E i \in 1..Len(Stream), n \in Nat :
              /\ n > 0 /\ i + n - 1 <= Len(Stream) /\ i > Len(frame)
              /\ Stream' = Cut(Stream, i, n)
              /\ touched' = touched \cup { Stream[k].from : k \in i..(i + n - 1) }
<1>1. frame \in Seq(Places) /\ wire \in Seq(Places)
  BY DEF UartInv, UartTypeOK
<1>2. PICK i \in DOMAIN wire, n \in 1..MaxBurst :
        /\ i + n - 1 <= Len(wire)
        /\ wire' = SubSeq(wire, 1, i - 1) \o SubSeq(wire, i + n, Len(wire))
        /\ Lost({ wire[k].from : k \in i..(i + n - 1) })
  BY DEF LoseBytes
<1>3. i \in 1..Len(wire) /\ n \in Nat /\ n > 0 /\ wire' = Cut(wire, i, n)
  BY <1>1, <1>2, PanelAssumption DEF Cut
<1>11. i \in 1..Len(wire) /\ n \in Nat /\ n > 0 /\ i + n - 1 <= Len(wire)
  BY <1>2, <1>3
<1>4. wire' \in Seq(Places) /\ Stream' = Cut(Stream, Len(frame) + i, n)
  <2>1. frame' = frame
    BY DEF LoseBytes
  <2>2. /\ Cut(wire, i, n) \in Seq(Places)
        /\ frame \o Cut(wire, i, n) = Cut(frame \o wire, Len(frame) + i, n)
    BY <1>1, <1>11, CutBehind
  <2> QED
    BY <1>3, <2>1, <2>2, Zenon DEF Stream
<1>5. bursts' = bursts + 1
  BY DEF LoseBytes, Damage
<1> DEFINE j == Len(frame) + i
<1>6. /\ Len(Stream) = Len(frame) + Len(wire) /\ Len(frame) \in Nat /\ Len(wire) \in Nat
      /\ \A k \in 1..Len(wire) : Stream[Len(frame) + k] = wire[k]
  BY UartIs
<1>12. Len(Stream) = Len(frame) + Len(wire) /\ Len(frame) \in Nat /\ Len(wire) \in Nat
  BY <1>6
<1>7. j \in 1..Len(Stream) /\ j + n - 1 <= Len(Stream) /\ j > Len(frame)
  BY <1>11, <1>12
<1>8. { wire[k].from : k \in i..(i + n - 1) } = { Stream[k].from : k \in j..(j + n - 1) }
  <2>1. ASSUME NEW k \in i..(i + n - 1)
        PROVE  \E l \in j..(j + n - 1) : Stream[l].from = wire[k].from
    <3>1. k \in 1..Len(wire) /\ Len(frame) + k \in j..(j + n - 1)
      BY <1>11, <1>12
    <3> QED
      BY <1>6, <3>1
  <2>2. ASSUME NEW l \in j..(j + n - 1)
        PROVE  \E k \in i..(i + n - 1) : wire[k].from = Stream[l].from
    <3> DEFINE k == l - Len(frame)
    <3>1. k \in 1..Len(wire) /\ k \in i..(i + n - 1) /\ Len(frame) + k = l
      BY <1>11, <1>12
    <3> HIDE DEF k
    <3>2. Stream[Len(frame) + k] = wire[k]
      BY <1>6, <3>1
    <3> QED
      BY <3>1, <3>2
  <2> HIDE DEF j
  <2>3. \A x : x \in { wire[k].from : k \in i..(i + n - 1) }
             <=> x \in { Stream[k].from : k \in j..(j + n - 1) }
    BY <2>1, <2>2
  <2> QED
    BY <2>3
<1>9. touched' = touched \cup { Stream[k].from : k \in j..(j + n - 1) }
  BY <1>2, <1>8 DEF Lost
<1> HIDE DEF j
<1>10. Stream' = Cut(Stream, j, n)
  BY <1>4 DEF j
<1> QED
  BY <1>3, <1>4, <1>5, <1>7, <1>9, <1>10

LEMMA StreamErrs ==
  ASSUME UartInv, ReadError
  PROVE  /\ Stream' = Dropped(Stream, Len(frame)) /\ Len(frame) \in 0..Len(Stream)
         /\ bursts' = bursts + 1
<1>1. frame \in Seq(Places) /\ wire \in Seq(Places) /\ frame' = << >> /\ wire' = wire
  BY DEF UartInv, UartTypeOK, ReadError
<1>2. Len(frame) \in Nat /\ 0 \in 0..Len(wire) /\ Len(wire) \in Nat
  BY <1>1
<1>3. Len(frame) + 0 \in 0..Len(Stream) /\ Dropped(Stream, Len(frame) + 0) = Dropped(wire, 0)
  BY <1>1, <1>2, DroppedBehind DEF Stream
<1>4. Dropped(wire, 0) = wire
  BY <1>1, SubSeqFull DEF Dropped
<1>5. Stream' = wire
  BY <1>1, ConcatEmptySeq DEF Stream
<1>6. Len(frame) + 0 = Len(frame)
  BY <1>2
<1>7. bursts' = bursts + 1
  BY DEF ReadError, Damage
<1> QED
  BY <1>3, <1>4, <1>5, <1>6, <1>7, Zenon

LEMMA StreamFlushes ==
  ASSUME UartInv, OpenPort
  PROVE  /\ frame = << >> /\ frame' = << >> /\ wire' = << >> /\ Stream = wire
         /\ Stream' = << >> /\ Stream' = Dropped(Stream, Len(Stream))
<1>1. frame = << >> /\ frame' = << >> /\ wire' = << >> /\ wire \in Seq(Places)
  BY DEF UartInv, UartTypeOK, OpenPort
<1>2. Stream = wire /\ Stream' = << >>
  BY <1>1, ConcatEmptySeq DEF Stream
<1>3. Dropped(wire, Len(wire)) = << >>
  BY <1>1, SubSeqEmpty DEF Dropped
<1> QED
  BY <1>1, <1>2, <1>3

LEMMA StreamTakes ==
  ASSUME UartInv, TakeByte
  PROVE  /\ Len(frame) < 3 /\ Len(Stream) > Len(frame) /\ Stream[Len(frame) + 1] = Head(wire)
         /\ wire' \in Seq(Places) /\ frame' \in Seq(Places)
         /\ \/ /\ frame' = Append(frame, Head(wire)) /\ Stream' = Stream
               /\ Len(frame') = Len(frame) + 1 /\ frame'[Len(frame')] = Head(wire)
               /\ frame'[1] = IF frame = << >> THEN Head(wire) ELSE frame[1]
               /\ frame = << >> => Head(wire).byte = Marker
            \/ /\ frame = << >> /\ frame' = frame /\ Stream' = Dropped(Stream, 1)
               /\ Head(wire).byte # Marker
<1>1. frame \in Seq(Places) /\ wire \in Seq(Places) /\ wire # << >> /\ Len(frame) < 3
      /\ wire' = Tail(wire)
      /\ frame' = IF Collects(Head(wire)) THEN Append(frame, Head(wire)) ELSE frame
  BY DEF UartInv, UartTypeOK, TakeByte
<1>2. /\ Tail(wire) \in Seq(Places) /\ Head(wire) \in Places
      /\ Append(frame, Head(wire)) \in Seq(Places)
      /\ << >> \o Tail(wire) = Dropped(Stream, Len(frame) + 1)
      /\ Append(frame, Head(wire)) \o Tail(wire) = Stream
      /\ Len(frame) + 1 \in 1..Len(Stream)
      /\ Stream[Len(frame) + 1] = Head(wire)
  BY <1>1, ReadsAre DEF Stream
<1>3. Len(frame) \in Nat /\ Len(Stream) \in Nat /\ Len(Stream) > Len(frame)
  BY <1>2, UartIs
<1>4. CASE Collects(Head(wire))
  <2> DEFINE e == Head(wire)
             more == Append(frame, e)
  <2>1. frame' = more /\ Stream' = Stream
    BY <1>1, <1>2, <1>4 DEF Stream
  <2>2. /\ Len(more) = Len(frame) + 1 /\ more[Len(frame) + 1] = e
        /\ \A i \in 1..Len(frame) : more[i] = frame[i]
    BY <1>1, <1>2, AppendProperties
  <2>3. frame = << >> => Head(wire).byte = Marker
    BY <1>4 DEF Collects
  <2> HIDE DEF more
  <2>4. more[1] = IF frame = << >> THEN e ELSE frame[1]
    <3>1. CASE frame = << >>
      <4>1. Len(frame) + 1 = 1
        BY <3>1
      <4> QED
        BY <2>2, <3>1, <4>1
    <3>2. CASE frame # << >>
      <4>1. 1 \in 1..Len(frame)
        BY <1>1, <1>3, <3>2, EmptySeq
      <4> QED
        BY <2>2, <3>2, <4>1
    <3> QED
      BY <3>1, <3>2
  <2>5. Len(more) = Len(frame) + 1 /\ more[Len(more)] = e
    BY <2>2
  <2>6. more \in Seq(Places)
    BY <1>2 DEF more
  <2> HIDE DEF e
  <2>7. /\ frame' \in Seq(Places) /\ frame' = Append(frame, Head(wire))
        /\ Len(frame') = Len(frame) + 1 /\ frame'[Len(frame')] = Head(wire)
        /\ frame'[1] = IF frame = << >> THEN Head(wire) ELSE frame[1]
    BY <2>1, <2>4, <2>5, <2>6, Zenon DEF e, more
  <2> QED
    BY <1>1, <1>2, <1>3, <2>1, <2>3, <2>7
<1>5. CASE ~Collects(Head(wire))
  <2>1. frame = << >> /\ Head(wire).byte # Marker /\ frame' = frame
    BY <1>1, <1>5 DEF Collects
  <2>2. Len(frame) + 1 = 1
    BY <2>1
  <2>3. Stream' = Dropped(Stream, 1)
    BY <1>1, <1>2, <2>1, <2>2, Zenon DEF Stream
  <2> QED
    BY <1>1, <1>2, <1>3, <2>1, <2>3
<1> QED
  BY <1>4, <1>5

\* Whatever the faults, the number given to a frame is that of one that was sent.
LEMMA NumberIs ==
  ASSUME UartInv, Whole, NEW f
  PROVE  Number(f) \in 1..Len(sent) /\ Number(f) <= Stream[4].from
<1> DEFINE b1 == Stream[1]
           b4 == Stream[4]
<1>1. /\ Len(Stream) \in Nat /\ Len(Stream) >= 4 /\ b4 = Head(wire) /\ b1 = frame[1]
  BY UartIs, WholeIs
<1>2. 1 \in 1..Len(Stream) /\ 4 \in 1..Len(Stream)
  BY <1>1
<1>3. ByteOf(b1, sent) /\ ByteOf(b4, sent) /\ Pos(b1) < Pos(b4)
  BY <1>2, SoundIs DEF UartInv
<1> HIDE DEF b1, b4
<1>4. /\ b1 \in Places /\ b4 \in Places /\ b1.from \in 1..Len(sent)
      /\ b4.from \in 1..Len(sent)
  BY <1>3 DEF ByteOf
<1>5. b1.from <= b4.from /\ b4.from <= b4.from
  BY <1>3, <1>4, PosIs, Successor
<1>6. Number(f) = IF sent[b4.from] = f THEN b4.from ELSE b1.from
  BY <1>1 DEF Number
<1>7. Number(f) = b4.from \/ Number(f) = b1.from
  BY <1>6
<1> QED
  BY <1>4, <1>5, <1>7, Zenon DEF b4

LEMMA SoundMore ==
  ASSUME NEW s, NEW told, NEW last, NEW faults, Sound(s, told, last, faults)
  PROVE  Sound(s, told, last, faults + 1)
<1>1. faults \in Nat
  BY SoundIs
<1>2. faults + 1 \in Nat /\ faults + 1 # 0 /\ (faults + 1 <= 1 => faults = 0)
  BY <1>1
<1> QED
  BY <1>2, IntactHasOneGap DEF Sound

LEMMA UartStart == PanelInit => UartInv
<1> SUFFICES ASSUME PanelInit PROVE UartInv
  OBVIOUS
<1>1. /\ wire = << >> /\ port = FALSE /\ frame = << >> /\ sent = << >> /\ taken = 0
      /\ bursts = 0
  BY DEF PanelInit, PanelStart
<1>2. Stream = << >> /\ << >> \in Seq(Places) /\ Len(<< >>) = 0
  BY <1>1, ConcatEmptySeq, EmptySeq DEF Stream
<1>3. UartTypeOK
  BY <1>1 DEF UartTypeOK
<1>4. \A k : k \notin 1..Len(<< >>)
  BY <1>2
<1>5. Told(<< >>)
  BY DEF Told
<1>6. Sound(<< >>, << >>, 0, 0)
  BY <1>2, <1>4, <1>5 DEF Sound, Carries, Intact, OneGap, Newer
<1> QED
  BY <1>1, <1>2, <1>3, <1>6 DEF UartInv

\* What a step preserves: where the bytes left on the stream come from.
LEMMA UartStep == UartInv /\ [PanelNext]_panelVars => UartInv'
<1> SUFFICES ASSUME UartInv, [PanelNext]_panelVars PROVE UartInv'
  OBVIOUS
<1>1. UartTypeOK /\ Sound(Stream, sent, taken, bursts)
  BY DEF UartInv
<1>2. /\ sent \in Seq(Frames) /\ frame \in Seq(Places) /\ wire \in Seq(Places)
      /\ Len(frame) <= 3 /\ (~port => frame = << >>) /\ (frame # << >> => frame[1].at = 1)
  BY <1>1 DEF UartTypeOK
<1>3. << >> \in Seq(Places) /\ Len(<< >>) <= 3
  BY EmptySeq
<1>4. CASE Calm
  BY <1>1, <1>4 DEF Calm, traceVars, UartInv, UartTypeOK, Stream
<1>5. CASE Writes
  <2>1. PICK more \in Seq(Frames) :
          /\ sent' = sent \o more /\ wire' = wire \o OnWire(more)
          /\ UNCHANGED << port, frame, taken, acted, seen, touched, bursts >>
    BY <1>5 DEF Writes
  <2>2. /\ Stream' = Stream \o OnWire(more) /\ wire' \in Seq(Places)
        /\ Told(more) /\ Continues(OnWire(more), sent, more)
    BY <2>1, StreamWrites
  <2>3. sent' \in Seq(Frames)
    BY <1>2, <2>1, TellsMore
  <2>4. Sound(Stream \o OnWire(more), sent \o more, taken, bursts)
    BY <1>1, <2>2, SoundWrite
  <2>5. Sound(Stream', sent', taken', bursts')
    BY <2>1, <2>2, <2>4
  <2>6. UartTypeOK'
    BY <1>2, <2>1, <2>2, <2>3 DEF UartTypeOK
  <2> QED
    BY <2>5, <2>6 DEF UartInv
<1>6. CASE Reads
  <2>1. /\ Whole /\ frame' = << >> /\ UNCHANGED << port, touched, bursts >>
        /\ FindsKnown \/ FindsAddress \/ FindsNothing
    BY <1>6 DEF Reads
  <2>2. << >> \o Tail(wire) = Dropped(Stream, 4) /\ Tail(wire) \in Seq(Places)
        /\ 4 \in 0..Len(Stream) /\ 4 \in 1..Len(Stream)
    BY <2>1, WholeIs, UartIs
  <2>3. Sound(Dropped(Stream, 4), sent, taken', bursts)
    <3>1. CASE FindsKnown
      <4>1. PICK f \in Known : taken' = Number(f)
        BY <3>1 DEF FindsKnown, Finds
      <4>2. Number(f) \in 1..Len(sent) /\ Number(f) <= Stream[4].from
        BY <2>1, NumberIs
      <4>3. Sound(Dropped(Stream, 4), sent, Number(f), bursts)
        BY <1>1, <2>2, <4>2, SoundNext
      <4> QED
        BY <4>1, <4>3
    <3>2. CASE FindsAddress \/ FindsNothing
      <4>1. taken' = taken
        BY <3>2 DEF FindsAddress, FindsNothing
      <4> QED
        BY <1>1, <2>2, <4>1, SoundDrop
    <3> QED
      BY <2>1, <3>1, <3>2
  <2>4. CASE sent' = sent /\ wire' = Tail(wire)
    <3>1. Stream' = Dropped(Stream, 4)
      BY <2>1, <2>2, <2>4 DEF Stream
    <3>2. UartTypeOK'
      BY <1>2, <1>3, <2>1, <2>2, <2>4 DEF UartTypeOK
    <3> QED
      BY <2>1, <2>3, <2>4, <3>1, <3>2 DEF UartInv
  <2>5. CASE \E more \in Seq(Frames) :
               sent' = sent \o more /\ wire' = Tail(wire) \o OnWire(more)
    <3>1. PICK more \in Seq(Frames) :
            sent' = sent \o more /\ wire' = Tail(wire) \o OnWire(more)
      BY <2>5
    <3>2. /\ Stream' = Dropped(Stream, 4) \o OnWire(more) /\ wire' \in Seq(Places)
          /\ Told(more) /\ Continues(OnWire(more), sent, more)
      BY <2>1, <3>1, StreamReads
    <3>3. sent' \in Seq(Frames)
      BY <1>2, <3>1, TellsMore
    <3>4. Sound(Dropped(Stream, 4) \o OnWire(more), sent \o more, taken', bursts)
      BY <2>3, <3>2, SoundWrite
    <3>5. Sound(Stream', sent', taken', bursts')
      BY <2>1, <3>1, <3>2, <3>4
    <3>6. UartTypeOK'
      BY <1>3, <2>1, <3>2, <3>3 DEF UartTypeOK
    <3> QED
      BY <3>5, <3>6 DEF UartInv
  <2> QED
    BY <1>6, <2>4, <2>5 DEF Reads
<1>7. CASE LoseBytes
  <2>1. wire' \in Seq(Places) /\ bursts' = bursts + 1
    BY <1>7, StreamLoses
  <2>2. PICK i \in 1..Len(Stream), n \in Nat :
          /\ n > 0 /\ i + n - 1 <= Len(Stream) /\ Stream' = Cut(Stream, i, n)
    BY <1>7, StreamLoses
  <2>3. UNCHANGED << port, frame, sent, taken >>
    BY <1>7 DEF LoseBytes, Lost
  <2>4. Sound(Cut(Stream, i, n), sent, taken, bursts + 1)
    BY <1>1, <2>2, SoundCut
  <2>5. UartTypeOK'
    BY <1>2, <2>1, <2>3 DEF UartTypeOK
  <2> QED
    BY <2>1, <2>2, <2>3, <2>4, <2>5 DEF UartInv
<1>8. CASE ReadError
  <2>1. /\ Stream' = Dropped(Stream, Len(frame)) /\ Len(frame) \in 0..Len(Stream)
        /\ bursts' = bursts + 1
    BY <1>8, StreamErrs
  <2>2. UNCHANGED << sent, taken, wire >> /\ frame' = << >>
    BY <1>8 DEF ReadError, Lost
  <2>3. Sound(Dropped(Stream, Len(frame)), sent, taken, bursts + 1)
    BY <1>1, <2>1, SoundDrop, SoundMore
  <2>4. UartTypeOK'
    BY <1>2, <1>3, <2>2 DEF UartTypeOK
  <2> QED
    BY <2>1, <2>2, <2>3, <2>4 DEF UartInv
<1>9. CASE OpenPort
  <2>1. frame' = << >> /\ wire' = << >> /\ Stream' = Dropped(Stream, Len(Stream))
    BY <1>9, StreamFlushes
  <2>2. UNCHANGED << sent, taken, bursts >>
    BY <1>9 DEF OpenPort, Lost
  <2>3. Len(Stream) \in 0..Len(Stream)
    BY UartIs
  <2>4. Sound(Dropped(Stream, Len(Stream)), sent, taken, bursts)
    BY <1>1, <2>3, SoundDrop
  <2>5. UartTypeOK'
    BY <1>2, <1>3, <2>1, <2>2 DEF UartTypeOK
  <2> QED
    BY <2>1, <2>2, <2>4, <2>5 DEF UartInv
<1>10. CASE TakeByte
  <2>1. UNCHANGED << port, sent, taken, bursts >> /\ port
    BY <1>10 DEF TakeByte, traceVars
  <2>2. /\ Len(frame) < 3 /\ Len(Stream) > Len(frame)
        /\ Stream[Len(frame) + 1] = Head(wire)
        /\ wire' \in Seq(Places) /\ frame' \in Seq(Places)
    BY <1>10, StreamTakes
  <2>3. CASE Stream' = Stream /\ frame' = Append(frame, Head(wire))
    <3>1. /\ Len(frame') = Len(frame) + 1
          /\ frame'[1] = IF frame = << >> THEN Head(wire) ELSE frame[1]
          /\ frame = << >> => Head(wire).byte = Marker
      BY <1>10, <2>3, StreamTakes
    <3>2. Len(frame') <= 3
      BY <1>2, <2>2, <3>1
    <3>3. frame = << >> => Head(wire).at = 1
      <4> SUFFICES ASSUME frame = << >> PROVE Head(wire).at = 1
        OBVIOUS
      <4> DEFINE b == Head(wire)
      <4>1. Len(frame) + 1 \in 1..Len(Stream)
        BY <2>2, UartIs
      <4>2. ByteOf(b, sent)
        BY <1>1, <2>2, <4>1, SoundIs
      <4>3. b.byte = 251
        BY <3>1 DEF Marker
      <4> HIDE DEF b
      <4>4. b.at \in 1..4 /\ b.byte = sent[b.from][b.at] /\ FrameLike(sent[b.from])
        BY <4>2, PosIs, UartIs DEF ByteOf
      <4>5. /\ sent[b.from][2] # 251 /\ sent[b.from][4] # 251
            /\ sent[b.from][3] \in 0..250
        <5> DEFINE f == sent[b.from]
        <5>1. FrameLike(f)
          BY <4>4
        <5> HIDE DEF f
        <5>2. f[2] # 251 /\ f[4] # 251 /\ f[3] \in 0..250
          BY <5>1, FrameBytes
        <5> QED
          BY <5>2 DEF f
      <4>6. sent[b.from][3] # 251
        <5>1. \A x \in 0..250 : x # 251
          OBVIOUS
        <5> QED
          BY <4>5, <5>1, Zenon
      <4>7. b.at # 2 /\ b.at # 3 /\ b.at # 4
        BY <4>3, <4>4, <4>5, <4>6, Zenon
      <4>8. b.at = 1
        BY <4>4, <4>7
      <4> QED
        BY <4>8 DEF b
    <3>4. UartTypeOK'
      BY <1>2, <2>1, <2>2, <3>1, <3>2, <3>3 DEF UartTypeOK
    <3> QED
      BY <1>1, <2>1, <2>3, <3>4 DEF UartInv
  <2>4. CASE frame' = frame /\ Stream' = Dropped(Stream, 1)
    <3>1. 1 \in 0..Len(Stream)
      BY <2>2, UartIs
    <3>2. Sound(Dropped(Stream, 1), sent, taken, bursts)
      BY <1>1, <3>1, SoundDrop
    <3>3. UartTypeOK'
      BY <1>2, <2>1, <2>2, <2>4 DEF UartTypeOK
    <3> QED
      BY <2>1, <2>4, <3>2, <3>3 DEF UartInv
  <2> QED
    BY <1>10, <2>3, <2>4, StreamTakes
<1> QED
  BY <1>4, <1>5, <1>6, <1>7, <1>8, <1>9, <1>10, StepCases

\* In every reachable state the bytes between the MCU and handle_uart_frame are
\* bytes of the frames sent, in order, newer than the frame acted on last, and
\* with a gap for each burst at the most (serial_monitor_thread_func).
\* UartInv holds throughout.
THEOREM UartInvariant == PanelSpec => []UartInv
BY UartStart, UartStep, PTL DEF PanelSpec

-----------------------------------------------------------------------------
\* The abstract channel (FrameChannel).
LEMMA SendsFrames ==
  ASSUME sent \in Seq(Frames), NEW more \in Seq(Frames), sent' = sent \o more
  PROVE  sent' = sent \/ Channel!Send
<1>1. Len(sent) \in Nat /\ Len(more) \in Nat
  OBVIOUS
<1>2. sent' \in Seq(Frames) /\ Len(sent') = Len(sent) + Len(more)
  BY ConcatProperties
<1>3. SubSeq(sent, 1, Len(sent)) = SubSeq(sent', 1, Len(sent))
  <2> DEFINE x == SubSeq(sent, 1, Len(sent))
             y == SubSeq(sent', 1, Len(sent))
  <2>1. \A i \in 1..Len(sent) : sent'[i] = sent[i] /\ sent'[i] \in Frames /\ sent[i] \in Frames
    <3>1. \A i \in 1..Len(sent) + Len(more) :
            sent'[i] = IF i <= Len(sent) THEN sent[i] ELSE more[i - Len(sent)]
      BY ConcatProperties
    <3>2. \A i \in 1..Len(sent) : i \in 1..Len(sent) + Len(more) /\ i <= Len(sent)
      BY <1>1
    <3>3. \A i \in 1..Len(sent) : sent'[i] = sent[i]
      BY <3>1, <3>2
    <3>4. \A i \in 1..Len(sent) : sent[i] \in Frames
      BY ElementOfSeq
    <3> QED
      BY <3>3, <3>4
  <2>2. /\ x \in Seq(Frames) /\ Len(x) = (IF 1 <= Len(sent) THEN Len(sent) - 1 + 1 ELSE 0)
        /\ \A i \in 1..Len(sent) - 1 + 1 : x[i] = sent[1 + i - 1]
    BY <1>1, <2>1, SubSeqProperties
  <2>3. /\ y \in Seq(Frames) /\ Len(y) = (IF 1 <= Len(sent) THEN Len(sent) - 1 + 1 ELSE 0)
        /\ \A i \in 1..Len(sent) - 1 + 1 : y[i] = sent'[1 + i - 1]
    BY <1>1, <2>1, SubSeqProperties
  <2> HIDE DEF x, y
  <2>4. Len(x) = Len(sent) /\ Len(y) = Len(sent)
    BY <1>1, <2>2, <2>3
  <2>5. \A i \in 1..Len(x) : x[i] = y[i]
    <3> TAKE i \in 1..Len(x)
    <3>1. i \in 1..Len(sent) - 1 + 1 /\ 1 + i - 1 = i /\ i \in 1..Len(sent)
      BY <1>1, <2>4
    <3> QED
      BY <2>1, <2>2, <2>3, <3>1
  <2>6. x = y
    BY <2>2, <2>3, <2>4, <2>5, SeqEqual
  <2> QED
    BY <2>6 DEF x, y
<1>4. \A n \in DOMAIN sent' : sent'[n] \in Frames
  BY <1>2, ElementOfSeq, LenProperties
<1>5. Len(sent) <= Len(sent')
  BY <1>1, <1>2
<1>6. CASE sent # sent'
  BY <1>3, <1>4, <1>5, <1>6
  DEF Channel!Send, Channel!IsStrictPrefix, Channel!IsPrefix, Frames
<1> QED
  BY <1>6

LEMMA FaultsAreBounded == PanelSpec => [](bursts <= MaxBursts)
<1>1. PanelInit => bursts <= MaxBursts
  BY PanelAssumption DEF PanelInit, PanelStart
<1>2. UartInv /\ bursts <= MaxBursts /\ [PanelNext]_panelVars => (bursts <= MaxBursts)'
  <2> SUFFICES ASSUME UartInv, bursts <= MaxBursts, [PanelNext]_panelVars
               PROVE  bursts' <= MaxBursts
    OBVIOUS
  <2>1. bursts \in Nat /\ MaxBursts \in Nat
    BY PanelAssumption, SoundIs DEF UartInv
  <2>2. CASE bursts' = bursts
    BY <2>2
  <2>3. CASE Damage
    BY <2>1, <2>3 DEF Damage
  <2>4. Damage \/ bursts' = bursts
    BY StepCases DEF Calm, Writes, Reads, LoseBytes, ReadError, OpenPort, TakeByte
  <2> QED
    BY <2>2, <2>3, <2>4
<1> QED
  BY <1>1, <1>2, UartInvariant, PTL DEF PanelSpec

\* The byte stream and the monitor implement the channel of frames
\* (ActsOnWhatWasSent): wherever one run of bytes is lost, or one read fails, a
\* frame of uart_codes is acted on only if the MCU sent it, once and in order.
\* Two faults can make a frame out of three.
THEOREM ChannelIsImplemented ==
  ASSUME MaxBursts <= 1
  PROVE  PanelSpec => ActsOnWhatWasSent
<1>1. PanelInit => Channel!ChannelInit
  BY DEF PanelInit, PanelStart, Channel!ChannelInit, Channel!NoFrame
<1>2. UartInv /\ bursts <= MaxBursts /\ [PanelNext]_panelVars
        => [Channel!ChannelNext]_<< sent, taken, acted >>
  <2> SUFFICES ASSUME UartInv, bursts <= MaxBursts, [PanelNext]_panelVars
               PROVE  \/ Channel!ChannelNext
                      \/ UNCHANGED << sent, taken, acted >>
    OBVIOUS
  <2>1. bursts <= 1 /\ sent \in Seq(Frames)
    BY PanelAssumption, SoundIs DEF UartInv, UartTypeOK
  <2>2. CASE Calm \/ LoseBytes \/ ReadError \/ OpenPort \/ TakeByte
    BY <2>2 DEF Calm, LoseBytes, ReadError, OpenPort, TakeByte, Lost, traceVars
  <2>3. CASE Writes
    <3>1. PICK more \in Seq(Frames) : sent' = sent \o more
      BY <2>3 DEF Writes
    <3>2. UNCHANGED << taken, acted >>
      BY <2>3 DEF Writes
    <3>3. sent' = sent \/ Channel!Send
      BY <2>1, <3>1, SendsFrames
    <3> QED
      BY <3>2, <3>3 DEF Channel!ChannelNext
  <2>4. CASE Reads
    <3>1. sent' = sent \/ Channel!Send
      <4>1. sent' = sent \/ \E more \in Seq(Frames) : sent' = sent \o more
        BY <2>4 DEF Reads
      <4> QED
        BY <2>1, <4>1, SendsFrames
    <3>2. CASE FindsKnown
      <4>1. PICK f \in Known : Finds(f)
        BY <3>2 DEF FindsKnown
      <4>2. /\ Number(f) \in 1..Len(sent) /\ sent[Number(f)] = f
            /\ taken < Number(f)
        BY <2>1, <4>1, FoundWasSent
      <4>3. Number(f) \in DOMAIN sent
        BY <2>1, <4>2, LenProperties
      <4>4. taken' = Number(f) /\ acted' = f
        BY <4>1 DEF Finds
      <4> QED
        BY <3>1, <4>2, <4>3, <4>4 DEF Channel!ChannelNext, Channel!Deliver
    <3>3. CASE FindsAddress \/ FindsNothing
      <4>1. UNCHANGED << taken, acted >>
        BY <3>3 DEF FindsAddress, FindsNothing
      <4> QED
        BY <3>1, <4>1 DEF Channel!ChannelNext
    <3> QED
      BY <2>4, <3>2, <3>3 DEF Reads
  <2> QED
    BY <2>2, <2>3, <2>4, StepCases
<1> QED
  BY <1>1, <1>2, UartInvariant, FaultsAreBounded, PTL
  DEF PanelSpec, ActsOnWhatWasSent, Channel!ChannelSpec, Channel!channelVars

-----------------------------------------------------------------------------
\* A frame that is spared, it and the one before it, waits whole on the stream
\* until it is acted on, and is never cut in two.
Waits(s, k, n) ==
  /\ k \in 1..Len(s) /\ k + 3 \in 1..Len(s)
  /\ \A i \in 0..3 : Pos(s[k + i]) = 4 * n + 1 + i

Spared(n, hit) == n \notin hit /\ n - 1 \notin hit

Kept(front, s, told, hit, got) ==
  \A n \in 1..Len(told) : Spared(n, hit) /\ n \notin got =>
    \E k \in 1..Len(s) : Waits(s, k, n) /\ (k <= front => k = 1)

\* Enough bytes have been assembled for the last of them to be in its place.
Begun(fr, hit) ==
  fr # << >> /\ fr[Len(fr)].from \notin hit => fr[Len(fr)].at <= Len(fr)

KeptInv == /\ Guarded(Stream, sent, touched) /\ Begun(frame, touched)
           /\ Kept(Len(frame), Stream, sent, touched, seen)

LEMMA WaitsIs ==
  ASSUME NEW s, NEW told, NEW last, NEW faults, Sound(s, told, last, faults),
         NEW n \in Nat, NEW k, Waits(s, k, n)
  PROVE  /\ k \in Nat
         /\ \A i \in 0..3 : /\ k + i \in 1..Len(s)
                            /\ s[k + i].from = n /\ s[k + i].at = i + 1
                            /\ s[k + i].byte = told[n][i + 1]
<1>9. k \in Nat
  BY DEF Waits
<1> SUFFICES ASSUME NEW i \in 0..3
             PROVE  /\ k + i \in 1..Len(s)
                    /\ s[k + i].from = n /\ s[k + i].at = i + 1
                    /\ s[k + i].byte = told[n][i + 1]
  BY <1>9
<1>1. Len(s) \in Nat /\ \A l \in 1..Len(s) : ByteOf(s[l], told)
  BY SoundIs
<1>2. k \in Nat /\ k + i \in 1..Len(s) /\ Pos(s[k + i]) = 4 * n + 1 + i
  <2>1. k \in 1..Len(s) /\ k + 3 \in 1..Len(s) /\ Len(s) \in Nat
    BY <1>1 DEF Waits
  <2>2. k \in Nat /\ k + i \in 1..Len(s)
    BY <2>1
  <2>3. Pos(s[k + i]) = 4 * n + 1 + i
    BY Zenon DEF Waits
  <2> QED
    BY <2>2, <2>3
<1> DEFINE b == s[k + i]
<1>3. ByteOf(b, told) /\ Pos(b) = 4 * n + 1 + i
  BY <1>1, <1>2
<1> HIDE DEF b
<1>4. /\ b \in Places /\ Pos(b) = 4 * b.from + b.at /\ b.from \in Nat /\ b.at \in 1..4
  BY <1>3, PosIs DEF ByteOf
<1>5. i + 1 \in 1..4 /\ 4 * n + 1 + i = 4 * n + (i + 1)
  OBVIOUS
<1>6. b.from = n /\ b.at = i + 1
  <2>1. 4 * b.from + b.at = 4 * n + (i + 1)
    BY <1>3, <1>4, <1>5
  <2> QED
    BY <1>4, <1>5, <2>1, SamePlace
<1>7. b.byte = told[n][i + 1]
  BY <1>3, <1>6 DEF ByteOf
<1> QED
  BY <1>2, <1>6, <1>7 DEF b

LEMMA WaitsDrop ==
  ASSUME NEW s \in Seq(Places), NEW j \in 0..Len(s), NEW k, NEW n, Waits(s, k, n), k > j
  PROVE  Waits(Dropped(s, j), k - j, n)
<1> DEFINE d == Dropped(s, j)
<1>1. Len(s) \in Nat /\ Len(d) = Len(s) - j /\ \A l \in 1..Len(s) - j : d[l] = s[l + j]
  <2>1. Len(s) \in Nat
    OBVIOUS
  <2> QED
    BY <2>1, DroppedIs, Zenon
<1> HIDE DEF d
<1>2. k \in 1..Len(s) /\ k + 3 \in 1..Len(s) /\ \A i \in 0..3 : Pos(s[k + i]) = 4 * n + 1 + i
  BY DEF Waits
<1>3. k - j \in 1..Len(d) /\ (k - j) + 3 \in 1..Len(d)
  BY <1>1, <1>2
<1>4. ASSUME NEW i \in 0..3 PROVE Pos(d[(k - j) + i]) = 4 * n + 1 + i
  <2> DEFINE l == (k - j) + i
  <2>1. l \in 1..Len(s) - j /\ l + j = k + i
    BY <1>1, <1>2
  <2> HIDE DEF l
  <2>2. d[l] = s[k + i]
    BY <1>1, <2>1
  <2> QED
    BY <1>2, <2>2 DEF l
<1> QED
  BY <1>3, <1>4 DEF Waits, d

LEMMA WaitsWrite ==
  ASSUME NEW s \in Seq(Places), NEW w \in Seq(Places), NEW k, NEW n, Waits(s, k, n)
  PROVE  Waits(s \o w, k, n)
<1> DEFINE d == s \o w
<1>1. /\ Len(s) \in Nat /\ Len(w) \in Nat /\ Len(d) = Len(s) + Len(w)
      /\ \A l \in 1..Len(s) : d[l] = s[l]
  BY JoinedIs
<1> HIDE DEF d
<1>2. k \in 1..Len(s) /\ k + 3 \in 1..Len(s) /\ \A i \in 0..3 : Pos(s[k + i]) = 4 * n + 1 + i
  BY DEF Waits
<1>3. k \in 1..Len(d) /\ k + 3 \in 1..Len(d)
  BY <1>1, <1>2
<1>4. ASSUME NEW i \in 0..3 PROVE Pos(d[k + i]) = 4 * n + 1 + i
  <2>1. k + i \in 1..Len(s)
    BY <1>1, <1>2
  <2> QED
    BY <1>1, <1>2, <2>1
<1> QED
  BY <1>3, <1>4 DEF Waits, d

LEMMA WaitsNew ==
  ASSUME NEW s \in Seq(Places), NEW told, NEW more, NEW w, Len(told) \in Nat,
         Len(more) \in Nat, Continues(w, told, more), NEW m \in 1..Len(more)
  PROVE  Waits(s \o w, Len(s) + (4 * (m - 1) + 1), Len(told) + m)
<1> DEFINE d == s \o w
           l == 4 * (m - 1) + 1
           n == Len(told) + m
<1>1. /\ w \in Seq(Places) /\ Len(w) = 4 * Len(more)
      /\ \A q \in 1..Len(w) : Pos(w[q]) = 4 * Len(told) + 4 + q
  BY DEF Continues
<1>2. /\ Len(s) \in Nat /\ Len(w) \in Nat /\ Len(d) = Len(s) + Len(w)
      /\ \A q \in 1..Len(w) : d[Len(s) + q] = w[q]
  <2>1. w \in Seq(Places) /\ Len(s) \in Nat /\ Len(w) \in Nat
    BY <1>1
  <2> QED
    BY <2>1, JoinedIs, Zenon
<1> HIDE DEF d
<1>3. l \in Nat /\ l >= 1 /\ l + 3 <= Len(w) /\ l + 3 = 4 * m
  BY <1>1
<1>4. 4 * n = 4 * Len(told) + 4 * m
  OBVIOUS
<1> HIDE DEF l, n
<1>5. Len(s) + l \in 1..Len(d) /\ (Len(s) + l) + 3 \in 1..Len(d)
  <2>1. Len(s) \in Nat /\ Len(w) \in Nat /\ Len(d) = Len(s) + Len(w)
    BY <1>2
  <2> QED
    BY <1>3, <2>1
<1>6. ASSUME NEW i \in 0..3 PROVE Pos(d[(Len(s) + l) + i]) = 4 * n + 1 + i
  <2> DEFINE q == l + i
  <2>1. q \in 1..Len(w) /\ Len(s) + q = (Len(s) + l) + i
    <3>1. Len(s) \in Nat /\ Len(w) \in Nat
      BY <1>2
    <3> QED
      BY <1>3, <3>1
  <2>2. 4 * Len(told) + 4 + q = 4 * n + 1 + i
    BY <1>3, <1>4
  <2> HIDE DEF q
  <2>3. Pos(d[Len(s) + q]) = 4 * Len(told) + 4 + q
    BY <1>1, <1>2, <2>1
  <2> QED
    BY <2>1, <2>2, <2>3
<1> QED
  BY <1>5, <1>6 DEF Waits, d, l, n

\* A run of c bytes from the i-th on.
CutAt(s, i, c) == i \in 1..Len(s) /\ c \in Nat /\ c > 0 /\ i + c - 1 <= Len(s)

LEMMA WaitsCut ==
  ASSUME NEW s, NEW told, NEW last, NEW faults, Sound(s, told, last, faults),
         NEW i, NEW c, CutAt(s, i, c),
         NEW n \in Nat, NEW k, Waits(s, k, n),
         \A l \in i..(i + c - 1) : s[l].from # n
  PROVE  \/ k < i /\ Waits(Cut(s, i, c), k, n)
         \/ k >= i + c /\ Waits(Cut(s, i, c), k - c, n)
<1> DEFINE d == Cut(s, i, c)
<1>0. s \in Seq(Places) /\ Len(s) \in Nat
  BY SoundIs
<1>9. i \in 1..Len(s) /\ c \in Nat /\ c > 0 /\ i + c - 1 <= Len(s)
  BY DEF CutAt
<1>1. Len(d) = Len(s) - c /\ \A l \in 1..Len(s) - c : d[l] = IF l < i THEN s[l] ELSE s[l + c]
  BY <1>0, <1>9, CutIs
<1> HIDE DEF d
<1>2. k \in 1..Len(s) /\ k + 3 \in 1..Len(s) /\ \A q \in 0..3 : Pos(s[k + q]) = 4 * n + 1 + q
  BY DEF Waits
<1>8. k \in 1..Len(s) /\ k + 3 \in 1..Len(s) /\ Len(s) \in Nat /\ Len(d) = Len(s) - c
  BY <1>0, <1>1, <1>2
<1>3. \A q \in 0..3 : k + q \notin i..(i + c - 1)
  <2>1. \A q \in 0..3 : s[k + q].from = n
    BY WaitsIs
  <2> QED
    BY <2>1
<1>4. /\ k + 0 \notin i..(i + c - 1) /\ k + 1 \notin i..(i + c - 1)
      /\ k + 2 \notin i..(i + c - 1) /\ k + 3 \notin i..(i + c - 1)
  BY <1>3
<1>5. k + 3 < i \/ k >= i + c
  BY <1>4, <1>8, <1>9
<1>6. CASE k + 3 < i
  <2>1. k \in 1..Len(d) /\ k + 3 \in 1..Len(d) /\ k < i
    BY <1>6, <1>8, <1>9
  <2>2. ASSUME NEW q \in 0..3 PROVE Pos(d[k + q]) = 4 * n + 1 + q
    <3>1. k + q \in 1..Len(s) - c /\ k + q < i
      BY <1>6, <1>8, <1>9
    <3> QED
      BY <1>1, <1>2, <3>1
  <2> QED
    BY <2>1, <2>2 DEF Waits, d
<1>7. CASE k >= i + c
  <2>1. k - c \in 1..Len(d) /\ (k - c) + 3 \in 1..Len(d)
    BY <1>7, <1>8, <1>9
  <2>2. ASSUME NEW q \in 0..3 PROVE Pos(d[(k - c) + q]) = 4 * n + 1 + q
    <3> DEFINE l == (k - c) + q
    <3>1. l \in 1..Len(s) - c /\ ~(l < i) /\ l + c = k + q
      BY <1>7, <1>8, <1>9
    <3> HIDE DEF l
    <3>2. d[l] = s[k + q]
      BY <1>1, <3>1
    <3> QED
      BY <1>2, <3>2 DEF l
  <2> QED
    BY <1>7, <2>1, <2>2 DEF Waits, d
<1> QED
  BY <1>5, <1>6, <1>7

LEMMA KeptWrite ==
  ASSUME NEW s, NEW told, NEW last, NEW faults, Sound(s, told, last, faults),
         NEW more, NEW w, Told(more), Continues(w, told, more),
         NEW front \in Nat, front <= Len(s), NEW hit, NEW got, Kept(front, s, told, hit, got)
  PROVE  Kept(front, s \o w, told \o more, hit, got)
<1>1. s \in Seq(Places) /\ Len(s) \in Nat /\ Told(told) /\ Len(told) \in Nat
  BY SoundIs
<1>2. Len(told \o more) = Len(told) + Len(more) /\ Len(more) \in Nat
  BY <1>1, ConcatProperties DEF Told
<1>3. w \in Seq(Places)
  BY DEF Continues
<1> DEFINE d == s \o w
           says == told \o more
<1> SUFFICES ASSUME NEW n \in 1..Len(says), Spared(n, hit), n \notin got
             PROVE  \E k \in 1..Len(d) : Waits(d, k, n) /\ (k <= front => k = 1)
  BY DEF Kept
<1>4. CASE n \in 1..Len(told)
  <2>1. PICK k \in 1..Len(s) : Waits(s, k, n) /\ (k <= front => k = 1)
    BY <1>4 DEF Kept
  <2>2. Waits(d, k, n)
    BY <1>1, <1>3, <2>1, WaitsWrite
  <2>3. k \in 1..Len(d)
    BY <2>2 DEF Waits
  <2> QED
    BY <2>1, <2>2, <2>3
<1>5. CASE n \notin 1..Len(told)
  <2> DEFINE m == n - Len(told)
             k == Len(s) + (4 * (m - 1) + 1)
  <2>1. m \in 1..Len(more) /\ Len(told) + m = n
    BY <1>1, <1>2, <1>5
  <2>2. Waits(d, k, Len(told) + m)
    <3> HIDE DEF m
    <3> QED
      BY <1>1, <1>2, <2>1, WaitsNew
  <2>3. k > Len(s)
    BY <1>1, <1>2, <2>1
  <2>4. Waits(d, k, n) /\ ~(k <= front)
    <3> HIDE DEF k, d
    <3>1. k \in 1..Len(d)
      BY <2>2 DEF Waits
    <3>2. Waits(d, k, n)
      BY <2>1, <2>2
    <3> QED
      BY <1>1, <2>3, <3>1, <3>2
  <2> HIDE DEF k
  <2> QED
    BY <2>4 DEF Waits
<1> QED
  BY <1>4, <1>5

LEMMA KeptDrop ==
  ASSUME NEW s, NEW told, NEW last, NEW faults, Sound(s, told, last, faults),
         NEW j \in 0..Len(s), NEW hit, NEW got,
         \A n \in 1..Len(told) : Spared(n, hit) /\ n \notin got =>
           \E k \in 1..Len(s) : Waits(s, k, n) /\ k > j
  PROVE  Kept(0, Dropped(s, j), told, hit, got)
<1>1. s \in Seq(Places)
  BY SoundIs
<1> SUFFICES ASSUME NEW n \in 1..Len(told), Spared(n, hit), n \notin got
             PROVE  \E k \in 1..Len(Dropped(s, j)) :
                      Waits(Dropped(s, j), k, n) /\ (k <= 0 => k = 1)
  BY DEF Kept
<1>2. PICK k \in 1..Len(s) : Waits(s, k, n) /\ k > j
  OBVIOUS
<1> DEFINE l == k - j
           d == Dropped(s, j)
<1>3. Waits(d, l, n)
  BY <1>1, <1>2, WaitsDrop, Zenon
<1>4. ~(l <= 0)
  BY <1>2
<1> HIDE DEF l, d
<1>5. l \in 1..Len(d)
  BY <1>3 DEF Waits
<1> QED
  BY <1>3, <1>4, <1>5 DEF d

LEMMA GuardedMore ==
  ASSUME NEW s, NEW told, NEW hit, NEW more, Guarded(s, told, hit)
  PROVE  Guarded(s, told, hit \cup more)
BY DEF Guarded

\* A spared frame does not begin behind bytes that are being assembled.
LEMMA NotBehind ==
  ASSUME UartInv, Guarded(Stream, sent, touched), Begun(frame, touched),
         NEW n \in 1..Len(sent), Spared(n, touched), NEW k, Waits(Stream, k, n),
         k = Len(frame) + 1
  PROVE  frame = << >>
<1> SUFFICES ASSUME frame # << >> PROVE FALSE
  OBVIOUS
<1>1. /\ Sound(Stream, sent, taken, bursts) /\ frame \in Seq(Places) /\ Len(frame) <= 3
  BY DEF UartInv, UartTypeOK
<1> DEFINE l == Len(frame)
           b == Stream[l]
<1>2. l \in Nat /\ l <= 3 /\ l >= 1
  BY <1>1, EmptySeq
<1>3. k \in 1..Len(Stream) /\ Pos(Stream[k + 0]) = 4 * n + 1 + 0
  BY DEF Waits
<1>4. Len(Stream) \in Nat /\ \A i \in 1..Len(frame) : Stream[i] = frame[i]
  BY UartIs
<1>5. k + 0 = k /\ 4 * n + 1 + 0 = 4 * (n - 1) + 4 + 1 /\ n - 1 \in Nat /\ 4 \in 1..4
      /\ l + 1 = k /\ l < Len(Stream) /\ l \in 1..Len(Stream)
  <2>1. n \in Nat /\ n >= 1
    BY UartIs
  <2>2. k \in 1..Len(Stream) /\ Len(Stream) \in Nat
    BY <1>3, <1>4
  <2> QED
    BY <1>2, <2>1, <2>2
<1>6. b = frame[l] /\ b \in Places
  <2>1. l \in 1..Len(frame)
    BY <1>2
  <2> QED
    BY <1>1, <1>4, <2>1, ElementOfSeq
<1> HIDE DEF l
<1>7. After(Stream, sent, l) = 4 * (n - 1) + 4 + 1
  BY <1>3, <1>5 DEF After
<1>8. n - 1 \notin touched
  BY DEF Spared
<1>9. Pos(b) = 4 * (n - 1) + 4
  BY <1>5, <1>7, <1>8 DEF Guarded
<1> HIDE DEF b
<1>10. /\ Pos(b) = 4 * b.from + b.at /\ b.from \in Nat /\ b.at \in 1..4
  BY <1>6, PosIs
<1>11. b.from = n - 1 /\ b.at = 4
  <2> DEFINE m == n - 1
  <2>1. m \in Nat /\ 4 \in 1..4 /\ 4 * b.from + b.at = 4 * m + 4
    BY <1>5, <1>9, <1>10
  <2> HIDE DEF m
  <2>2. b.from = m /\ b.at = 4
    BY <1>10, <2>1, SamePlace
  <2> QED
    BY <2>2 DEF m
<1>12. frame[Len(frame)].from \notin touched /\ frame[Len(frame)].at = 4
  BY <1>6, <1>8, <1>11 DEF l
<1>13. 4 <= Len(frame)
  BY <1>12 DEF Begun
<1> QED
  BY <1>2, <1>13 DEF l

LEMMA KeptStart == PanelInit => KeptInv
<1> SUFFICES ASSUME PanelInit PROVE KeptInv
  OBVIOUS
<1>1. wire = << >> /\ frame = << >> /\ sent = << >>
  BY DEF PanelInit, PanelStart
<1>2. Stream = << >> /\ Len(<< >>) = 0
  BY <1>1, ConcatEmptySeq, EmptySeq DEF Stream
<1>3. \A k : k \notin 1..Len(<< >>)
  BY <1>2
<1> QED
  BY <1>1, <1>2, <1>3 DEF KeptInv, Guarded, Begun, Kept

LEMMA GuardedStep ==
  ASSUME UartInv, Guarded(Stream, sent, touched), [PanelNext]_panelVars
  PROVE  Guarded(Stream', sent', touched')
<1>1. /\ Carries(Stream, sent) /\ Len(sent) \in Nat /\ Len(Stream) \in Nat /\ Told(sent)
  BY UartIs, SoundIs DEF UartInv
<1>2. CASE Calm
  BY <1>2 DEF Calm, traceVars, Stream
<1>3. CASE Writes
  <2>1. PICK more \in Seq(Frames) :
          /\ sent' = sent \o more /\ wire' = wire \o OnWire(more)
          /\ UNCHANGED << port, frame, taken, acted, seen, touched, bursts >>
    BY <1>3 DEF Writes
  <2>2. /\ Stream' = Stream \o OnWire(more) /\ Told(more)
        /\ Continues(OnWire(more), sent, more)
    BY <2>1, StreamWrites
  <2>3. Guarded(Stream \o OnWire(more), sent \o more, touched)
    BY <1>1, <2>2, WriteKeeps
  <2> QED
    BY <2>1, <2>2, <2>3
<1>4. CASE Reads
  <2>1. Whole /\ frame' = << >> /\ touched' = touched
    BY <1>4 DEF Reads
  <2>2. << >> \o Tail(wire) = Dropped(Stream, 4) /\ 4 \in 0..Len(Stream)
    BY <1>1, <2>1, WholeIs
  <2>3. Guarded(Dropped(Stream, 4), sent, touched) /\ Carries(Dropped(Stream, 4), sent)
    BY <1>1, <2>2, DropKeeps
  <2>4. CASE sent' = sent /\ wire' = Tail(wire)
    <3>1. Stream' = Dropped(Stream, 4)
      BY <2>1, <2>2, <2>4 DEF Stream
    <3> QED
      BY <2>1, <2>3, <2>4, <3>1
  <2>5. CASE \E more \in Seq(Frames) :
               sent' = sent \o more /\ wire' = Tail(wire) \o OnWire(more)
    <3>1. PICK more \in Seq(Frames) :
            sent' = sent \o more /\ wire' = Tail(wire) \o OnWire(more)
      BY <2>5
    <3>2. /\ Stream' = Dropped(Stream, 4) \o OnWire(more)
          /\ Told(more) /\ Continues(OnWire(more), sent, more)
      BY <2>1, <3>1, StreamReads
    <3>3. Guarded(Dropped(Stream, 4) \o OnWire(more), sent \o more, touched)
      BY <1>1, <2>3, <3>2, WriteKeeps
    <3> QED
      BY <2>1, <3>1, <3>2, <3>3
  <2> QED
    BY <1>4, <2>4, <2>5 DEF Reads
<1>5. CASE LoseBytes
  <2>1. PICK i \in 1..Len(Stream), n \in Nat :
          /\ n > 0 /\ i + n - 1 <= Len(Stream) /\ Stream' = Cut(Stream, i, n)
          /\ touched' = touched \cup { Stream[k].from : k \in i..(i + n - 1) }
    BY <1>5, StreamLoses
  <2>2. sent' = sent
    BY <1>5 DEF LoseBytes, Lost
  <2>3. Guarded(Cut(Stream, i, n), sent,
                touched \cup { Stream[k].from : k \in i..(i + n - 1) })
    BY <1>1, <2>1, CutKeeps
  <2> QED
    BY <2>1, <2>2, <2>3
<1>6. CASE ReadError
  <2>1. Stream' = Dropped(Stream, Len(frame)) /\ Len(frame) \in 0..Len(Stream)
    BY <1>6, StreamErrs
  <2>2. PICK more : touched' = touched \cup more
    BY <1>6 DEF ReadError, Lost
  <2>3. sent' = sent
    BY <1>6 DEF ReadError, Lost
  <2> QED
    BY <1>1, <2>1, <2>2, <2>3, DropKeeps, GuardedMore
<1>7. CASE OpenPort
  <2>1. Stream' = << >> /\ Len(<< >>) = 0
    BY <1>7, StreamFlushes, EmptySeq
  <2>2. \A k : k \notin 1..Len(<< >>)
    BY <2>1
  <2> QED
    BY <2>1, <2>2 DEF Guarded
<1>8. CASE TakeByte
  <2>1. sent' = sent /\ touched' = touched
    BY <1>8 DEF TakeByte, traceVars
  <2>2. CASE Stream' = Stream
    BY <2>1, <2>2
  <2>3. CASE Stream' = Dropped(Stream, 1)
    <3>1. 1 \in 0..Len(Stream)
      BY <1>8, StreamTakes, UartIs
    <3> QED
      BY <1>1, <2>1, <2>3, <3>1, DropKeeps
  <2> QED
    BY <1>8, <2>2, <2>3, StreamTakes
<1> QED
  BY <1>2, <1>3, <1>4, <1>5, <1>6, <1>7, <1>8, StepCases

LEMMA BegunStep ==
  ASSUME UartInv, UartInv', Guarded(Stream, sent, touched), Begun(frame, touched),
         [PanelNext]_panelVars
  PROVE  Begun(frame', touched')
<1>1. CASE frame' = << >>
  BY <1>1 DEF Begun
<1>2. CASE frame' = frame /\ \E more : touched' = touched \cup more
  BY <1>2 DEF Begun
<1>3. CASE TakeByte /\ frame' = Append(frame, Head(wire))
  <2> DEFINE b == Head(wire)
             l == Len(frame)
  <2>1. /\ Len(frame') = l + 1 /\ frame'[Len(frame')] = b /\ Stream[l + 1] = b
        /\ frame'[1] = (IF frame = << >> THEN b ELSE frame[1]) /\ Len(Stream) > l
    BY <1>3, StreamTakes
  <2>2. touched' = touched
    BY <1>3 DEF TakeByte, traceVars
  <2>3. l \in Nat /\ Len(Stream) \in Nat /\ l + 1 \in 1..Len(Stream)
    BY <2>1, UartIs
  <2>4. b \in Places
    <3>1. Stream[l + 1] \in Places
      BY <2>3, UartIs, ElementOfSeq
    <3> QED
      BY <2>1, <3>1
  <2>5. SUFFICES ASSUME b.from \notin touched PROVE b.at <= l + 1
    BY <2>1, <2>2 DEF Begun
  <2>6. CASE frame = << >>
    <3>1. frame' # << >> /\ frame'[1] = b
      BY <1>3, <2>1, <2>6
    <3>2. b.at = 1
      BY <3>1 DEF UartInv, UartTypeOK
    <3> QED
      BY <2>3, <3>2
  <2>7. CASE frame # << >> /\ b.at = 1
    BY <2>3, <2>7
  <2>8. CASE frame # << >> /\ b.at # 1
    <3> DEFINE c == Stream[l]
               m == b.from
               a == b.at - 1
    <3>1. frame \in Seq(Places)
      BY DEF UartInv, UartTypeOK
    <3>2. l \in 1..Len(Stream) /\ l < Len(Stream) /\ l \in 1..Len(frame)
      <4>1. l >= 1
        BY <2>3, <2>8, <3>1, EmptySeq
      <4> QED
        BY <2>1, <2>3, <4>1
    <3>3. c = frame[l] /\ c \in Places
      BY <3>1, <3>2, UartIs, ElementOfSeq
    <3>4. Pos(b) = 4 * m + b.at /\ m \in Nat /\ b.at \in 1..4
      BY <2>4, PosIs
    <3>5. a \in 1..4 /\ a + 1 = b.at
      BY <2>8, <3>4
    <3>6. After(Stream, sent, l) = Pos(b)
      BY <2>1, <3>2 DEF After
    <3>7. Pos(b) = 4 * m + a + 1
      BY <3>4, <3>5
    <3> HIDE DEF a, m
    <3>8. m \notin touched
      BY <2>5 DEF m
    <3>9. Pos(c) = 4 * m + a
      BY <3>2, <3>4, <3>5, <3>6, <3>7, <3>8 DEF Guarded
    <3> HIDE DEF c
    <3>10. /\ Pos(c) = 4 * c.from + c.at /\ c.from \in Nat /\ c.at \in 1..4
      BY <3>3, PosIs
    <3>11. c.from = m /\ c.at = a
      <4>1. 4 * c.from + c.at = 4 * m + a
        BY <3>9, <3>10
      <4>2. m \in Nat /\ a \in 1..4 /\ c.from \in Nat /\ c.at \in 1..4
        BY <3>4, <3>5, <3>10
      <4> QED
        BY <4>1, <4>2, SamePlace
    <3>12. frame[Len(frame)].from \notin touched /\ frame[Len(frame)].at = a
      BY <3>3, <3>8, <3>11
    <3>13. a <= l
      BY <2>8, <3>12 DEF Begun
    <3> HIDE DEF l, b
    <3> QED
      BY <2>3, <3>5, <3>13
  <2> QED
    BY <2>6, <2>7, <2>8
<1>4. \/ frame' = << >>
      \/ frame' = frame /\ \E more : touched' = touched \cup more
      \/ TakeByte /\ frame' = Append(frame, Head(wire))
  <2>1. CASE Calm \/ Writes \/ LoseBytes \/ ReadError \/ OpenPort \/ Reads
    <3>1. \/ frame' = << >>
          \/ frame' = frame /\ (touched' = touched \/ \E more : touched' = touched \cup more)
      <4>1. CASE Calm \/ Writes \/ Reads
        BY <4>1 DEF Calm, traceVars, Writes, Reads
      <4>2. CASE LoseBytes
        <5>1. frame' = frame
          BY <4>2 DEF LoseBytes
        <5>2. \E more : touched' = touched \cup more
          BY <4>2 DEF LoseBytes, Lost
        <5> QED
          BY <5>1, <5>2
      <4>3. CASE ReadError
        BY <4>3 DEF ReadError
      <4>4. CASE OpenPort
        BY <4>4, StreamFlushes
      <4> QED
        BY <2>1, <4>1, <4>2, <4>3, <4>4
    <3>2. CASE touched' = touched
      <4>1. touched' = touched \cup {}
        BY <3>2
      <4> QED
        BY <3>1, <4>1
    <3>3. CASE touched' # touched
      BY <3>1, <3>3, Zenon
    <3> QED
      BY <3>2, <3>3
  <2>2. CASE TakeByte
    <3>1. touched' = touched \cup {}
      BY <2>2 DEF TakeByte, traceVars
    <3> QED
      BY <2>2, <3>1, StreamTakes
  <2> QED
    BY <2>1, <2>2, StepCases
<1> QED
  BY <1>1, <1>2, <1>3, <1>4

LEMMA UnseenWait ==
  ASSUME Kept(Len(frame), Stream, sent, touched, seen),
         NEW n \in 1..Len(sent), Spared(n, touched), n \notin seen
  PROVE  \E k \in 1..Len(Stream) : Waits(Stream, k, n) /\ (k <= Len(frame) => k = 1)
BY DEF Kept

LEMMA SparedBefore ==
  ASSUME NEW hit, NEW more, NEW n, Spared(n, hit \cup more)
  PROVE  Spared(n, hit) /\ n \notin more
BY DEF Spared

\* A spared frame that waits in front is the one that the four bytes are.
LEMMA FrontIsRead ==
  ASSUME UartInv, Whole, FindsKnown \/ FindsAddress \/ FindsNothing,
         NEW n \in 1..Len(sent), Waits(Stream, 1, n)
  PROVE  n \in seen'
<1>1. Sound(Stream, sent, taken, bursts) /\ n \in Nat
  BY UartIs DEF UartInv
<1>2. \A i \in 0..3 : Stream[1 + i].from = n /\ Stream[1 + i].byte = sent[n][i + 1]
  BY <1>1, WaitsIs
<1>3. /\ Stream[1].from = n /\ Stream[4].from = n
      /\ Stream[1].byte = sent[n][1] /\ Stream[2].byte = sent[n][2]
      /\ Stream[3].byte = sent[n][3] /\ Stream[4].byte = sent[n][4]
  <2>1. Stream[1].from = n /\ Stream[1].byte = sent[n][1]
    <3> DEFINE At(i) == Stream[1 + i].from = n /\ Stream[1 + i].byte = sent[n][i + 1]
    <3>1. At(0)
      BY <1>2
    <3> QED
      BY <3>1
  <2>2. Stream[2].byte = sent[n][2]
    <3> DEFINE At(i) == Stream[1 + i].byte = sent[n][i + 1]
    <3>1. At(1)
      BY <1>2
    <3> QED
      BY <3>1
  <2>3. Stream[3].byte = sent[n][3]
    <3> DEFINE At(i) == Stream[1 + i].byte = sent[n][i + 1]
    <3>1. At(2)
      BY <1>2
    <3> QED
      BY <3>1
  <2>4. Stream[4].from = n /\ Stream[4].byte = sent[n][4]
    <3> DEFINE At(i) == Stream[1 + i].from = n /\ Stream[1 + i].byte = sent[n][i + 1]
    <3>1. At(3)
      BY <1>2
    <3> QED
      BY <3>1
  <2> QED
    BY <2>1, <2>2, <2>3, <2>4
<1>4. Stream[4] = Head(wire) /\ \A i \in 1..4 : Assembled[i] = Stream[i].byte
  BY WholeIs
<1>5. sent[n] \in Frames /\ FrameLike(sent[n]) /\ sent[n] \in [1..4 -> Int]
  BY UartIs, FramesAre
<1>6. Assembled = sent[n]
  <2>1. Assembled = [i \in 1..4 |-> Append(frame, Head(wire))[i].byte]
    BY DEF Assembled
  <2>2. \A i \in 1..4 : Assembled[i] = sent[n][i]
    BY <1>3, <1>4
  <2> QED
    BY <1>5, <2>1, <2>2
<1>7. Head(wire).from = n
  BY <1>3, <1>4
<1>8. CASE FindsKnown
  <2>1. PICK f \in Known : Finds(f)
    BY <1>8 DEF FindsKnown
  <2>2. f = sent[n] /\ Number(f) = n
    BY <1>6, <1>7, <2>1 DEF Finds, Number
  <2> QED
    BY <2>1, <2>2 DEF Finds
<1>9. CASE FindsAddress
  BY <1>7, <1>9 DEF FindsAddress
<1>10. CASE FindsNothing
  <2>1. sent[n] \notin Known /\ sent[n][2] # 24
    BY <1>6, <1>10 DEF FindsNothing
  <2>2. PICK a \in Addresses : sent[n] = SaveAddr(a)
    BY <1>5, <2>1 DEF Frames
  <2>3. SaveAddr(a)[2] = 24
    BY DEF SaveAddr, FrameOf
  <2> QED
    BY <2>1, <2>2, <2>3
<1> QED
  BY <1>8, <1>9, <1>10

LEMMA SeenGrows ==
  ASSUME FindsKnown \/ FindsAddress \/ FindsNothing
  PROVE  seen \subseteq seen'
BY DEF FindsKnown, Finds, FindsAddress, FindsNothing

\* What is taken off in front holds no frame that is spared and not acted on.
LEMMA KeptStep ==
  ASSUME UartInv, UartInv', KeptInv, [PanelNext]_panelVars
  PROVE  Kept(Len(frame'), Stream', sent', touched', seen')
<1>1. /\ Guarded(Stream, sent, touched) /\ Begun(frame, touched)
      /\ Kept(Len(frame), Stream, sent, touched, seen)
  BY DEF KeptInv
<1>2. /\ Sound(Stream, sent, taken, bursts) /\ Len(sent) \in Nat /\ Len(Stream) \in Nat
      /\ Len(frame) \in Nat /\ Len(frame) <= Len(Stream) /\ Stream \in Seq(Places)
  BY UartIs DEF UartInv
<1>3. Len(<< >>) = 0
  BY EmptySeq
<1>4. CASE Calm
  BY <1>1, <1>4 DEF Calm, traceVars, Stream
<1>5. CASE Writes
  <2>1. PICK more \in Seq(Frames) :
          /\ sent' = sent \o more /\ wire' = wire \o OnWire(more)
          /\ UNCHANGED << port, frame, taken, acted, seen, touched, bursts >>
    BY <1>5 DEF Writes
  <2>2. /\ Stream' = Stream \o OnWire(more) /\ Told(more)
        /\ Continues(OnWire(more), sent, more)
    BY <2>1, StreamWrites
  <2>3. Kept(Len(frame), Stream \o OnWire(more), sent \o more, touched, seen)
    BY <1>1, <1>2, <2>2, KeptWrite
  <2> QED
    BY <2>1, <2>2, <2>3
<1>6. CASE Reads
  <2>1. /\ Whole /\ frame' = << >> /\ touched' = touched
        /\ FindsKnown \/ FindsAddress \/ FindsNothing
    BY <1>6 DEF Reads
  <2>2. /\ << >> \o Tail(wire) = Dropped(Stream, 4) /\ 4 \in 0..Len(Stream)
        /\ Len(frame) = 3
    BY <1>2, <2>1, WholeIs DEF Whole
  <2>3. ASSUME NEW n \in 1..Len(sent), Spared(n, touched), n \notin seen'
        PROVE  \E k \in 1..Len(Stream) : Waits(Stream, k, n) /\ k > 4
    <3>1. n \notin seen
      BY <2>1, <2>3, SeenGrows
    <3>2. PICK k \in 1..Len(Stream) : Waits(Stream, k, n) /\ (k <= Len(frame) => k = 1)
      BY <1>1, <2>3, <3>1, UnseenWait
    <3>3. k # 1
      BY <2>1, <2>3, <3>2, FrontIsRead
    <3>4. k # 4
      <4>1. frame # << >>
        <5>1. 3 # 0 /\ Len(frame) = 3
          BY <2>2
        <5> QED
          BY <1>3, <5>1, Zenon
      <4>2. k # Len(frame) + 1
        BY <1>1, <2>3, <3>2, <4>1, NotBehind
      <4> QED
        BY <2>2, <4>2
    <3> QED
      BY <1>2, <2>2, <3>2, <3>3, <3>4
  <2>4. Kept(0, Dropped(Stream, 4), sent, touched, seen')
    BY <1>2, <2>2, <2>3, KeptDrop
  <2>5. CASE sent' = sent /\ wire' = Tail(wire)
    <3>1. Stream' = Dropped(Stream, 4)
      BY <2>1, <2>2, <2>5 DEF Stream
    <3> QED
      BY <1>3, <2>1, <2>4, <2>5, <3>1
  <2>6. CASE \E more \in Seq(Frames) :
               sent' = sent \o more /\ wire' = Tail(wire) \o OnWire(more)
    <3>1. PICK more \in Seq(Frames) :
            sent' = sent \o more /\ wire' = Tail(wire) \o OnWire(more)
      BY <2>6
    <3>2. /\ Stream' = Dropped(Stream, 4) \o OnWire(more)
          /\ Told(more) /\ Continues(OnWire(more), sent, more)
      BY <2>1, <3>1, StreamReads
    <3>3. Sound(Dropped(Stream, 4), sent, taken, bursts)
      BY <1>2, <2>2, SoundDrop
    <3>4. 0 <= Len(Dropped(Stream, 4))
      BY <3>3, SoundIs
    <3>5. Kept(0, Dropped(Stream, 4) \o OnWire(more), sent \o more, touched, seen')
      BY <2>4, <3>2, <3>3, <3>4, KeptWrite
    <3> QED
      BY <1>3, <2>1, <3>1, <3>2, <3>5
  <2> QED
    BY <1>6, <2>5, <2>6 DEF Reads
<1>7. CASE LoseBytes
  <2>1. PICK i \in 1..Len(Stream), c \in Nat :
          /\ c > 0 /\ i + c - 1 <= Len(Stream) /\ i > Len(frame)
          /\ Stream' = Cut(Stream, i, c)
          /\ touched' = touched \cup { Stream[l].from : l \in i..(i + c - 1) }
    BY <1>7, StreamLoses
  <2>2. sent' = sent /\ seen' = seen /\ frame' = frame
    BY <1>7 DEF LoseBytes, Lost
  <2>3. CutAt(Stream, i, c) /\ i \in Nat
    BY <1>2, <2>1 DEF CutAt
  <2> SUFFICES ASSUME NEW n \in 1..Len(sent), Spared(n, touched'), n \notin seen
               PROVE  \E k \in 1..Len(Stream') :
                        Waits(Stream', k, n) /\ (k <= Len(frame) => k = 1)
    BY <2>2 DEF Kept
  <2>4. Spared(n, touched) /\ n \notin { Stream[l].from : l \in i..(i + c - 1) }
    BY <2>1, SparedBefore
  <2>5. PICK k \in 1..Len(Stream) : Waits(Stream, k, n) /\ (k <= Len(frame) => k = 1)
    BY <1>1, <2>4, UnseenWait
  <2>6. \A l \in i..(i + c - 1) : Stream[l].from # n
    BY <2>4
  <2>7. n \in Nat
    OBVIOUS
  <2>8. \/ k < i /\ Waits(Stream', k, n)
        \/ k >= i + c /\ Waits(Stream', k - c, n)
    BY <1>2, <2>1, <2>3, <2>5, <2>6, <2>7, WaitsCut
  <2>9. CASE k < i /\ Waits(Stream', k, n)
    <3>1. k \in 1..Len(Stream')
      BY <2>9 DEF Waits
    <3> QED
      BY <2>5, <2>9, <3>1
  <2>10. CASE k >= i + c /\ Waits(Stream', k - c, n)
    <3> DEFINE l == k - c
    <3>1. Waits(Stream', l, n)
      BY <2>10
    <3>2. ~(l <= Len(frame))
      BY <1>2, <2>1, <2>10
    <3> HIDE DEF l
    <3>3. l \in 1..Len(Stream')
      BY <3>1 DEF Waits
    <3> QED
      BY <3>1, <3>2, <3>3
  <2> QED
    BY <2>8, <2>9, <2>10
<1>8. CASE ReadError
  <2>1. Stream' = Dropped(Stream, Len(frame)) /\ Len(frame) \in 0..Len(Stream)
    BY <1>8, StreamErrs
  <2>2. /\ sent' = sent /\ seen' = seen /\ frame' = << >>
        /\ touched' = touched \cup { frame[l].from : l \in DOMAIN frame }
    BY <1>8 DEF ReadError, Lost
  <2>3. ASSUME NEW n \in 1..Len(sent), Spared(n, touched'), n \notin seen
        PROVE  \E k \in 1..Len(Stream) : Waits(Stream, k, n) /\ k > Len(frame)
    <3>1. Spared(n, touched) /\ n \notin { frame[l].from : l \in DOMAIN frame }
      BY <2>2, <2>3, SparedBefore
    <3>2. PICK k \in 1..Len(Stream) : Waits(Stream, k, n) /\ (k <= Len(frame) => k = 1)
      BY <1>1, <2>3, <3>1, UnseenWait
    <3>3. CASE k <= Len(frame)
      <4>1. k = 1 /\ 1 \in 1..Len(frame) /\ n \in Nat
        BY <1>2, <3>2, <3>3
      <4>2. frame \in Seq(Places) /\ frame[1] = Stream[1]
        BY <4>1, UartIs DEF UartInv, UartTypeOK
      <4>3. 1 \in DOMAIN frame
        BY <4>1, <4>2, LenProperties
      <4>4. Stream[k + 0].from = n /\ k + 0 = 1
        <5>1. 0 \in 0..3 /\ k + 0 = 1
          BY <4>1
        <5> QED
          BY <1>2, <3>2, <4>1, <5>1, WaitsIs
      <4> QED
        BY <3>1, <4>2, <4>3, <4>4
    <3> QED
      BY <1>2, <3>2, <3>3
  <2>4. Kept(0, Dropped(Stream, Len(frame)), sent, touched', seen)
    BY <1>2, <2>1, <2>3, KeptDrop
  <2> QED
    BY <1>3, <2>1, <2>2, <2>4
<1>9. CASE OpenPort
  <2>1. Stream' = << >> /\ Stream = wire /\ frame' = << >>
    BY <1>9, StreamFlushes
  <2>2. /\ sent' = sent /\ seen' = seen
        /\ touched' = touched \cup { wire[l].from : l \in DOMAIN wire }
    BY <1>9 DEF OpenPort, Lost
  <2> SUFFICES ASSUME NEW n \in 1..Len(sent), Spared(n, touched'), n \notin seen
               PROVE  FALSE
    BY <2>2 DEF Kept
  <2>3. Spared(n, touched) /\ n \notin { wire[l].from : l \in DOMAIN wire }
    BY <2>2, SparedBefore
  <2>4. PICK k \in 1..Len(Stream) : Waits(Stream, k, n)
    BY <1>1, <2>3, UnseenWait
  <2>5. k \in DOMAIN wire /\ n \in Nat /\ k \in Nat
    BY <1>2, <2>1, <2>4, LenProperties
  <2>6. Stream[k + 0].from = n /\ k + 0 = k
    <3>1. 0 \in 0..3 /\ k + 0 = k
      BY <2>5
    <3> QED
      BY <1>2, <2>4, <2>5, <3>1, WaitsIs
  <2> QED
    BY <2>1, <2>3, <2>5, <2>6
<1>10. CASE TakeByte
  <2>1. sent' = sent /\ seen' = seen /\ touched' = touched
    BY <1>10 DEF TakeByte, traceVars
  <2>2. CASE Stream' = Stream /\ Len(frame') = Len(frame) + 1
    <3> SUFFICES ASSUME NEW n \in 1..Len(sent), Spared(n, touched), n \notin seen
                 PROVE  \E k \in 1..Len(Stream) :
                          Waits(Stream, k, n) /\ (k <= Len(frame') => k = 1)
      BY <2>1, <2>2 DEF Kept
    <3>1. PICK k \in 1..Len(Stream) : Waits(Stream, k, n) /\ (k <= Len(frame) => k = 1)
      BY <1>1, UnseenWait
    <3>2. CASE k = Len(frame) + 1
      <4>1. frame = << >>
        BY <1>1, <3>1, <3>2, NotBehind
      <4>2. k = 1
        BY <1>3, <3>2, <4>1
      <4> QED
        BY <3>1, <4>2
    <3>3. CASE k # Len(frame) + 1
      <4>1. k <= Len(frame') => k = 1
        BY <1>2, <2>2, <3>1, <3>3
      <4> QED
        BY <3>1, <4>1
    <3> QED
      BY <3>2, <3>3
  <2>3. CASE /\ frame = << >> /\ frame' = frame /\ Stream' = Dropped(Stream, 1)
             /\ Head(wire).byte # Marker
    <3>1. Len(frame) = 0 /\ Len(frame') = 0
      BY <1>3, <2>3
    <3>2. /\ Len(Stream) > 0 /\ Stream[1] = Head(wire) /\ 1 \in 0..Len(Stream)
      <4>1. Len(Stream) > Len(frame) /\ Stream[Len(frame) + 1] = Head(wire)
        BY <1>10, StreamTakes
      <4>2. Len(frame) + 1 = 1
        BY <3>1
      <4> QED
        BY <1>2, <3>1, <4>1, <4>2
    <3>3. ASSUME NEW n \in 1..Len(sent), Spared(n, touched), n \notin seen
          PROVE  \E k \in 1..Len(Stream) : Waits(Stream, k, n) /\ k > 1
      <4>1. PICK k \in 1..Len(Stream) : Waits(Stream, k, n)
        BY <1>1, <3>3, UnseenWait
      <4>2. k # 1
        <5> SUFFICES ASSUME k = 1 PROVE FALSE
          OBVIOUS
        <5>1. 0 \in 0..3 /\ k + 0 = 1 /\ 0 + 1 = 1 /\ n \in Nat
          OBVIOUS
        <5>2. Stream[1].byte = sent[n][1]
          <6>1. Stream[k + 0].byte = sent[n][0 + 1]
            BY <1>2, <4>1, <5>1, WaitsIs
          <6> QED
            BY <5>1, <6>1, Zenon
        <5>3. sent[n][1] = 251
          BY <3>3, UartIs, FrameBytes
        <5> QED
          BY <2>3, <3>2, <5>2, <5>3 DEF Marker
      <4> QED
        BY <4>1, <4>2
    <3>4. Kept(0, Dropped(Stream, 1), sent, touched, seen)
      BY <1>2, <3>2, <3>3, KeptDrop
    <3> QED
      BY <2>1, <2>3, <3>1, <3>4
  <2> QED
    BY <1>10, <2>2, <2>3, StreamTakes
<1> QED
  BY <1>4, <1>5, <1>6, <1>7, <1>8, <1>9, <1>10, StepCases

\* KeptInv holds throughout.
THEOREM KeptInvariant == PanelSpec => []KeptInv
<1>1. UartInv /\ UartInv' /\ KeptInv /\ [PanelNext]_panelVars => KeptInv'
  <2> SUFFICES ASSUME UartInv, UartInv', KeptInv, [PanelNext]_panelVars
               PROVE  KeptInv'
    OBVIOUS
  <2>1. Guarded(Stream, sent, touched) /\ Begun(frame, touched)
    BY DEF KeptInv
  <2>2. Guarded(Stream', sent', touched')
    BY <2>1, GuardedStep
  <2>3. Begun(frame', touched')
    BY <2>1, BegunStep
  <2>4. Kept(Len(frame'), Stream', sent', touched', seen')
    BY KeptStep
  <2> QED
    BY <2>2, <2>3, <2>4 DEF KeptInv
<1> QED
  BY <1>1, KeptStart, UartInvariant, PTL DEF PanelSpec

\* However many runs of bytes are lost, and wherever, a frame that lost none is
\* acted on once it has been read, if the frame before it lost none either
\* (serial_monitor_thread_func drops bytes until a marker leads).
THEOREM DamageStaysLocal == PanelSpec => []DamageIsLocal
<1>1. UartInv /\ KeptInv => DamageIsLocal
  <2> SUFFICES ASSUME UartInv, KeptInv, NEW n \in DOMAIN sent,
                      AllRead(n), n \notin touched, n - 1 \notin touched, n \notin seen
               PROVE  FALSE
    BY DEF DamageIsLocal
  <2>1. /\ Sound(Stream, sent, taken, bursts) /\ Stream \in Seq(Places)
        /\ sent \in Seq(Frames)
    BY UartIs DEF UartInv, UartTypeOK
  <2>2. n \in 1..Len(sent) /\ n \in Nat
    BY <2>1, LenProperties
  <2>3. PICK k \in 1..Len(Stream) : Waits(Stream, k, n)
    BY <2>2, UnseenWait DEF KeptInv, Spared
  <2>4. k \in DOMAIN Stream /\ k \in Nat
    BY <2>1, <2>3, LenProperties
  <2>5. Stream[k].from > n
    BY <2>4 DEF AllRead, Stream
  <2>6. Stream[k + 0].from = n /\ k + 0 = k
    <3>1. 0 \in 0..3 /\ k + 0 = k
      BY <2>4
    <3> QED
      BY <2>1, <2>2, <2>3, <3>1, WaitsIs
  <2> QED
    BY <2>2, <2>5, <2>6
<1> QED
  BY <1>1, UartInvariant, KeptInvariant, PTL

-----------------------------------------------------------------------------
\* Call forwarding.  While nothing is lost the stream holds the frames after
\* the first h of those told, whole, and every read is of the next one.
Tidy(s, told, h) ==
  /\ h \in Nat /\ Len(s) + 4 * h = 4 * Len(told)
  /\ \A k \in 1..Len(s) : Pos(s[k]) = 4 * h + 4 + k

LEMMA TidyIs ==
  ASSUME UartInv, NEW h, Tidy(Stream, sent, h)
  PROVE  /\ h \in Nat /\ h <= Len(sent) /\ Len(sent) \in Nat
         /\ Len(Stream) = 4 * (Len(sent) - h)
         /\ wire = << >> => frame = << >> /\ h = Len(sent)
<1>1. /\ Len(sent) \in Nat /\ Len(Stream) \in Nat /\ Len(frame) \in Nat
      /\ Len(Stream) = Len(frame) + Len(wire) /\ Len(wire) \in Nat
  BY UartIs
<1>2. h \in Nat /\ Len(Stream) + 4 * h = 4 * Len(sent)
  BY DEF Tidy
<1>3. h <= Len(sent) /\ Len(Stream) = 4 * (Len(sent) - h)
  BY <1>1, <1>2
<1>4. ASSUME wire = << >> PROVE frame = << >> /\ h = Len(sent)
  <2>1. Len(wire) = 0 /\ Len(frame) <= 3 /\ frame \in Seq(Places)
    BY <1>4, EmptySeq DEF UartInv, UartTypeOK
  <2>2. Len(frame) = 0 /\ h = Len(sent)
    BY <1>1, <1>2, <2>1
  <2> QED
    BY <2>1, <2>2, EmptySeq
<1> QED
  BY <1>1, <1>2, <1>3, <1>4

LEMMA TidyWrite ==
  ASSUME NEW s \in Seq(Places), NEW told, NEW more, NEW w, NEW h, Tidy(s, told, h),
         Told(told), Told(more), Continues(w, told, more)
  PROVE  Tidy(s \o w, told \o more, h)
<1>1. /\ Len(s) \in Nat /\ Len(told) \in Nat /\ Len(more) \in Nat /\ Len(w) \in Nat
      /\ w \in Seq(Places) /\ Len(w) = 4 * Len(more)
      /\ h \in Nat /\ Len(s) + 4 * h = 4 * Len(told)
  BY DEF Told, Continues, Tidy
<1> DEFINE all == s \o w
<1>2. /\ Len(all) = Len(s) + Len(w)
      /\ \A k \in 1..Len(s) + Len(w) :
           all[k] = IF k <= Len(s) THEN s[k] ELSE w[k - Len(s)]
  BY <1>1, ConcatProperties
<1>3. Len(told \o more) = Len(told) + Len(more)
  BY ConcatProperties DEF Told
<1> HIDE DEF all
<1>4. ASSUME NEW k \in 1..Len(all) PROVE Pos(all[k]) = 4 * h + 4 + k
  <2>1. CASE k <= Len(s)
    <3>1. k \in 1..Len(s) /\ all[k] = s[k]
      BY <1>1, <1>2, <2>1
    <3> QED
      BY <3>1 DEF Tidy
  <2>2. CASE ~(k <= Len(s))
    <3>1. k - Len(s) \in 1..Len(w) /\ all[k] = w[k - Len(s)]
      BY <1>1, <1>2, <2>2
    <3>2. Pos(all[k]) = 4 * Len(told) + 4 + (k - Len(s))
      BY <3>1 DEF Continues
    <3> QED
      BY <1>1, <3>2
  <2> QED
    BY <2>1, <2>2
<1>5. Len(all) + 4 * h = 4 * (Len(told) + Len(more))
  <2>1. \A l, m, n, i \in Nat : l + 4 * i = 4 * m => (l + 4 * n) + 4 * i = 4 * (m + n)
    OBVIOUS
  <2>2. Len(all) = Len(s) + 4 * Len(more)
    BY <1>1, <1>2
  <2>3. PICK l, m, n : l = Len(s) /\ m = Len(told) /\ n = Len(more)
    OBVIOUS
  <2>4. l \in Nat /\ m \in Nat /\ n \in Nat /\ h \in Nat /\ l + 4 * h = 4 * m
    BY <1>1, <2>3
  <2> QED
    BY <2>1, <2>2, <2>3, <2>4
<1> QED
  BY <1>1, <1>3, <1>4, <1>5 DEF Tidy, all

LEMMA TidyDrop ==
  ASSUME NEW s \in Seq(Places), NEW told, NEW h, Tidy(s, told, h), Len(s) >= 4,
         Len(told) \in Nat
  PROVE  Tidy(Dropped(s, 4), told, h + 1)
<1> DEFINE d == Dropped(s, 4)
<1>1. Len(s) \in Nat /\ 4 \in 0..Len(s) /\ h \in Nat /\ Len(s) + 4 * h = 4 * Len(told)
  BY DEF Tidy
<1>2. Len(d) = Len(s) - 4 /\ \A k \in 1..Len(s) - 4 : d[k] = s[k + 4]
  BY <1>1, DroppedIs
<1> HIDE DEF d
<1>3. ASSUME NEW k \in 1..Len(d) PROVE Pos(d[k]) = 4 * (h + 1) + 4 + k
  <2>1. k + 4 \in 1..Len(s) /\ d[k] = s[k + 4]
    BY <1>1, <1>2
  <2>2. Pos(s[k + 4]) = 4 * h + 4 + (k + 4)
    BY <2>1 DEF Tidy
  <2> QED
    BY <1>1, <2>1, <2>2
<1>4. Len(d) + 4 * (h + 1) = 4 * Len(told) /\ h + 1 \in Nat
  <2>1. PICK l, m : l = Len(s) /\ m = Len(told)
    OBVIOUS
  <2>2. l \in Nat /\ m \in Nat /\ l + 4 * h = 4 * m /\ Len(d) = l - 4
    BY <1>1, <1>2, <2>1
  <2>3. (l - 4) + 4 * (h + 1) = 4 * m
    BY <1>1, <2>2
  <2> QED
    BY <1>1, <2>1, <2>2, <2>3
<1> QED
  BY <1>3, <1>4, Zenon DEF Tidy, d

\* The four bytes read are the frame after the first h.
LEMMA TidyRead ==
  ASSUME UartInv, Whole, NEW h, Tidy(Stream, sent, h)
  PROVE  /\ h + 1 \in 1..Len(sent) /\ Assembled = sent[h + 1]
         /\ Tidy(Dropped(Stream, 4), sent, h + 1)
<1>1. /\ Len(sent) \in Nat /\ Stream \in Seq(Places) /\ Len(Stream) \in Nat
      /\ Len(Stream) >= 4 /\ \A i \in 1..4 : Assembled[i] = Stream[i].byte
  BY UartIs, WholeIs
<1>2. h \in Nat /\ Len(Stream) + 4 * h = 4 * Len(sent)
  BY DEF Tidy
<1>3. h + 1 \in 1..Len(sent)
  BY <1>1, <1>2
<1>4. ASSUME NEW i \in 1..4 PROVE Assembled[i] = sent[h + 1][i]
  <2> DEFINE b == Stream[i]
  <2>1. i \in 1..Len(Stream)
    BY <1>1
  <2>2. Pos(b) = 4 * h + 4 + i /\ b \in Places /\ b.byte = sent[b.from][b.at]
    BY <1>1, <2>1, ElementOfSeq, SoundIs DEF Tidy, UartInv, ByteOf
  <2> HIDE DEF b
  <2>3. b.from \in Nat /\ b.at \in 1..4 /\ 4 * b.from + b.at = 4 * (h + 1) + i
    BY <1>2, <2>2, PosIs
  <2>4. b.from = h + 1 /\ b.at = i
    <3>1. PICK n : n = h + 1
      OBVIOUS
    <3>2. n \in Nat /\ 4 * b.from + b.at = 4 * n + i
      BY <1>2, <2>3, <3>1
    <3>3. PICK m, a : m = b.from /\ a = b.at
      OBVIOUS
    <3>4. m \in Nat /\ a \in 1..4 /\ 4 * m + a = 4 * n + i
      BY <2>3, <3>2, <3>3
    <3>5. m = n /\ a = i
      BY <3>2, <3>4
    <3> QED
      BY <3>1, <3>3, <3>5
  <2> QED
    BY <1>1, <2>2, <2>4 DEF b
<1>5. sent[h + 1] \in [1..4 -> Int]
  BY <1>3, UartIs DEF FrameLike
<1>6. Assembled = sent[h + 1]
  <2> DEFINE f == sent[h + 1]
  <2>1. f = [k \in 1..4 |-> f[k]]
    BY <1>5
  <2>2. \A k \in 1..4 : Append(frame, Head(wire))[k].byte = f[k]
    BY <1>4 DEF Assembled
  <2> HIDE DEF f
  <2> QED
    BY <2>1, <2>2, Zenon DEF Assembled, f
<1> QED
  BY <1>1, <1>3, <1>6, TidyDrop

LEMMA TidyTakes ==
  ASSUME UartInv, TakeByte, NEW h, Tidy(Stream, sent, h)
  PROVE  Stream' = Stream
<1>1. CASE frame # << >>
  BY <1>1, StreamTakes
<1>2. CASE frame = << >>
  <2>1. Len(frame) = 0 /\ Stream[Len(frame) + 1] = Head(wire) /\ Len(Stream) > Len(frame)
    BY <1>2, StreamTakes
  <2> DEFINE b == Stream[1]
  <2>2. /\ Len(sent) \in Nat /\ Stream \in Seq(Places) /\ Len(Stream) \in Nat
        /\ 1 \in 1..Len(Stream) /\ b = Head(wire)
    BY <2>1, UartIs
  <2>3. h \in Nat /\ Len(Stream) + 4 * h = 4 * Len(sent)
    BY DEF Tidy
  <2>4. Pos(b) = 4 * h + 4 + 1 /\ b \in Places /\ b.byte = sent[b.from][b.at]
        /\ b.from \in 1..Len(sent)
    BY <2>2, ElementOfSeq, SoundIs DEF Tidy, UartInv, ByteOf
  <2> HIDE DEF b
  <2>5. b.from \in Nat /\ b.at \in 1..4 /\ 4 * b.from + b.at = 4 * (h + 1) + 1
    BY <2>3, <2>4, PosIs
  <2>6. b.at = 1
    BY <2>3, <2>5, SamePlace
  <2>7. b.byte = Marker
    BY <2>4, <2>6, UartIs DEF FrameLike, Marker
  <2> QED
    BY <2>2, <2>7, StreamTakes
<1> QED
  BY <1>1, <1>2
\* What the MCU reports: the last report of forwarding that is still to be read
\* is of what it does; or none is, and what is shown agrees.
Push == { PushState0, PushState1 }
Says(on) == IF on THEN PushState1 ELSE PushState0
Value(on) == IF on THEN 1 ELSE 0
Quiet(told, i) == \A n \in Nat : i < n /\ n <= Len(told) => told[n] \notin Push
Newest(told, h, on) ==
  \E n \in Nat : h < n /\ n <= Len(told) /\ told[n] = Says(on) /\ Quiet(told, n)
Latest(told, h, on, switch) ==
  Newest(told, h, on) \/ (Quiet(told, h) /\ switch \in {-1, Value(on)})

LEMMA PushesAre ==
  /\ PushState0 # PushState1 /\ McuState0 # McuState1
  /\ PushState0[2] = 25 /\ PushState1[2] = 25
  /\ McuState0 \notin Push /\ McuState1 \notin Push
  /\ \A f \in {Alarm, HangUp0, HangUp1, StartCall, CmdReset, Handset, StaToAp,
               LongDown1, LongDown2} : f \notin Push \cup {McuState0, McuState1}
  /\ \A f \in Push : f # McuState0 /\ f # McuState1 /\ f \in Known /\ f[2] # 24
<1>1. /\ 17 \in 17..36 /\ 19 \in 17..36 /\ 20 \in 17..36 /\ 22 \in 17..36
      /\ 25 \in 17..36 /\ 32 \in 17..36 /\ 33 \in 17..36 /\ 35 \in 17..36
      /\ 36 \in 17..36 /\ 0 \in 0..250 /\ 1 \in 0..250 /\ 2 \in 0..250
  OBVIOUS
<1>0. \A c \in 17..36, d \in 0..250 : FrameOf(c, d)[2] = c /\ FrameOf(c, d)[3] = d
  BY FrameOfIs
<1>2. /\ PushState0[2] = 25 /\ PushState0[3] = 0 /\ PushState1[2] = 25 /\ PushState1[3] = 1
      /\ McuState0[2] = 22 /\ McuState0[3] = 0 /\ McuState1[2] = 22 /\ McuState1[3] = 1
  BY <1>0, <1>1 DEF PushState0, PushState1, McuState0, McuState1
<1>3. /\ Alarm[2] = 17 /\ HangUp0[2] = 19 /\ HangUp1[2] = 19 /\ StartCall[2] = 20
      /\ CmdReset[2] = 32 /\ StaToAp[2] = 33 /\ Handset[2] = 35
      /\ LongDown1[2] = 36 /\ LongDown2[2] = 36
  BY <1>0, <1>1 DEF Alarm, HangUp0, HangUp1, StartCall, CmdReset, StaToAp, Handset,
     LongDown1, LongDown2
<1>4. \A f \in Push : f[2] = 25
  BY <1>2 DEF Push
<1>5. \A f \in {Alarm, HangUp0, HangUp1, StartCall, CmdReset, Handset, StaToAp,
                LongDown1, LongDown2} : f[2] # 25 /\ f[2] # 22
  BY <1>2, <1>3
<1>6. \A f \in Push : f \in Known
  BY DEF Push, Known
<1>7. PushState0 # PushState1 /\ McuState0 # McuState1
  BY <1>2
<1>8. \A f \in Push : f # McuState0 /\ f # McuState1 /\ f[2] # 24
  BY <1>2, <1>4
<1> QED
  BY <1>2, <1>4, <1>5, <1>6, <1>7, <1>8

LEMMA SaysIs ==
  ASSUME NEW on \in BOOLEAN
  PROVE  /\ Says(on) \in Push /\ Report(on) = << Says(on) >> /\ Says(on) \in Frames
         /\ << Says(on) >> \in Seq(Frames)
         /\ \A off \in BOOLEAN : Says(on) = Says(off) => on = off
<1>1. Says(on) \in Push /\ Report(on) = << Says(on) >>
  BY DEF Says, Push, Report
<1>2. Says(on) \in Frames
  BY <1>1, PushesAre DEF Frames
<1>3. \A off \in BOOLEAN : Says(on) = Says(off) => on = off
  BY PushesAre DEF Says
<1>4. << Says(on) >> \in Seq(Frames)
  BY <1>2
<1> QED
  BY <1>1, <1>2, <1>3, <1>4

\* One frame more.
LEMMA OneMore ==
  ASSUME NEW told \in Seq(Frames), NEW f \in Frames
  PROVE  /\ Len(told \o << f >>) = Len(told) + 1 /\ Len(told) \in Nat
         /\ (told \o << f >>)[Len(told) + 1] = f
         /\ \A n \in Nat : 0 < n /\ n <= Len(told) => (told \o << f >>)[n] = told[n]
<1>1. << f >> \in Seq(Frames) /\ Len(<< f >>) = 1 /\ << f >>[1] = f
  OBVIOUS
<1>2. PICK g : g = << f >>
  OBVIOUS
<1>3. /\ Len(told \o g) = Len(told) + Len(g)
      /\ \A n \in 1..Len(told) + Len(g) :
           (told \o g)[n] = IF n <= Len(told) THEN told[n] ELSE g[n - Len(told)]
  BY <1>1, <1>2, ConcatProperties
<1>4. Len(told) \in Nat
  OBVIOUS
<1>5. PICK all : all = told \o g
  OBVIOUS
<1>6. /\ Len(all) = Len(told) + 1
      /\ \A n \in 1..Len(told) + 1 :
           all[n] = IF n <= Len(told) THEN told[n] ELSE g[n - Len(told)]
  BY <1>1, <1>2, <1>3, <1>5
<1>7. PICK l : l = Len(told)
  OBVIOUS
<1>8. l \in Nat /\ l + 1 \in 1..l + 1 /\ ~(l + 1 <= l) /\ (l + 1) - l = 1
  BY <1>4, <1>7
<1>9. all[l + 1] = g[(l + 1) - l]
  BY <1>6, <1>7, <1>8
<1>10. all[l + 1] = f
  BY <1>1, <1>2, <1>8, <1>9
<1>11. \A n \in Nat : 0 < n /\ n <= l => all[n] = told[n]
  BY <1>6, <1>7, <1>8
<1> QED
  BY <1>2, <1>4, <1>5, <1>6, <1>7, <1>10, <1>11

LEMMA QuietAfter ==
  ASSUME NEW told \in Seq(Frames), NEW f \in Frames, NEW i \in Nat
  PROVE  /\ i >= Len(told) => Quiet(told, i)
         /\ i > Len(told) => Quiet(told \o << f >>, i)
         /\ Quiet(told, i) /\ f \notin Push => Quiet(told \o << f >>, i)
<1>1. Len(told) \in Nat
  OBVIOUS
<1>2. i >= Len(told) => Quiet(told, i)
  BY <1>1 DEF Quiet
<1>3. PICK all : all = told \o << f >>
  OBVIOUS
<1>4. /\ Len(all) = Len(told) + 1 /\ all[Len(told) + 1] = f
      /\ \A n \in Nat : 0 < n /\ n <= Len(told) => all[n] = told[n]
  BY <1>3, OneMore
<1>5. i > Len(told) => Quiet(all, i)
  BY <1>1, <1>4 DEF Quiet
<1>6. Quiet(told, i) /\ f \notin Push => Quiet(all, i)
  <2> SUFFICES ASSUME Quiet(told, i), f \notin Push,
                      NEW n \in Nat, i < n, n <= Len(all)
               PROVE  all[n] \notin Push
    BY DEF Quiet
  <2>1. CASE n <= Len(told)
    BY <1>4, <2>1 DEF Quiet
  <2>2. CASE n = Len(told) + 1
    BY <1>4, <2>2
  <2> QED
    BY <1>1, <1>4, <2>1, <2>2
<1> QED
  BY <1>2, <1>3, <1>5, <1>6

\* A report of what the MCU does is told.
LEMMA LatestTold ==
  ASSUME NEW told \in Seq(Frames), NEW h \in Nat, h <= Len(told), NEW on \in BOOLEAN,
         NEW switch
  PROVE  Latest(told \o << Says(on) >>, h, on, switch)
<1>1. Says(on) \in Frames
  BY SaysIs
<1>2. PICK f : f = Says(on)
  OBVIOUS
<1>3. PICK all : all = told \o << f >>
  OBVIOUS
<1>4. f \in Frames /\ Len(told) \in Nat
  BY <1>1, <1>2
<1>5. Len(all) = Len(told) + 1 /\ all[Len(told) + 1] = f
  BY <1>3, <1>4, OneMore
<1>6. Quiet(all, Len(told) + 1)
  BY <1>3, <1>4, QuietAfter
<1>7. PICK n : n = Len(told) + 1
  OBVIOUS
<1>8. n \in Nat /\ h < n /\ n <= Len(all)
  BY <1>4, <1>5, <1>7
<1>9. Newest(all, h, on)
  BY <1>2, <1>5, <1>6, <1>7, <1>8, Zenon DEF Newest
<1> QED
  BY <1>2, <1>3, <1>9 DEF Latest

\* Any other frame is told.
LEMMA LatestMore ==
  ASSUME NEW told \in Seq(Frames), NEW h \in Nat, NEW on, NEW switch,
         NEW f \in Frames, f \notin Push, Latest(told, h, on, switch)
  PROVE  Latest(told \o << f >>, h, on, switch)
<1>3. PICK all : all = told \o << f >>
  OBVIOUS
<1>4. /\ Len(all) = Len(told) + 1 /\ all[Len(told) + 1] = f /\ Len(told) \in Nat
      /\ \A n \in Nat : 0 < n /\ n <= Len(told) => all[n] = told[n]
  BY <1>3, OneMore
<1>5. CASE Newest(told, h, on)
  <2>1. PICK n \in Nat : h < n /\ n <= Len(told) /\ told[n] = Says(on) /\ Quiet(told, n)
    BY <1>5 DEF Newest
  <2>2. Quiet(all, n)
    BY <1>3, <2>1, QuietAfter
  <2>3. n <= Len(all) /\ 0 < n
    BY <1>4, <2>1
  <2>4. all[n] = Says(on)
    BY <1>4, <2>1, <2>3
  <2>5. Newest(all, h, on)
    BY <2>1, <2>2, <2>3, <2>4, Zenon DEF Newest
  <2> QED
    BY <1>3, <2>5 DEF Latest
<1>6. CASE Quiet(told, h) /\ switch \in {-1, Value(on)}
  BY <1>6, QuietAfter DEF Latest
<1> QED
  BY <1>5, <1>6 DEF Latest

\* The next frame is read: a report, which is shown, or another frame.
LEMMA LatestRead ==
  ASSUME NEW told, NEW h \in Nat, Len(told) \in Nat, h + 1 <= Len(told), NEW on \in BOOLEAN,
         NEW switch, Latest(told, h, on, switch)
  PROVE  /\ told[h + 1] \notin Push => Latest(told, h + 1, on, switch)
         /\ \A off \in BOOLEAN :
              told[h + 1] = Says(off) => Latest(told, h + 1, on, Value(off))
<1>1. Quiet(told, h) => told[h + 1] \notin Push /\ Quiet(told, h + 1)
  BY DEF Quiet
<1>2. CASE Quiet(told, h) /\ switch \in {-1, Value(on)}
  BY <1>1, <1>2, SaysIs DEF Latest
<1>3. CASE Newest(told, h, on)
  <2>1. PICK n \in Nat : h < n /\ n <= Len(told) /\ told[n] = Says(on) /\ Quiet(told, n)
    BY <1>3 DEF Newest
  <2>2. CASE n = h + 1
    <3>1. told[h + 1] = Says(on) /\ Quiet(told, h + 1) /\ Says(on) \in Push
      BY <2>1, <2>2, SaysIs
    <3>2. \A off \in BOOLEAN : told[h + 1] = Says(off) => off = on
      BY <3>1, SaysIs
    <3> QED
      BY <3>1, <3>2 DEF Latest
  <2>3. CASE h + 1 < n
    <3>1. Newest(told, h + 1, on)
      BY <2>1, <2>3 DEF Newest
    <3> QED
      BY <3>1 DEF Latest
  <2> QED
    BY <2>1, <2>2, <2>3
<1> QED
  BY <1>2, <1>3 DEF Latest
ForwardTypeOK ==
  /\ unit \in [forwarding : BOOLEAN, programming : BOOLEAN, echoes : BOOLEAN]
  /\ shown \in [switch : Int, address : Int]
  /\ ordered \in {NoSetting, 0, 1}

\* The steps that say nothing of forwarding, and those that lose a byte.
Aside == UNCHANGED << Stream, sent, unit, forward, offAt, restore, shown, ordered,
                      before, mixed >>
Hurt == before' = "any" /\ mixed' = TRUE /\ UNCHANGED << unit, shown, ordered >>
Passed ==
  /\ Whole /\ Consumes /\ Assembled \notin Push \cup {McuState0, McuState1}
  /\ shown' \in [switch : Int, address : Int] /\ shown'.switch = shown.switch
  /\ UNCHANGED << forward, offAt, restore, ordered, before, mixed >>
Takes == TakeByte

LEMMA PassedIs ==
  ASSUME UartInv, ForwardTypeOK,
         AddressReported \/ Unknown \/ CallFrame \/ FirstStage \/ SecondStage \/ DirectRequest
  PROVE  Passed
<1>1. shown \in [switch : Int, address : Int]
  BY DEF ForwardTypeOK
<1>2. McuState0 \in Known /\ McuState1 \in Known
  BY DEF Known
<1>3. \A f \in Push \cup {McuState0, McuState1} : f \in Known /\ f[2] # 24
  BY <1>2, PushesAre, KnownIs
<1>4. \A f \in {Alarm, HangUp0, HangUp1, StartCall, CmdReset, Handset, StaToAp,
                LongDown1, LongDown2} : f \notin Push \cup {McuState0, McuState1}
  BY PushesAre
<1>5. ASSUME NEW f \in {Alarm, HangUp0, HangUp1, StartCall, CmdReset, Handset, StaToAp,
                        LongDown1, LongDown2},
             Finds(f), Consumes,
             UNCHANGED << forward, offAt, restore, shown, ordered, before, mixed >>
      PROVE  Passed
  BY <1>1, <1>4, <1>5 DEF Finds, Passed
<1>6. CASE AddressReported
  <2>1. /\ Whole /\ Consumes /\ Assembled[2] = 24
        /\ shown' = [shown EXCEPT !.address = Assembled[3]]
        /\ UNCHANGED << forward, offAt, restore, ordered, before, mixed >>
    BY <1>6 DEF AddressReported
  <2>2. Assembled[3] \in Int
    <3>1. /\ Stream \in Seq(Places) /\ Len(Stream) \in Nat /\ Len(Stream) >= 4
          /\ Assembled[3] = Stream[3].byte
      BY <2>1, UartIs, WholeIs
    <3>2. Stream[3] \in Places
      BY <3>1
    <3> QED
      BY <3>1, <3>2 DEF Places
  <2>3. shown' \in [switch : Int, address : Int] /\ shown'.switch = shown.switch
    BY <1>1, <2>1, <2>2
  <2>4. Assembled \notin Push \cup {McuState0, McuState1}
    BY <1>3, <2>1
  <2> QED
    BY <2>1, <2>3, <2>4, Zenon DEF Passed
<1>7. CASE Unknown
  BY <1>1, <1>3, <1>7 DEF Unknown, Passed, forwardVars
<1>8. CASE CallFrame
  BY <1>5, <1>8 DEF CallFrame, forwardVars
<1>9. CASE FirstStage \/ SecondStage \/ DirectRequest
  BY <1>5, <1>9 DEF FirstStage, SecondStage, DirectRequest, forwardVars
<1> QED
  BY <1>6, <1>7, <1>8, <1>9

\* The steps of the "forwarding" scene.
LEMMA ForwardCases ==
  ASSUME UartInv, ForwardTypeOK, scene = "forwarding", [PanelNext]_panelVars
  PROVE  \/ Aside \/ Hurt \/ Takes \/ Passed
         \/ Toggle \/ EnterProgramming \/ LeaveProgramming
         \/ \E on \in {0, 1} : SetForwarding(on)
         \/ PublishSetting \/ WindowPasses
         \/ ForwardingOff \/ ForwardingOn \/ ProgrammingBegins \/ ProgrammingEnds
         \/ Restores
<1>1. CASE Talk \/ ButtonDown
  BY <1>1 DEF Talk, ButtonDown
<1>2. CASE AddressReported \/ Unknown \/ CallFrame \/ FirstStage \/ SecondStage \/ DirectRequest
  BY <1>2, PassedIs
<1>3. CASE LoseBytes
  <2>1. PICK i \in DOMAIN wire, n \in 1..MaxBurst :
          Lost({ wire[k].from : k \in i..(i + n - 1) })
    BY <1>3 DEF LoseBytes
  <2>2. i \in Int /\ i \in i..(i + n - 1)
    <3>1. wire \in Seq(Places)
      BY DEF UartInv, UartTypeOK
    <3>2. i \in Int
      BY <3>1
    <3> QED
      BY <3>2
  <2>3. { wire[k].from : k \in i..(i + n - 1) } # {}
    BY <2>2
  <2> QED
    BY <1>3, <2>1, <2>3 DEF LoseBytes, Lost, Hurt
<1>4. CASE OpenPort
  <2>1. CASE wire = << >>
    <3>1. DOMAIN wire = {}
      BY <2>1
    <3>2. Lost({}) /\ wire' = wire /\ frame' = frame
      BY <1>4, <2>1, <3>1 DEF OpenPort
    <3> QED
      BY <1>4, <3>2 DEF OpenPort, Lost, Aside, Stream
  <2>2. CASE wire # << >>
    <3>1. wire \in Seq(Places)
      BY DEF UartInv, UartTypeOK
    <3>2. 1 \in DOMAIN wire
      BY <2>2, <3>1
    <3>3. { wire[k].from : k \in DOMAIN wire } # {}
      BY <3>2
    <3> QED
      BY <1>4, <3>3 DEF OpenPort, Lost, Hurt
  <2> QED
    BY <2>1, <2>2
<1>5. CASE ReadError
  <2>1. CASE frame = << >>
    <3>1. DOMAIN frame = {}
      BY <2>1
    <3>2. Lost({}) /\ wire' = wire /\ frame' = frame
      BY <1>5, <2>1, <3>1 DEF ReadError
    <3> QED
      BY <1>5, <3>2 DEF ReadError, Lost, Aside, Stream
  <2>2. CASE frame # << >>
    <3>1. frame \in Seq(Places)
      BY DEF UartInv, UartTypeOK
    <3>2. 1 \in DOMAIN frame
      BY <2>2, <3>1
    <3>3. { frame[k].from : k \in DOMAIN frame } # {}
      BY <3>2
    <3> QED
      BY <1>5, <3>3 DEF ReadError, Lost, Hurt
  <2> QED
    BY <2>1, <2>2
<1>6. CASE TakeByte
  BY <1>6 DEF Takes
<1>7. CASE PressAges
  BY <1>7 DEF PressAges, Aside, Stream, lineVars, traceVars, forwardVars
<1>8. CASE UNCHANGED panelVars
  BY <1>8 DEF panelVars, Aside, Stream, lineVars, traceVars, forwardVars
<1> QED
  BY <1>1, <1>2, <1>3, <1>4, <1>5, <1>6, <1>7, <1>8 DEF PanelNext, Monitor

\* How each step changes the frames still to be read.
LEMMA TidyWrites ==
  ASSUME UartInv, NEW h, Tidy(Stream, sent, h), NEW more \in Seq(Frames),
         sent' = sent \o more, wire' = wire \o OnWire(more), frame' = frame
  PROVE  Tidy(Stream', sent', h)
<1>1. /\ Stream' = Stream \o OnWire(more) /\ Told(more)
      /\ Continues(OnWire(more), sent, more)
  BY StreamWrites
<1>2. Told(sent) /\ Stream \in Seq(Places)
  BY UartIs
<1>3. Tidy(Stream \o OnWire(more), sent \o more, h)
  BY <1>1, <1>2, TidyWrite, Zenon
<1> QED
  BY <1>1, <1>3

LEMMA TidyReads ==
  ASSUME UartInv, NEW h, Tidy(Stream, sent, h), Whole, frame' = << >>
  PROVE  /\ h \in Nat /\ h + 1 \in 1..Len(sent) /\ Assembled = sent[h + 1]
         /\ Len(sent) \in Nat
         /\ wire' = Tail(wire) /\ sent' = sent => Tidy(Stream', sent', h + 1)
         /\ \A more \in Seq(Frames) :
              wire' = Tail(wire) \o OnWire(more) /\ sent' = sent \o more
              => Tidy(Stream', sent', h + 1)
<1>1. /\ h + 1 \in 1..Len(sent) /\ Assembled = sent[h + 1]
      /\ Tidy(Dropped(Stream, 4), sent, h + 1)
  BY TidyRead
<1>2. << >> \o Tail(wire) = Dropped(Stream, 4) /\ Told(sent) /\ h \in Nat /\ Len(sent) \in Nat
  BY WholeIs, UartIs DEF Tidy
<1>3. wire' = Tail(wire) /\ sent' = sent => Tidy(Stream', sent', h + 1)
  BY <1>1, <1>2 DEF Stream
<1>4. ASSUME NEW more \in Seq(Frames),
             wire' = Tail(wire) \o OnWire(more), sent' = sent \o more
      PROVE  Tidy(Stream', sent', h + 1)
  <2>1. /\ Stream' = Dropped(Stream, 4) \o OnWire(more) /\ Told(more)
        /\ Continues(OnWire(more), sent, more)
    BY <1>4, StreamReads
  <2>2. Dropped(Stream, 4) \in Seq(Places)
    <3>1. Stream \in Seq(Places) /\ Len(Stream) \in Nat /\ Len(Stream) >= 4
      BY WholeIs, UartIs
    <3>2. 4 \in 0..Len(Stream)
      BY <3>1
    <3> QED
      BY <3>1, <3>2, DroppedIs
  <2>3. Tidy(Dropped(Stream, 4) \o OnWire(more), sent \o more, h + 1)
    BY <1>1, <1>2, <2>1, <2>2, TidyWrite, Zenon
  <2> QED
    BY <1>4, <2>1, <2>3
<1> QED
  BY <1>1, <1>2, <1>3, <1>4
LEMMA ForwardTypeStep ==
  ASSUME UartInv, ForwardTypeOK, scene = "forwarding", [PanelNext]_panelVars
  PROVE  ForwardTypeOK'
<1> USE DEF ForwardTypeOK, NoSetting
<1>1. CASE Aside \/ Hurt
  BY <1>1 DEF Aside, Hurt
<1>2. CASE Takes
  BY <1>2 DEF Takes, TakeByte, forwardVars
<1>3. CASE Passed
  BY <1>3 DEF Passed, Consumes
<1>4. CASE Toggle \/ EnterProgramming \/ LeaveProgramming
  <2>1. CASE Toggle
    BY <2>1 DEF Toggle
  <2>2. CASE EnterProgramming
    BY <2>2 DEF EnterProgramming
  <2>3. CASE LeaveProgramming
    BY <2>3 DEF LeaveProgramming, forwardVars
  <2> QED
    BY <1>4, <2>1, <2>2, <2>3
<1>5. ASSUME NEW on \in {0, 1}, SetForwarding(on) PROVE ForwardTypeOK'
  <2>1. (on = 1) \in BOOLEAN
    OBVIOUS
  <2> QED
    BY <1>5, <2>1 DEF SetForwarding, Obeys
<1>6. CASE PublishSetting
  BY <1>6 DEF PublishSetting
<1>7. CASE WindowPasses
  BY <1>7 DEF WindowPasses
<1>8. CASE ForwardingOff \/ ForwardingOn
  BY <1>8 DEF ForwardingOff, ForwardingOn, Consumes, ShowSwitch
<1>9. CASE ProgrammingBegins
  BY <1>9 DEF ProgrammingBegins, Consumes
<1>10. CASE ProgrammingEnds
  BY <1>10 DEF ProgrammingEnds, Consumes
<1>11. CASE Restores
  BY <1>11 DEF Restores, Obeys
<1> QED
  BY <1>1, <1>2, <1>3, <1>4, <1>5, <1>6, <1>7, <1>8, <1>9, <1>10, <1>11, ForwardCases

\* While nothing is lost and no command crosses a report, the switch that is
\* shown follows what the MCU does.
Shows(s, told, h, does, switch) ==
  Tidy(s, told, h) /\ (does.echoes => Latest(told, h, does.forwarding, switch))
ShownInv == scene = "forwarding" /\ ~mixed =>
              \E h \in Nat : Shows(Stream, sent, h, unit, shown.switch)

LEMMA FramesToTell ==
  /\ McuState0 \in Frames /\ McuState1 \in Frames
  /\ PushState0 \in Frames /\ PushState1 \in Frames
  /\ \A f \in Frames : << f >> \in Seq(Frames)
BY DEF Frames, Known

\* The two frames that are written when programming begins.
LEMMA TwoMore ==
  ASSUME NEW told \in Seq(Frames), NEW f \in Frames, NEW g \in Frames
  PROVE  /\ << f, g >> \in Seq(Frames)
         /\ told \o << f >> \in Seq(Frames)
         /\ told \o << f, g >> = (told \o << f >>) \o << g >>
<1>1. << f >> \in Seq(Frames) /\ << g >> \in Seq(Frames) /\ << f, g >> \in Seq(Frames)
  OBVIOUS
<1>2. << f, g >> = << f >> \o << g >>
  <2>1. PICK a, b, c : a = << f >> /\ b = << g >> /\ c = << f, g >>
    OBVIOUS
  <2>2. /\ a \in Seq(Frames) /\ b \in Seq(Frames) /\ c \in Seq(Frames)
        /\ Len(a) = 1 /\ Len(b) = 1 /\ Len(c) = 2
        /\ a[1] = f /\ b[1] = g /\ c[1] = f /\ c[2] = g
    BY <1>1, <2>1
  <2>3. /\ a \o b \in Seq(Frames) /\ Len(a \o b) = 2
        /\ \A i \in 1..2 : (a \o b)[i] = IF i <= 1 THEN a[i] ELSE b[i - 1]
    BY <2>2, ConcatProperties
  <2>4. PICK d : d = a \o b
    OBVIOUS
  <2>5. d \in Seq(Frames) /\ Len(d) = 2 /\ d[1] = f /\ d[2] = g
    BY <2>2, <2>3, <2>4
  <2>6. \A i \in 1..2 : d[i] = c[i]
    BY <2>2, <2>5
  <2>7. c = d
    BY <2>2, <2>5, <2>6, SeqEqual
  <2> QED
    BY <2>1, <2>4, <2>7
<1>3. told \o (<< f >> \o << g >>) = (told \o << f >>) \o << g >>
  BY <1>1, ConcatAssociative
<1>4. told \o << f >> \in Seq(Frames)
  BY <1>1, ConcatProperties
<1> QED
  BY <1>1, <1>2, <1>3, <1>4

LEMMA ShownStep ==
  ASSUME UartInv, ForwardTypeOK, scene = "forwarding", [PanelNext]_panelVars, ~mixed',
         NEW h \in Nat, Shows(Stream, sent, h, unit, shown.switch)
  PROVE  \E g \in Nat : Shows(Stream', sent', g, unit', shown'.switch)
<1> DEFINE Goal == \E g \in Nat : Shows(Stream', sent', g, unit', shown'.switch)
<1>1. /\ Tidy(Stream, sent, h) /\ h <= Len(sent) /\ Len(sent) \in Nat
      /\ wire = << >> => frame = << >> /\ h = Len(sent)
  BY TidyIs DEF Shows
<1>2. unit.echoes => Latest(sent, h, unit.forwarding, shown.switch)
  BY DEF Shows
<1>3. sent \in Seq(Frames)
  BY DEF UartInv, UartTypeOK
<1>4. /\ unit \in [forwarding : BOOLEAN, programming : BOOLEAN, echoes : BOOLEAN]
      /\ unit.forwarding \in BOOLEAN /\ unit.echoes \in BOOLEAN
      /\ shown \in [switch : Int, address : Int]
      /\ ordered \in {NoSetting, 0, 1}
  BY DEF ForwardTypeOK
<1>5. ASSUME NEW g \in Nat, Tidy(Stream', sent', g),
             unit'.echoes => Latest(sent', g, unit'.forwarding, shown'.switch)
      PROVE  Goal
  BY <1>5 DEF Shows
<1>6. CASE Aside
  <2>1. UNCHANGED << Stream, sent, unit, shown >>
    BY <1>6 DEF Aside
  <2> QED
    BY <1>1, <1>2, <1>5, <2>1
<1>7. CASE Hurt
  BY <1>7 DEF Hurt
<1>8. CASE Takes
  <2>1. Stream' = Stream
    BY <1>1, <1>8, TidyTakes DEF Takes
  <2>2. UNCHANGED << sent, unit, shown >>
    BY <1>8 DEF Takes, TakeByte, forwardVars, traceVars
  <2> QED
    BY <1>1, <1>2, <1>5, <2>1, <2>2
<1>9. ASSUME Whole, frame' = << >>, wire' = Tail(wire), sent' = sent, unit' = unit,
             Assembled \notin Push, shown'.switch = shown.switch
      PROVE  Goal
  <2>1. h + 1 \in 1..Len(sent) /\ Assembled = sent[h + 1] /\ Tidy(Stream', sent', h + 1)
    BY <1>1, <1>9, TidyReads
  <2>2. unit'.echoes => Latest(sent', h + 1, unit'.forwarding, shown'.switch)
    BY <1>1, <1>2, <1>4, <1>9, <2>1, LatestRead
  <2> QED
    BY <1>5, <2>1, <2>2
<1>10. CASE Passed
  BY <1>9, <1>10 DEF Passed, Consumes
<1>11. CASE Toggle
  <2> DEFINE on == ~unit.forwarding
  <2>1. on \in BOOLEAN
    OBVIOUS
  <2>2. /\ sent' = sent \o Report(on) /\ wire' = wire \o OnWire(Report(on))
        /\ frame' = frame
    BY <1>11 DEF Toggle, Transmit
  <2>3. unit'.forwarding = on /\ unit'.echoes = unit.echoes
    BY <1>4, <1>11 DEF Toggle
  <2> HIDE DEF on
  <2>4. Report(on) = << Says(on) >> /\ << Says(on) >> \in Seq(Frames)
    BY <2>1, SaysIs
  <2>5. Tidy(Stream', sent', h)
    BY <1>1, <2>2, <2>4, TidyWrites
  <2>6. Latest(sent \o << Says(on) >>, h, on, shown'.switch)
    BY <1>1, <1>3, <2>1, LatestTold
  <2> QED
    BY <1>5, <2>2, <2>3, <2>4, <2>5, <2>6, Zenon
<1>12. CASE EnterProgramming
  <2>1. /\ frame' = frame /\ shown' = shown /\ unit'.forwarding = FALSE
        /\ unit'.echoes = unit.echoes
    BY <1>4, <1>12 DEF EnterProgramming
  <2>2. CASE unit.forwarding
    <3>1. PICK told : told = sent \o << Says(FALSE) >>
      OBVIOUS
    <3>2. Says(FALSE) = PushState0 /\ Says(FALSE) \in Frames /\ McuState1 \in Frames
      BY SaysIs, FramesToTell DEF Says
    <3>3. /\ told \in Seq(Frames) /\ << PushState0, McuState1 >> \in Seq(Frames)
          /\ sent \o << PushState0, McuState1 >> = told \o << McuState1 >>
      BY <1>3, <3>1, <3>2, TwoMore
    <3>4. /\ sent' = sent \o << PushState0, McuState1 >>
          /\ wire' = wire \o OnWire(<< PushState0, McuState1 >>)
      BY <1>12, <2>2 DEF EnterProgramming, Transmit
    <3>5. Tidy(Stream', sent', h)
      BY <1>1, <2>1, <3>3, <3>4, TidyWrites
    <3>6. Latest(told, h, FALSE, shown.switch)
      BY <1>1, <1>3, <3>1, LatestTold
    <3>7. Latest(told \o << McuState1 >>, h, FALSE, shown.switch)
      BY <3>2, <3>3, <3>6, LatestMore, PushesAre
    <3> QED
      BY <1>5, <2>1, <3>3, <3>4, <3>5, <3>7, Zenon
  <2>3. CASE ~unit.forwarding
    <3>1. sent' = sent \o << McuState1 >> /\ wire' = wire \o OnWire(<< McuState1 >>)
      BY <1>12, <2>3 DEF EnterProgramming, Transmit
    <3>2. McuState1 \in Frames /\ << McuState1 >> \in Seq(Frames) /\ McuState1 \notin Push
      BY FramesToTell, PushesAre
    <3>3. Tidy(Stream', sent', h)
      BY <1>1, <2>1, <3>1, <3>2, TidyWrites
    <3>4. unit.echoes => Latest(sent \o << McuState1 >>, h, FALSE, shown.switch)
      <4>1. unit.forwarding = FALSE
        BY <1>4, <2>3
      <4> QED
        BY <1>2, <1>3, <3>2, <4>1, LatestMore
    <3> QED
      BY <1>5, <2>1, <3>1, <3>3, <3>4, Zenon
  <2> QED
    BY <2>2, <2>3
<1>13. CASE LeaveProgramming
  <2>1. /\ frame' = frame /\ shown' = shown /\ unit'.forwarding = unit.forwarding
        /\ unit'.echoes = unit.echoes
        /\ sent' = sent \o << McuState0 >> /\ wire' = wire \o OnWire(<< McuState0 >>)
    BY <1>4, <1>13 DEF LeaveProgramming, Transmit, forwardVars
  <2>2. McuState0 \in Frames /\ << McuState0 >> \in Seq(Frames) /\ McuState0 \notin Push
    BY FramesToTell, PushesAre
  <2>3. Tidy(Stream', sent', h)
    BY <1>1, <2>1, <2>2, TidyWrites
  <2>4. unit.echoes => Latest(sent \o << McuState0 >>, h, unit.forwarding, shown.switch)
    BY <1>2, <1>3, <2>2, LatestMore
  <2> QED
    BY <1>5, <2>1, <2>3, <2>4, Zenon
<1>14. ASSUME NEW set \in {0, 1}, SetForwarding(set) PROVE Goal
  <2> DEFINE on == set = 1
  <2>1. on \in BOOLEAN
    OBVIOUS
  <2>2. Obeys(on, wire) /\ frame' = frame
    BY <1>14 DEF SetForwarding
  <2> HIDE DEF on
  <2>3. unit'.forwarding = on /\ unit'.echoes = unit.echoes
    BY <1>4, <2>2 DEF Obeys
  <2>4. CASE unit.echoes
    <3>1. sent' = sent \o Report(on) /\ wire' = wire \o OnWire(Report(on))
      BY <2>2, <2>4 DEF Obeys
    <3>2. Report(on) = << Says(on) >> /\ << Says(on) >> \in Seq(Frames)
      BY <2>1, SaysIs
    <3>3. Tidy(Stream', sent', h)
      BY <1>1, <2>2, <3>1, <3>2, TidyWrites
    <3>4. Latest(sent \o << Says(on) >>, h, on, shown'.switch)
      BY <1>1, <1>3, <2>1, LatestTold
    <3> QED
      BY <1>5, <2>3, <3>1, <3>2, <3>3, <3>4
  <2>5. CASE ~unit.echoes
    <3>1. << >> \in Seq(Frames) /\ sent \o << >> = sent
      BY <1>3, ConcatEmptySeq
    <3>2. wire \in Seq(Places)
      BY DEF UartInv, UartTypeOK
    <3>3. wire \o << >> = wire
      BY <3>2, ConcatEmptySeq
    <3>4. sent' = sent /\ wire' = wire
      BY <2>2, <2>5, <3>1, <3>3 DEF Obeys
    <3>5. Tidy(Stream', sent', h)
      BY <1>1, <2>2, <3>4 DEF Stream
    <3> QED
      BY <1>5, <2>3, <2>5, <3>5
  <2> QED
    BY <2>4, <2>5
<1>15. CASE PublishSetting
  <2>1. /\ UNCHANGED << frame, wire, sent, unit >> /\ shown'.switch = ordered
        /\ ordered # NoSetting /\ (ordered = 1) = unit.forwarding
    BY <1>4, <1>15 DEF PublishSetting, lineVars, traceVars
  <2>2. Tidy(Stream', sent', h)
    BY <1>1, <2>1 DEF Stream
  <2>3. ordered = Value(unit.forwarding)
    BY <1>4, <2>1 DEF Value
  <2>4. unit.echoes => Latest(sent, h, unit.forwarding, ordered)
    BY <1>2, <2>3 DEF Latest
  <2> QED
    BY <1>5, <2>1, <2>2, <2>4, Zenon
<1>16. CASE WindowPasses
  <2>1. UNCHANGED << frame, wire, sent, unit, shown >>
    BY <1>16 DEF WindowPasses, lineVars, traceVars
  <2>2. Tidy(Stream', sent', h)
    BY <1>1, <2>1 DEF Stream
  <2> QED
    BY <1>2, <1>5, <2>1, <2>2, Zenon
<1>17. ASSUME NEW on \in BOOLEAN, Finds(Says(on)), Consumes, shown'.switch = Value(on)
       PROVE  Goal
  <2>1. /\ Whole /\ frame' = << >> /\ wire' = Tail(wire) /\ sent' = sent /\ unit' = unit
        /\ Assembled = Says(on)
    BY <1>17 DEF Consumes, Finds
  <2>2. h + 1 \in 1..Len(sent) /\ Assembled = sent[h + 1] /\ Tidy(Stream', sent', h + 1)
    BY <1>1, <2>1, TidyReads
  <2>3. unit'.echoes => Latest(sent', h + 1, unit'.forwarding, shown'.switch)
    <3>1. unit.echoes => Latest(sent, h + 1, unit.forwarding, Value(on))
      <4>1. h + 1 <= Len(sent) /\ sent[h + 1] = Says(on)
        BY <2>1, <2>2
      <4> SUFFICES ASSUME Latest(sent, h, unit.forwarding, shown.switch)
                   PROVE  Latest(sent, h + 1, unit.forwarding, Value(on))
        BY <1>2
      <4>2. \A off \in BOOLEAN : sent[h + 1] = Says(off)
              => Latest(sent, h + 1, unit.forwarding, Value(off))
        BY <1>1, <1>4, <4>1, LatestRead
      <4> QED
        BY <4>1, <4>2
    <3> QED
      BY <1>17, <2>1, <3>1
  <2> QED
    BY <1>5, <2>2, <2>3
<1>18. CASE ForwardingOff
  <2>1. Finds(Says(FALSE)) /\ Consumes /\ shown'.switch = Value(FALSE)
    BY <1>4, <1>18 DEF ForwardingOff, ShowSwitch, Says, Value
  <2> QED
    BY <1>17, <2>1, Zenon
<1>19. CASE ForwardingOn
  <2>1. Finds(Says(TRUE)) /\ Consumes /\ shown'.switch = Value(TRUE)
    BY <1>4, <1>19 DEF ForwardingOn, ShowSwitch, Says, Value
  <2> QED
    BY <1>17, <2>1, Zenon
<1>20. CASE ProgrammingBegins \/ ProgrammingEnds
  <2>1. /\ Whole /\ frame' = << >> /\ wire' = Tail(wire) /\ sent' = sent /\ unit' = unit
        /\ shown' = shown /\ Assembled \in {McuState0, McuState1}
    BY <1>20 DEF ProgrammingBegins, ProgrammingEnds, Consumes, Finds
  <2>2. Assembled \notin Push
    BY <2>1, PushesAre
  <2> QED
    BY <1>9, <2>1, <2>2, Zenon
<1>21. CASE Restores
  <2>1. /\ Whole /\ frame' = << >> /\ Obeys(TRUE, Tail(wire)) /\ Assembled = McuState0
        /\ shown' = shown
    BY <1>21 DEF Restores, Finds
  <2>2. unit'.forwarding = TRUE /\ unit'.echoes = unit.echoes
    BY <1>4, <2>1 DEF Obeys
  <2>3. h + 1 \in Nat /\ h + 1 <= Len(sent) /\ TRUE \in BOOLEAN
    BY <1>1, <2>1, TidyReads
  <2>4. CASE unit.echoes
    <3>1. sent' = sent \o Report(TRUE) /\ wire' = Tail(wire) \o OnWire(Report(TRUE))
      BY <2>1, <2>4 DEF Obeys
    <3>2. Report(TRUE) = << Says(TRUE) >> /\ << Says(TRUE) >> \in Seq(Frames)
      BY SaysIs
    <3>3. Tidy(Stream', sent', h + 1)
      BY <1>1, <2>1, <3>1, <3>2, TidyReads
    <3>4. Latest(sent \o << Says(TRUE) >>, h + 1, TRUE, shown'.switch)
      BY <1>3, <2>3, LatestTold
    <3> QED
      BY <1>5, <2>2, <2>3, <3>1, <3>2, <3>3, <3>4, Zenon
  <2>5. CASE ~unit.echoes
    <3>1. << >> \in Seq(Frames) /\ sent \o << >> = sent
      BY <1>3, ConcatEmptySeq
    <3>2. Tail(wire) \in Seq(Places)
      BY <2>1, WholeIs
    <3>3. Tail(wire) \o << >> = Tail(wire)
      BY <3>2, ConcatEmptySeq
    <3>4. sent' = sent /\ wire' = Tail(wire)
      BY <2>1, <2>5, <3>1, <3>3 DEF Obeys
    <3>5. Tidy(Stream', sent', h + 1)
      BY <1>1, <2>1, <3>4, TidyReads
    <3> QED
      BY <1>5, <2>2, <2>3, <2>5, <3>5, Zenon
  <2> QED
    BY <2>4, <2>5
<1>22. Goal
  BY <1>6, <1>7, <1>8, <1>10, <1>11, <1>12, <1>13, <1>14, <1>15, <1>16, <1>18, <1>19,
     <1>20, <1>21, ForwardCases
<1> QED
  BY <1>22
\* While nobody interferes with it, a programming mode that began with
\* forwarding on ends with it on again: the report that it went off, the wish to
\* restore it and the report that the mode ended follow one another.
WasOff(told, h, does, at, wish) ==
  ~does.forwarding /\ ~wish /\ at # "recent" /\ Quiet(told, h)
WasOn(told, h, does, at, wish, known) ==
  \/ does.forwarding
  \/ /\ does.programming /\ known = 1
     /\ Len(told) = h + 2 /\ told[h + 1] = PushState0 /\ told[h + 2] = McuState1
  \/ /\ does.programming /\ (wish \/ at = "recent")
     /\ Len(told) = h + 1 /\ told[h + 1] = McuState1
  \/ does.programming /\ Len(told) = h /\ wish
  \/ /\ ~does.programming /\ wish
     /\ Len(told) = h + 1 /\ told[h + 1] = McuState0
Holds(s, told, h, does, at, wish, known, was) ==
  /\ Tidy(s, told, h)
  /\ \/ was = "off" /\ WasOff(told, h, does, at, wish)
     \/ was = "on" /\ WasOn(told, h, does, at, wish, known)
HeldInv == scene = "forwarding" /\ before # "any" =>
  \E h \in Nat : Holds(Stream, sent, h, unit, offAt, restore, forward, before)

LEMMA HeldStep ==
  ASSUME UartInv, ForwardTypeOK, scene = "forwarding", [PanelNext]_panelVars,
         before' # "any", ~EnterProgramming,
         NEW h \in Nat, Holds(Stream, sent, h, unit, offAt, restore, forward, before)
  PROVE  \E g \in Nat :
           Holds(Stream', sent', g, unit', offAt', restore', forward', before')
<1> DEFINE Goal == \E g \in Nat :
             Holds(Stream', sent', g, unit', offAt', restore', forward', before')
<1>1. /\ Tidy(Stream, sent, h) /\ h <= Len(sent) /\ Len(sent) \in Nat
      /\ wire = << >> => frame = << >> /\ h = Len(sent)
  BY TidyIs DEF Holds
<1>2. \/ before = "off" /\ WasOff(sent, h, unit, offAt, restore)
      \/ before = "on" /\ WasOn(sent, h, unit, offAt, restore, forward)
  BY DEF Holds
<1>3. sent \in Seq(Frames)
  BY DEF UartInv, UartTypeOK
<1>4. /\ unit \in [forwarding : BOOLEAN, programming : BOOLEAN, echoes : BOOLEAN]
      /\ unit.forwarding \in BOOLEAN /\ unit.echoes \in BOOLEAN
  BY DEF ForwardTypeOK
<1>5. ASSUME NEW g \in Nat, Tidy(Stream', sent', g),
             \/ before' = "off" /\ WasOff(sent', g, unit', offAt', restore')
             \/ before' = "on" /\ WasOn(sent', g, unit', offAt', restore', forward')
      PROVE  Goal
  BY <1>5 DEF Holds
<1>6. ASSUME UNCHANGED << sent, unit, offAt, restore, forward, before >>, Stream' = Stream
      PROVE  Goal
  BY <1>1, <1>2, <1>5, <1>6
<1>7. CASE Aside
  BY <1>6, <1>7 DEF Aside
<1>8. CASE Hurt \/ Toggle \/ \E on \in {0, 1} : SetForwarding(on)
  BY <1>8 DEF Hurt, Toggle, SetForwarding
<1>9. CASE Takes
  <2>1. Stream' = Stream
    BY <1>1, <1>9, TidyTakes DEF Takes
  <2>2. UNCHANGED << sent, unit, offAt, restore, forward, before >>
    BY <1>9 DEF Takes, TakeByte, forwardVars, traceVars
  <2> QED
    BY <1>6, <2>1, <2>2
<1>10. CASE PublishSetting
  BY <1>6, <1>10 DEF PublishSetting, lineVars, traceVars, Stream
<1>11. CASE WindowPasses
  <2>1. /\ UNCHANGED << Stream, sent, unit, restore, forward >> /\ offAt' = "old"
        /\ before' = before /\ wire = << >>
    BY <1>11 DEF WindowPasses, lineVars, traceVars, Stream
  <2>2. h = Len(sent)
    BY <1>1, <2>1
  <2>3. WasOff(sent, h, unit, offAt, restore) => WasOff(sent, h, unit, "old", restore)
    BY DEF WasOff
  <2>4. WasOn(sent, h, unit, offAt, restore, forward)
          => WasOn(sent, h, unit, "old", restore, forward)
    BY <1>1, <2>2 DEF WasOn
  <2> QED
    BY <1>1, <1>2, <1>5, <2>1, <2>3, <2>4
<1>12. CASE LeaveProgramming
  <2>1. /\ frame' = frame /\ UNCHANGED << offAt, restore, forward, before >>
        /\ unit'.forwarding = unit.forwarding /\ unit'.programming = FALSE
        /\ sent' = sent \o << McuState0 >> /\ wire' = wire \o OnWire(<< McuState0 >>)
        /\ wire = << >> /\ unit.programming
    BY <1>4, <1>12 DEF LeaveProgramming, Transmit, forwardVars, Unrushed
  <2>2. McuState0 \in Frames /\ << McuState0 >> \in Seq(Frames) /\ McuState0 \notin Push
    BY FramesToTell, PushesAre
  <2>3. Tidy(Stream', sent', h)
    BY <1>1, <2>1, <2>2, TidyWrites
  <2>4. h = Len(sent)
    BY <1>1, <2>1
  <2>5. PICK told : told = sent \o << McuState0 >>
    OBVIOUS
  <2>6. /\ Len(told) = h + 1 /\ told[h + 1] = McuState0
        /\ Quiet(sent, h) => Quiet(told, h)
    BY <1>3, <2>2, <2>4, <2>5, OneMore, QuietAfter
  <2>7. sent' = told
    BY <2>1, <2>5
  <2>8. CASE before = "off" /\ WasOff(sent, h, unit, offAt, restore)
    <3>1. WasOff(sent', h, unit', offAt', restore')
      BY <2>1, <2>6, <2>7, <2>8 DEF WasOff
    <3> QED
      BY <1>5, <2>1, <2>3, <2>8, <3>1
  <2>9. CASE before = "on" /\ WasOn(sent, h, unit, offAt, restore, forward)
    <3>1. unit.forwarding \/ restore
      BY <1>1, <2>1, <2>4, <2>9 DEF WasOn
    <3>2. WasOn(sent', h, unit', offAt', restore', forward')
      BY <2>1, <2>6, <2>7, <3>1 DEF WasOn
    <3> QED
      BY <1>5, <2>1, <2>3, <2>9, <3>2
  <2> QED
    BY <1>2, <2>8, <2>9
\* The frame that is read.
<1>13. ASSUME Whole, frame' = << >>, wire' = Tail(wire), sent' = sent, unit' = unit,
              before' = before
       PROVE  /\ Assembled = sent[h + 1] /\ h + 1 <= Len(sent) /\ h + 1 \in Nat
              /\ Tidy(Stream', sent', h + 1)
              /\ Quiet(sent, h) => Assembled \notin Push /\ Quiet(sent', h + 1)
  <2>1. /\ Assembled = sent[h + 1] /\ h + 1 <= Len(sent) /\ h + 1 \in Nat
        /\ Tidy(Stream', sent', h + 1)
    BY <1>1, <1>13, TidyReads
  <2>2. Quiet(sent, h) => sent[h + 1] \notin Push /\ Quiet(sent, h + 1)
    BY <1>1, <2>1 DEF Quiet
  <2> QED
    BY <1>13, <2>1, <2>2
<1>14. ASSUME Whole, frame' = << >>, wire' = Tail(wire), sent' = sent, unit' = unit,
              before' = before, before = "off", WasOff(sent, h, unit, offAt, restore),
              offAt' # "recent", restore' = FALSE
       PROVE  Goal
  <2>1. WasOff(sent', h + 1, unit', offAt', restore')
    BY <1>13, <1>14 DEF WasOff
  <2> QED
    BY <1>5, <1>13, <1>14, <2>1
<1>15. ASSUME Whole, frame' = << >>, wire' = Tail(wire), sent' = sent, unit' = unit,
              before' = before, before = "on",
              WasOn(sent', h + 1, unit', offAt', restore', forward')
       PROVE  Goal
  BY <1>5, <1>13, <1>15
<1>16. CASE Passed
  <2>1. /\ Whole /\ frame' = << >> /\ wire' = Tail(wire) /\ sent' = sent /\ unit' = unit
        /\ Assembled \notin Push \cup {McuState0, McuState1}
        /\ UNCHANGED << forward, offAt, restore, before >>
    BY <1>16 DEF Passed, Consumes
  <2>2. CASE before = "off" /\ WasOff(sent, h, unit, offAt, restore)
    <3>1. offAt' # "recent" /\ restore' = restore /\ ~restore
      BY <2>1, <2>2 DEF WasOff
    <3>2. WasOff(sent', h + 1, unit', offAt', restore')
      BY <1>13, <2>1, <2>2 DEF WasOff
    <3> QED
      BY <1>5, <1>13, <2>1, <2>2, <3>2
  <2>3. CASE before = "on" /\ WasOn(sent, h, unit, offAt, restore, forward)
    <3>1. sent[h + 1] \notin {PushState0, McuState0, McuState1} /\ Len(sent) # h
      BY <1>1, <1>13, <2>1 DEF Push
    <3>2. unit.forwarding
      BY <2>3, <3>1 DEF WasOn
    <3>3. WasOn(sent', h + 1, unit', offAt', restore', forward')
      BY <2>1, <3>2 DEF WasOn
    <3> QED
      BY <1>15, <2>1, <2>3, <3>3
  <2> QED
    BY <1>2, <2>2, <2>3
<1>17. CASE ForwardingOff
  <2>1. /\ Whole /\ frame' = << >> /\ wire' = Tail(wire) /\ sent' = sent /\ unit' = unit
        /\ Assembled = PushState0 /\ restore' = restore /\ before' = before
        /\ offAt' = IF forward = 1 THEN "recent" ELSE offAt
    BY <1>17 DEF ForwardingOff, Consumes, Finds
  <2>2. Assembled \in Push /\ Assembled # McuState0 /\ Assembled # McuState1
    BY <2>1, PushesAre DEF Push
  <2>3. CASE before = "off" /\ WasOff(sent, h, unit, offAt, restore)
    BY <1>13, <2>1, <2>2, <2>3 DEF WasOff
  <2>4. CASE before = "on" /\ WasOn(sent, h, unit, offAt, restore, forward)
    <3>1. sent[h + 1] \notin {McuState0, McuState1} /\ Len(sent) # h
      BY <1>1, <1>13, <2>1, <2>2
    <3>2. \/ unit.forwarding
          \/ /\ unit.programming /\ forward = 1
             /\ Len(sent) = h + 2 /\ sent[h + 2] = McuState1
      BY <2>4, <3>1 DEF WasOn
    <3>3. WasOn(sent', h + 1, unit', offAt', restore', forward')
      <4>1. CASE unit.forwarding
        BY <2>1, <4>1 DEF WasOn
      <4>2. CASE unit.programming /\ forward = 1 /\ Len(sent) = h + 2
                 /\ sent[h + 2] = McuState1
        <5>1. Len(sent) = (h + 1) + 1 /\ h + 2 = (h + 1) + 1
          BY <4>2
        <5>2. sent[(h + 1) + 1] = McuState1
          BY <4>2, <5>1
        <5> QED
          BY <2>1, <4>2, <5>1, <5>2 DEF WasOn
      <4> QED
        BY <3>2, <4>1, <4>2
    <3> QED
      BY <1>15, <2>1, <2>4, <3>3
  <2> QED
    BY <1>2, <2>3, <2>4
<1>18. CASE ForwardingOn
  <2>1. /\ Whole /\ frame' = << >> /\ wire' = Tail(wire) /\ sent' = sent /\ unit' = unit
        /\ Assembled = PushState1 /\ before' = before
    BY <1>18 DEF ForwardingOn, Consumes, Finds
  <2>2. /\ Assembled \in Push /\ Assembled # McuState0 /\ Assembled # McuState1
        /\ Assembled # PushState0
    BY <2>1, PushesAre DEF Push
  <2>3. CASE before = "off" /\ WasOff(sent, h, unit, offAt, restore)
    BY <1>13, <2>1, <2>2, <2>3 DEF WasOff
  <2>4. CASE before = "on" /\ WasOn(sent, h, unit, offAt, restore, forward)
    <3>1. sent[h + 1] \notin {PushState0, McuState0, McuState1} /\ Len(sent) # h
      BY <1>1, <1>13, <2>1, <2>2
    <3>2. unit.forwarding
      BY <2>4, <3>1 DEF WasOn
    <3>3. WasOn(sent', h + 1, unit', offAt', restore', forward')
      BY <2>1, <3>2 DEF WasOn
    <3> QED
      BY <1>15, <2>1, <2>4, <3>3
  <2> QED
    BY <1>2, <2>3, <2>4
<1>19. CASE ProgrammingBegins
  <2>1. /\ Whole /\ frame' = << >> /\ wire' = Tail(wire) /\ sent' = sent /\ unit' = unit
        /\ Assembled = McuState1 /\ before' = before /\ offAt' = offAt
        /\ forward' = forward /\ restore' = (restore \/ offAt = "recent")
    BY <1>19 DEF ProgrammingBegins, Consumes, Finds, OffWithMode
  <2>2. McuState1 # PushState0 /\ McuState1 # McuState0
    BY PushesAre DEF Push
  <2>3. CASE before = "off" /\ WasOff(sent, h, unit, offAt, restore)
    <3>1. offAt' # "recent" /\ restore' = FALSE
      BY <2>1, <2>3 DEF WasOff
    <3> QED
      BY <1>14, <2>1, <2>3, <3>1
  <2>4. CASE before = "on" /\ WasOn(sent, h, unit, offAt, restore, forward)
    <3>1. sent[h + 1] \notin {PushState0, McuState0} /\ Len(sent) # h
      BY <1>1, <1>13, <2>1, <2>2
    <3>2. \/ unit.forwarding
          \/ unit.programming /\ (restore \/ offAt = "recent") /\ Len(sent) = h + 1
      BY <2>4, <3>1 DEF WasOn
    <3>3. WasOn(sent', h + 1, unit', offAt', restore', forward')
      BY <2>1, <3>2 DEF WasOn
    <3> QED
      BY <1>15, <2>1, <2>4, <3>3
  <2> QED
    BY <1>2, <2>3, <2>4
<1>20. CASE ProgrammingEnds
  <2>1. ~restore /\ Consumes /\ UNCHANGED before
    BY <1>20 DEF ProgrammingEnds
  <2>2. /\ Whole /\ frame' = << >> /\ wire' = Tail(wire) /\ sent' = sent /\ unit' = unit
        /\ Assembled = McuState0 /\ before' = before /\ offAt' = offAt
        /\ forward' = forward /\ restore' = FALSE
    BY <1>20, <2>1 DEF ProgrammingEnds, Consumes, Finds
  <2>3. McuState0 # PushState0 /\ McuState1 # McuState0
    BY PushesAre DEF Push
  <2>4. CASE before = "off" /\ WasOff(sent, h, unit, offAt, restore)
    <3>1. offAt' # "recent"
      BY <2>2, <2>4 DEF WasOff
    <3> QED
      BY <1>14, <2>2, <2>4, <3>1
  <2>5. CASE before = "on" /\ WasOn(sent, h, unit, offAt, restore, forward)
    <3>1. sent[h + 1] \notin {PushState0, McuState1} /\ Len(sent) # h
      BY <1>1, <1>13, <2>2, <2>3
    <3>2. unit.forwarding
      BY <2>1, <2>5, <3>1 DEF WasOn
    <3>3. WasOn(sent', h + 1, unit', offAt', restore', forward')
      BY <2>2, <3>2 DEF WasOn
    <3> QED
      BY <1>15, <2>2, <2>5, <3>3
  <2> QED
    BY <1>2, <2>4, <2>5
<1>21. CASE Restores
  <2>1. /\ Whole /\ frame' = << >> /\ Obeys(TRUE, Tail(wire)) /\ restore
        /\ before' = before
    BY <1>21 DEF Restores, Finds
  <2>2. unit'.forwarding = TRUE
    BY <1>4, <2>1 DEF Obeys
  <2>3. before = "on"
    BY <1>2, <2>1 DEF WasOff
  <2>4. WasOn(sent', h + 1, unit', offAt', restore', forward')
    BY <2>2 DEF WasOn
  <2>5. h + 1 \in Nat
    OBVIOUS
  <2>6. Tidy(Stream', sent', h + 1)
    <3>1. CASE unit.echoes
      <4>1. sent' = sent \o Report(TRUE) /\ wire' = Tail(wire) \o OnWire(Report(TRUE))
        BY <2>1, <3>1 DEF Obeys
      <4>2. Report(TRUE) \in Seq(Frames)
        BY SaysIs
      <4> QED
        BY <1>1, <2>1, <4>1, <4>2, TidyReads
    <3>2. CASE ~unit.echoes
      <4>1. Tail(wire) \in Seq(Places)
        BY <2>1, WholeIs
      <4>2. Tail(wire) \o << >> = Tail(wire) /\ sent \o << >> = sent
        BY <1>3, <4>1, ConcatEmptySeq
      <4>3. sent' = sent /\ wire' = Tail(wire)
        BY <2>1, <3>2, <4>2 DEF Obeys
      <4> QED
        BY <1>1, <2>1, <4>3, TidyReads
    <3> QED
      BY <3>1, <3>2
  <2> QED
    BY <1>5, <2>1, <2>3, <2>4, <2>5, <2>6
<1>22. Goal
  BY <1>7, <1>8, <1>9, <1>10, <1>11, <1>12, <1>16, <1>17, <1>18, <1>19, <1>20, <1>21,
     ForwardCases
<1> QED
  BY <1>22
\* Programming begins with nothing left to read.
LEMMA HeldBegin ==
  ASSUME UartInv, ForwardTypeOK, EnterProgramming, before' # "any"
  PROVE  \E g \in Nat :
           Holds(Stream', sent', g, unit', offAt', restore', forward', before')
<1>1. sent \in Seq(Frames) /\ Len(sent) \in Nat
  BY UartIs DEF UartInv, UartTypeOK
<1>2. PICK h : h = Len(sent)
  OBVIOUS
<1>3. /\ frame = << >> /\ wire = << >> /\ frame' = frame /\ offAt # "recent"
      /\ UNCHANGED << offAt, restore, forward >> /\ ~unit.programming
      /\ before' = IF ~unit.forwarding THEN "off" ELSE "on"
      /\ ~unit.forwarding => ~restore
      /\ unit.forwarding => forward = 1
  BY DEF EnterProgramming, Unrushed
<1>4. unit'.programming = TRUE /\ unit'.forwarding = FALSE
  BY DEF EnterProgramming, ForwardTypeOK
<1>5. Tidy(Stream, sent, h)
  <2>1. Stream = << >> /\ Len(<< >>) = 0
    BY <1>3, ConcatEmptySeq, EmptySeq DEF Stream
  <2>2. PICK s : s = Stream
    OBVIOUS
  <2>3. Len(s) = 0
    BY <2>1, <2>2
  <2>4. Tidy(s, sent, h)
    BY <1>1, <1>2, <2>3 DEF Tidy
  <2> QED
    BY <2>2, <2>4
<1>6. /\ McuState1 \in Frames /\ PushState0 \in Frames /\ << McuState1 >> \in Seq(Frames)
      /\ McuState1 \notin Push /\ h \in Nat
  BY <1>1, <1>2, FramesToTell, PushesAre
<1>7. CASE unit.forwarding
  <2>1. PICK told : told = sent \o << PushState0 >>
    OBVIOUS
  <2>2. /\ told \in Seq(Frames) /\ << PushState0, McuState1 >> \in Seq(Frames)
        /\ sent \o << PushState0, McuState1 >> = told \o << McuState1 >>
    BY <1>1, <1>6, <2>1, TwoMore
  <2>3. /\ sent' = sent \o << PushState0, McuState1 >>
        /\ wire' = wire \o OnWire(<< PushState0, McuState1 >>)
    BY <1>7 DEF EnterProgramming, Transmit
  <2>4. Tidy(Stream', sent', h)
    BY <1>3, <1>5, <2>2, <2>3, TidyWrites
  <2>5. Len(told) = h + 1 /\ told[h + 1] = PushState0
    BY <1>1, <1>2, <1>6, <2>1, OneMore
  <2>6. PICK all : all = told \o << McuState1 >>
    OBVIOUS
  <2>7. /\ Len(all) = Len(told) + 1 /\ all[Len(told) + 1] = McuState1
        /\ \A n \in Nat : 0 < n /\ n <= Len(told) => all[n] = told[n]
    BY <1>6, <2>2, <2>6, OneMore
  <2>8. Len(all) = h + 2 /\ all[h + 1] = PushState0 /\ all[h + 2] = McuState1
    <3>1. h + 1 \in Nat /\ 0 < h + 1 /\ h + 1 <= Len(told) /\ Len(told) + 1 = h + 2
      BY <1>6, <2>5
    <3> QED
      BY <2>5, <2>7, <3>1
  <2>9. sent' = all
    BY <2>2, <2>3, <2>6
  <2>10. WasOn(sent', h, unit', offAt', restore', forward')
    BY <1>3, <1>4, <1>7, <2>8, <2>9 DEF WasOn
  <2> QED
    BY <1>3, <1>6, <1>7, <2>4, <2>10 DEF Holds
<1>8. CASE ~unit.forwarding
  <2>1. sent' = sent \o << McuState1 >> /\ wire' = wire \o OnWire(<< McuState1 >>)
    BY <1>8 DEF EnterProgramming, Transmit
  <2>2. Tidy(Stream', sent', h)
    BY <1>3, <1>5, <1>6, <2>1, TidyWrites
  <2>3. Quiet(sent \o << McuState1 >>, h)
    BY <1>1, <1>2, <1>6, QuietAfter
  <2>4. WasOff(sent', h, unit', offAt', restore')
    BY <1>3, <1>4, <1>8, <2>1, <2>3 DEF WasOff
  <2> QED
    BY <1>3, <1>6, <1>8, <2>2, <2>4 DEF Holds
<1> QED
  BY <1>7, <1>8

ForwardInv == (scene = "forwarding" => ForwardTypeOK) /\ ShownInv /\ HeldInv

LEMMA ForwardStart == PanelInit => ForwardInv
<1> SUFFICES ASSUME PanelInit PROVE ForwardInv
  OBVIOUS
<1>1. /\ wire = << >> /\ frame = << >> /\ sent = << >> /\ before = "any"
      /\ shown = [switch |-> -1, address |-> -1] /\ ordered = NoSetting
      /\ unit \in [forwarding : BOOLEAN, programming : {FALSE}, echoes : BOOLEAN]
  BY DEF PanelInit, PanelStart
<1>2. PICK s : s = << >>
  OBVIOUS
<1>3. Stream = s /\ sent = s /\ Len(s) = 0 /\ shown.switch = -1
  BY <1>1, <1>2, ConcatEmptySeq, EmptySeq DEF Stream
<1>4. Tidy(s, s, 0) /\ Quiet(s, 0)
  BY <1>3 DEF Tidy, Quiet
<1>5. Shows(s, s, 0, unit, -1)
  BY <1>4 DEF Shows, Latest
<1>6. ShownInv
  BY <1>3, <1>5 DEF ShownInv
<1>7. ForwardTypeOK
  <2>1. unit \in [forwarding : BOOLEAN, programming : BOOLEAN, echoes : BOOLEAN]
    BY <1>1
  <2>2. shown \in [switch : Int, address : Int]
    BY <1>1
  <2> QED
    BY <1>1, <2>1, <2>2 DEF ForwardTypeOK
<1> QED
  BY <1>1, <1>6, <1>7 DEF ForwardInv, HeldInv

\* A behaviour plays one scene; what was damaged stays so.
LEMMA SceneStays ==
  ASSUME [PanelNext]_panelVars
  PROVE  scene' = scene
<1> USE DEF Consumes
<1>1. CASE Talk \/ Toggle \/ EnterProgramming \/ LeaveProgramming \/ ButtonDown
  BY <1>1 DEF Talk, Toggle, EnterProgramming, LeaveProgramming, ButtonDown
<1>2. CASE LoseBytes \/ ReadError \/ OpenPort \/ TakeByte
  BY <1>2 DEF LoseBytes, ReadError, OpenPort, TakeByte
<1>3. CASE AddressReported \/ Unknown \/ CallFrame
  BY <1>3 DEF AddressReported, Unknown, CallFrame
<1>4. CASE ForwardingOff \/ ForwardingOn \/ ProgrammingBegins \/ ProgrammingEnds \/ Restores
  BY <1>4 DEF ForwardingOff, ForwardingOn, ProgrammingBegins, ProgrammingEnds, Restores
<1>5. CASE FirstStage \/ SecondStage \/ DirectRequest
  BY <1>5 DEF FirstStage, SecondStage, DirectRequest
<1>6. CASE (\E on \in {0, 1} : SetForwarding(on)) \/ PublishSetting \/ WindowPasses \/ PressAges
  BY <1>6 DEF SetForwarding, PublishSetting, WindowPasses, PressAges
<1>7. CASE UNCHANGED panelVars
  BY <1>7 DEF panelVars
<1> QED
  BY <1>1, <1>2, <1>3, <1>4, <1>5, <1>6, <1>7 DEF PanelNext, Monitor

LEMMA Worsens ==
  ASSUME UartInv, ForwardTypeOK, scene = "forwarding", [PanelNext]_panelVars
  PROVE  /\ mixed => mixed'
         /\ EnterProgramming \/ before' = before \/ before' = "any"
<1> USE DEF Consumes, ShowSwitch, forwardVars
<1>1. CASE Aside \/ Hurt \/ Passed
  BY <1>1 DEF Aside, Hurt, Passed
<1>2. CASE Takes
  BY <1>2 DEF Takes, TakeByte
<1>3. CASE Toggle \/ EnterProgramming \/ LeaveProgramming
  BY <1>3 DEF Toggle, EnterProgramming, LeaveProgramming
<1>4. CASE \E on \in {0, 1} : SetForwarding(on)
  BY <1>4 DEF SetForwarding
<1>5. CASE PublishSetting
  BY <1>5, Zenon DEF PublishSetting
<1>8. CASE WindowPasses
  BY <1>8 DEF WindowPasses
<1>6. CASE ForwardingOff \/ ForwardingOn
  BY <1>6 DEF ForwardingOff, ForwardingOn
<1>7. CASE ProgrammingBegins
  BY <1>7, Zenon DEF ProgrammingBegins
<1>9. CASE ProgrammingEnds
  BY <1>9, Zenon DEF ProgrammingEnds
<1>10. CASE Restores
  BY <1>10, Zenon DEF Restores
<1> QED
  BY <1>1, <1>2, <1>3, <1>4, <1>5, <1>6, <1>7, <1>8, <1>9, <1>10, ForwardCases

LEMMA ForwardStep == UartInv /\ ForwardInv /\ [PanelNext]_panelVars => ForwardInv'
<1> SUFFICES ASSUME UartInv, ForwardInv, [PanelNext]_panelVars PROVE ForwardInv'
  OBVIOUS
<1>1. scene' = scene
  BY SceneStays
<1>2. CASE scene # "forwarding"
  BY <1>1, <1>2 DEF ForwardInv, ShownInv, HeldInv
<1>3. CASE scene = "forwarding"
  <2>1. ForwardTypeOK /\ ShownInv /\ HeldInv
    BY <1>3 DEF ForwardInv
  <2>2. /\ mixed => mixed'
        /\ EnterProgramming \/ before' = before \/ before' = "any"
    BY <1>3, <2>1, Worsens
  <2>3. ForwardTypeOK'
    BY <1>3, <2>1, ForwardTypeStep
  <2>4. ShownInv'
    <3> SUFFICES ASSUME ~mixed'
                 PROVE  \E g \in Nat : Shows(Stream', sent', g, unit', shown'.switch)
      BY DEF ShownInv
    <3>1. PICK h \in Nat : Shows(Stream, sent, h, unit, shown.switch)
      BY <1>3, <2>1, <2>2 DEF ShownInv
    <3> QED
      BY <1>3, <2>1, <3>1, ShownStep
  <2>5. HeldInv'
    <3> SUFFICES ASSUME before' # "any"
                 PROVE  \E g \in Nat : Holds(Stream', sent', g, unit', offAt', restore',
                                             forward', before')
      BY DEF HeldInv
    <3>1. CASE EnterProgramming
      BY <2>1, <3>1, HeldBegin
    <3>2. CASE ~EnterProgramming
      <4>1. before # "any"
        BY <2>2, <3>2
      <4>2. PICK h \in Nat : Holds(Stream, sent, h, unit, offAt, restore, forward, before)
        BY <1>3, <2>1, <4>1 DEF HeldInv
      <4> QED
        BY <1>3, <2>1, <3>2, <4>2, HeldStep
    <3> QED
      BY <3>1, <3>2
  <2> QED
    BY <2>3, <2>4, <2>5 DEF ForwardInv
<1> QED
  BY <1>2, <1>3

\* ForwardInv holds throughout.
THEOREM ForwardInvariant == PanelSpec => []ForwardInv
BY UartInvariant, ForwardStart, ForwardStep, PTL DEF PanelSpec

\* However often forwarding is switched, at the unit or from Home Assistant, and
\* programming mode is entered and left: once everything is read and published,
\* a programming mode that nobody else disturbed has left forwarding as it was,
\* and the switch shows what the MCU does unless a command and a report crossed
\* (handle_uart_frame, mqtt_set_call_forward_enabled_callback).
THEOREM ForwardingStays == PanelSpec => []ForwardingIsKept
<1>1. UartInv /\ ForwardInv => ForwardingIsKept
  <2> SUFFICES ASSUME UartInv, ForwardInv, scene = "forwarding", Still, ~unit.programming
               PROVE  /\ before # "any" => unit.forwarding = (before = "on")
                      /\ ~mixed /\ unit.echoes /\ shown.switch # -1
                           => (shown.switch = 1) = unit.forwarding
    BY DEF ForwardingIsKept
  <2>1. ForwardTypeOK /\ ShownInv /\ HeldInv /\ unit.forwarding \in BOOLEAN
    BY DEF ForwardInv, ForwardTypeOK
  <2>2. wire = << >>
    BY DEF Still
  <2>3. ASSUME before # "any" PROVE unit.forwarding = (before = "on")
    <3>1. PICK h \in Nat : Holds(Stream, sent, h, unit, offAt, restore, forward, before)
      BY <2>1, <2>3 DEF HeldInv
    <3>2. h = Len(sent) /\ Len(sent) \in Nat
      BY <2>2, <3>1, TidyIs DEF Holds
    <3>3. CASE before = "off" /\ WasOff(sent, h, unit, offAt, restore)
      BY <2>1, <3>3 DEF WasOff
    <3>4. CASE before = "on" /\ WasOn(sent, h, unit, offAt, restore, forward)
      <4>1. unit.forwarding
        BY <3>2, <3>4 DEF WasOn
      <4> QED
        BY <2>1, <3>4, <4>1
    <3> QED
      BY <3>1, <3>3, <3>4 DEF Holds
  <2>4. ASSUME ~mixed, unit.echoes, shown.switch # -1
        PROVE  (shown.switch = 1) = unit.forwarding
    <3>1. PICK h \in Nat : Shows(Stream, sent, h, unit, shown.switch)
      BY <2>1, <2>4 DEF ShownInv
    <3>2. h = Len(sent) /\ Len(sent) \in Nat
      BY <2>2, <3>1, TidyIs DEF Shows
    <3>3. ~Newest(sent, h, unit.forwarding)
      BY <3>2 DEF Newest
    <3>4. shown.switch = Value(unit.forwarding)
      BY <2>4, <3>1, <3>3 DEF Shows, Latest
    <3> QED
      BY <2>1, <3>4 DEF Value
  <2> QED
    BY <2>3, <2>4
<1> QED
  BY <1>1, UartInvariant, ForwardInvariant, PTL
=============================================================================
