-------------------------- MODULE TransportProofs ---------------------------
(***************************************************************************)
(* The client's end of the connection, for every size of the mailbox, of   *)
(* the records, the commands and the socket: the reader puts records into  *)
(* the mailbox in the order of their numbers, so what waits are the ones   *)
(* after the last that was taken, and their sizes add up to State.bytes.   *)
(* From that it follows that the client is told of every record once and   *)
(* in order, and of the end only when it has them all.                     *)
(***************************************************************************)
EXTENDS Transport, TLAPS, NaturalsInduction, WellFoundedInduction

-----------------------------------------------------------------------------
(* Sums.  SizeOf is a recursive function: what it returns is shown from    *)
(* the least number at which it could be otherwise.                        *)

\* The least of a set of numbers.
Least(T) == CHOOSE x \in T : \A y \in T : x <= y

\* A set of numbers has a least one: what stands for induction here.
LEMMA LeastNumber ==
  ASSUME NEW T \in SUBSET Nat, T # {}
  PROVE  Least(T) \in T /\ \A y \in T : Least(T) <= y
<1> DEFINE Less == {s \in Nat \X Nat : s[1] < s[2]}
<1>1. IsWellFoundedOn(Less, Nat)
  <2>1. OpToRel(<, Nat) = Less
    BY DEF OpToRel
  <2>2. QED
    BY <2>1, NatLessThanWellFounded
<1>2. PICK x \in T : \A y \in T : ~(<<y, x>> \in Less)
  BY <1>1, WFMin
<1>3. ASSUME NEW y \in T PROVE x <= y
  <2>1. x \in Nat /\ y \in Nat
    OBVIOUS
  <2>2. ~(<<y, x>> \in Less)
    BY <1>2
  <2>3. ~(y < x)
    BY <2>1, <2>2
  <2>4. QED
    BY <2>1, <2>3
<1>4. QED
  BY <1>3 DEF Least

\* v has the first n numbers of w.
Same(v, w, n) == \A i \in 1 .. n : v[i] = w[i]

\* v is w without its first number.
Shifted(v, n, w, m) == n \in Nat /\ m = n + 1 /\ \A i \in 1 .. n : v[i] = w[i + 1]

\* The sum of w is its first number and the sum of v.
Exceeds(g, n, w, h, m) == g[n] = w[1] + h[m]

\* g holds the sums of the first numbers of w.
IsSum(g, n, w) == g = [i \in 0 .. n |-> IF i = 0 THEN 0 ELSE g[i - 1] + w[i]]

\* What holds at 0, and at k if it holds at k - 1, holds up to n.
LEMMA Induction ==
  ASSUME NEW n \in Nat, NEW T \in SUBSET (0 .. n), 0 \in T,
         \A k \in 1 .. n : k - 1 \in T => k \in T
  PROVE  T = 0 .. n
<1> SUFFICES ASSUME T # 0 .. n PROVE FALSE
  OBVIOUS
<1> DEFINE R == (0 .. n) \ T
           k == Least(R)
<1>1. R \in SUBSET Nat /\ R # {}
  <2>1. \E x \in 0 .. n : x \notin T
    BY Zenon
  <2>2. QED
    BY <2>1
<1>2. k \in R /\ \A y \in R : k <= y
  BY <1>1, LeastNumber
<1> HIDE DEF k
<1>3. k \in 1 .. n
  BY <1>2
<1>4. k - 1 \in T
  BY <1>2, <1>3
<1>5. QED
  BY <1>2, <1>3, <1>4

\* There are such sums.
LEMMA SumExists ==
  ASSUME NEW n \in Nat, NEW w \in [1 .. n -> Nat]
  PROVE  \E g : IsSum(g, n, w)
<1> DEFINE T == {k \in 0 .. n : \E g : IsSum(g, k, w)}
<1>1. 0 \in T
  <2>1. IsSum([i \in 0 .. 0 |-> 0], 0, w)
    BY DEF IsSum
  <2>2. QED
    BY <2>1
<1>2. ASSUME NEW k \in 1 .. n, k - 1 \in T PROVE k \in T
  <2>1. PICK g : IsSum(g, k - 1, w)
    BY <1>2
  <2> DEFINE h == [i \in 0 .. k |-> IF i = k THEN g[k - 1] + w[k] ELSE g[i]]
  <2>2. ASSUME NEW i \in 0 .. k PROVE h[i] = IF i = 0 THEN 0 ELSE h[i - 1] + w[i]
    <3>1. CASE i = 0
      BY <2>1, <3>1 DEF IsSum
    <3>2. CASE i = k
      BY <2>1, <3>2
    <3>3. CASE i \in 1 .. (k - 1)
      <4>1. i \in 0 .. (k - 1) /\ h[i] = g[i] /\ h[i - 1] = g[i - 1]
        BY <3>3
      <4>2. g[i] = g[i - 1] + w[i]
        BY <2>1, <3>3 DEF IsSum
      <4>3. QED
        BY <3>3, <4>1, <4>2
    <3>4. QED
      BY <3>1, <3>2, <3>3
  <2>3. h = [i \in 0 .. k |-> IF i = 0 THEN 0 ELSE h[i - 1] + w[i]]
    BY <2>2
  <2>4. IsSum(h, k, w)
    BY <2>3 DEF IsSum
  <2>5. QED
    BY <2>4
<1>3. T = 0 .. n
  <2> HIDE DEF T
  <2>1. T \in SUBSET (0 .. n)
    BY DEF T
  <2>2. QED
    BY <1>1, <1>2, <2>1, Induction
<1>4. QED
  BY <1>3

\* The sums of numbers are numbers, and none is less than the one before.
LEMMA SumIs ==
  ASSUME NEW n \in Nat, NEW w \in [1 .. n -> Nat], NEW g, IsSum(g, n, w)
  PROVE  /\ g \in [0 .. n -> Nat] /\ g[0] = 0
         /\ \A k \in 1 .. n : g[k] = g[k - 1] + w[k]
<1> DEFINE T == {k \in 0 .. n : g[k] \in Nat}
<1>1. /\ DOMAIN g = 0 .. n /\ g[0] = 0 /\ \A k \in 1 .. n : g[k] = g[k - 1] + w[k]
      /\ g = [i \in 0 .. n |-> g[i]]
  BY DEF IsSum
<1>2. 0 \in T
  BY <1>1
<1>3. ASSUME NEW k \in 1 .. n, k - 1 \in T PROVE k \in T
  <2>1. g[k - 1] \in Nat /\ w[k] \in Nat /\ g[k] = g[k - 1] + w[k]
    BY <1>1, <1>3
  <2>2. QED
    BY <2>1
<1>4. T = 0 .. n
  <2> HIDE DEF T
  <2>1. T \in SUBSET (0 .. n)
    BY DEF T
  <2>2. QED
    BY <1>2, <1>3, <2>1, Induction
<1>5. QED
  BY <1>1, <1>4

\* Sums of the same numbers are the same.
LEMMA SumAgrees ==
  ASSUME NEW n, NEW m, NEW v, NEW w, NEW g, NEW h, n \in Nat, m \in Nat,
         v \in [1 .. m -> Nat], w \in [1 .. n -> Nat], n <= m, Same(v, w, n),
         IsSum(g, n, w), IsSum(h, m, v)
  PROVE  g[n] = h[n]
<1> DEFINE T == {k \in 0 .. n : g[k] = h[k]}
<1>1. /\ g[0] = 0 /\ \A k \in 1 .. n : g[k] = g[k - 1] + w[k]
      /\ h[0] = 0 /\ \A k \in 1 .. m : h[k] = h[k - 1] + v[k]
  <2>1. g[0] = 0 /\ \A k \in 1 .. n : g[k] = g[k - 1] + w[k]
    BY SumIs
  <2>2. h[0] = 0 /\ \A k \in 1 .. m : h[k] = h[k - 1] + v[k]
    BY SumIs
  <2>3. QED
    BY <2>1, <2>2
<1>2. 0 \in T
  BY <1>1
<1>3. ASSUME NEW k \in 1 .. n, k - 1 \in T PROVE k \in T
  BY <1>1, <1>3 DEF Same
<1>4. T = 0 .. n
  <2> HIDE DEF T
  <2>1. T \in SUBSET (0 .. n)
    BY DEF T
  <2>2. QED
    BY <1>2, <1>3, <2>1, Induction
<1>5. n \in T
  <2> HIDE DEF T
  <2>1. QED
    BY <1>4
<1>6. QED
  BY <1>5

\* Without the first number the sums are less by that.
LEMMA SumShifts ==
  ASSUME NEW n, NEW m, NEW v, NEW w, NEW g, NEW h,
         w \in [1 .. n -> Nat], v \in [1 .. m -> Nat],
         Shifted(v, m, w, n), IsSum(g, n, w), IsSum(h, m, v)
  PROVE  Exceeds(g, n, w, h, m)
<1> DEFINE T == {k \in 0 .. m : g[k + 1] = w[1] + h[k]}
<1>1. m \in Nat /\ n = m + 1 /\ \A i \in 1 .. m : v[i] = w[i + 1]
  BY DEF Shifted
<1>2. n \in Nat
  BY <1>1
<1>3. /\ g \in [0 .. n -> Nat] /\ g[0] = 0 /\ \A k \in 1 .. n : g[k] = g[k - 1] + w[k]
  BY <1>2, SumIs
<1>4. /\ h \in [0 .. m -> Nat] /\ h[0] = 0 /\ \A k \in 1 .. m : h[k] = h[k - 1] + v[k]
  <2>1. m \in Nat
    BY <1>1
  <2>2. QED
    BY <2>1, SumIs
<1>5. 0 \in T
  BY <1>3, <1>4, <1>1
<1>6. ASSUME NEW k \in 1 .. m, k - 1 \in T PROVE k \in T
  <2>1. g[k] = w[1] + h[k - 1]
    BY <1>6
  <2>2. g[k + 1] = g[k] + w[k + 1] /\ h[k] = h[k - 1] + v[k] /\ v[k] = w[k + 1]
    <3>1. k + 1 \in 1 .. n /\ (k + 1) - 1 = k
      BY <1>1
    <3>2. g[k + 1] = g[(k + 1) - 1] + w[k + 1]
      BY <1>3, <3>1
    <3>3. h[k] = h[k - 1] + v[k] /\ v[k] = w[k + 1]
      BY <1>4, <1>1
    <3>4. QED
      BY <3>1, <3>2, <3>3
  <2>3. h[k - 1] \in Nat /\ w[1] \in Nat /\ v[k] \in Nat
    BY <1>4, <1>1
  <2>4. QED
    BY <2>1, <2>2, <2>3
<1>7. T = 0 .. m
  <2> HIDE DEF T
  <2>1. T \in SUBSET (0 .. m) /\ m \in Nat
    BY <1>1 DEF T
  <2>2. QED
    BY <1>5, <1>6, <2>1, Induction
<1>8. m \in T
  BY <1>1, <1>7
<1>9. QED
  BY <1>1, <1>8 DEF Exceeds

\* The sizes of the records with the numbers in s.
Sizes(s) == [i \in 1 .. Len(s) |-> sent[s[i]].size]

\* SizeOf is a sum of sizes.
LEMMA SizeSum ==
  ASSUME sent \in Seq(Frame), NEW s \in Seq(1 .. Len(sent))
  PROVE  /\ Sizes(s) \in [1 .. Len(s) -> Nat]
         /\ \E g : IsSum(g, Len(s), Sizes(s)) /\ SizeOf(s) = g[Len(s)]
<1>1. Sizes(s) \in [1 .. Len(s) -> Nat]
  <2>1. ASSUME NEW i \in 1 .. Len(s) PROVE sent[s[i]].size \in Nat
    <3>1. s[i] \in 1 .. Len(sent)
      OBVIOUS
    <3>2. sent[s[i]] \in Frame
      BY <3>1
    <3>3. QED
      BY <3>2, TransportAssumption
  <2>2. QED
    BY <2>1 DEF Sizes
<1>2. Len(s) \in Nat
  OBVIOUS
<1> DEFINE U == CHOOSE g :
                  g = [i \in 0 .. Len(s) |-> IF i = 0 THEN 0 ELSE g[i - 1] + sent[s[i]].size]
<1>3. SizeOf(s) = U[Len(s)]
  BY DEF SizeOf
<1>4. PICK g : IsSum(g, Len(s), Sizes(s))
  BY <1>1, <1>2, SumExists
<1>5. g = [i \in 0 .. Len(s) |-> IF i = 0 THEN 0 ELSE g[i - 1] + sent[s[i]].size]
  <2>1. g = [i \in 0 .. Len(s) |-> IF i = 0 THEN 0 ELSE g[i - 1] + Sizes(s)[i]]
    BY <1>4 DEF IsSum
  <2>2. ASSUME NEW i \in 0 .. Len(s)
        PROVE  (IF i = 0 THEN 0 ELSE g[i - 1] + Sizes(s)[i])
                 = (IF i = 0 THEN 0 ELSE g[i - 1] + sent[s[i]].size)
    BY <1>2 DEF Sizes
  <2>3. QED
    BY <2>1, <2>2
<1>6. U = [i \in 0 .. Len(s) |-> IF i = 0 THEN 0 ELSE U[i - 1] + sent[s[i]].size]
  BY <1>5
<1> HIDE DEF U
<1>7. IsSum(U, Len(s), Sizes(s))
  <2>1. ASSUME NEW i \in 0 .. Len(s)
        PROVE  (IF i = 0 THEN 0 ELSE U[i - 1] + Sizes(s)[i])
                 = (IF i = 0 THEN 0 ELSE U[i - 1] + sent[s[i]].size)
    BY <1>2 DEF Sizes
  <2>2. U = [i \in 0 .. Len(s) |-> IF i = 0 THEN 0 ELSE U[i - 1] + Sizes(s)[i]]
    BY <1>6, <2>1
  <2>3. QED
    BY <2>2 DEF IsSum
<1>8. QED
  BY <1>1, <1>3, <1>7

\* Nothing waits: no bytes.
LEMMA SizeEmpty ==
  ASSUME sent \in Seq(Frame)
  PROVE  SizeOf(<<>>) = 0
<1>1. <<>> \in Seq(1 .. Len(sent)) /\ Len(<<>>) = 0
  OBVIOUS
<1>2. PICK g : IsSum(g, 0, Sizes(<<>>)) /\ SizeOf(<<>>) = g[0]
  BY <1>1, SizeSum
<1>3. g[0] = 0
  BY <1>2 DEF IsSum
<1>4. QED
  BY <1>2, <1>3

\* One more record: its bytes more.
LEMMA SizeAppend ==
  ASSUME sent \in Seq(Frame), NEW s \in Seq(1 .. Len(sent)), NEW n \in 1 .. Len(sent)
  PROVE  SizeOf(Append(s, n)) = SizeOf(s) + sent[n].size
<1> DEFINE t == Append(s, n)
<1>1. t \in Seq(1 .. Len(sent)) /\ Len(t) = Len(s) + 1 /\ Len(s) \in Nat
  OBVIOUS
<1>2. t[Len(t)] = n /\ \A i \in 1 .. Len(s) : t[i] = s[i]
  OBVIOUS
<1>3. PICK g : IsSum(g, Len(s), Sizes(s)) /\ SizeOf(s) = g[Len(s)]
  BY SizeSum
<1> HIDE DEF t
<1>4. t \in Seq(1 .. Len(sent))
  BY <1>1
<1>5. PICK h : IsSum(h, Len(t), Sizes(t)) /\ SizeOf(t) = h[Len(t)]
  BY <1>4, SizeSum
<1>6. Sizes(s) \in [1 .. Len(s) -> Nat]
  BY SizeSum
<1>7. Sizes(t) \in [1 .. Len(t) -> Nat]
  BY <1>4, SizeSum
<1>8. h[Len(t)] = h[Len(t) - 1] + Sizes(t)[Len(t)]
  <2>1. Len(t) \in Nat /\ Len(t) \in 1 .. Len(t)
    BY <1>1
  <2>2. \A k \in 1 .. Len(t) : h[k] = h[k - 1] + Sizes(t)[k]
    BY <1>5, <1>7, <2>1, SumIs
  <2>3. QED
    BY <2>1, <2>2
<1>9. Sizes(t)[Len(t)] = sent[n].size
  BY <1>1, <1>2 DEF Sizes
<1>10. \A i \in 1 .. Len(s) : Sizes(t)[i] = Sizes(s)[i]
  BY <1>1, <1>2 DEF Sizes
<1>11. g[Len(s)] = h[Len(s)]
  <2> DEFINE a == Len(s)
             b == Len(t)
             w == Sizes(s)
             v == Sizes(t)
  <2>1. a \in Nat
    BY <1>1
  <2>2. b \in Nat
    BY <1>1
  <2>3. a <= b
    BY <1>1
  <2>4. w \in [1 .. a -> Nat]
    BY <1>6
  <2>5. v \in [1 .. b -> Nat]
    BY <1>7
  <2>6. Same(v, w, a)
    BY <1>10 DEF Same
  <2>7. IsSum(g, a, w)
    BY <1>3
  <2>8. IsSum(h, b, v)
    BY <1>5
  <2> HIDE DEF a, b, w, v
  <2>9. g[a] = h[a]
    BY <2>1, <2>2, <2>3, <2>4, <2>5, <2>6, <2>7, <2>8, SumAgrees
  <2>10. QED
    BY <2>9 DEF a
<1>12. Len(t) - 1 = Len(s)
  BY <1>1
<1>13. QED
  BY <1>3, <1>5, <1>8, <1>9, <1>11, <1>12 DEF t

\* The first record less: its bytes less.
LEMMA SizeTail ==
  ASSUME sent \in Seq(Frame), NEW s \in Seq(1 .. Len(sent)), s # <<>>
  PROVE  /\ SizeOf(s) = sent[Head(s)].size + SizeOf(Tail(s))
         /\ sent[Head(s)].size \in Nat /\ SizeOf(Tail(s)) \in Nat
<1> DEFINE t == Tail(s)
<1>1. t \in Seq(1 .. Len(sent)) /\ Len(t) = Len(s) - 1 /\ Len(s) \in Nat \ {0}
  OBVIOUS
<1>2. Head(s) = s[1] /\ \A i \in 1 .. (Len(s) - 1) : t[i] = s[i + 1]
  OBVIOUS
<1>3. PICK g : IsSum(g, Len(s), Sizes(s)) /\ SizeOf(s) = g[Len(s)]
  BY SizeSum
<1> HIDE DEF t
<1>4. t \in Seq(1 .. Len(sent))
  BY <1>1
<1>5. PICK h : IsSum(h, Len(t), Sizes(t)) /\ SizeOf(t) = h[Len(t)]
  BY <1>4, SizeSum
<1>6. Sizes(s) \in [1 .. Len(s) -> Nat]
  BY SizeSum
<1>7. Sizes(t) \in [1 .. Len(t) -> Nat]
  BY <1>4, SizeSum
<1>8. \A i \in 1 .. (Len(s) - 1) : Sizes(t)[i] = Sizes(s)[i + 1]
  <2>1. ASSUME NEW i \in 1 .. (Len(s) - 1) PROVE Sizes(t)[i] = Sizes(s)[i + 1]
    <3>1. i \in 1 .. Len(t) /\ i + 1 \in 1 .. Len(s) /\ t[i] = s[i + 1]
      BY <1>1, <1>2
    <3>2. QED
      BY <3>1 DEF Sizes
  <2>2. QED
    BY <2>1
<1>9. g[Len(s)] = Sizes(s)[1] + h[Len(t)]
  <2> DEFINE a == Len(s)
             b == Len(t)
             w == Sizes(s)
             v == Sizes(t)
  <2>1. a \in Nat
    BY <1>1
  <2>2. b \in Nat
    BY <1>1
  <2>3. a = b + 1
    BY <1>1
  <2>4. w \in [1 .. a -> Nat]
    BY <1>6
  <2>5. v \in [1 .. b -> Nat]
    BY <1>7
  <2>6. Shifted(v, b, w, a)
    BY <1>1, <1>8, <2>2, <2>3 DEF Shifted
  <2>7. IsSum(g, a, w)
    BY <1>3
  <2>8. IsSum(h, b, v)
    BY <1>5
  <2> HIDE DEF a, b, w, v
  <2>9. Exceeds(g, a, w, h, b)
    BY <2>4, <2>5, <2>6, <2>7, <2>8, SumShifts
  <2>10. QED
    BY <2>9 DEF a, b, w, Exceeds
<1>10. Sizes(s)[1] = sent[Head(s)].size /\ Sizes(s)[1] \in Nat
  <2>1. 1 \in 1 .. Len(s)
    BY <1>1
  <2>2. Sizes(s)[1] = sent[s[1]].size
    BY <2>1 DEF Sizes
  <2>3. Sizes(s)[1] \in Nat
    BY <1>6, <2>1
  <2>4. QED
    BY <1>2, <2>2, <2>3
<1>11. h[Len(t)] \in Nat
  <2>1. Len(t) \in Nat
    BY <1>1
  <2>2. h \in [0 .. Len(t) -> Nat]
    BY <1>5, <1>7, <2>1, SumIs
  <2>3. Len(t) \in 0 .. Len(t)
    BY <2>1
  <2>4. QED
    BY <2>2, <2>3
<1>12. QED
  BY <1>1, <1>3, <1>5, <1>9, <1>10, <1>11 DEF t

\* What waits stays as long as more is sent after it.
LEMMA SizeStays ==
  ASSUME UNCHANGED frames, \A i \in 1 .. Len(frames) : sent'[frames[i]] = sent[frames[i]]
  PROVE  SizeOf(frames)' = SizeOf(frames)
<1> DEFINE F(g) == [i \in 0 .. Len(frames) |->
                     IF i = 0 THEN 0 ELSE g[i - 1] + sent[frames[i]].size]
           G(g) == [i \in 0 .. Len(frames') |->
                     IF i = 0 THEN 0 ELSE g[i - 1] + sent'[frames'[i]].size]
<1>1. ASSUME NEW g PROVE F(g) = G(g)
  <2>1. ASSUME NEW i \in 0 .. Len(frames)
        PROVE  (IF i = 0 THEN 0 ELSE g[i - 1] + sent[frames[i]].size)
                 = (IF i = 0 THEN 0 ELSE g[i - 1] + sent'[frames'[i]].size)
    OBVIOUS
  <2>2. QED
    BY <2>1
<1>2. (CHOOSE g : g = F(g)) = (CHOOSE g : g = G(g))
  <2> HIDE DEF F, G
  <2>1. \A g : (g = F(g)) <=> (g = G(g))
    BY <1>1
  <2>2. QED
    BY <2>1
<1>3. SizeOf(frames) = (CHOOSE g : g = F(g))[Len(frames)]
  BY DEF SizeOf
<1>4. SizeOf(frames)' = (CHOOSE g : g = G(g))[Len(frames')]
  BY DEF SizeOf
<1> HIDE DEF F, G
<1>5. QED
  BY <1>2, <1>3, <1>4

\* Nothing waits after a step: no bytes do.
LEMMA NoneWaits ==
  ASSUME sent' \in Seq(Frame), frames' = <<>>
  PROVE  SizeOf(frames)' = 0
<1>1. SizeOf(frames)' = (LET upTo[i \in 0 .. 0] ==
                               IF i = 0 THEN 0 ELSE upTo[i - 1] + sent'[frames'[i]].size
                         IN  upTo[0])
  BY DEF SizeOf
<1> DEFINE F(g) == [i \in 0 .. 0 |-> IF i = 0 THEN 0 ELSE g[i - 1] + sent'[frames'[i]].size]
           Z == [i \in 0 .. 0 |-> 0]
<1>2. \A g : F(g) = Z
  OBVIOUS
<1>3. (CHOOSE g : g = F(g)) = Z
  <2> HIDE DEF F, Z
  <2>1. \A g : (g = F(g)) <=> (g = Z)
    BY <1>2
  <2>2. QED
    BY <2>1
<1>4. (CHOOSE g : g = F(g))[0] = 0
  BY <1>3
<1>5. QED
  BY <1>1, <1>4

\* What is left when the first record is taken.
LEMMA FirstSize ==
  ASSUME TypeOK, frames # <<>>
  PROVE  /\ SizeOf(Tail(frames)) = SizeOf(frames) - sent[Head(frames)].size
         /\ sent[Head(frames)].size \in Nat /\ SizeOf(Tail(frames)) \in Nat
<1>1. sent \in Seq(Frame)
  BY DEF TypeOK
<1>2. frames \in Seq(1 .. Len(sent))
  BY DEF TypeOK
<1>3. SizeOf(frames) = sent[Head(frames)].size + SizeOf(Tail(frames))
  BY <1>1, <1>2, SizeTail
<1>4. sent[Head(frames)].size \in Nat /\ SizeOf(Tail(frames)) \in Nat
  BY <1>1, <1>2, SizeTail
<1>5. QED
  BY <1>3, <1>4

\* An element of a sequence.
LEMMA ElementOf ==
  ASSUME NEW R, NEW s \in Seq(R), NEW i \in 1 .. Len(s)
  PROVE  s[i] \in R
  OBVIOUS

\* More commands, more writes.
LEMMA Product ==
  ASSUME NEW a \in Nat, NEW b \in Nat, NEW c \in Nat, a <= b
  PROVE  a * c <= b * c /\ a * c \in Nat
  OBVIOUS

-----------------------------------------------------------------------------
(* The inductive invariant.                                                *)

\* The number of the last record the client has taken.
Taken == IF client = "decode" THEN holding ELSE got

\* What waits are the records after it, up to the one the reader has.
Order ==
  /\ client = "decode" => holding = got + 1
  /\ \A i \in 1 .. Len(frames) : frames[i] = Taken + i
  /\ Taken + Len(frames) <= read
  /\ ~closed /\ reader \in {"check", "read"} => read = Taken + Len(frames)
  /\ ~closed /\ reader = "push" => read = Taken + Len(frames) + 1
  /\ reader = "push" => read > 0

\* The mailbox is closed without a failure only when the stream has ended and
\* all of it is in the mailbox or taken.
Ending ==
  /\ reader \in {"signal", "done"} => closed
  /\ closed /\ ~failure /\ client # "gone" =>
       ~open /\ read = Len(sent) /\ Taken + Len(frames) = read

\* Who still works has not been told of an end.
Telling == client \notin {"leave", "drop", "gone"} => told = "open" /\ ~reported

\* A command makes at most Chunks writes, a key is pressed once.
Counts ==
  /\ Writing => left > 0
  /\ written + left <= commands * Chunks
  /\ keys <= typed
  /\ client # "decode" => holding = 0

\* A key that came since the generation was captured has advanced it, or is
\* about to.
Signals == ~changed => ~fresh \/ keyboard = "signal"

\* What every step keeps.
IInv == /\ TypeOK /\ BytesCounted /\ Order /\ Ending /\ Telling /\ Counts /\ Signals
        /\ NoLostWake

\* The reader looks whether the mailbox is closed.
LEMMA ReaderChecksKeeps ==
  ASSUME IInv, ReaderChecks
  PROVE  IInv'
<1>1. TypeOK'
  BY TransportAssumption DEF IInv, TypeOK, ReaderChecks, State, wakeup, seen, writer, terminal
<1>2. Order'
  BY DEF IInv, Order, Taken, ReaderChecks, State, seen
<1>3. Ending'
  BY DEF IInv, Ending, Taken, ReaderChecks, State, seen
<1>4. NoLostWake'
  BY DEF IInv, NoLostWake, Nothing, Unreported, ReaderChecks, State, wakeup, terminal
<1>5. BytesCounted' /\ Telling' /\ Counts' /\ Signals'
  BY TransportAssumption, SizeStays DEF IInv, BytesCounted, Telling, Counts, Writing, Signals,
     ReaderChecks, State, wakeup, seen, writer, terminal
<1>6. QED
  BY <1>1, <1>2, <1>3, <1>4, <1>5 DEF IInv

\* It takes a record off the socket.
LEMMA ReadFrameKeeps ==
  ASSUME IInv, ReadFrame
  PROVE  IInv'
<1>1. TypeOK'
  BY TransportAssumption DEF IInv, TypeOK, ReadFrame, State, wakeup, seen, writer, terminal
<1>2. Order'
  <2>1. Taken' = Taken
    BY DEF Taken, ReadFrame, seen
  <2>2. frames \in Seq(1 .. read) /\ read \in Nat /\ Taken \in Nat
    BY DEF IInv, TypeOK, Taken
  <2>3. /\ read' = read + 1 /\ reader' \in {"push", "fail"} /\ UNCHANGED <<State, client, seen>>
        /\ reader = "read"
    BY DEF ReadFrame
  <2>4. QED
    BY <2>1, <2>2, <2>3 DEF IInv, Order, State, seen
<1>3. Ending'
  BY DEF IInv, Ending, ReadFrame, State
<1>4. NoLostWake'
  BY DEF IInv, NoLostWake, Nothing, Unreported, ReadFrame, State, wakeup, terminal
<1>5. BytesCounted' /\ Telling' /\ Counts' /\ Signals'
  BY TransportAssumption, SizeStays DEF IInv, BytesCounted, Telling, Counts, Writing, Signals,
     ReadFrame, State, wakeup, seen, writer, terminal
<1>6. QED
  BY <1>1, <1>2, <1>3, <1>4, <1>5 DEF IInv

\* Its read fails.
LEMMA ReadFailsKeeps ==
  ASSUME IInv, ReadFails
  PROVE  IInv'
<1>1. TypeOK'
  BY TransportAssumption DEF IInv, TypeOK, ReadFails, State, wakeup, seen, writer, terminal
<1>2. Order'
  BY DEF IInv, Order, Taken, ReadFails, State, seen
<1>3. Ending'
  BY DEF IInv, Ending, Taken, ReadFails, State, seen
<1>4. NoLostWake'
  BY DEF IInv, NoLostWake, Nothing, Unreported, ReadFails, State, wakeup, terminal
<1>5. BytesCounted' /\ Telling' /\ Counts' /\ Signals'
  BY TransportAssumption, SizeStays DEF IInv, BytesCounted, Telling, Counts, Writing, Signals,
     ReadFails, State, wakeup, seen, writer, terminal
<1>6. QED
  BY <1>1, <1>2, <1>3, <1>4, <1>5 DEF IInv

\* It puts the record into the mailbox: the record is the one after those that wait.
LEMMA PushKeeps ==
  ASSUME IInv, Push
  PROVE  IInv'
<1>1. TypeOK'
  <2>1. frames \in Seq(1 .. read) /\ read \in 1 .. Len(sent) /\ sent \in Seq(Frame)
    BY DEF IInv, TypeOK, Order, Push
  <2>2. sent[read] \in Frame
    BY <2>1
  <2>3. sent[read].size \in Nat
    BY <2>2, TransportAssumption
  <2>4. bytes' \in 0 .. MaxBytes
    <3>1. MaxBytes \in Nat
      BY TransportAssumption
    <3>2. bytes \in Nat
      BY <3>1 DEF IInv, TypeOK
    <3>3. bytes' = bytes + sent[read].size /\ sent[read].size <= MaxBytes - bytes
      BY DEF Push, HasRoom
    <3>4. QED
      BY <2>3, <3>1, <3>2, <3>3
  <2>5. frames' \in Seq(1 .. read) /\ Len(frames') = Len(frames) + 1 /\ Len(frames) \in Nat
    BY <2>1 DEF Push
  <2>6. Len(frames') <= MaxRecords
    BY <2>5, TransportAssumption DEF Push, HasRoom
  <2>7. QED
    BY <2>4, <2>5, <2>6 DEF IInv, TypeOK, Push, Notify, seen, writer, terminal
<1>2. BytesCounted'
  <2>1. frames \in Seq(1 .. read) /\ read \in 1 .. Len(sent) /\ sent \in Seq(Frame)
    BY DEF IInv, TypeOK, Order, Push
  <2>2. frames \in Seq(1 .. Len(sent))
    BY <2>1
  <2>3. SizeOf(Append(frames, read)) = SizeOf(frames) + sent[read].size
    BY <2>1, <2>2, SizeAppend
  <2>4. bytes' = SizeOf(Append(frames, read))
    BY <2>3 DEF IInv, BytesCounted, Push
  <2>5. SizeOf(Append(frames, read)) = SizeOf(frames)'
    BY DEF Push, SizeOf
  <2>6. QED
    BY <2>4, <2>5 DEF BytesCounted
<1>3. Order'
  <2>1. frames \in Seq(1 .. read) /\ frames' = Append(frames, read) /\ read \in Nat /\ Taken \in Nat
    BY DEF IInv, TypeOK, Push, Taken
  <2>2. /\ Len(frames) \in Nat /\ Len(frames') = Len(frames) + 1 /\ frames'[Len(frames) + 1] = read
        /\ \A i \in 1 .. Len(frames) : frames'[i] = frames[i]
    BY <2>1
  <2>3. read = Taken + Len(frames) + 1 /\ \A i \in 1 .. Len(frames) : frames[i] = Taken + i
    BY DEF IInv, Order, Push
  <2>4. Taken' = Taken
    BY DEF Taken, Push, seen
  <2>5. \A i \in 1 .. Len(frames') : frames'[i] = Taken' + i
    <3>1. ASSUME NEW i \in 1 .. Len(frames') PROVE frames'[i] = Taken' + i
      <4>1. i \in 1 .. Len(frames) \/ i = Len(frames) + 1
        BY <2>2
      <4>2. QED
        BY <2>1, <2>2, <2>3, <2>4, <4>1
    <3>2. QED
      BY <3>1
  <2>6. read = Taken' + Len(frames')
    BY <2>1, <2>2, <2>3, <2>4
  <2>7. read' = read /\ reader' = "check" /\ UNCHANGED seen /\ client' = client
    BY DEF Push
  <2>8. QED
    BY <2>1, <2>5, <2>6, <2>7 DEF IInv, Order, seen
<1>4. Ending'
  BY DEF Ending, Push
<1>5. Signals'
  BY DEF Signals, Push, Notify
<1>6. NoLostWake'
  BY DEF NoLostWake, Push, Notify
<1>7. Telling' /\ Counts'
  BY TransportAssumption DEF IInv, Telling, Counts, Writing, Push, seen, writer, terminal
<1>8. QED
  BY <1>1, <1>2, <1>3, <1>4, <1>5, <1>6, <1>7 DEF IInv

\* The record does not fit.
LEMMA OverflowKeeps ==
  ASSUME IInv, Overflow
  PROVE  IInv'
<1>1. TypeOK'
  BY TransportAssumption DEF IInv, TypeOK, Overflow, State, wakeup, seen, writer, terminal
<1>2. Order'
  BY DEF IInv, Order, Taken, Overflow, State, seen
<1>3. Ending'
  BY DEF Ending, Overflow, State
<1>4. NoLostWake'
  BY DEF IInv, NoLostWake, Nothing, Unreported, Overflow, State, wakeup, terminal
<1>5. BytesCounted' /\ Telling' /\ Counts' /\ Signals'
  BY TransportAssumption, SizeStays DEF IInv, BytesCounted, Telling, Counts, Writing, Signals,
     Overflow, State, wakeup, seen, writer, terminal
<1>6. QED
  BY <1>1, <1>2, <1>3, <1>4, <1>5 DEF IInv

\* The mailbox was closed while it read.
LEMMA PushClosedKeeps ==
  ASSUME IInv, PushClosed
  PROVE  IInv'
<1>1. TypeOK'
  BY TransportAssumption DEF IInv, TypeOK, PushClosed, State, wakeup, seen, writer, terminal
<1>2. Order'
  BY DEF IInv, Order, Taken, PushClosed, State, seen
<1>3. Ending'
  BY DEF IInv, Ending, Taken, PushClosed, State, seen
<1>4. NoLostWake'
  BY DEF IInv, NoLostWake, Nothing, PushClosed, wakeup
<1>5. BytesCounted' /\ Telling' /\ Counts' /\ Signals'
  BY TransportAssumption, SizeStays DEF IInv, BytesCounted, Telling, Counts, Writing, Signals,
     PushClosed, State, wakeup, seen, writer, terminal
<1>6. QED
  BY <1>1, <1>2, <1>3, <1>4, <1>5 DEF IInv

\* It fails the mailbox: what waits is dropped, and so are its bytes.
LEMMA ReaderFailsKeeps ==
  ASSUME IInv, ReaderFails
  PROVE  IInv'
<1>1. TypeOK'
  BY TransportAssumption DEF IInv, TypeOK, ReaderFails, SharedFail, Notify, seen, writer, terminal
<1>2. BytesCounted'
  <2>1. frames' = <<>> /\ bytes' = 0 /\ sent' \in Seq(Frame)
    BY DEF IInv, TypeOK, ReaderFails, SharedFail
  <2>2. QED
    BY <2>1, NoneWaits DEF BytesCounted
<1>3. Order'
  BY DEF IInv, TypeOK, Order, Taken, ReaderFails, SharedFail, seen
<1>4. Ending'
  BY DEF Ending, ReaderFails, SharedFail
<1>5. Signals'
  BY DEF Signals, ReaderFails, SharedFail, Notify
<1>6. NoLostWake'
  BY DEF NoLostWake, ReaderFails, SharedFail, Notify
<1>7. Telling' /\ Counts'
  BY TransportAssumption DEF IInv, Telling, Counts, Writing, ReaderFails, SharedFail, seen,
     writer, terminal
<1>8. QED
  BY <1>1, <1>2, <1>3, <1>4, <1>5, <1>6, <1>7 DEF IInv

\* The stream ends: everything that was sent is in the mailbox or taken.
LEMMA ReadEndKeeps ==
  ASSUME IInv, ReadEnd
  PROVE  IInv'
<1>1. TypeOK'
  BY TransportAssumption DEF IInv, TypeOK, ReadEnd, wakeup, seen, writer, terminal
<1>2. Order'
  BY DEF IInv, Order, Taken, ReadEnd, seen
<1>3. Ending'
  <2>1. ~closed => Taken + Len(frames) = read
    BY DEF IInv, Order, ReadEnd
  <2>2. Taken' = Taken
    BY DEF Taken, ReadEnd, seen
  <2>3. QED
    BY <2>1, <2>2 DEF IInv, Ending, ReadEnd
<1>4. NoLostWake'
  BY DEF IInv, NoLostWake, ReadEnd, wakeup, terminal
<1>5. BytesCounted' /\ Telling' /\ Counts' /\ Signals'
  BY TransportAssumption, SizeStays DEF IInv, BytesCounted, Telling, Counts, Writing, Signals,
     ReadEnd, wakeup, seen, writer, terminal
<1>6. QED
  BY <1>1, <1>2, <1>3, <1>4, <1>5 DEF IInv

\* It tells of the end.
LEMMA SignalEndKeeps ==
  ASSUME IInv, SignalEnd
  PROVE  IInv'
<1>1. TypeOK'
  BY TransportAssumption DEF IInv, TypeOK, SignalEnd, Notify, State, seen, writer, terminal
<1>2. Order'
  BY DEF IInv, Order, Taken, SignalEnd, State, seen
<1>3. Ending'
  BY DEF IInv, Ending, Taken, SignalEnd, State, seen
<1>4. Signals'
  BY DEF Signals, SignalEnd, Notify
<1>5. NoLostWake'
  BY DEF NoLostWake, SignalEnd, Notify
<1>6. BytesCounted' /\ Telling' /\ Counts'
  BY TransportAssumption, SizeStays DEF IInv, BytesCounted, Telling, Counts, Writing, SignalEnd,
     State, seen, writer, terminal
<1>7. QED
  BY <1>1, <1>2, <1>3, <1>4, <1>5, <1>6 DEF IInv

\* The client captures the generation.
LEMMA CaptureKeeps ==
  ASSUME IInv, Capture
  PROVE  IInv'
<1>1. TypeOK'
  <2>1. client' = "input" /\ changed' \in BOOLEAN /\ fresh' \in BOOLEAN
    BY DEF Capture, Goto
  <2>2. QED
    BY <2>1 DEF IInv, TypeOK, Capture, State, socket, seen, writer
<1>2. Order'
  BY DEF IInv, Order, Taken, Capture, Goto, State, socket, seen
<1>3. Ending'
  BY DEF IInv, Ending, Taken, Capture, Goto, State, socket, seen
<1>4. Telling'
  BY DEF IInv, Telling, Capture, State, seen
<1>5. Counts'
  BY TransportAssumption DEF IInv, Counts, Writing, Capture, Goto, seen, writer
<1>6. Signals'
  BY DEF Signals, Capture
<1>7. NoLostWake'
  BY DEF NoLostWake, Capture, Goto
<1>8. BytesCounted'
  BY SizeStays DEF IInv, BytesCounted, Capture, State, socket
<1>9. QED
  BY <1>1, <1>2, <1>3, <1>4, <1>5, <1>6, <1>7, <1>8 DEF IInv

\* It takes a key.
LEMMA TakeKeyKeeps ==
  ASSUME IInv, TakeKey
  PROVE  IInv'
<1>1. TypeOK'
  BY TransportAssumption DEF IInv, TypeOK, TakeKey, State, socket, wakeup, seen, writer
<1>2. Counts'
  BY TransportAssumption DEF IInv, TypeOK, Counts, Writing, TakeKey, seen, writer
<1>3. BytesCounted' /\ Order' /\ Ending' /\ Telling' /\ Signals' /\ NoLostWake'
  BY SizeStays DEF IInv, BytesCounted, Order, Taken, Ending, Telling, Signals, NoLostWake,
     TakeKey, State, socket, wakeup, seen
<1>4. QED
  BY <1>1, <1>2, <1>3 DEF IInv

\* It begins a command, with all its writes ahead.
LEMMA BeginCommandKeeps ==
  ASSUME IInv, BeginCommand
  PROVE  IInv'
<1>1. TypeOK'
  BY TransportAssumption DEF IInv, TypeOK, BeginCommand, Goto, State, socket, wakeup, seen,
     terminal
<1>2. Order'
  BY DEF IInv, Order, Taken, BeginCommand, Goto, State, socket, seen
<1>3. Ending'
  BY DEF IInv, Ending, Taken, BeginCommand, Goto, State, socket, seen
<1>4. Telling'
  BY DEF IInv, Telling, BeginCommand, State, seen
<1>5. Counts'
  BY TransportAssumption DEF IInv, TypeOK, Counts, BeginCommand, seen, terminal
<1>6. NoLostWake'
  BY DEF NoLostWake, BeginCommand, Goto
<1>7. BytesCounted' /\ Signals'
  BY SizeStays DEF IInv, BytesCounted, Signals, BeginCommand, State, socket, wakeup, terminal
<1>8. QED
  BY <1>1, <1>2, <1>3, <1>4, <1>5, <1>6, <1>7 DEF IInv

\* It polls the mailbox.
LEMMA PollOutputKeeps ==
  ASSUME IInv, PollOutput
  PROVE  IInv'
<1>1. TypeOK'
  BY TransportAssumption DEF IInv, TypeOK, PollOutput, Goto, State, socket, wakeup, seen, writer,
     terminal
<1>2. Order'
  BY DEF IInv, Order, Taken, PollOutput, Goto, State, socket, seen
<1>3. Ending'
  BY DEF IInv, Ending, Taken, PollOutput, Goto, State, socket, seen
<1>4. Telling'
  BY DEF IInv, Telling, PollOutput, State, seen
<1>5. Counts'
  BY TransportAssumption DEF IInv, Counts, Writing, PollOutput, Goto, seen, writer, terminal
<1>6. NoLostWake'
  BY DEF NoLostWake, PollOutput, Goto
<1>7. BytesCounted' /\ Signals'
  BY SizeStays DEF IInv, BytesCounted, Signals, PollOutput, State, socket, wakeup, terminal
<1>8. QED
  BY <1>1, <1>2, <1>3, <1>4, <1>5, <1>6, <1>7 DEF IInv

\* It waits on the mailbox for a response.
LEMMA AwaitResponseKeeps ==
  ASSUME IInv, AwaitResponse
  PROVE  IInv'
<1>1. TypeOK'
  BY TransportAssumption DEF IInv, TypeOK, AwaitResponse, Goto, State, socket, wakeup, seen,
     writer, terminal
<1>2. Order'
  BY DEF IInv, Order, Taken, AwaitResponse, Goto, State, socket, seen
<1>3. Ending'
  BY DEF IInv, Ending, Taken, AwaitResponse, Goto, State, socket, seen
<1>4. Telling'
  BY DEF IInv, Telling, AwaitResponse, State, seen
<1>5. Counts'
  BY TransportAssumption DEF IInv, Counts, Writing, AwaitResponse, Goto, seen, writer, terminal
<1>6. NoLostWake'
  BY DEF NoLostWake, AwaitResponse, Goto
<1>7. BytesCounted' /\ Signals'
  BY SizeStays DEF IInv, BytesCounted, Signals, AwaitResponse, State, socket, wakeup, terminal
<1>8. QED
  BY <1>1, <1>2, <1>3, <1>4, <1>5, <1>6, <1>7 DEF IInv

\* It is told of the failure.
LEMMA ReceiveFailureKeeps ==
  ASSUME IInv, ReceiveFailure
  PROVE  IInv'
<1>1. TypeOK'
  BY TransportAssumption DEF IInv, TypeOK, ReceiveFailure, Goto, socket, wakeup, writer, terminal
<1>2. Order'
  BY DEF IInv, Order, Taken, ReceiveFailure, Goto, Receiving, socket
<1>3. Ending'
  BY DEF IInv, Ending, ReceiveFailure, Unreported, socket
<1>4. Telling'
  BY DEF Telling, ReceiveFailure, Goto
<1>5. Counts'
  BY TransportAssumption DEF IInv, Counts, Writing, ReceiveFailure, Goto, Receiving, writer,
     terminal
<1>6. NoLostWake'
  BY DEF NoLostWake, ReceiveFailure, Goto
<1>7. BytesCounted' /\ Signals'
  BY SizeStays DEF IInv, BytesCounted, Signals, ReceiveFailure, socket, wakeup, terminal
<1>8. QED
  BY <1>1, <1>2, <1>3, <1>4, <1>5, <1>6, <1>7 DEF IInv

\* It takes the first record that waits.
LEMMA TakeFrameKeeps ==
  ASSUME IInv, TakeFrame
  PROVE  IInv'
<1>1. TypeOK'
  <2>1. frames' \in Seq(1 .. read) /\ Len(frames') <= MaxRecords /\ Head(frames) \in 1 .. read
    <3>1. frames \in Seq(1 .. read) /\ frames # <<>> /\ frames' = Tail(frames)
      BY DEF IInv, TypeOK, TakeFrame
    <3>2. Len(frames) <= MaxRecords /\ MaxRecords \in Nat
      BY TransportAssumption DEF IInv, TypeOK
    <3>3. Len(frames') = Len(frames) - 1 /\ Len(frames) \in Nat
      BY <3>1
    <3>4. Len(frames') <= MaxRecords
      BY <3>2, <3>3
    <3>5. frames' \in Seq(1 .. read)
      BY <3>1
    <3>6. Head(frames) \in 1 .. read
      <4>1. 1 \in 1 .. Len(frames) /\ Head(frames) = frames[1]
        BY <3>1, <3>3
      <4>2. frames \in Seq(1 .. read)
        BY <3>1
      <4>3. frames[1] \in 1 .. read
        BY <4>1, <4>2, ElementOf
      <4>4. QED
        BY <4>1, <4>3
    <3>7. QED
      BY <3>4, <3>5, <3>6
  <2>2. bytes' \in 0 .. MaxBytes
    <3>1. bytes = SizeOf(frames) /\ bytes \in 0 .. MaxBytes /\ TypeOK
      BY DEF IInv, BytesCounted, TypeOK
    <3>2. bytes' = bytes - sent[Head(frames)].size /\ frames # <<>>
      BY DEF TakeFrame
    <3>3. /\ bytes' = SizeOf(Tail(frames)) /\ SizeOf(Tail(frames)) \in Nat
          /\ sent[Head(frames)].size \in Nat
      BY <3>1, <3>2, FirstSize
    <3>4. QED
      BY <3>1, <3>2, <3>3, TransportAssumption
  <2>3. client' = "decode" /\ holding' = Head(frames)
    BY DEF TakeFrame, Goto
  <2>4. QED
    BY <2>1, <2>2, <2>3 DEF IInv, TypeOK, TakeFrame, socket, wakeup, writer, terminal
<1>2. BytesCounted'
  <2>1. bytes' = SizeOf(Tail(frames))
    BY FirstSize DEF IInv, BytesCounted, TakeFrame
  <2>2. SizeOf(Tail(frames)) = SizeOf(frames)'
    BY SizeStays DEF TakeFrame, socket, SizeOf
  <2>3. QED
    BY <2>1, <2>2 DEF BytesCounted
<1>3. Order'
  <2> DEFINE n == Len(frames)
  <2>1. /\ frames \in Seq(1 .. read) /\ frames # <<>> /\ frames' = Tail(frames) /\ read \in Nat
        /\ got \in Nat
    BY DEF IInv, TypeOK, TakeFrame
  <2>2. /\ n \in Nat \ {0} /\ Len(frames') = n - 1 /\ Head(frames) = frames[1]
        /\ \A i \in 1 .. (n - 1) : frames'[i] = frames[i + 1]
    BY <2>1
  <2>3. Taken = got /\ holding' = got + 1 /\ Taken' = got + 1
    BY <2>2 DEF IInv, Order, Taken, TakeFrame, Goto, Receiving
  <2>4. \A i \in 1 .. Len(frames') : frames'[i] = Taken' + i
    <3>1. ASSUME NEW i \in 1 .. Len(frames') PROVE frames'[i] = Taken' + i
      <4>1. i \in 1 .. (n - 1) /\ i + 1 \in 1 .. n
        BY <2>2
      <4>2. frames[i + 1] = got + (i + 1)
        BY <2>3, <4>1 DEF IInv, Order
      <4>3. QED
        BY <2>1, <2>2, <2>3, <4>1, <4>2
    <3>2. QED
      BY <3>1
  <2>5. Taken' + Len(frames') = Taken + n
    BY <2>1, <2>2, <2>3
  <2>6. closed' = closed /\ reader' = reader /\ read' = read /\ client' = "decode" /\ got' = got
    BY DEF TakeFrame, Goto, socket
  <2>7. QED
    BY <2>3, <2>4, <2>5, <2>6 DEF IInv, Order
<1>4. Ending'
  <2>1. Taken' + Len(frames') = Taken + Len(frames)
    <3>1. frames \in Seq(1 .. read) /\ frames # <<>> /\ frames' = Tail(frames) /\ got \in Nat
      BY DEF IInv, TypeOK, TakeFrame
    <3>2. Len(frames) \in Nat \ {0} /\ Len(frames') = Len(frames) - 1 /\ Head(frames) = frames[1]
      BY <3>1
    <3>3. Taken = got /\ Taken' = got + 1
      BY <3>2 DEF IInv, Order, Taken, TakeFrame, Goto, Receiving
    <3>4. QED
      BY <3>1, <3>2, <3>3
  <2>2. client # "gone" /\ client' = "decode"
    BY DEF TakeFrame, Goto, Receiving
  <2>3. closed' = closed /\ failure' = failure /\ UNCHANGED socket
    BY DEF TakeFrame
  <2>4. QED
    BY <2>1, <2>2, <2>3 DEF IInv, Ending, socket
<1>5. Telling'
  BY DEF IInv, Telling, TakeFrame, Receiving
<1>6. Counts'
  BY TransportAssumption DEF IInv, Counts, Writing, TakeFrame, Goto, writer, terminal
<1>7. NoLostWake'
  BY DEF NoLostWake, TakeFrame, Goto
<1>8. Signals'
  BY DEF IInv, Signals, TakeFrame, wakeup, terminal
<1>9. QED
  BY <1>1, <1>2, <1>3, <1>4, <1>5, <1>6, <1>7, <1>8 DEF IInv

\* It decodes the record.
LEMMA DecodeKeeps ==
  ASSUME IInv, Decode
  PROVE  IInv'
<1>1. TypeOK'
  BY TransportAssumption DEF IInv, TypeOK, Decode, Goto, State, socket, wakeup, writer, terminal
<1>2. Order'
  BY DEF IInv, Order, Taken, Decode, Goto, State, socket
<1>3. Ending'
  BY DEF IInv, Ending, Taken, Decode, Goto, State, socket
<1>4. Telling'
  BY DEF IInv, Telling, Decode, State
<1>5. Counts'
  BY TransportAssumption DEF IInv, Counts, Writing, Decode, Goto, writer, terminal
<1>6. NoLostWake'
  BY DEF NoLostWake, Decode, Goto
<1>7. BytesCounted' /\ Signals'
  BY SizeStays DEF IInv, BytesCounted, Signals, Decode, State, socket, wakeup, terminal
<1>8. QED
  BY <1>1, <1>2, <1>3, <1>4, <1>5, <1>6, <1>7 DEF IInv

\* The record does not decode, and the mailbox fails.
LEMMA DecodeFailsKeeps ==
  ASSUME IInv, DecodeFails
  PROVE  IInv'
<1>1. TypeOK'
  BY TransportAssumption DEF IInv, TypeOK, DecodeFails, SharedFail, Notify, Goto, socket, writer,
     terminal
<1>2. BytesCounted'
  <2>1. frames' = <<>> /\ bytes' = 0 /\ sent' \in Seq(Frame)
    BY DEF IInv, TypeOK, DecodeFails, SharedFail, socket
  <2>2. QED
    BY <2>1, NoneWaits DEF BytesCounted
<1>3. Order'
  BY DEF IInv, TypeOK, Order, Taken, DecodeFails, SharedFail, Goto, socket
<1>4. Ending'
  BY DEF Ending, DecodeFails, SharedFail
<1>5. Telling'
  BY DEF Telling, DecodeFails, Goto
<1>6. Counts'
  BY TransportAssumption DEF IInv, Counts, Writing, DecodeFails, Goto, writer, terminal
<1>7. Signals'
  BY DEF Signals, DecodeFails, SharedFail, Notify
<1>8. NoLostWake'
  BY DEF NoLostWake, DecodeFails, Goto
<1>9. QED
  BY <1>1, <1>2, <1>3, <1>4, <1>5, <1>6, <1>7, <1>8 DEF IInv

\* It is told of the end.
LEMMA ReceiveEndKeeps ==
  ASSUME IInv, ReceiveEnd
  PROVE  IInv'
<1>1. TypeOK'
  BY TransportAssumption DEF IInv, TypeOK, ReceiveEnd, Goto, State, socket, wakeup, writer,
     terminal
<1>2. Order'
  BY DEF IInv, Order, Taken, ReceiveEnd, Goto, Receiving, State, socket
<1>3. Ending'
  BY DEF IInv, Ending, Taken, ReceiveEnd, Goto, Receiving, State, socket
<1>4. Telling'
  BY DEF Telling, ReceiveEnd, Goto
<1>5. Counts'
  BY TransportAssumption DEF IInv, Counts, Writing, ReceiveEnd, Goto, Receiving, writer, terminal
<1>6. NoLostWake'
  BY DEF NoLostWake, ReceiveEnd, Goto
<1>7. BytesCounted' /\ Signals'
  BY SizeStays DEF IInv, BytesCounted, Signals, ReceiveEnd, State, wakeup, terminal
<1>8. QED
  BY <1>1, <1>2, <1>3, <1>4, <1>5, <1>6, <1>7 DEF IInv

\* It goes to sleep: nothing waits then.
LEMMA SleepKeeps ==
  ASSUME IInv, Sleep
  PROVE  IInv'
<1>1. TypeOK'
  <2>1. client' \in {"wait", "asleep"} /\ woken' \in BOOLEAN
    BY DEF IInv, TypeOK, Sleep, Goto
  <2>2. QED
    BY <2>1 DEF IInv, TypeOK, Sleep, State, socket, seen, writer, terminal
<1>2. Order'
  BY DEF IInv, Order, Taken, Sleep, Goto, Receiving, State, socket, seen
<1>3. Ending'
  BY DEF IInv, Ending, Sleep, Nothing, State, socket
<1>4. Telling'
  BY DEF IInv, Telling, Sleep, Receiving, State, seen
<1>5. Counts'
  BY TransportAssumption DEF IInv, Counts, Writing, Sleep, Goto, Receiving, seen, writer, terminal
<1>6. NoLostWake'
  <2>1. Nothing'
    BY DEF Sleep, Nothing, Unreported, State
  <2>2. client' = "wait" /\ ~changed' => ~fresh' \/ keyboard' = "signal"
    BY DEF IInv, Signals, Sleep, terminal
  <2>3. QED
    BY <2>1, <2>2 DEF NoLostWake
<1>7. BytesCounted' /\ Signals'
  BY SizeStays DEF IInv, BytesCounted, Signals, Sleep, State, socket, terminal
<1>8. QED
  BY <1>1, <1>2, <1>3, <1>4, <1>5, <1>6, <1>7 DEF IInv

\* It is woken.
LEMMA WakeKeeps ==
  ASSUME IInv, Wake
  PROVE  IInv'
<1>1. TypeOK'
  BY TransportAssumption DEF IInv, TypeOK, Wake, Goto, State, socket, wakeup, seen, writer,
     terminal
<1>2. Order'
  BY DEF IInv, Order, Taken, Wake, Goto, State, socket, seen
<1>3. Ending'
  BY DEF IInv, Ending, Taken, Wake, Goto, State, socket, seen
<1>4. Telling'
  BY DEF IInv, Telling, Wake, State, seen
<1>5. Counts'
  BY TransportAssumption DEF IInv, Counts, Writing, Wake, Goto, seen, writer, terminal
<1>6. NoLostWake'
  BY DEF NoLostWake, Wake, Goto
<1>7. BytesCounted' /\ Signals'
  BY SizeStays DEF IInv, BytesCounted, Signals, Wake, State, socket, wakeup, terminal
<1>8. QED
  BY <1>1, <1>2, <1>3, <1>4, <1>5, <1>6, <1>7 DEF IInv

\* Its wait has a limit.
LEMMA WaitEndsKeeps ==
  ASSUME IInv, WaitEnds
  PROVE  IInv'
<1>1. TypeOK'
  BY TransportAssumption DEF IInv, TypeOK, WaitEnds, Goto, State, socket, wakeup, seen, writer,
     terminal
<1>2. Order'
  BY DEF IInv, Order, Taken, WaitEnds, Goto, State, socket, seen
<1>3. Ending'
  BY DEF IInv, Ending, Taken, WaitEnds, Goto, State, socket, seen
<1>4. Telling'
  BY DEF IInv, Telling, WaitEnds, State, seen
<1>5. Counts'
  BY TransportAssumption DEF IInv, Counts, Writing, WaitEnds, Goto, seen, writer, terminal
<1>6. NoLostWake'
  BY DEF NoLostWake, WaitEnds, Goto
<1>7. BytesCounted' /\ Signals'
  BY SizeStays DEF IInv, BytesCounted, Signals, WaitEnds, State, socket, wakeup, terminal
<1>8. QED
  BY <1>1, <1>2, <1>3, <1>4, <1>5, <1>6, <1>7 DEF IInv

\* It gives the connection up.
LEMMA GiveUpKeeps ==
  ASSUME IInv, GiveUp
  PROVE  IInv'
<1>1. TypeOK'
  BY TransportAssumption DEF IInv, TypeOK, GiveUp, Goto, State, socket, wakeup, seen, writer,
     terminal
<1>2. Order'
  BY DEF IInv, Order, Taken, GiveUp, Goto, State, socket, seen
<1>3. Ending'
  BY DEF IInv, Ending, Taken, GiveUp, Goto, State, socket, seen
<1>4. Telling'
  BY DEF Telling, GiveUp, Goto
<1>5. Counts'
  BY TransportAssumption DEF IInv, Counts, Writing, GiveUp, Goto, seen, writer, terminal
<1>6. NoLostWake'
  BY DEF NoLostWake, GiveUp, Goto
<1>7. BytesCounted' /\ Signals'
  BY SizeStays DEF IInv, BytesCounted, Signals, GiveUp, State, socket, wakeup, terminal
<1>8. QED
  BY <1>1, <1>2, <1>3, <1>4, <1>5, <1>6, <1>7 DEF IInv

\* The deadline of a command passes.
LEMMA DeadlinePassesKeeps ==
  ASSUME IInv, DeadlinePasses
  PROVE  IInv'
<1>1. TypeOK'
  BY TransportAssumption DEF IInv, TypeOK, DeadlinePasses, State, socket, wakeup, seen, terminal
<1>2. BytesCounted' /\ Order' /\ Ending' /\ Telling' /\ Counts' /\ Signals' /\ NoLostWake'
  BY TransportAssumption, SizeStays DEF IInv, BytesCounted, Order, Taken, Ending, Telling, Counts,
     Signals, NoLostWake, Nothing, Unreported, DeadlinePasses, State, socket, wakeup, seen,
     terminal
<1>3. QED
  BY <1>1, <1>2 DEF IInv

\* It may write on.
LEMMA WriteChecksKeeps ==
  ASSUME IInv, WriteChecks
  PROVE  IInv'
<1>1. TypeOK'
  BY TransportAssumption DEF IInv, TypeOK, WriteChecks, Goto, State, socket, wakeup, seen, writer,
     terminal
<1>2. Order'
  BY DEF IInv, Order, Taken, WriteChecks, Goto, State, socket, seen
<1>3. Ending'
  BY DEF IInv, Ending, WriteChecks, State, socket
<1>4. Telling'
  BY DEF IInv, Telling, WriteChecks, State, seen
<1>5. Counts'
  BY TransportAssumption DEF IInv, Counts, Writing, WriteChecks, seen, writer, terminal
<1>6. NoLostWake'
  BY DEF NoLostWake, WriteChecks, Goto
<1>7. BytesCounted' /\ Signals'
  BY SizeStays DEF IInv, BytesCounted, Signals, WriteChecks, State, socket, wakeup, terminal
<1>8. QED
  BY <1>1, <1>2, <1>3, <1>4, <1>5, <1>6, <1>7 DEF IInv

\* It writes: one write more, and one less to come.
LEMMA WriteKeeps ==
  ASSUME IInv, Write
  PROVE  IInv'
<1>1. TypeOK'
  <2>1. /\ written' \in 0 .. MaxCommands * Chunks /\ room' \in 0 .. Room
        /\ left' \in 0 .. Chunks /\ late' \in BOOLEAN
    <3>1. CASE room > 0
      <4>1. /\ written' = written + 1 /\ room' = room - 1 /\ left' = left - 1 /\ left > 0
            /\ late' = IF left = 1 THEN FALSE ELSE late
        BY <3>1 DEF IInv, Counts, Writing, Write
      <4>2. written + left <= commands * Chunks
        BY DEF IInv, Counts
      <4>3. commands * Chunks <= MaxCommands * Chunks /\ commands * Chunks \in Nat
        BY TransportAssumption, Product DEF IInv, TypeOK
      <4>4. left \in 0 .. Chunks /\ Chunks \in Nat /\ written \in Nat
        BY TransportAssumption, Product DEF IInv, TypeOK
      <4>5. MaxCommands * Chunks \in Nat
        BY TransportAssumption, Product
      <4>6. written' \in 0 .. MaxCommands * Chunks
        BY <4>1, <4>2, <4>3, <4>4, <4>5
      <4>7. room' \in 0 .. Room
        BY TransportAssumption, <3>1, <4>1 DEF IInv, TypeOK
      <4>8. left' \in 0 .. Chunks
        BY <4>1, <4>4
      <4>9. late' \in BOOLEAN
        BY <4>1 DEF IInv, TypeOK
      <4>10. QED
        BY <4>6, <4>7, <4>8, <4>9
    <3>2. CASE ~(room > 0)
      BY <3>2 DEF IInv, TypeOK, Write
    <3>3. QED
      BY <3>1, <3>2
  <2>2. client' \in {"top", "write"}
    BY DEF Write, Goto
  <2>3. QED
    BY <2>1, <2>2 DEF IInv, TypeOK, Write, State, socket, wakeup, seen, terminal
<1>2. Order'
  BY DEF IInv, Order, Taken, Write, Goto, State, socket, seen
<1>3. Ending'
  BY DEF IInv, Ending, Write, MayWrite, State, socket
<1>4. Telling'
  BY DEF IInv, Telling, Write, State, seen
<1>5. Counts'
  <2>1. CASE room > 0
    <3>1. /\ written' = written + 1 /\ left' = left - 1 /\ left > 0
          /\ client' = IF left = 1 THEN "top" ELSE "write"
      BY <2>1 DEF IInv, Counts, Writing, Write, Goto
    <3>2. commands * Chunks \in Nat
      BY TransportAssumption, Product DEF IInv, TypeOK
    <3>3. written' + left' <= commands * Chunks
      BY <3>1, <3>2 DEF IInv, TypeOK, Counts
    <3>4. QED
      BY <3>1, <3>3 DEF IInv, TypeOK, Counts, Writing, Write, seen, terminal
  <2>2. CASE ~(room > 0)
    BY <2>2 DEF IInv, Counts, Writing, Write, seen, terminal
  <2>3. QED
    BY <2>1, <2>2
<1>6. NoLostWake'
  BY DEF NoLostWake, Write, Goto
<1>7. BytesCounted' /\ Signals'
  BY SizeStays DEF IInv, BytesCounted, Signals, Write, State, socket, wakeup, terminal
<1>8. QED
  BY <1>1, <1>2, <1>3, <1>4, <1>5, <1>6, <1>7 DEF IInv

\* It may not write on.
LEMMA WriteFailsKeeps ==
  ASSUME IInv, WriteFails
  PROVE  IInv'
<1>1. TypeOK'
  BY TransportAssumption DEF IInv, TypeOK, WriteFails, Goto, State, socket, wakeup, seen, writer,
     terminal
<1>2. Order'
  BY DEF IInv, Order, Taken, WriteFails, Goto, State, socket, seen
<1>3. Ending'
  BY DEF IInv, Ending, Taken, WriteFails, Goto, State, socket, seen
<1>4. Telling'
  BY DEF Telling, WriteFails, Goto
<1>5. Counts'
  BY TransportAssumption DEF IInv, Counts, Writing, WriteFails, seen, writer, terminal
<1>6. NoLostWake'
  BY DEF NoLostWake, WriteFails, Goto
<1>7. BytesCounted' /\ Signals'
  BY SizeStays DEF IInv, BytesCounted, Signals, WriteFails, State, socket, wakeup, terminal
<1>8. QED
  BY <1>1, <1>2, <1>3, <1>4, <1>5, <1>6, <1>7 DEF IInv

\* It takes a key while it writes.
LEMMA ServiceKeyKeeps ==
  ASSUME IInv, ServiceKey
  PROVE  IInv'
<1>1. TypeOK'
  BY TransportAssumption DEF IInv, TypeOK, ServiceKey, State, socket, wakeup, seen, writer
<1>2. Order'
  BY DEF IInv, Order, Taken, ServiceKey, State, socket, seen
<1>3. Ending'
  BY DEF IInv, Ending, ServiceKey, State, socket
<1>4. Telling'
  BY DEF IInv, Telling, ServiceKey, State, seen
<1>5. Counts'
  BY TransportAssumption DEF IInv, TypeOK, Counts, Writing, ServiceKey, seen, writer
<1>6. NoLostWake'
  BY DEF NoLostWake, ServiceKey
<1>7. BytesCounted' /\ Signals'
  BY SizeStays DEF IInv, BytesCounted, Signals, ServiceKey, State, socket, wakeup
<1>8. QED
  BY <1>1, <1>2, <1>3, <1>4, <1>5, <1>6, <1>7 DEF IInv

\* It shuts the socket down.
LEMMA LeaveKeeps ==
  ASSUME IInv, Leave
  PROVE  IInv'
<1>1. TypeOK'
  <2>1. open' \in BOOLEAN
    BY DEF Leave
  <2>2. QED
    BY <2>1 DEF IInv, TypeOK, Leave, Goto, State, wakeup, seen, writer, terminal
<1>2. Order'
  BY DEF IInv, Order, Taken, Leave, Goto, State, seen
<1>3. Ending'
  BY DEF IInv, Ending, Taken, Leave, Goto, State, seen
<1>4. Telling'
  BY DEF Telling, Leave, Goto
<1>5. Counts'
  BY TransportAssumption DEF IInv, Counts, Writing, Leave, Goto, seen, writer, terminal
<1>6. NoLostWake'
  BY DEF NoLostWake, Leave, Goto
<1>7. BytesCounted' /\ Signals'
  BY SizeStays DEF IInv, BytesCounted, Signals, Leave, State, wakeup, terminal
<1>8. QED
  BY <1>1, <1>2, <1>3, <1>4, <1>5, <1>6, <1>7 DEF IInv

\* It drops the mailbox.
LEMMA DropKeeps ==
  ASSUME IInv, Drop
  PROVE  IInv'
<1>1. TypeOK'
  BY TransportAssumption DEF IInv, TypeOK, Drop, Goto, socket, seen, writer, terminal
<1>2. BytesCounted'
  <2>1. frames' = <<>> /\ bytes' = 0 /\ sent' \in Seq(Frame)
    BY DEF IInv, TypeOK, Drop, socket
  <2>2. QED
    BY <2>1, NoneWaits DEF BytesCounted
<1>3. Order'
  BY DEF IInv, TypeOK, Order, Taken, Drop, Goto, socket, seen
<1>4. Ending'
  BY DEF Ending, Drop, Goto
<1>5. Telling'
  BY DEF Telling, Drop, Goto
<1>6. Counts'
  BY TransportAssumption DEF IInv, Counts, Writing, Drop, Goto, seen, writer, terminal
<1>7. NoLostWake'
  BY DEF NoLostWake, Drop, Goto
<1>8. Signals'
  BY DEF IInv, Signals, Drop, terminal
<1>9. QED
  BY <1>1, <1>2, <1>3, <1>4, <1>5, <1>6, <1>7, <1>8 DEF IInv

\* The engine sends a record: the others keep their numbers.
LEMMA SendKeeps ==
  ASSUME IInv, Send
  PROVE  IInv'
<1>1. TypeOK'
  BY TransportAssumption DEF IInv, TypeOK, Send, State, wakeup, seen, writer, terminal
<1>2. BytesCounted'
  <2>1. frames \in Seq(1 .. Len(sent)) /\ sent \in Seq(Frame)
    BY DEF IInv, TypeOK
  <2>2. PICK f \in Frame : sent' = Append(sent, f)
    BY DEF Send
  <2>3. \A i \in 1 .. Len(frames) : sent'[frames[i]] = sent[frames[i]]
    <3>1. ASSUME NEW i \in 1 .. Len(frames) PROVE sent'[frames[i]] = sent[frames[i]]
      <4>1. frames[i] \in 1 .. Len(sent)
        BY <2>1, ElementOf
      <4>2. QED
        BY <2>1, <2>2, <4>1
    <3>2. QED
      BY <3>1
  <2>4. SizeOf(frames)' = SizeOf(frames)
    BY <2>3, SizeStays DEF Send, State
  <2>5. QED
    BY <2>4 DEF IInv, BytesCounted, Send, State
<1>3. Ending'
  BY DEF IInv, Ending, Send, State
<1>4. Order' /\ Telling' /\ Counts' /\ Signals' /\ NoLostWake'
  BY TransportAssumption DEF IInv, Order, Taken, Telling, Counts, Writing, Signals, NoLostWake,
     Nothing, Unreported, Send, State, wakeup, seen, writer, terminal
<1>5. QED
  BY <1>1, <1>2, <1>3, <1>4 DEF IInv

\* The engine reads.
LEMMA DrainKeeps ==
  ASSUME IInv, Drain
  PROVE  IInv'
<1>1. TypeOK'
  BY TransportAssumption DEF IInv, TypeOK, Drain, State, socket, wakeup, seen, terminal
<1>2. BytesCounted' /\ Order' /\ Ending' /\ Telling' /\ Counts' /\ Signals' /\ NoLostWake'
  BY TransportAssumption, SizeStays DEF IInv, BytesCounted, Order, Taken, Ending, Telling, Counts,
     Writing, Signals, NoLostWake, Nothing, Unreported, Drain, State, socket, wakeup, seen,
     terminal
<1>3. QED
  BY <1>1, <1>2 DEF IInv

\* The engine ends.
LEMMA EngineEndsKeeps ==
  ASSUME IInv, EngineEnds
  PROVE  IInv'
<1>1. TypeOK'
  <2>1. open' \in BOOLEAN
    BY DEF EngineEnds
  <2>2. QED
    BY <2>1 DEF IInv, TypeOK, EngineEnds, State, wakeup, seen, writer, terminal
<1>2. Ending'
  BY DEF IInv, Ending, EngineEnds, State
<1>3. BytesCounted' /\ Order' /\ Telling' /\ Counts' /\ Signals' /\ NoLostWake'
  BY TransportAssumption, SizeStays DEF IInv, BytesCounted, Order, Taken, Telling, Counts,
     Writing, Signals, NoLostWake, Nothing, Unreported, EngineEnds, State, wakeup, seen, writer,
     terminal
<1>4. QED
  BY <1>1, <1>2, <1>3 DEF IInv

\* A key is pressed.
LEMMA PressKeyKeeps ==
  ASSUME IInv, PressKey
  PROVE  IInv'
<1>1. TypeOK'
  <2>1. typed + 1 \in 0 .. MaxKeys /\ keys + 1 \in 0 .. MaxKeys
    BY TransportAssumption DEF IInv, TypeOK, Counts, PressKey
  <2>2. QED
    BY <2>1 DEF IInv, TypeOK, PressKey, State, socket, wakeup, seen, writer
<1>2. Counts'
  BY TransportAssumption DEF IInv, TypeOK, Counts, Writing, PressKey, seen, writer
<1>3. Signals'
  BY DEF Signals, PressKey
<1>4. NoLostWake'
  BY DEF IInv, NoLostWake, Nothing, Unreported, PressKey, State, socket, wakeup
<1>5. BytesCounted' /\ Order' /\ Ending' /\ Telling'
  BY SizeStays DEF IInv, BytesCounted, Order, Taken, Ending, Telling, PressKey, State, socket,
     seen
<1>6. QED
  BY <1>1, <1>2, <1>3, <1>4, <1>5 DEF IInv

\* The thread of the terminal tells of it.
LEMMA SignalKeyKeeps ==
  ASSUME IInv, SignalKey
  PROVE  IInv'
<1>1. TypeOK'
  BY TransportAssumption DEF IInv, TypeOK, SignalKey, State, socket, seen, writer
<1>2. Signals'
  BY DEF Signals, SignalKey
<1>3. NoLostWake'
  BY DEF IInv, NoLostWake, Nothing, Unreported, SignalKey, State, socket
<1>4. BytesCounted' /\ Order' /\ Ending' /\ Telling' /\ Counts'
  BY TransportAssumption, SizeStays DEF IInv, BytesCounted, Order, Taken, Ending, Telling, Counts,
     Writing, SignalKey, State, socket, seen, writer
<1>5. QED
  BY <1>1, <1>2, <1>3, <1>4 DEF IInv

-----------------------------------------------------------------------------
(* The theorems.                                                           *)

\* A step of something else changes nothing here.
LEMMA StutterKeeps ==
  ASSUME IInv, UNCHANGED vars
  PROVE  IInv'
<1>1. /\ UNCHANGED <<State, socket, wakeup, client, seen, writer, terminal>>
  BY DEF vars
<1>2. BytesCounted'
  <2>1. SizeOf(frames)' = SizeOf(frames)
    BY <1>1, SizeStays DEF State, socket
  <2>2. QED
    BY <1>1, <2>1 DEF IInv, BytesCounted, State
<1>3. TypeOK'
  BY <1>1 DEF IInv, TypeOK, State, socket, wakeup, seen, writer, terminal
<1>4. Order' /\ Ending' /\ Telling'
  BY <1>1 DEF IInv, Order, Ending, Telling, Taken, State, socket, seen
<1>5. Counts' /\ Signals' /\ NoLostWake'
  BY <1>1 DEF IInv, Counts, Signals, NoLostWake, Writing, Nothing, Unreported, State, socket,
     wakeup, seen, writer, terminal
<1>6. QED
  BY <1>2, <1>3, <1>4, <1>5 DEF IInv

\* The invariant holds in every state of every run.
THEOREM AlwaysInductive == Spec => []IInv
<1>1. Init => IInv
  <2> SUFFICES ASSUME Init PROVE IInv
    OBVIOUS
  <2>1. MaxCommands * Chunks \in Nat /\ 0 * Chunks = 0
    BY TransportAssumption, Product
  <2>2. TypeOK
    <3>1. sent \in Seq(Frame) /\ frames \in Seq(1 .. read) /\ Len(frames) = 0
      BY DEF Init
    <3>2. written \in 0 .. MaxCommands * Chunks
      BY <2>1 DEF Init
    <3>3. read \in 0 .. Len(sent) /\ holding \in 0 .. read /\ got \in 0 .. read
      BY DEF Init
    <3>4. /\ Len(frames) <= MaxRecords /\ bytes \in 0 .. MaxBytes
          /\ left \in 0 .. Chunks /\ commands \in 0 .. MaxCommands
          /\ room \in 0 .. Room /\ keys \in 0 .. MaxKeys /\ typed \in 0 .. MaxKeys
      BY <3>1, TransportAssumption DEF Init
    <3>5. QED
      BY <3>1, <3>2, <3>3, <3>4 DEF Init, TypeOK
  <2>3. BytesCounted
    BY SizeEmpty DEF Init, BytesCounted
  <2>4. Counts
    BY <2>1 DEF Init, Counts, Writing
  <2>5. Order /\ Ending /\ Telling /\ Signals /\ NoLostWake
    BY DEF Init, Order, Taken, Ending, Telling, Signals, NoLostWake
  <2>6. QED
    BY <2>2, <2>3, <2>4, <2>5 DEF IInv
<1>2. IInv /\ [Next]_vars => IInv'
  BY StutterKeeps, ReaderChecksKeeps, ReadFrameKeeps, ReadFailsKeeps, PushKeeps, OverflowKeeps,
     PushClosedKeeps, ReaderFailsKeeps, ReadEndKeeps, SignalEndKeeps, CaptureKeeps,
     TakeKeyKeeps, BeginCommandKeeps, PollOutputKeeps, AwaitResponseKeeps, ReceiveFailureKeeps,
     TakeFrameKeeps, DecodeKeeps, DecodeFailsKeeps, ReceiveEndKeeps, SleepKeeps, WakeKeeps,
     WaitEndsKeeps, GiveUpKeeps, DeadlinePassesKeeps, WriteChecksKeeps, WriteKeeps,
     WriteFailsKeeps, ServiceKeyKeeps, LeaveKeeps, DropKeeps, SendKeeps, DrainKeeps,
     EngineEndsKeeps, PressKeyKeeps, SignalKeyKeeps
     DEF Next, Reader, Client
<1>3. QED
  BY <1>1, <1>2, PTL DEF Spec

\* Every variable has its type: the mailbox never holds more than MaxBytes and
\* MaxRecords (Shared::push).
THEOREM TypeCorrect == Spec => []TypeOK
<1>1. IInv => TypeOK
  BY DEF IInv
<1>2. QED
  BY <1>1, AlwaysInductive, PTL

\* State.bytes is the size of what waits, after every push, take, failure and
\* drop: it neither drifts nor falls below zero.
THEOREM BytesAlwaysCounted == Spec => []BytesCounted
<1>1. IInv => BytesCounted
  BY DEF IInv
<1>2. QED
  BY <1>1, AlwaysInductive, PTL

\* The client sleeps only while nothing waits that it has not looked at, or its
\* waker is about to signal (NoLostWake: the generation captured before the polls).
THEOREM NeverLosesWake == Spec => []NoLostWake
<1>1. IInv => NoLostWake
  BY DEF IInv
<1>2. QED
  BY <1>1, AlwaysInductive, PTL

\* No byte is written after the mailbox was closed or the client left
\* (PipeWriter::write_checked looks under the lock).
THEOREM NeverWritesAfterFailure == Spec => NoByteAfterFailure
<1>1. [Next]_vars => [closed \/ client \in {"leave", "drop", "gone"} => written' = written]_vars
  <2> SUFFICES ASSUME Next, closed \/ client \in {"leave", "drop", "gone"}
               PROVE  written' = written
    OBVIOUS
  <2>1. CASE Write
    BY <2>1 DEF Write, MayWrite
  <2>2. CASE Reader \/ ReadFails
    BY <2>2 DEF Reader, ReaderChecks, ReadFrame, Push, Overflow, PushClosed, ReaderFails, ReadEnd,
       SignalEnd, ReadFails, writer
  <2>3. CASE Client /\ ~Write
    BY <2>3 DEF Client, Capture, TakeKey, BeginCommand, PollOutput, AwaitResponse, ReceiveFailure,
       TakeFrame, Decode, DecodeFails, ReceiveEnd, Sleep, Wake, WriteChecks, WriteFails,
       ServiceKey, Leave, Drop, writer
  <2>4. CASE \/ WaitEnds \/ GiveUp \/ DeadlinePasses \/ Send \/ Drain \/ EngineEnds \/ PressKey
             \/ SignalKey
    BY <2>4 DEF WaitEnds, GiveUp, DeadlinePasses, Send, Drain, EngineEnds, PressKey, SignalKey,
       writer
  <2>5. QED
    BY <2>1, <2>2, <2>3, <2>4 DEF Next
<1>2. QED
  BY <1>1, PTL DEF Spec, NoByteAfterFailure

\* The client is told of every record once and in order, and of an end without an
\* error only when it has them all: Transport implements Mailbox, the records
\* being told when they are decoded.
THEOREM AlwaysImplementsMailbox == Spec => ImplementsMailbox
<1>1. Init => M!Init
  BY DEF Init, M!Init
<1>2. IInv /\ [Next]_vars => [M!Next]_(M!vars)
  <2> SUFFICES ASSUME IInv, [Next]_vars PROVE M!Next \/ UNCHANGED <<sent, got, told>>
    BY DEF M!vars
  <2>1. CASE Send
    BY <2>1 DEF Send, seen, M!Next, M!Send
  <2>2. CASE Decode
    <3>1. /\ got' = got + 1 /\ got' \in 0 .. read /\ read \in 0 .. Len(sent) /\ got \in Nat
          /\ told = "open"
      BY <2>2 DEF IInv, TypeOK, Order, Telling, Decode
    <3>2. sent \in Seq(Frame)
      BY DEF IInv, TypeOK
    <3>3. got < Len(sent)
      BY <3>1, <3>2
    <3>4. QED
      BY <2>2, <3>1, <3>3 DEF Decode, socket, M!Next, M!Deliver
  <2>3. CASE ReceiveFailure \/ DecodeFails
    BY <2>3 DEF IInv, Telling, ReceiveFailure, DecodeFails, Receiving, socket, M!Next, M!Fail
  <2>4. CASE ReceiveEnd
    <3>1. told = "open" /\ ~reported /\ Taken = got
      BY <2>4 DEF IInv, Telling, Taken, ReceiveEnd, Receiving
    <3>2. read = Len(sent) /\ Taken + Len(frames) = read
      BY <2>4, <3>1 DEF IInv, Ending, ReceiveEnd, Receiving, Unreported
    <3>3. Len(frames) = 0 /\ got \in Nat
      BY <2>4 DEF IInv, TypeOK, ReceiveEnd
    <3>4. got = Len(sent)
      BY <3>1, <3>2, <3>3
    <3>5. QED
      BY <2>4, <3>1, <3>4 DEF ReceiveEnd, socket, M!Next, M!End
  <2>5. CASE Reader \/ ReadFails
    BY <2>5 DEF Reader, ReaderChecks, ReadFrame, Push, Overflow, PushClosed, ReaderFails, ReadEnd,
       SignalEnd, ReadFails, seen
  <2>6. CASE \/ Capture \/ TakeKey \/ BeginCommand \/ PollOutput \/ AwaitResponse \/ TakeFrame
             \/ Sleep \/ Wake \/ WriteChecks \/ Write \/ WriteFails \/ ServiceKey \/ Leave \/ Drop
    BY <2>6 DEF Capture, TakeKey, BeginCommand, PollOutput, AwaitResponse, TakeFrame, Sleep, Wake,
       WriteChecks, Write, WriteFails, ServiceKey, Leave, Drop, seen, socket
  <2>7. CASE \/ WaitEnds \/ GiveUp \/ DeadlinePasses \/ Drain \/ EngineEnds \/ PressKey \/ SignalKey
             \/ UNCHANGED vars
    BY <2>7 DEF WaitEnds, GiveUp, DeadlinePasses, Drain, EngineEnds, PressKey, SignalKey, vars,
       seen, socket
  <2>8. QED
    BY <2>1, <2>2, <2>3, <2>4, <2>5, <2>6, <2>7 DEF Next, Client
<1>3. QED
  BY <1>1, <1>2, AlwaysInductive, PTL DEF Spec, ImplementsMailbox, M!Spec

=============================================================================
