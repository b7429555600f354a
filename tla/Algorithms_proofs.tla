--------------------------- MODULE Algorithms_proofs ---------------------------
(***************************************************************************)
(* Algorithms that do without recursion, or whose recursion has a known    *)
(* solution, do for every input what MCAlgorithms checks for some.         *)
(***************************************************************************)
EXTENDS DumperCalls, WellFoundedInduction, SequenceTheorems, FiniteSetTheorems,
        TLAPS

LEMMA MinOfTwo ==
  ASSUME NEW a \in Int, NEW b \in Int
  PROVE  Min({a, b}) \in {a, b} /\ Min({a, b}) <= a /\ Min({a, b}) <= b
<1>1. \E x \in {a, b} : \A y \in {a, b} : x <= y
  BY a <= b \/ b <= a
<1>2. Min({a, b}) \in {a, b} /\ \A y \in {a, b} : Min({a, b}) <= y
  BY <1>1 DEF Min
<1>3. QED
  BY <1>2

LEMMA SmallestOf ==
  ASSUME NEW T \in SUBSET Nat, T # {}
  PROVE  \E x \in T : \A y \in T : x <= y
<1>1. PICK x \in T : \A y \in T : ~ (<<y, x>> \in OpToRel(<, Nat))
  BY NatLessThanWellFounded, WFMin
<1>2. \A y \in T : ~(y < x)
  BY <1>1 DEF OpToRel
<1>3. QED
  BY <1>2

LEMMA InPageOf ==
  ASSUME NEW a \in Nat, NEW p \in Nat \ {0}
  PROVE  a % p \in Nat /\ a % p <= a
OBVIOUS

-----------------------------------------------------------------------------
(* Recursive functions *)

\* What holds at the beginning and from one index to the next holds up to the end.
LEMMA UpTo ==
  ASSUME NEW n \in Nat, NEW S, 0 \in S, \A k \in 1..n : k - 1 \in S => k \in S
  PROVE  0..n \subseteq S
<1> DEFINE T == {k \in 0..n : k \notin S}
<1>1. CASE T = {}
  BY <1>1
<1>2. CASE T # {}
  <2>0. T \in SUBSET Nat
    OBVIOUS
  <2>1. PICK k \in T : \A j \in T : k <= j
    <3> HIDE DEF T
    <3>1. QED
      BY <1>2, <2>0, SmallestOf
  <2>2. k \in 1..n /\ k - 1 \notin T /\ k - 1 \in 0..n
    BY <2>1
  <2>3. k \in S
    BY <2>2
  <2>4. QED
    BY <2>1, <2>3
<1>3. QED
  BY <1>1, <1>2

Steps(n, B, b, step, g) ==
  g \in [0..n -> B] /\ g[0] = b /\ \A k \in 1..n : g[k] = step[<<k, g[k - 1]>>]

\* A function on 0..n that steps from each value to the next exists.
LEMMA StepsExist ==
  ASSUME NEW n \in Nat, NEW B, NEW b \in B, NEW step \in [(1..n) \X B -> B]
  PROVE  \E g : Steps(n, B, b, step, g)
<1> DEFINE Upto(m, g) == g[0] = b /\ \A k \in 1..m : g[k] = step[<<k, g[k - 1]>>]
           S == {m \in 0..n : \E g \in [0..m -> B] : Upto(m, g)}
<1>1. 0 \in S
  <2> DEFINE g == [i \in 0..0 |-> b]
  <2>1. g \in [0..0 -> B] /\ Upto(0, g) /\ 0 \in 0..n
    OBVIOUS
  <2> HIDE DEF g, Upto
  <2>2. QED
    BY <2>1
<1>2. ASSUME NEW m \in 1..n, m - 1 \in S PROVE m \in S
  <2>1. PICK g \in [0..m - 1 -> B] : Upto(m - 1, g)
    BY <1>2
  <2> DEFINE h == [i \in 0..m |-> IF i = m THEN step[<<m, g[m - 1]>>] ELSE g[i]]
  <2>2. g[m - 1] \in B /\ <<m, g[m - 1]>> \in (1..n) \X B
    BY <2>1
  <2>3. h \in [0..m -> B]
    BY <2>1, <2>2
  <2>4. \A k \in 1..m : h[k] = step[<<k, h[k - 1]>>]
    <3> TAKE k \in 1..m
    <3>1. h[k - 1] = g[k - 1]
      OBVIOUS
    <3>2. CASE k = m
      <4>1. h[k] = step[<<m, g[m - 1]>>]
        BY <3>2
      <4> HIDE DEF h
      <4>2. QED
        BY <3>1, <3>2, <4>1
    <3>3. CASE k # m
      <4>1. k \in 1..m - 1 /\ h[k] = g[k]
        BY <3>3
      <4>2. QED
        BY <2>1, <3>1, <4>1
    <3>4. QED
      BY <3>2, <3>3
  <2>5. h[0] = b
    BY <2>1
  <2> HIDE DEF h
  <2>6. Upto(m, h)
    BY <2>4, <2>5
  <2>7. QED
    BY <2>3, <2>6
<1> HIDE DEF S
<1>3. 0..n \subseteq S
  BY <1>1, <1>2, UpTo
<1>4. n \in S
  BY <1>3
<1>5. QED
  BY <1>4 DEF S, Steps

-----------------------------------------------------------------------------
(* Pages *)

LEMMA Remainder ==
  ASSUME NEW p \in Nat \ {0}, NEW a \in Int, NEW q \in Int, NEW r \in 0..p - 1, a = p * q + r
  PROVE  a % p = r /\ a \div p = q
<1> DEFINE u == a \div p
           v == a % p
<1>1. u \in Int /\ v \in 0..p - 1 /\ a = p * u + v
  OBVIOUS
<1> HIDE DEF u, v
<1>2. p * u + v = p * q + r
  BY <1>1
<1>3. ~(u >= q + 1)
  <2>1. ASSUME u >= q + 1 PROVE p * u >= p * (q + 1)
    BY <1>1, <2>1
  <2>2. p * (q + 1) = p * q + p
    OBVIOUS
  <2>3. QED
    BY <1>1, <1>2, <2>1, <2>2
<1>4. ~(q >= u + 1)
  <2>1. ASSUME q >= u + 1 PROVE p * q >= p * (u + 1)
    BY <1>1, <2>1
  <2>2. p * (u + 1) = p * u + p
    BY <1>1
  <2>3. QED
    BY <1>1, <1>2, <2>1, <2>2
<1>5. u = q /\ v = r
  BY <1>1, <1>2, <1>3, <1>4
<1>6. QED
  BY <1>5 DEF u, v

LEMMA ToEndOf ==
  ASSUME NEW at \in Nat
  PROVE  /\ (at % Page) \in 0..Page - 1 /\ (at % Page) <= at
         /\ ToEnd(at) \in 1..Page
         /\ at + ToEnd(at) = (at - (at % Page)) + Page
BY MemoryAssumption DEF ToEnd

LEMMA PageBegins ==
  ASSUME NEW at \in Nat
  PROVE  (at + ToEnd(at)) % Page = 0
<1> DEFINE q == at \div Page
<1>1. q \in Int /\ at = Page * q + (at % Page)
  BY MemoryAssumption
<1> HIDE DEF q
<1>1a. Page * (q + 1) = Page * q + Page
  BY <1>1, MemoryAssumption
<1>2. at + ToEnd(at) = Page * (q + 1) + 0
  <2> DEFINE r == at % Page
             m == Page * q
  <2>1. r \in Int /\ m \in Int /\ Page \in Int
    BY <1>1, ToEndOf, MemoryAssumption
  <2>2. at + ToEnd(at) = (at - r) + Page /\ at = m + r /\ Page * (q + 1) = m + Page
    BY <1>1, <1>1a, ToEndOf
  <2> HIDE DEF r, m
  <2>3. QED
    BY <2>1, <2>2
<1>3. 0 \in 0..Page - 1 /\ at + ToEnd(at) \in Int /\ q + 1 \in Int
  BY <1>1, ToEndOf, MemoryAssumption
<1>4. QED
  BY <1>2, <1>3, Remainder, MemoryAssumption

LEMMA MinusOf ==
  ASSUME NEW x \in 0..AddrSpace - 1, NEW y \in 0..AddrSpace - 1
  PROVE  Minus(x, y) = IF y <= x THEN x - y ELSE AddrSpace + x - y
BY MemoryAssumption DEF Minus

LEMMA CallSpan ==
  ASSUME NEW k \in 0..IovMax
  PROVE  k * Page \in Nat /\ k * Page <= IovMax * Page /\ 2 * (k * Page) < AddrSpace
<1>1. k * Page \in Nat /\ IovMax * Page \in Nat /\ k * Page <= IovMax * Page
  BY MemoryAssumption
<1>2. 2 * (AddrSpace \div 2) <= AddrSpace /\ AddrSpace \div 2 \in Nat
  BY MemoryAssumption
<1>3. QED
  BY <1>1, <1>2, MemoryAssumption

-----------------------------------------------------------------------------
(* The turns of the inner loop *)

Place == [at : Nat, left : 0..AddrSpace - 1]

LEMMA AfterPageType ==
  ASSUME NEW s \in Place
  PROVE  /\ AfterPage(s) \in Place
         /\ AfterPage(s).at = s.at + ToEnd(s.at)
         /\ AfterPage(s).left = IF ToEnd(s.at) <= s.left THEN s.left - ToEnd(s.at)
                                ELSE AddrSpace + s.left - ToEnd(s.at)
<1>1. s.at \in Nat /\ s.left \in 0..AddrSpace - 1
  BY DEF Place
<1>2. ToEnd(s.at) \in 1..Page /\ Page < AddrSpace
  <2>1. 1 \in 0..IovMax /\ 1 * Page = Page
    BY MemoryAssumption
  <2>2. 2 * Page < AddrSpace
    BY <2>1, CallSpan
  <2>3. ToEnd(s.at) \in 1..Page
    BY <1>1, ToEndOf
  <2>4. QED
    BY <2>2, <2>3, MemoryAssumption
<1>3. Minus(s.left, ToEnd(s.at)) = IF ToEnd(s.at) <= s.left THEN s.left - ToEnd(s.at)
                                   ELSE AddrSpace + s.left - ToEnd(s.at)
  BY <1>1, <1>2, MinusOf, MemoryAssumption
<1>4. Minus(s.left, ToEnd(s.at)) \in 0..AddrSpace - 1
  BY <1>1, <1>2, <1>3, MemoryAssumption
<1>5. QED
  BY <1>1, <1>2, <1>3, <1>4 DEF AfterPage, Place

Turns(at, left) ==
  CHOOSE g : g = [k \in 0..IovMax |->
                    IF k = 0 THEN [at |-> at, left |-> left] ELSE AfterPage(g[k - 1])]

LEMMA TurnsStep ==
  ASSUME NEW at \in Nat, NEW left \in 0..AddrSpace - 1
  PROVE  /\ Turns(at, left) \in [0..IovMax -> Place]
         /\ Turns(at, left)[0] = [at |-> at, left |-> left]
         /\ \A k \in 1..IovMax : Turns(at, left)[k] = AfterPage(Turns(at, left)[k - 1])
<1> DEFINE b == [at |-> at, left |-> left]
           step == [x \in (1..IovMax) \X Place |-> AfterPage(x[2])]
           Solves(g) == g = [k \in 0..IovMax |-> IF k = 0 THEN b ELSE AfterPage(g[k - 1])]
<1>1. step \in [(1..IovMax) \X Place -> Place]
  BY AfterPageType
<1>2. b \in Place /\ IovMax \in Nat
  BY MemoryAssumption DEF Place
<1>3. \A k \in 1..IovMax, p \in Place : step[<<k, p>>] = AfterPage(p)
  OBVIOUS
<1> HIDE DEF step, b
<1>4a. PICK g : Steps(IovMax, Place, b, step, g)
  BY <1>1, <1>2, StepsExist
<1>4. g \in [0..IovMax -> Place] /\ g[0] = b /\ \A k \in 1..IovMax : g[k] = step[<<k, g[k - 1]>>]
  BY <1>4a DEF Steps
<1>5. \A k \in 1..IovMax : g[k] = AfterPage(g[k - 1])
  <2> TAKE k \in 1..IovMax
  <2>1. k - 1 \in 0..IovMax
    BY <1>2
  <2>2. QED
    BY <1>3, <1>4, <2>1
<1>6. g = [k \in 0..IovMax |-> IF k = 0 THEN b ELSE AfterPage(g[k - 1])]
  BY <1>2, <1>4, <1>5
<1>7. Turns(at, left) = CHOOSE h : Solves(h)
  BY DEF Turns, b
<1>8. Solves(Turns(at, left))
  <2>1. Solves(g)
    BY <1>6
  <2> HIDE DEF Solves
  <2>2. QED
    BY <1>7, <2>1
<1> DEFINE t == Turns(at, left)
<1>9. t[0] = b /\ \A k \in 1..IovMax : t[k] = AfterPage(t[k - 1])
  <2>1. t = [k \in 0..IovMax |-> IF k = 0 THEN b ELSE AfterPage(t[k - 1])]
    BY <1>8
  <2> HIDE DEF t
  <2>2. QED
    BY <1>2, <2>1
<1>10. DOMAIN t = 0..IovMax /\ t = [k \in 0..IovMax |-> t[k]]
  <2>1. t = [k \in 0..IovMax |-> IF k = 0 THEN b ELSE AfterPage(t[k - 1])]
    BY <1>8
  <2> HIDE DEF t
  <2>2. QED
    BY <2>1
<1> HIDE DEF t
<1>11. 0..IovMax \subseteq {k \in 0..IovMax : t[k] \in Place}
  <2> DEFINE S == {k \in 0..IovMax : t[k] \in Place}
  <2>1. 0 \in S
    BY <1>2, <1>9
  <2>2. \A k \in 1..IovMax : k - 1 \in S => k \in S
    BY <1>2, <1>9, AfterPageType
  <2> HIDE DEF S
  <2>3. QED
    BY <1>2, <2>1, <2>2, UpTo DEF S
<1>12. t \in [0..IovMax -> Place]
  BY <1>10, <1>11
<1>13. QED
  BY <1>9, <1>12 DEF t, b

\* Piece k begins k pages behind the page of the address.
Turned(at, left, k, s) ==
  /\ s \in Place /\ s.at >= at
  /\ k = 0 => s.at = at
  /\ k > 0 => s.at = (at - (at % Page)) + k * Page /\ s.at % Page = 0
  /\ s.left = IF s.at <= at + left THEN at + left - s.at ELSE AddrSpace + at + left - s.at

LEMMA TurnedNext ==
  ASSUME NEW at \in Nat, NEW left \in 0..AddrSpace - 1, NEW k \in 1..IovMax,
         NEW s, Turned(at, left, k - 1, s)
  PROVE  Turned(at, left, k, AfterPage(s))
<1> DEFINE base == at - (at % Page)
           n == AfterPage(s)
           toEnd == ToEnd(s.at)
           span == k * Page
<1>1. /\ s \in Place /\ s.at \in Nat /\ s.left \in 0..AddrSpace - 1 /\ s.at >= at
      /\ s.left = IF s.at <= at + left THEN at + left - s.at ELSE AddrSpace + at + left - s.at
  BY DEF Turned, Place
<1>2. base \in Nat /\ base <= at /\ at < base + Page /\ at + ToEnd(at) = base + Page
  BY ToEndOf, MemoryAssumption
<1>3. /\ n \in Place /\ n.at = s.at + toEnd
      /\ n.left = IF toEnd <= s.left THEN s.left - toEnd ELSE AddrSpace + s.left - toEnd
  BY <1>1, AfterPageType
<1>4. toEnd \in 1..Page /\ n.at % Page = 0
  BY <1>1, <1>3, ToEndOf, PageBegins
<1>5. span \in Nat /\ 2 * span < AddrSpace /\ span = (k - 1) * Page + Page /\ (k - 1) * Page \in Nat
  BY CallSpan, MemoryAssumption
<1>6. n.at = base + span
  <2>1. CASE k = 1
    <3>1. s.at = at /\ span = Page
      BY <2>1, MemoryAssumption DEF Turned
    <3>2. QED
      BY <1>2, <1>3, <3>1
  <2>2. CASE k # 1
    <3>1. s.at = base + (k - 1) * Page /\ s.at % Page = 0
      BY <2>2 DEF Turned
    <3>2. toEnd = Page
      BY <1>1, <3>1, MemoryAssumption DEF ToEnd
    <3> HIDE DEF n, toEnd, base, span
    <3>3. QED
      BY <1>2, <1>3, <1>5, <3>1, <3>2, MemoryAssumption
  <2>3. QED
    BY <2>1, <2>2
<1> HIDE DEF n, toEnd, base, span
<1>7. n.at >= at /\ n.at - at <= span
  BY <1>1, <1>2, <1>3, <1>4, <1>5, <1>6, MemoryAssumption
<1>8. n.left = IF n.at <= at + left THEN at + left - n.at ELSE AddrSpace + at + left - n.at
  <2>1. /\ s.at \in Int /\ s.left \in Int /\ toEnd \in Int /\ AddrSpace \in Int /\ Page \in Int
        /\ toEnd >= 1 /\ s.left >= 0 /\ 2 * span < AddrSpace /\ span \in Int
    BY <1>1, <1>4, <1>5, MemoryAssumption
  <2>2. CASE s.at <= at + left
    BY <1>1, <1>3, <2>1, <2>2
  <2>3. CASE ~(s.at <= at + left)
    <3>1. s.left = AddrSpace + at + left - s.at /\ n.at > at + left
      BY <1>1, <1>3, <2>1, <2>3
    <3>2. toEnd <= s.left
      BY <1>3, <1>7, <2>1, <3>1
    <3>3. QED
      BY <1>3, <2>1, <3>1, <3>2
  <2>4. QED
    BY <2>2, <2>3
<1>9. QED
  BY <1>3, <1>4, <1>6, <1>7, <1>8 DEF Turned, n, base, span

LEMMA AllTurned ==
  ASSUME NEW at \in Nat, NEW left \in 0..AddrSpace - 1
  PROVE  \A k \in 0..IovMax : Turned(at, left, k, Turns(at, left)[k])
<1> DEFINE t == Turns(at, left)
           S == {k \in 0..IovMax : Turned(at, left, k, t[k])}
<1>1. t[0] = [at |-> at, left |-> left] /\ \A k \in 1..IovMax : t[k] = AfterPage(t[k - 1])
  BY TurnsStep
<1>2. IovMax \in Nat
  BY MemoryAssumption
<1> HIDE DEF t
<1>3. 0 \in S
  BY <1>1, <1>2, MemoryAssumption DEF Turned, Place
<1>4. \A k \in 1..IovMax : k - 1 \in S => k \in S
  <2> TAKE k \in 1..IovMax
  <2> HAVE k - 1 \in S
  <2>1. Turned(at, left, k - 1, t[k - 1]) /\ t[k] = AfterPage(t[k - 1]) /\ k \in 0..IovMax
    BY <1>1, <1>2
  <2>2. Turned(at, left, k, t[k])
    BY <2>1, TurnedNext
  <2>3. QED
    BY <2>1, <2>2
<1> HIDE DEF S
<1>5. 0..IovMax \subseteq S
  BY <1>2, <1>3, <1>4, UpTo
<1>6. QED
  BY <1>5 DEF S, t

LEMMA LeastOf ==
  ASSUME NEW S \in SUBSET Nat, NEW x \in S
  PROVE  Min(S) \in S /\ \A y \in S : Min(S) <= y
<1>1. \E m \in S : \A y \in S : m <= y
  BY SmallestOf
<1>2. QED
  BY <1>1 DEF Min

\* How many pieces a call takes.
Count(t, n) ==
  /\ n \in 1..IovMax
  /\ n = IovMax \/ t[n].left = 0 \/ t[n].at >= AddrSpace
  /\ \A k \in 1..n - 1 : t[k].left # 0

LEMMA PiecesOf ==
  ASSUME NEW at \in Nat, NEW left \in 0..AddrSpace - 1
  PROVE  \E n \in 1..IovMax :
           LET t == Turns(at, left)
               p == Pieces(at, left)
           IN /\ Count(t, n)
              /\ p.pieces = [k \in 1..n |-> [at |-> t[k - 1].at,
                                            len |-> Min({ToEnd(t[k - 1].at), t[k - 1].left})]]
              /\ p.next = t[n].at /\ p.left = t[n].left
<1> DEFINE t == Turns(at, left)
           S == {k \in 1..IovMax : k = IovMax \/ t[k].left = 0 \/ t[k].at >= AddrSpace}
           n == Min(S)
           list == [k \in 1..n |-> [at |-> t[k - 1].at,
                                   len |-> Min({ToEnd(t[k - 1].at), t[k - 1].left})]]
<1>1. Pieces(at, left) = [pieces |-> list, next |-> t[n].at, left |-> t[n].left]
  BY DEF Pieces, Turns
<1>2. IovMax \in S /\ S \in SUBSET Nat
  BY MemoryAssumption
<1>3. n \in S /\ \A y \in S : n <= y
  <2> HIDE DEF S
  <2>1. QED
    BY <1>2, LeastOf
<1> HIDE DEF n, list, t
<1>4. Count(t, n)
  <2>1. \A k \in 1..n - 1 : k \in 1..IovMax /\ k < n
    BY <1>3, MemoryAssumption
  <2>2. QED
    BY <1>3, <2>1, MemoryAssumption DEF Count
<1>5. /\ Pieces(at, left).pieces = list /\ Pieces(at, left).next = t[n].at
      /\ Pieces(at, left).left = t[n].left
  BY <1>1
<1>6. n \in 1..IovMax
  BY <1>3
<1>7. QED
  BY <1>4, <1>5, <1>6 DEF list, t

-----------------------------------------------------------------------------
(* What the kernel copies *)

LEMMA RunOf ==
  ASSUME NEW at \in Int, NEW n \in Nat
  PROVE  /\ Run(at, n) \in Seq(Int) /\ Len(Run(at, n)) = n
         /\ \A i \in 1..n : Run(at, n)[i] = at + i - 1
BY DEF Run

Copied(pieces) ==
  CHOOSE g : g = [k \in 0..Len(pieces) |->
                    IF k = 0 THEN <<>> ELSE g[k - 1] \o Run(pieces[k].at, pieces[k].len)]

LEMMA CopiedStep ==
  ASSUME NEW pieces \in Seq([at : Nat, len : Nat])
  PROVE  /\ Copied(pieces) \in [0..Len(pieces) -> Seq(Int)]
         /\ Copied(pieces)[0] = <<>>
         /\ \A k \in 1..Len(pieces) :
              Copied(pieces)[k] = Copied(pieces)[k - 1] \o Run(pieces[k].at, pieces[k].len)
<1> DEFINE n == Len(pieces)
           B == Seq(Int)
           run == [k \in 1..n |-> Run(pieces[k].at, pieces[k].len)]
           step == [x \in (1..n) \X B |-> x[2] \o run[x[1]]]
           Solves(g) == g = [k \in 0..n |-> IF k = 0 THEN <<>> ELSE g[k - 1] \o run[k]]
<1>1. n \in Nat /\ \A k \in 1..n : pieces[k].at \in Nat /\ pieces[k].len \in Nat
  <2>1. \A k \in 1..n : pieces[k] \in [at : Nat, len : Nat]
    BY ElementOfSeq
  <2>2. QED
    BY <2>1
<1> HIDE DEF n
<1>2. run \in [1..n -> B]
  <2>1. ASSUME NEW k \in 1..n PROVE Run(pieces[k].at, pieces[k].len) \in Seq(Int)
    <3>1. pieces[k].at \in Int /\ pieces[k].len \in Nat
      BY <1>1
    <3>2. QED
      BY <3>1, RunOf
  <2>2. QED
    BY <2>1
<1>3. Copied(pieces) = CHOOSE g : Solves(g)
  <2>1. \A g : [k \in 0..n |-> IF k = 0 THEN <<>> ELSE g[k - 1] \o Run(pieces[k].at, pieces[k].len)]
               = [k \in 0..n |-> IF k = 0 THEN <<>> ELSE g[k - 1] \o run[k]]
    BY <1>1
  <2>2. \A g : Solves(g) <=>
               g = [k \in 0..n |-> IF k = 0 THEN <<>> ELSE g[k - 1] \o Run(pieces[k].at, pieces[k].len)]
    BY <2>1
  <2> HIDE DEF Solves
  <2>3. QED
    BY <2>2 DEF Copied, n
<1> HIDE DEF run
<1>4. step \in [(1..n) \X B -> B]
  BY <1>2
<1>5. <<>> \in B
  OBVIOUS
<1>6. \A k \in 1..n, v \in B : step[<<k, v>>] = v \o run[k]
  OBVIOUS
<1> HIDE DEF step, B
<1>7. PICK g : Steps(n, B, <<>>, step, g)
  BY <1>1, <1>4, <1>5, StepsExist
<1>8. g \in [0..n -> B] /\ g[0] = <<>> /\ \A k \in 1..n : g[k] = step[<<k, g[k - 1]>>]
  BY <1>7 DEF Steps
<1>9. \A k \in 1..n : g[k] = g[k - 1] \o run[k]
  <2> TAKE k \in 1..n
  <2>1. k - 1 \in 0..n
    BY <1>1
  <2>2. QED
    BY <1>6, <1>8, <2>1
<1>10. Solves(g)
  <2>1. g = [k \in 0..n |-> g[k]]
    BY <1>8
  <2>2. ASSUME NEW k \in 0..n PROVE g[k] = IF k = 0 THEN <<>> ELSE g[k - 1] \o run[k]
    <3>1. k = 0 \/ k \in 1..n
      BY <1>1
    <3>2. QED
      BY <1>8, <1>9, <3>1, Zenon
  <2>3. QED
    BY <2>1, <2>2, Zenon
<1>11. Solves(Copied(pieces))
  <2> HIDE DEF Solves
  <2>1. QED
    BY <1>3, <1>10
<1> DEFINE c == Copied(pieces)
<1>12. c = [k \in 0..n |-> IF k = 0 THEN <<>> ELSE c[k - 1] \o run[k]]
  BY <1>11
<1> HIDE DEF c, Solves
<1>13. c[0] = <<>> /\ \A k \in 1..n : c[k] = c[k - 1] \o run[k]
  <2>1. 0 \in 0..n /\ \A k \in 1..n : k \in 0..n /\ k # 0
    BY <1>1
  <2>2. ASSUME NEW k \in 0..n PROVE c[k] = IF k = 0 THEN <<>> ELSE c[k - 1] \o run[k]
    BY <1>12, Zenon
  <2>3. QED
    BY <2>1, <2>2, Zenon
<1>14. DOMAIN c = 0..n
  BY <1>12
<1>15. 0..n \subseteq {k \in 0..n : c[k] \in B}
  <2> DEFINE S == {k \in 0..n : c[k] \in B}
  <2>1. 0 \in S
    BY <1>1, <1>5, <1>13
  <2>2. ASSUME NEW k \in 1..n, k - 1 \in S PROVE k \in S
    <3>1. c[k - 1] \in Seq(Int) /\ run[k] \in Seq(Int) /\ c[k] = c[k - 1] \o run[k] /\ k \in 0..n
      BY <1>1, <1>2, <1>13, <2>2 DEF B
    <3>2. c[k] \in B
      BY <3>1, ConcatProperties DEF B
    <3>3. QED
      BY <3>1, <3>2
  <2> HIDE DEF S
  <2>3. QED
    BY <1>1, <2>1, <2>2, UpTo DEF S
<1>16. c \in [0..n -> B]
  <2>1. c = [k \in 0..n |-> c[k]]
    BY <1>12, <1>14
  <2>2. QED
    BY <1>15, <2>1
<1>17. \A k \in 1..n : run[k] = Run(pieces[k].at, pieces[k].len)
  BY DEF run
<1>18. QED
  BY <1>13, <1>16, <1>17 DEF c, n, B

\* The first m bytes of b are those at an address.
Starts(b, at, m) ==
  b \in Seq(Int) /\ m \in Nat /\ Len(b) >= m /\ \A i \in 1..m : b[i] = at + i - 1

LEMMA StartsLonger ==
  ASSUME NEW at \in Nat, NEW b, Starts(b, at, Len(b)), NEW n \in Nat
  PROVE  /\ Starts(b \o Run(at + Len(b), n), at, Len(b) + n)
         /\ Len(b \o Run(at + Len(b), n)) = Len(b) + n
<1> DEFINE r == Run(at + Len(b), n)
           c == b \o r
<1>1. b \in Seq(Int) /\ Len(b) \in Nat /\ \A i \in 1..Len(b) : b[i] = at + i - 1
  BY DEF Starts
<1>2. r \in Seq(Int) /\ Len(r) = n /\ \A i \in 1..n : r[i] = (at + Len(b)) + i - 1
  <2>1. at + Len(b) \in Int
    BY <1>1
  <2>2. QED
    BY <2>1, RunOf, Zenon
<1> HIDE DEF r
<1>3. /\ c \in Seq(Int) /\ Len(c) = Len(b) + n
      /\ \A i \in 1..Len(b) + n : c[i] = IF i <= Len(b) THEN b[i] ELSE r[i - Len(b)]
  BY <1>1, <1>2, ConcatProperties
<1> HIDE DEF c
<1>4. ASSUME NEW i \in 1..Len(b) + n PROVE c[i] = at + i - 1
  <2>1. CASE i <= Len(b)
    <3>1. i \in 1..Len(b)
      BY <1>1, <2>1
    <3>2. QED
      BY <1>1, <1>3, <2>1, <3>1
  <2>2. CASE ~(i <= Len(b))
    <3>1. i - Len(b) \in 1..n
      BY <1>1, <2>2
    <3>2. c[i] = (at + Len(b)) + (i - Len(b)) - 1
      BY <1>2, <1>3, <2>2, <3>1
    <3>3. QED
      BY <1>1, <3>2
  <2>3. QED
    BY <2>1, <2>2
<1>5. QED
  BY <1>1, <1>3, <1>4 DEF Starts, c, r

LEMMA StartsKept ==
  ASSUME NEW at \in Nat, NEW b, NEW m \in Nat, Starts(b, at, m), NEW r \in Seq(Int)
  PROVE  Starts(b \o r, at, m)
<1>1. b \in Seq(Int) /\ Len(b) \in Nat /\ Len(r) \in Nat /\ Len(b) >= m
  BY DEF Starts
<1>2. /\ b \o r \in Seq(Int) /\ Len(b \o r) = Len(b) + Len(r)
      /\ \A i \in 1..Len(b) + Len(r) : (b \o r)[i] = IF i <= Len(b) THEN b[i] ELSE r[i - Len(b)]
  BY <1>1, ConcatProperties
<1>3. ASSUME NEW i \in 1..m PROVE (b \o r)[i] = at + i - 1
  <2>1. i \in 1..Len(b) + Len(r) /\ i <= Len(b)
    BY <1>1
  <2>2. QED
    BY <1>2, <2>1 DEF Starts
<1>4. QED
  BY <1>1, <1>2, <1>3 DEF Starts

PieceList(t, n) ==
  [k \in 1..n |-> [at |-> t[k - 1].at, len |-> Min({ToEnd(t[k - 1].at), t[k - 1].left})]]

LEMMA PieceListType ==
  ASSUME NEW at \in Nat, NEW left \in 0..AddrSpace - 1, NEW n \in 1..IovMax
  PROVE  LET t == Turns(at, left)
             list == PieceList(t, n)
         IN /\ list \in Seq([at : Nat, len : Nat]) /\ Len(list) = n
            /\ \A k \in 1..n :
                 /\ list[k].at = t[k - 1].at
                 /\ list[k].len = IF ToEnd(t[k - 1].at) <= t[k - 1].left
                                  THEN ToEnd(t[k - 1].at) ELSE t[k - 1].left
<1> DEFINE t == Turns(at, left)
           list == PieceList(t, n)
<1>1. \A k \in 1..n : k - 1 \in 0..IovMax
  BY MemoryAssumption
<1>2. \A k \in 0..IovMax : t[k] \in Place
  <2>1. t \in [0..IovMax -> Place]
    BY TurnsStep
  <2>2. QED
    BY <2>1
<1> HIDE DEF t
<1>3. ASSUME NEW k \in 1..n
      PROVE  /\ t[k - 1].at \in Nat
             /\ Min({ToEnd(t[k - 1].at), t[k - 1].left}) \in Nat
             /\ Min({ToEnd(t[k - 1].at), t[k - 1].left}) =
                  IF ToEnd(t[k - 1].at) <= t[k - 1].left THEN ToEnd(t[k - 1].at) ELSE t[k - 1].left
  <2> DEFINE x == ToEnd(t[k - 1].at)
             y == t[k - 1].left
  <2>1. t[k - 1].at \in Nat /\ y \in Nat
    BY <1>1, <1>2 DEF Place
  <2>2. x \in Nat
    <3> DEFINE here == t[k - 1].at
    <3>1. here \in Nat /\ Page \in Nat
      BY <2>1, MemoryAssumption
    <3> HIDE DEF here
    <3>2. ToEnd(here) \in 1..Page
      BY <3>1, ToEndOf
    <3>3. QED
      BY <3>1, <3>2 DEF here
  <2> HIDE DEF x, y
  <2>3. Min({x, y}) \in {x, y} /\ Min({x, y}) <= x /\ Min({x, y}) <= y
    <3>1. x \in Int /\ y \in Int
      BY <2>1, <2>2
    <3>2. QED
      BY <3>1, MinOfTwo, Zenon
  <2>4. Min({x, y}) = IF x <= y THEN x ELSE y
    BY <2>1, <2>2, <2>3
  <2>5. QED
    BY <2>1, <2>2, <2>4 DEF x, y
<1>4. \A k \in 1..n : list[k] = [at |-> t[k - 1].at, len |-> Min({ToEnd(t[k - 1].at), t[k - 1].left})]
  BY DEF PieceList
<1>5. list \in Seq([at : Nat, len : Nat]) /\ Len(list) = n
  <2>1. list = [k \in 1..n |-> list[k]] /\ n \in Nat
    BY MemoryAssumption DEF PieceList
  <2> HIDE DEF list
  <2>2. ASSUME NEW k \in 1..n PROVE list[k] \in [at : Nat, len : Nat]
    <3> DEFINE x == t[k - 1].at
               y == Min({ToEnd(t[k - 1].at), t[k - 1].left})
    <3>1. x \in Nat /\ y \in Nat /\ list[k] = [at |-> x, len |-> y]
      BY <1>3, <1>4
    <3> HIDE DEF x, y
    <3>2. QED
      BY <3>1
  <2>3. list \in [1..n -> [at : Nat, len : Nat]]
    BY <2>1, <2>2
  <2>4. QED
    BY <2>1, <2>3
<1> HIDE DEF list
<1>6. ASSUME NEW k \in 1..n
      PROVE  /\ list[k].at = t[k - 1].at
             /\ list[k].len = IF ToEnd(t[k - 1].at) <= t[k - 1].left
                              THEN ToEnd(t[k - 1].at) ELSE t[k - 1].left
  <2> DEFINE y == Min({ToEnd(t[k - 1].at), t[k - 1].left})
  <2>1. list[k] = [at |-> t[k - 1].at, len |-> y]
    BY <1>4
  <2>2. list[k].at = t[k - 1].at /\ list[k].len = y
    <3> HIDE DEF y
    <3>1. QED
      BY <2>1
  <2>3. QED
    BY <1>3, <2>2
<1>7. QED
  BY <1>5, <1>6, Zenon DEF list, t

\* The bytes of the pieces before place s: all that is wanted, or all up to the place.
CopiedTo(b, at, left, s) ==
  IF s.at <= at + left THEN Starts(b, at, Len(b)) /\ Len(b) = s.at - at ELSE Starts(b, at, left)

LEMMA CopiedNext ==
  ASSUME NEW at \in Nat, NEW left \in 0..AddrSpace - 1, NEW k \in 1..IovMax,
         NEW s, Turned(at, left, k - 1, s), NEW b, CopiedTo(b, at, left, s),
         NEW len, len = IF ToEnd(s.at) <= s.left THEN ToEnd(s.at) ELSE s.left
  PROVE  CopiedTo(b \o Run(s.at, len), at, left, AfterPage(s))
<1> DEFINE toEnd == ToEnd(s.at)
           next == AfterPage(s)
           c == b \o Run(s.at, len)
<1>1. /\ s \in Place /\ s.at \in Nat /\ s.left \in 0..AddrSpace - 1 /\ s.at >= at
      /\ s.left = IF s.at <= at + left THEN at + left - s.at ELSE AddrSpace + at + left - s.at
  BY DEF Turned, Place
<1>2. toEnd \in Nat /\ toEnd >= 1 /\ next.at = s.at + toEnd
  <2>1. next.at = s.at + toEnd
    BY <1>1, AfterPageType
  <2>2. toEnd \in 1..Page /\ Page \in Nat
    BY <1>1, ToEndOf, MemoryAssumption
  <2> HIDE DEF toEnd, next
  <2>3. QED
    BY <2>1, <2>2
<1>3. len \in Nat /\ len = IF toEnd <= s.left THEN toEnd ELSE s.left
  BY <1>1, <1>2
<1> HIDE DEF toEnd, next
<1>4. CASE s.at <= at + left
  <2>1. Starts(b, at, Len(b)) /\ Len(b) = s.at - at
    BY <1>4 DEF CopiedTo
  <2>2. at + Len(b) = s.at /\ Len(b) \in Nat
    BY <1>1, <2>1
  <2>3. Starts(c, at, Len(b) + len) /\ Len(c) = Len(b) + len
    <3>1. c = b \o Run(at + Len(b), len)
      BY <2>2
    <3>2. len \in Nat /\ at \in Nat /\ Starts(b, at, Len(b))
      BY <1>3, <2>1
    <3>3. Starts(b \o Run(at + Len(b), len), at, Len(b) + len)
          /\ Len(b \o Run(at + Len(b), len)) = Len(b) + len
      BY <3>2, StartsLonger, ZenonT(30)
    <3>4. QED
      BY <3>1, <3>3
  <2> HIDE DEF c
  <2>4. CASE next.at <= at + left
    <3>1. len = toEnd
      BY <1>1, <1>2, <1>3, <1>4, <2>4
    <3>2. Len(c) = next.at - at
      <4> DEFINE n == Len(b)
                 m == Len(c)
                 here == s.at
                 there == next.at
      <4>1. /\ n \in Nat /\ at + n = here /\ m = n + len /\ len = toEnd /\ there = here + toEnd
            /\ here \in Nat /\ toEnd \in Nat /\ at \in Nat
        BY <1>1, <1>2, <2>2, <2>3, <3>1
      <4> HIDE DEF n, m, here, there
      <4>2. m = there - at
        BY <4>1
      <4>3. QED
        BY <4>2 DEF m, there
    <3>3. QED
      BY <2>3, <2>4, <3>2 DEF CopiedTo, next, c
  <2>5. CASE ~(next.at <= at + left)
    <3>1. len = at + left - s.at
      BY <1>1, <1>2, <1>3, <1>4, <2>5
    <3>2. Len(b) + len = left
      BY <1>1, <2>1, <3>1
    <3>3. QED
      BY <2>3, <2>5, <3>2 DEF CopiedTo, next, c
  <2>6. QED
    BY <2>4, <2>5
<1>5. CASE ~(s.at <= at + left)
  <2>1. Starts(b, at, left) /\ ~(next.at <= at + left)
    BY <1>1, <1>2, <1>5 DEF CopiedTo
  <2>2. Run(s.at, len) \in Seq(Int) /\ left \in Nat
    <3>1. s.at \in Int
      BY <1>1
    <3>2. Run(s.at, len) \in Seq(Int)
      BY <1>3, <3>1, RunOf, Zenon
    <3>3. QED
      BY <3>2
  <2>3. Starts(c, at, left)
    BY <2>1, <2>2, StartsKept
  <2>4. QED
    BY <2>1, <2>3 DEF CopiedTo, next
<1>6. QED
  BY <1>4, <1>5

LEMMA CopiedStarts ==
  ASSUME NEW at \in Nat, NEW left \in 0..AddrSpace - 1, NEW n \in 1..IovMax
  PROVE  CopiedTo(Copied(PieceList(Turns(at, left), n))[n], at, left, Turns(at, left)[n])
<1> DEFINE t == Turns(at, left)
           list == PieceList(t, n)
           c == Copied(list)
           S == {j \in 0..n : CopiedTo(c[j], at, left, t[j])}
<1>1. list \in Seq([at : Nat, len : Nat]) /\ Len(list) = n /\ n \in Nat
  <2>1. list \in Seq([at : Nat, len : Nat]) /\ Len(list) = n
    BY PieceListType, Zenon
  <2>2. QED
    BY <2>1
<1>2. c[0] = <<>> /\ \A k \in 1..n : c[k] = c[k - 1] \o Run(list[k].at, list[k].len)
  BY <1>1, CopiedStep
<1>3. \A k \in 1..n :
        /\ list[k].at = t[k - 1].at
        /\ list[k].len = IF ToEnd(t[k - 1].at) <= t[k - 1].left
                         THEN ToEnd(t[k - 1].at) ELSE t[k - 1].left
  BY PieceListType
<1>4. /\ t[0] = [at |-> at, left |-> left]
      /\ \A k \in 1..IovMax : t[k] = AfterPage(t[k - 1])
      /\ \A k \in 0..IovMax : Turned(at, left, k, t[k])
  BY TurnsStep, AllTurned
<1> HIDE DEF t, list, c
<1>5. 0 \in S
  <2>1. t[0].at = at /\ Len(<<>>) = 0 /\ <<>> \in Seq(Int)
    BY <1>4
  <2>2. CopiedTo(c[0], at, left, t[0])
    BY <1>2, <2>1 DEF CopiedTo, Starts
  <2>3. QED
    BY <1>1, <2>2
<1>6. ASSUME NEW k \in 1..n, k - 1 \in S PROVE k \in S
  <2>1. k \in 1..IovMax /\ k - 1 \in 0..IovMax /\ k \in 0..n
    BY <1>1, MemoryAssumption
  <2>2. Turned(at, left, k - 1, t[k - 1]) /\ CopiedTo(c[k - 1], at, left, t[k - 1])
    BY <1>4, <1>6, <2>1
  <2>3. CopiedTo(c[k - 1] \o Run(t[k - 1].at, list[k].len), at, left, AfterPage(t[k - 1]))
    BY <1>3, <2>1, <2>2, CopiedNext
  <2>4. CopiedTo(c[k], at, left, t[k])
    BY <1>2, <1>3, <1>4, <2>1, <2>3
  <2>5. QED
    BY <2>1, <2>4
<1> HIDE DEF S
<1>7. 0..n \subseteq S
  BY <1>1, <1>5, <1>6, UpTo
<1>8. n \in S
  BY <1>1, <1>7
<1>9. QED
  BY <1>8 DEF S, c, list, t

LEMMA KernelReadsOf ==
  ASSUME NEW pieces \in Seq([at : Nat, len : Nat]), NEW room \in Nat, NEW ok,
         room < AddrSpace \div 2
  PROVE  LET bytes == Copied(pieces)[Len(pieces)]
             r == KernelReads(pieces, room, ok)
         IN /\ r \in Seq(Int) /\ Len(r) <= room /\ Len(r) <= Len(bytes)
            /\ \A i \in 1..Len(r) : r[i] = bytes[i] /\ bytes[i] \div Page \in ok
            /\ Len(r) = room \/ Len(r) = Len(bytes) \/ bytes[Len(r) + 1] \div Page \notin ok
<1> DEFINE bytes == Copied(pieces)[Len(pieces)]
           bad == {i \in DOMAIN bytes : bytes[i] \div Page \notin ok}
           good == IF bad = {} THEN bytes ELSE SubSeq(bytes, 1, Min(bad) - 1)
           size == Min({room, Len(good)})
           r == KernelReads(pieces, room, ok)
<1>1. r = SubSeq(good, 1, size)
  <2>1. AddrSpace \div 2 \in Int /\ ~(room >= AddrSpace \div 2)
    BY MemoryAssumption
  <2>2. r = IF room >= AddrSpace \div 2 THEN <<>> ELSE SubSeq(good, 1, size)
    BY DEF KernelReads, Copied
  <2> HIDE DEF good, size, r
  <2>3. QED
    BY <2>1, <2>2, Zenon
<1>2. bytes \in Seq(Int) /\ Len(bytes) \in Nat /\ DOMAIN bytes = 1..Len(bytes)
  <2>0. Copied(pieces) \in [0..Len(pieces) -> Seq(Int)]
    BY CopiedStep
  <2>1. Copied(pieces) \in [0..Len(pieces) -> Seq(Int)] /\ Len(pieces) \in 0..Len(pieces)
    BY <2>0
  <2>2. bytes \in Seq(Int)
    BY <2>1
  <2> HIDE DEF bytes
  <2>3. QED
    BY <2>2
<1> HIDE DEF bytes, r
<1>3. /\ good \in Seq(Int) /\ Len(good) \in Nat /\ Len(good) <= Len(bytes)
      /\ \A i \in 1..Len(good) : good[i] = bytes[i] /\ bytes[i] \div Page \in ok
      /\ Len(good) = Len(bytes) \/ bytes[Len(good) + 1] \div Page \notin ok
  <2>1. CASE bad = {}
    <3>1. good = bytes
      BY <2>1
    <3>2. \A i \in 1..Len(bytes) : bytes[i] \div Page \in ok
      BY <1>2, <2>1
    <3> HIDE DEF good, bad
    <3>3. QED
      BY <1>2, <3>1, <3>2
  <2>2. CASE bad # {}
    <3> DEFINE m == Min(bad)
    <3>1. bad \in SUBSET Nat
      BY <1>2
    <3>2. m \in bad /\ \A y \in bad : m <= y
      <4> HIDE DEF bad
      <4>1. QED
        BY <2>2, <3>1, LeastOf
    <3>3. good = SubSeq(bytes, 1, m - 1)
      BY <2>2
    <3> HIDE DEF m, good
    <3>4. m \in 1..Len(bytes) /\ bytes[m] \div Page \notin ok
      BY <1>2, <3>2
    <3>5. \A i \in 1..m - 1 : bytes[i] \div Page \in ok
      <4> TAKE i \in 1..m - 1
      <4>1. i \in DOMAIN bytes /\ ~(m <= i)
        BY <1>2, <3>4
      <4>2. i \notin bad
        BY <3>2, <4>1
      <4>3. QED
        BY <4>1, <4>2
    <3> HIDE DEF bad
    <3>6. good \in Seq(Int) /\ Len(good) = m - 1 /\ \A i \in 1..m - 1 : good[i] = bytes[i]
      BY <1>2, <3>3, <3>4
    <3>7. QED
      BY <1>2, <3>4, <3>5, <3>6
  <2>3. QED
    BY <2>1, <2>2
<1> HIDE DEF good, bad
<1>4. size \in {room, Len(good)} /\ size <= room /\ size <= Len(good)
  <2> DEFINE n == Len(good)
  <2>1. n \in Int /\ room \in Int
    BY <1>3
  <2> HIDE DEF n
  <2>2. Min({room, n}) \in {room, n} /\ Min({room, n}) <= room /\ Min({room, n}) <= n
    BY <2>1, MinOfTwo
  <2>3. QED
    BY <2>2 DEF n
<1> HIDE DEF size
<1>5. size \in Nat
  BY <1>3, <1>4
<1>6. r \in Seq(Int) /\ Len(r) = size /\ \A i \in 1..size : r[i] = good[i]
  BY <1>1, <1>3, <1>4, <1>5
<1>7. ASSUME NEW i \in 1..size PROVE r[i] = bytes[i] /\ bytes[i] \div Page \in ok
  <2> DEFINE n == Len(good)
  <2>1. n \in Nat /\ size <= n
    BY <1>3, <1>4
  <2> HIDE DEF n
  <2>2. i \in 1..n
    BY <1>5, <2>1
  <2>3. i \in 1..Len(good)
    BY <2>2 DEF n
  <2>4. QED
    BY <1>3, <1>6, <2>3, Zenon
<1>8. size = room \/ size = Len(bytes) \/ bytes[size + 1] \div Page \notin ok
  BY <1>3, <1>4
<1>9. size <= Len(bytes)
  BY <1>2, <1>3, <1>4, <1>5
<1>10. QED
  BY <1>4, <1>6, <1>7, <1>8, <1>9 DEF bytes, r

\* A call from a place: where it ends, and what it reads.
LEMMA CallEnds ==
  ASSUME NEW at \in Nat, NEW left \in 0..AddrSpace - 1
  PROVE  LET p == Pieces(at, left)
         IN /\ p.next \in Nat /\ p.next > at
            /\ p.next - at <= IovMax * Page /\ 2 * (p.next - at) < AddrSpace
            /\ p.left \in 0..AddrSpace - 1
            /\ p.left = IF p.next <= at + left THEN at + left - p.next
                        ELSE AddrSpace + at + left - p.next
            /\ p.next < at + left /\ p.next < AddrSpace =>
                 p.next = (at - (at % Page)) + IovMax * Page
<1> DEFINE t == Turns(at, left)
           p == Pieces(at, left)
<1>1. PICK n \in 1..IovMax : Count(t, n) /\ p.next = t[n].at /\ p.left = t[n].left
  BY PiecesOf
<1>2. n \in 0..IovMax /\ n > 0 /\ IovMax \in Nat
  BY MemoryAssumption
<1>3. Turned(at, left, n, t[n])
  BY <1>2, AllTurned
<1> HIDE DEF t, p
<1>4. /\ p.next \in Nat /\ p.left \in 0..AddrSpace - 1
      /\ p.next = (at - (at % Page)) + n * Page
      /\ p.left = IF p.next <= at + left THEN at + left - p.next ELSE AddrSpace + at + left - p.next
  BY <1>1, <1>2, <1>3 DEF Turned, Place
<1> DEFINE span == n * Page
           in == at % Page
<1>5. span \in Nat /\ span <= IovMax * Page /\ 2 * span < AddrSpace /\ span >= Page
  <2>1. span \in Nat /\ span <= IovMax * Page /\ 2 * span < AddrSpace
    BY <1>2, CallSpan
  <2>2. span >= Page
    BY <1>2, MemoryAssumption
  <2>3. QED
    BY <2>1, <2>2
<1>6. in \in 0..Page - 1
  BY ToEndOf
<1>7. p.next > at /\ p.next - at <= IovMax * Page /\ 2 * (p.next - at) < AddrSpace
  <2> DEFINE most == IovMax * Page
  <2> HIDE DEF span, in
  <2>1. p.next = (at - in) + span
    BY <1>4 DEF span, in
  <2>2. most \in Int
    BY MemoryAssumption
  <2> HIDE DEF most
  <2>3. p.next > at /\ p.next - at <= most /\ 2 * (p.next - at) < AddrSpace
    BY <1>5, <1>6, <2>1, <2>2, MemoryAssumption DEF most
  <2>4. QED
    BY <2>3 DEF most
<1>8. ASSUME p.next < at + left, p.next < AddrSpace
      PROVE  p.next = (at - (at % Page)) + IovMax * Page
  <2>1. t[n].left # 0 /\ ~(t[n].at >= AddrSpace)
    BY <1>1, <1>4, <1>8, MemoryAssumption
  <2>2. n = IovMax
    BY <1>1, <2>1 DEF Count
  <2>3. QED
    BY <1>4, <2>2
<1>9. QED
  BY <1>4, <1>7, <1>8 DEF p

LEMMA CallReads ==
  ASSUME NEW at \in Nat, NEW left \in 1..AddrSpace - 1, left < AddrSpace \div 2, NEW ok
  PROVE  LET p == Pieces(at, left)
             b == KernelReads(p.pieces, left, ok)
             reach == IF p.next <= at + left THEN p.next - at ELSE left
         IN /\ Starts(b, at, Len(b)) /\ Len(b) <= reach
            /\ \A i \in 1..Len(b) : (at + i - 1) \div Page \in ok
            /\ Len(b) = reach \/ (at + Len(b)) \div Page \notin ok
<1> DEFINE t == Turns(at, left)
           p == Pieces(at, left)
           b == KernelReads(p.pieces, left, ok)
           reach == IF p.next <= at + left THEN p.next - at ELSE left
           bytes == Copied(p.pieces)[Len(p.pieces)]
<1>1. left \in 0..AddrSpace - 1 /\ left \in Nat
  OBVIOUS
<1>2. PICK n \in 1..IovMax : p.pieces = PieceList(t, n) /\ p.next = t[n].at
  BY <1>1, PiecesOf DEF PieceList
<1>3. p.pieces \in Seq([at : Nat, len : Nat]) /\ Len(p.pieces) = n
  BY <1>1, <1>2, PieceListType
<1>4. CopiedTo(bytes, at, left, t[n])
  BY <1>1, <1>2, <1>3, CopiedStarts
<1>5. p.next \in Nat /\ p.next > at
  BY <1>1, CallEnds
<1>6. /\ b \in Seq(Int) /\ Len(b) <= left /\ Len(b) <= Len(bytes)
      /\ \A i \in 1..Len(b) : b[i] = bytes[i] /\ bytes[i] \div Page \in ok
      /\ Len(b) = left \/ Len(b) = Len(bytes) \/ bytes[Len(b) + 1] \div Page \notin ok
  BY <1>1, <1>3, KernelReadsOf
<1> HIDE DEF t, p, b, bytes
<1>7. Starts(bytes, at, reach) /\ (Len(bytes) = reach \/ reach = left)
  BY <1>2, <1>4 DEF CopiedTo
<1>8. reach \in Nat /\ reach <= left
  BY <1>1, <1>5
<1>9. Len(b) \in Nat /\ Len(bytes) \in Nat /\ Len(bytes) >= reach
  BY <1>6, <1>7 DEF Starts
<1> HIDE DEF reach
<1>10. Len(b) <= reach
  BY <1>6, <1>7, <1>8, <1>9
<1>11. \A i \in 1..reach : bytes[i] = at + i - 1
  BY <1>7 DEF Starts
<1>12. \A i \in 1..Len(b) : b[i] = at + i - 1 /\ (at + i - 1) \div Page \in ok
  <2> TAKE i \in 1..Len(b)
  <2>1. i \in 1..reach
    BY <1>8, <1>9, <1>10
  <2>2. QED
    BY <1>6, <1>11, <2>1
<1>13. Starts(b, at, Len(b))
  BY <1>6, <1>9, <1>12 DEF Starts
<1>14. ASSUME Len(b) # reach PROVE (at + Len(b)) \div Page \notin ok
  <2>1. bytes[Len(b) + 1] \div Page \notin ok
    BY <1>1, <1>6, <1>7, <1>8, <1>9, <1>10, <1>14
  <2>2. Len(b) + 1 \in 1..reach
    BY <1>8, <1>9, <1>10, <1>14
  <2>3. bytes[Len(b) + 1] = at + Len(b)
    BY <1>9, <1>11, <2>2
  <2>4. QED
    BY <2>1, <2>3
<1>15. QED
  BY <1>10, <1>12, <1>13, <1>14 DEF reach, b, p

-----------------------------------------------------------------------------
(* Reading by process_vm_readv *)

Reading == [at : Nat, left : 0..AddrSpace - 1, got : Seq(Int)]

Fits(at, len) == (at % Page) + len <= IovMax * Page
AllThere(at, len, ok) == \A i \in 0..len - 1 : (at + i) \div Page \in ok

\* What was got is in place, and all of it may be read.
Got(at, len, ok, got) ==
  /\ Starts(got, at, Len(got)) /\ Len(got) <= len
  /\ \A i \in 1..Len(got) : (at + i - 1) \div Page \in ok

\* Nothing is missing from what one call can read.
Whole(at, len, ok, got) ==
  Fits(at, len) /\ at + len + IovMax * Page < AddrSpace =>
    Len(got) = len \/ (at + Len(got)) \div Page \notin ok

\* In the middle of a read: the next byte goes where it belongs.
Midway(at, len, s, j) ==
  /\ s.at >= at /\ s.at <= at + len /\ s.left = at + len - s.at /\ Len(s.got) = s.at - at
  /\ (j = 0 /\ s.at = at) \/ (Fits(at, len) => s.left = 0)
\* At the end of one: nothing is left, or so much that no call is made any more.
Over(at, len, ok, s) ==
  (s.left = 0 \/ s.left >= AddrSpace \div 2) /\ Whole(at, len, ok, s.got)

ReadsSo(at, len, ok, s, j) ==
  s \in Reading /\ Got(at, len, ok, s.got) /\ (Midway(at, len, s, j) \/ Over(at, len, ok, s))

LEMMA KernelReadsType ==
  ASSUME NEW at \in Nat, NEW left \in 0..AddrSpace - 1, NEW ok
  PROVE  /\ KernelReads(Pieces(at, left).pieces, left, ok) \in Seq(Int)
         /\ left >= AddrSpace \div 2 => KernelReads(Pieces(at, left).pieces, left, ok) = <<>>
<1> DEFINE p == Pieces(at, left)
           b == KernelReads(p.pieces, left, ok)
<1>1. PICK n \in 1..IovMax : p.pieces = PieceList(Turns(at, left), n)
  BY PiecesOf DEF PieceList
<1>2. p.pieces \in Seq([at : Nat, len : Nat])
  BY <1>1, PieceListType
<1>3. AddrSpace \div 2 \in Int /\ left \in Nat
  BY MemoryAssumption
<1>4. CASE left >= AddrSpace \div 2
  <2>1. b = <<>>
    BY <1>4, Zenon DEF KernelReads
  <2>2. <<>> \in Seq(Int)
    OBVIOUS
  <2>3. QED
    BY <2>1, <2>2
<1>5. CASE ~(left >= AddrSpace \div 2)
  <2>1. left < AddrSpace \div 2
    BY <1>3, <1>5
  <2> HIDE DEF p
  <2>2. b \in Seq(Int)
    BY <1>2, <1>3, <2>1, KernelReadsOf
  <2>3. QED
    BY <1>5, <2>2 DEF p
<1>6. QED
  BY <1>4, <1>5

LEMMA AfterCallType ==
  ASSUME NEW s \in Reading, NEW ok
  PROVE  AfterCall(s, ok) \in Reading
<1> DEFINE p == Pieces(s.at, s.left)
           b == KernelReads(p.pieces, s.left, ok)
<1>1. s.at \in Nat /\ s.left \in 0..AddrSpace - 1 /\ s.got \in Seq(Int)
  BY DEF Reading
<1>2. p.next \in Nat /\ p.left \in 0..AddrSpace - 1
  BY <1>1, CallEnds
<1>3. b \in Seq(Int)
  BY <1>1, KernelReadsType
<1>4. AfterCall(s, ok) = IF s.left = 0 \/ p.next >= AddrSpace \/ b = <<>> THEN [s EXCEPT !.left = 0]
                         ELSE [at |-> p.next, left |-> p.left, got |-> s.got \o b]
  BY DEF AfterCall
<1> HIDE DEF p, b
<1>5. s.got \o b \in Seq(Int) /\ 0 \in 0..AddrSpace - 1
  BY <1>1, <1>3, ConcatProperties, MemoryAssumption
<1>6. [s EXCEPT !.left = 0] \in Reading
  BY <1>5 DEF Reading
<1>7. [at |-> p.next, left |-> p.left, got |-> s.got \o b] \in Reading
  BY <1>2, <1>5 DEF Reading
<1>8. QED
  BY <1>4, <1>6, <1>7

\* The bytes b follow those that were got.
Follow(at, len, ok, got, b) ==
  /\ Starts(b, at + Len(got), Len(b)) /\ Len(got) + Len(b) <= len
  /\ \A i \in 1..Len(b) : (at + Len(got) + i - 1) \div Page \in ok

LEMMA GotMore ==
  ASSUME NEW at \in Nat, NEW len \in Nat, NEW ok, NEW got, Got(at, len, ok, got),
         NEW b, Follow(at, len, ok, got, b)
  PROVE  Got(at, len, ok, got \o b) /\ Len(got \o b) = Len(got) + Len(b)
<1> DEFINE n == Len(b)
           m == Len(got)
<1>1. m \in Nat /\ n \in Nat /\ b \in Seq(Int) /\ \A i \in 1..n : b[i] = (at + m) + i - 1
  BY DEF Got, Starts, Follow
<1>1a. m + n <= len /\ \A i \in 1..n : (at + m + i - 1) \div Page \in ok
  BY DEF Follow
<1>2. b = Run(at + m, n)
  <2>1. b = [i \in 1..n |-> b[i]]
    BY <1>1
  <2>2. Run(at + m, n) = [i \in 1..n |-> (at + m) + i - 1]
    BY DEF Run
  <2>3. QED
    BY <1>1, <2>1, <2>2
<1>3. Starts(got, at, m)
  BY DEF Got
<1>4. Starts(got \o b, at, m + n) /\ Len(got \o b) = m + n
  BY <1>1, <1>2, <1>3, StartsLonger
<1>5. ASSUME NEW i \in 1..m + n PROVE (at + i - 1) \div Page \in ok
  <2>1. CASE i <= m
    BY <1>1, <2>1 DEF Got
  <2>2. CASE ~(i <= m)
    <3>1. i - m \in 1..n /\ at + m + (i - m) - 1 = at + i - 1
      BY <1>1, <2>2
    <3>2. (at + m + (i - m) - 1) \div Page \in ok
      BY <1>1a, <3>1
    <3>3. QED
      BY <3>1, <3>2
  <2>3. QED
    BY <2>1, <2>2
<1>6. QED
  BY <1>1a, <1>4, <1>5 DEF Got

LEMMA CallBelowHalf ==
  /\ AddrSpace \div 2 \in Nat /\ 2 * (AddrSpace \div 2) <= AddrSpace
  /\ IovMax * Page \in Nat /\ IovMax * Page < AddrSpace \div 2
BY MemoryAssumption

LEMMA ReadStops ==
  ASSUME NEW at \in Nat, NEW len \in 0..AddrSpace - 1, NEW ok, NEW j \in Nat,
         NEW s, ReadsSo(at, len, ok, s, j), Whole(at, len, ok, s.got)
  PROVE  ReadsSo(at, len, ok, [s EXCEPT !.left = 0], j + 1)
<1> DEFINE u == [s EXCEPT !.left = 0]
<1>1. s \in Reading
  BY DEF ReadsSo
<1>2. u \in Reading /\ u.left = 0 /\ u.got = s.got
  <2>1. 0 \in 0..AddrSpace - 1
    BY MemoryAssumption
  <2>2. QED
    BY <1>1, <2>1 DEF Reading
<1> HIDE DEF u
<1>3. Over(at, len, ok, u)
  BY <1>2 DEF Over
<1>4. QED
  BY <1>2, <1>3 DEF ReadsSo, u

\* The read cannot go on from the middle where only one call was to be made.
LEMMA WholeSoFar ==
  ASSUME NEW at \in Nat, NEW len \in 0..AddrSpace - 1, NEW ok, NEW j \in Nat,
         NEW s, ReadsSo(at, len, ok, s, j), s.left >= AddrSpace \div 2
  PROVE  Whole(at, len, ok, s.got)
<1>1. CASE Over(at, len, ok, s)
  BY <1>1 DEF Over
<1>2. CASE Midway(at, len, s, j)
  <2> DEFINE span == IovMax * Page
  <2>1. /\ s.at \in Nat /\ s.left \in Nat /\ (at % Page) \in Nat
        /\ AddrSpace \div 2 \in Nat /\ span \in Nat /\ span < AddrSpace \div 2
    BY ToEndOf, CallBelowHalf, MemoryAssumption DEF ReadsSo, Reading
  <2>2. ASSUME Fits(at, len) PROVE FALSE
    <3>1. (at % Page) + len <= span
      BY <2>2 DEF Fits
    <3>2. s.left = 0 \/ s.left = len
      BY <1>2, <2>1, <2>2 DEF Midway
    <3> HIDE DEF span
    <3>3. QED
      BY <2>1, <3>1, <3>2
  <2>3. QED
    BY <2>2 DEF Whole
<1>3. QED
  BY <1>1, <1>2 DEF ReadsSo

LEMMA ReadsGoOn ==
  ASSUME NEW at \in Nat, NEW len \in 0..AddrSpace - 1, NEW ok, NEW j \in Nat,
         Fits(at, len) \/ AllThere(at, len, ok),
         NEW s, ReadsSo(at, len, ok, s, j), s.left # 0, s.left < AddrSpace \div 2
  PROVE  ReadsSo(at, len, ok, AfterCall(s, ok), j + 1)
<1> DEFINE p == Pieces(s.at, s.left)
           b == KernelReads(p.pieces, s.left, ok)
           reach == IF p.next <= s.at + s.left THEN p.next - s.at ELSE s.left
           span == IovMax * Page
           half == AddrSpace \div 2
           n == Len(b)
<1>1. /\ s \in Reading /\ s.at \in Nat /\ s.left \in 0..AddrSpace - 1 /\ s.left \in 1..AddrSpace - 1
      /\ Got(at, len, ok, s.got) /\ s.got \in Seq(Int) /\ Len(s.got) \in Nat /\ len \in Nat
  BY DEF ReadsSo, Reading
<1>2. Midway(at, len, s, j)
  <2>1. AddrSpace \div 2 \in Nat /\ s.left \in Nat /\ s.left < AddrSpace \div 2
    BY <1>1, CallBelowHalf
  <2>2. ~(s.left = 0 \/ s.left >= AddrSpace \div 2)
    BY <2>1
  <2>3. QED
    BY <2>2 DEF ReadsSo, Over
<1>3. /\ s.at >= at /\ s.at <= at + len /\ s.left = at + len - s.at /\ Len(s.got) = s.at - at
      /\ Fits(at, len) => s.at = at
  BY <1>2 DEF Midway
<1>4. /\ half \in Nat /\ 2 * half <= AddrSpace /\ span \in Nat /\ span < half
      /\ (at % Page) \in 0..Page - 1 /\ (at % Page) <= at /\ AddrSpace \in Nat
  BY CallBelowHalf, ToEndOf, MemoryAssumption
<1>5. /\ p.next \in Nat /\ p.next > s.at /\ p.next - s.at <= span /\ p.left \in 0..AddrSpace - 1
      /\ p.left = IF p.next <= s.at + s.left THEN s.at + s.left - p.next
                  ELSE AddrSpace + s.at + s.left - p.next
  BY <1>1, CallEnds
<1>5a. p.next < s.at + s.left /\ p.next < AddrSpace => p.next = (s.at - (s.at % Page)) + span
  BY <1>1, CallEnds
<1>6. /\ Starts(b, s.at, n)
      /\ \A i \in 1..n : (s.at + i - 1) \div Page \in ok
      /\ n = reach \/ (s.at + n) \div Page \notin ok
  BY <1>1, CallReads
<1>7. n \in Nat /\ b \in Seq(Int) /\ n <= reach
  <2>1. n <= reach
    BY <1>1, CallReads
  <2>2. QED
    BY <1>6, <2>1 DEF Starts
<1>8. AfterCall(s, ok) = IF s.left = 0 \/ p.next >= AddrSpace \/ b = <<>> THEN [s EXCEPT !.left = 0]
                         ELSE [at |-> p.next, left |-> p.left, got |-> s.got \o b]
  BY DEF AfterCall
<1> HIDE DEF p, b, half, span
<1>9. ASSUME Fits(at, len)
      PROVE  /\ s.at = at /\ Len(s.got) = 0 /\ s.left = len
             /\ p.next < AddrSpace => p.next >= at + len
  <2>1. s.at = at /\ Len(s.got) = 0 /\ s.left = len
    BY <1>1, <1>3, <1>9
  <2>2. (at % Page) + len <= span
    BY <1>9 DEF Fits, span
  <2>3. ASSUME p.next < AddrSpace, p.next < at + len PROVE FALSE
    <3> DEFINE in == at % Page
    <3>1. p.next = (at - in) + span /\ in \in Nat /\ in + len <= span
      BY <1>4, <1>5, <1>5a, <2>1, <2>2, <2>3
    <3> HIDE DEF in
    <3>2. QED
      BY <1>1, <1>4, <1>5, <2>3, <3>1
  <2>4. QED
    BY <1>1, <1>5, <2>1, <2>3, MemoryAssumption
<1>10. reach \in Nat /\ reach >= 1 /\ reach <= s.left
  <2> DEFINE here == s.at
             rest == s.left
             there == p.next
  <2>1. /\ here \in Nat /\ rest \in Nat /\ rest >= 1 /\ there \in Nat /\ there > here
        /\ reach = IF there <= here + rest THEN there - here ELSE rest
    BY <1>1, <1>5
  <2> HIDE DEF here, rest, there, reach
  <2>2. reach \in Nat /\ reach >= 1 /\ reach <= rest
    BY <2>1
  <2>3. QED
    BY <2>2 DEF rest
<1> HIDE DEF n
<1>11. CASE p.next >= AddrSpace
  <2>1. ASSUME Fits(at, len), at + len + span < AddrSpace PROVE FALSE
    BY <1>1, <1>4, <1>5, <1>9, <1>11, <2>1
  <2>2. Whole(at, len, ok, s.got)
    BY <2>1 DEF Whole, span
  <2>3. QED
    BY <1>8, <1>11, <2>2, ReadStops
<1>12. CASE b = <<>>
  <2>1. n = 0
    BY <1>12 DEF n
  <2>2. ASSUME Fits(at, len) PROVE (at + Len(s.got)) \div Page \notin ok
    <3>1. (s.at + n) \div Page \notin ok /\ s.at + n = at + Len(s.got)
      BY <1>1, <1>6, <1>9, <1>10, <2>1, <2>2
    <3>2. QED
      BY <3>1
  <2>3. Whole(at, len, ok, s.got)
    BY <2>2 DEF Whole
  <2>4. QED
    BY <1>8, <1>12, <2>3, ReadStops
<1>13. CASE s.left # 0 /\ ~(p.next >= AddrSpace) /\ b # <<>>
  <2> DEFINE u == [at |-> p.next, left |-> p.left, got |-> s.got \o b]
             a == s.at
             l == s.left
             m == Len(s.got)
             next == p.next
  <2>1. AfterCall(s, ok) = u
    BY <1>8, <1>13
  <2>2. u \in Reading /\ u.at = p.next /\ u.left = p.left /\ u.got = s.got \o b
    BY <1>1, <2>1, AfterCallType
  <2> HIDE DEF u
  <2>3. /\ a \in Nat /\ l \in Nat /\ m \in Nat /\ len \in Nat /\ n \in Nat /\ reach \in Nat
        /\ next \in Nat /\ half \in Nat /\ AddrSpace \in Nat /\ u.at = next /\ u.left \in Int
    BY <1>1, <1>4, <1>5, <1>7, <1>10, <2>2
  <2>4. /\ a >= at /\ l = at + len - a /\ m = a - at /\ n <= reach /\ reach <= l
        /\ reach = IF next <= a + l THEN next - a ELSE l
        /\ next > a /\ 2 * half <= AddrSpace /\ next - a < half
    <3>1. a >= at /\ l = at + len - a /\ m = a - at /\ n <= reach /\ reach <= l
      BY <1>3, <1>7, <1>10
    <3>2. next > a /\ next - a <= span
      BY <1>5
    <3>3. 2 * half <= AddrSpace /\ span < half /\ span \in Nat
      BY <1>4
    <3>4. next - a < half
      <4> HIDE DEF a, next
      <4>1. QED
        BY <2>3, <3>2, <3>3
    <3>5. reach = IF next <= a + l THEN next - a ELSE l
      OBVIOUS
    <3>6. QED
      BY <3>1, <3>2, <3>3, <3>4, <3>5
  <2>5. u.left = IF next <= a + l THEN a + l - next ELSE AddrSpace + a + l - next
    BY <1>5, <2>2
  <2>6. next < AddrSpace
    BY <1>4, <1>5, <1>13
  <2> HIDE DEF a, l, m, next, reach
  <2>7. at + m = a /\ m + n <= len /\ m + n \in Nat
    BY <2>3, <2>4
  <2>8. Got(at, len, ok, u.got) /\ Len(u.got) = m + n
    <3>1. Starts(b, at + Len(s.got), Len(b)) /\ Len(s.got) + Len(b) <= len
      BY <1>6, <2>7 DEF n, m, a
    <3>2. \A i \in 1..Len(b) : (at + Len(s.got) + i - 1) \div Page \in ok
      BY <1>6, <2>7 DEF n, m, a
    <3>3. Got(at, len, ok, s.got \o b) /\ Len(s.got \o b) = Len(s.got) + Len(b)
      <4>1. Got(at, len, ok, s.got) /\ len \in Nat
        BY <1>1
      <4>2. Follow(at, len, ok, s.got, b)
        BY <3>1, <3>2 DEF Follow
      <4> DEFINE got == s.got
      <4>3. Got(at, len, ok, got) /\ Follow(at, len, ok, got, b) /\ len \in Nat /\ at \in Nat
        BY <4>1, <4>2
      <4> HIDE DEF got
      <4>4. Got(at, len, ok, got \o b) /\ Len(got \o b) = Len(got) + Len(b)
        BY <4>3, GotMore
      <4>5. QED
        BY <4>4 DEF got
    <3>4. QED
      BY <2>2, <3>3 DEF n, m
  <2>9. n = reach \/ (a + n) \div Page \notin ok
    BY <1>6 DEF a
  <2>10. CASE Fits(at, len)
    <3>1. a = at /\ m = 0 /\ l = len /\ next >= at + len
      BY <1>9, <2>6, <2>10 DEF a, m, l, next
    <3>2. reach = len
      BY <2>3, <2>4, <3>1
    <3>3. u.left = 0 \/ u.left >= half
      BY <2>3, <2>4, <2>5, <3>1
    <3>4. Len(u.got) = len \/ (at + Len(u.got)) \div Page \notin ok
      BY <2>3, <2>8, <2>9, <3>1, <3>2
    <3>5. Over(at, len, ok, u)
      BY <3>3, <3>4 DEF Over, Whole, half
    <3>6. QED
      BY <2>1, <2>2, <2>8, <3>5 DEF ReadsSo
  <2>11. CASE ~Fits(at, len)
    <3>1. n = reach
      <4>1. ASSUME n # reach PROVE FALSE
        <5>1. m + n \in 0..len - 1 /\ at + (m + n) = a + n
          BY <2>3, <2>4, <4>1
        <5>2. (at + (m + n)) \div Page \in ok
          BY <2>11, <5>1 DEF AllThere
        <5>3. QED
          BY <2>9, <4>1, <5>1, <5>2
      <4>2. QED
        BY <4>1
    <3>2. CASE next <= a + l
      <4>1. m + n = next - at
        BY <2>3, <2>4, <3>1, <3>2
      <4>2. Len(u.got) = u.at - at
        BY <2>3, <2>8, <4>1
      <4>3. next >= at /\ next <= at + len /\ u.left = at + len - next
        BY <2>3, <2>4, <2>5, <3>2
      <4>4. Midway(at, len, u, j + 1)
        BY <2>3, <2>11, <4>2, <4>3 DEF Midway
      <4>5. QED
        BY <2>1, <2>2, <2>8, <4>4 DEF ReadsSo
    <3>3. CASE ~(next <= a + l)
      <4>1. u.left >= half
        BY <2>3, <2>4, <2>5, <3>3
      <4>2. Whole(at, len, ok, u.got)
        BY <2>11 DEF Whole
      <4>3. Over(at, len, ok, u)
        BY <4>1, <4>2 DEF Over, half
      <4>4. QED
        BY <2>1, <2>2, <2>8, <4>3 DEF ReadsSo
    <3>4. QED
      BY <3>2, <3>3
  <2>12. QED
    BY <2>10, <2>11
<1>14. QED
  BY <1>11, <1>12, <1>13

Calls(at, len, ok) ==
  CHOOSE g : g = [j \in 0..len |->
                    IF j = 0 THEN [at |-> at, left |-> len, got |-> <<>>]
                    ELSE AfterCall(g[j - 1], ok)]

LEMMA CallsStep ==
  ASSUME NEW at \in Nat, NEW len \in 0..AddrSpace - 1, NEW ok
  PROVE  /\ Calls(at, len, ok)[0] = [at |-> at, left |-> len, got |-> <<>>]
         /\ \A j \in 1..len : Calls(at, len, ok)[j] = AfterCall(Calls(at, len, ok)[j - 1], ok)
<1> DEFINE b == [at |-> at, left |-> len, got |-> <<>>]
           step == [x \in (1..len) \X Reading |-> AfterCall(x[2], ok)]
           Solves(g) == g = [j \in 0..len |-> IF j = 0 THEN b ELSE AfterCall(g[j - 1], ok)]
           t == Calls(at, len, ok)
<1>1. step \in [(1..len) \X Reading -> Reading]
  BY AfterCallType
<1>2. b \in Reading /\ len \in Nat
  BY MemoryAssumption DEF Reading
<1>3. \A j \in 1..len, s \in Reading : step[<<j, s>>] = AfterCall(s, ok)
  OBVIOUS
<1>4. t = CHOOSE g : Solves(g)
  BY DEF Calls
<1> HIDE DEF step, b, t
<1>5. PICK g : Steps(len, Reading, b, step, g)
  BY <1>1, <1>2, StepsExist
<1>6. g \in [0..len -> Reading] /\ g[0] = b /\ \A j \in 1..len : g[j] = step[<<j, g[j - 1]>>]
  BY <1>5 DEF Steps
<1>7. \A j \in 1..len : g[j] = AfterCall(g[j - 1], ok)
  <2> TAKE j \in 1..len
  <2>1. j - 1 \in 0..len
    BY <1>2
  <2>2. QED
    BY <1>3, <1>6, <2>1
<1>8. Solves(g)
  BY <1>2, <1>6, <1>7
<1>9. Solves(t)
  <2> HIDE DEF Solves
  <2>1. QED
    BY <1>4, <1>8
<1>10. t[0] = b /\ \A j \in 1..len : t[j] = AfterCall(t[j - 1], ok)
  <2>1. t = [j \in 0..len |-> IF j = 0 THEN b ELSE AfterCall(t[j - 1], ok)]
    BY <1>9
  <2>2. QED
    BY <1>2, <2>1
<1>11. QED
  BY <1>10 DEF t, b

LEMMA VmReadvEnds ==
  ASSUME NEW at, NEW len, NEW ok
  PROVE  VmReadv(at, len, ok) = Calls(at, len, ok)[len].got
BY DEF VmReadv, Calls

LEMMA ReadsStart ==
  ASSUME NEW at \in Nat, NEW len \in 0..AddrSpace - 1, NEW ok
  PROVE  ReadsSo(at, len, ok, [at |-> at, left |-> len, got |-> <<>>], 0)
<1> DEFINE s == [at |-> at, left |-> len, got |-> <<>>]
<1>1. s \in Reading /\ s.at = at /\ s.left = len /\ s.got = <<>> /\ Len(s.got) = 0
  BY DEF Reading
<1> HIDE DEF s
<1>2. Got(at, len, ok, s.got)
  BY <1>1 DEF Got, Starts
<1>3. Midway(at, len, s, 0)
  BY <1>1 DEF Midway
<1>4. QED
  BY <1>1, <1>2, <1>3 DEF ReadsSo, s

LEMMA ReadsNext ==
  ASSUME NEW at \in Nat, NEW len \in 0..AddrSpace - 1, NEW ok, NEW j \in Nat,
         Fits(at, len) \/ AllThere(at, len, ok),
         NEW s, ReadsSo(at, len, ok, s, j)
  PROVE  ReadsSo(at, len, ok, AfterCall(s, ok), j + 1)
<1>1. s \in Reading /\ s.at \in Nat /\ s.left \in 0..AddrSpace - 1 /\ s.left \in Nat
  BY DEF ReadsSo, Reading
<1>2. CASE s.left = 0
  <2>1. AfterCall(s, ok) = [s EXCEPT !.left = 0]
    BY <1>2, Zenon DEF AfterCall
  <2>2. [s EXCEPT !.left = 0] = s
    BY <1>1, <1>2 DEF Reading
  <2>3. Midway(at, len, s, j) => Midway(at, len, s, j + 1)
    BY <1>2 DEF Midway
  <2>4. QED
    BY <2>1, <2>2, <2>3 DEF ReadsSo
<1>3. CASE s.left >= AddrSpace \div 2
  <2>1. KernelReads(Pieces(s.at, s.left).pieces, s.left, ok) = <<>>
    BY <1>1, <1>3, KernelReadsType
  <2>2. AfterCall(s, ok) = [s EXCEPT !.left = 0]
    BY <2>1, Zenon DEF AfterCall
  <2>3. QED
    BY <1>3, <2>2, WholeSoFar, ReadStops
<1>4. CASE s.left # 0 /\ s.left < AddrSpace \div 2
  BY <1>4, ReadsGoOn
<1>5. QED
  BY <1>1, <1>2, <1>3, <1>4, CallBelowHalf

LEMMA VmReads ==
  ASSUME NEW at \in Nat, NEW len \in 0..AddrSpace - 1, NEW ok,
         Fits(at, len) \/ AllThere(at, len, ok)
  PROVE  Got(at, len, ok, VmReadv(at, len, ok)) /\ Whole(at, len, ok, VmReadv(at, len, ok))
<1> DEFINE t == Calls(at, len, ok)
           S == {j \in 0..len : ReadsSo(at, len, ok, t[j], j)}
<1>1. /\ t[0] = [at |-> at, left |-> len, got |-> <<>>]
      /\ \A j \in 1..len : t[j] = AfterCall(t[j - 1], ok)
  BY CallsStep
<1>2. len \in Nat
  OBVIOUS
<1> HIDE DEF t
<1>3. 0 \in S
  BY <1>1, <1>2, ReadsStart
<1>4. ASSUME NEW j \in 1..len, j - 1 \in S PROVE j \in S
  <2> DEFINE i == j - 1
  <2>1. i \in Nat /\ i + 1 = j /\ ReadsSo(at, len, ok, t[i], i) /\ t[j] = AfterCall(t[i], ok)
    BY <1>1, <1>4
  <2> HIDE DEF i
  <2>2. ReadsSo(at, len, ok, AfterCall(t[i], ok), i + 1)
    BY <2>1, ReadsNext
  <2>3. QED
    BY <2>1, <2>2
<1> HIDE DEF S
<1>5. 0..len \subseteq S
  BY <1>2, <1>3, <1>4, UpTo
<1>6. len \in S
  BY <1>2, <1>5
<1>7. ReadsSo(at, len, ok, t[len], len)
  BY <1>6 DEF S
<1>8. VmReadv(at, len, ok) = t[len].got
  BY VmReadvEnds DEF t
<1> DEFINE s == t[len]
<1>9. Whole(at, len, ok, s.got)
  <2>1. CASE Over(at, len, ok, s)
    BY <2>1 DEF Over
  <2>2. CASE Midway(at, len, s, len)
    <3>1. Fits(at, len) => s.left = 0
      BY <2>2 DEF Midway
    <3>2. s.left = 0 => Len(s.got) = len
      BY <1>7, <2>2 DEF Midway, ReadsSo, Reading
    <3>3. QED
      BY <3>1, <3>2 DEF Whole
  <2>3. QED
    BY <1>7, <2>1, <2>2 DEF ReadsSo
<1>10. QED
  BY <1>7, <1>8, <1>9 DEF ReadsSo

-----------------------------------------------------------------------------
(* Reading word by word *)

LEMMA WordInPage ==
  ASSUME NEW a \in Nat, NEW d \in 0..(Long - (a % Long)) - 1
  PROVE  (a + d) \div Page = a \div Page
<1> DEFINE P == a \div Page
           r == a % Page
           u == r \div Long
           v == r % Long
           q == Page \div Long
<1>1. Page \in Nat \ {0} /\ Long \in Nat \ {0} /\ Page % Long = 0
  BY MemoryAssumption
<1>2. P \in Int /\ r \in 0..Page - 1 /\ a = Page * P + r
  BY <1>1
<1>3. q \in Int /\ Page = Long * q
  BY <1>1
<1>4. u \in Int /\ v \in 0..Long - 1 /\ r = Long * u + v
  BY <1>1, <1>2
<1> HIDE DEF P, r, u, v, q
<1>5. a = Long * (q * P + u) + v
  <2>1. Page * P = Long * (q * P)
    BY <1>2, <1>3, <1>1
  <2>2. Long * (q * P + u) = Long * (q * P) + Long * u
    BY <1>1, <1>2, <1>3, <1>4
  <2>3. Long * (q * P) \in Int /\ Long * u \in Int
    BY <1>1, <1>2, <1>3, <1>4
  <2>4. QED
    BY <1>2, <1>4, <2>1, <2>2, <2>3
<1>6. a % Long = v
  <2> DEFINE w == q * P + u
  <2>1. w \in Int /\ a = Long * w + v /\ a \in Int
    BY <1>2, <1>3, <1>4, <1>5
  <2> HIDE DEF w
  <2>2. QED
    BY <1>1, <1>4, <2>1, Remainder, ZenonT(30)
<1>7. d \in Int /\ 0 <= d /\ d + v <= Long - 1
  BY <1>1, <1>4, <1>6
<1>8. ~(u >= q)
  <2>1. ASSUME u >= q PROVE Long * u >= Long * q
    BY <1>1, <1>3, <1>4, <2>1
  <2>2. QED
    BY <1>1, <1>2, <1>3, <1>4, <2>1
<1>9. Long * (u + 1) <= Long * q /\ Long * (u + 1) = Long * u + Long
  <2>1. u + 1 <= q
    BY <1>3, <1>4, <1>8
  <2>2. QED
    BY <1>1, <1>3, <1>4, <2>1
<1>10. r + d \in 0..Page - 1
  <2> DEFINE m == Long * u
  <2>1. m \in Int /\ m + Long <= Page /\ r = m + v
    BY <1>1, <1>3, <1>4, <1>9
  <2> HIDE DEF m
  <2>2. QED
    BY <1>1, <1>2, <1>4, <1>7, <2>1
<1>11. a + d = Page * P + (r + d)
  <2> DEFINE m == Page * P
  <2>1. m \in Int /\ a = m + r
    BY <1>1, <1>2
  <2> HIDE DEF m
  <2>2. a + d = m + (r + d)
    BY <1>2, <1>7, <2>1
  <2>3. QED
    BY <2>2 DEF m
<1>12. a + d \in Int
  BY <1>7
<1>13. (a + d) \div Page = P
  BY <1>1, <1>2, <1>10, <1>11, <1>12, Remainder
<1>14. QED
  BY <1>13 DEF P

\* What a word adds.
LEMMA WordOf ==
  ASSUME NEW at \in Nat, NEW left \in Nat \ {0}, NEW part, part = Min({Long - (at % Long), left})
  PROVE  /\ part \in 1..left
         /\ \A i \in 1..part : (at + i - 1) \div Page = at \div Page
<1> DEFINE v == at % Long
<1>1. v \in Int /\ v <= Long - 1 /\ Long \in Int
  BY MemoryAssumption
<1>2. part \in {Long - v, left} /\ part <= Long - v /\ part <= left
  <2> HIDE DEF v
  <2>1. Long - v \in Int /\ left \in Int
    BY <1>1
  <2>2. part = Min({Long - v, left})
    BY DEF v
  <2>3. QED
    BY <2>1, <2>2, MinOfTwo
<1>3. part \in 1..left
  <2> HIDE DEF v
  <2>1. QED
    BY <1>1, <1>2
<1>4. ASSUME NEW i \in 1..part PROVE (at + i - 1) \div Page = at \div Page
  <2>1. i - 1 \in 0..(Long - v) - 1
    <3> HIDE DEF v
    <3>1. QED
      BY <1>1, <1>2, <1>3
  <2>2. (at + (i - 1)) \div Page = at \div Page
    BY <2>1, WordInPage
  <2>3. at + (i - 1) = at + i - 1
    BY <1>3
  <2>4. QED
    BY <2>2, <2>3
<1>5. QED
  BY <1>3, <1>4

LEMMA AfterWordType ==
  ASSUME NEW s \in Reading, NEW ok
  PROVE  AfterWord(s, ok) \in Reading
<1> DEFINE part == Min({Long - (s.at % Long), s.left})
<1>1. s.at \in Nat /\ s.left \in 0..AddrSpace - 1 /\ s.got \in Seq(Int) /\ s.left \in Nat
  BY DEF Reading
<1>2. AfterWord(s, ok) = IF s.left = 0 \/ s.at \div Page \notin ok THEN [s EXCEPT !.left = 0]
                         ELSE [at |-> s.at + part, left |-> s.left - part, got |-> s.got \o Run(s.at, part)]
  BY DEF AfterWord
<1>3. [s EXCEPT !.left = 0] \in Reading
  <2>1. 0 \in 0..AddrSpace - 1
    BY MemoryAssumption
  <2>2. QED
    BY <2>1 DEF Reading
<1>4. CASE s.left # 0
  <2>1. part \in 1..s.left
    BY <1>1, <1>4, WordOf
  <2> HIDE DEF part
  <2>1a. s.at \in Int /\ part \in Nat
    BY <1>1, <2>1
  <2>2. Run(s.at, part) \in Seq(Int)
    BY <2>1a, RunOf, Zenon
  <2>3. s.got \o Run(s.at, part) \in Seq(Int)
    BY <1>1, <2>2, ConcatProperties
  <2>4. s.at + part \in Nat /\ s.left - part \in 0..AddrSpace - 1
    BY <1>1, <2>1, MemoryAssumption
  <2>5. [at |-> s.at + part, left |-> s.left - part, got |-> s.got \o Run(s.at, part)] \in Reading
    BY <2>3, <2>4 DEF Reading
  <2>6. QED
    BY <1>2, <1>3, <2>5
<1>5. CASE s.left = 0
  BY <1>2, <1>3, <1>5
<1>6. QED
  BY <1>4, <1>5

\* In the middle of a read, or behind its first hole.
PeeksSo(at, len, ok, s, j) ==
  /\ s \in Reading /\ Got(at, len, ok, s.got)
  /\ \/ /\ s.at = at + Len(s.got) /\ s.left = len - Len(s.got)
        /\ s.left = 0 \/ s.left + j <= len
     \/ s.left = 0 /\ (at + Len(s.got)) \div Page \notin ok

LEMMA PeeksNext ==
  ASSUME NEW at \in Nat, NEW len \in 0..AddrSpace - 1, NEW ok, NEW j \in Nat,
         NEW s, PeeksSo(at, len, ok, s, j)
  PROVE  PeeksSo(at, len, ok, AfterWord(s, ok), j + 1)
<1> DEFINE part == Min({Long - (s.at % Long), s.left})
           u == AfterWord(s, ok)
           n == Len(s.got)
           new == Run(s.at, part)
<1>1. /\ s \in Reading /\ s.at \in Nat /\ s.left \in 0..AddrSpace - 1 /\ s.left \in Nat
      /\ s.got \in Seq(Int) /\ n \in Nat /\ len \in Nat /\ Got(at, len, ok, s.got)
  BY DEF PeeksSo, Reading
<1>2. u = IF s.left = 0 \/ s.at \div Page \notin ok THEN [s EXCEPT !.left = 0]
          ELSE [at |-> s.at + part, left |-> s.left - part, got |-> s.got \o new]
  BY DEF AfterWord
<1>3. u \in Reading
  BY <1>1, AfterWordType
<1> HIDE DEF u
<1>4. CASE s.left = 0
  <2>1. u = s
    BY <1>1, <1>2, <1>4 DEF Reading
  <2>2. QED
    BY <1>4, <2>1 DEF PeeksSo, u
<1>5. CASE s.left # 0 /\ s.at \div Page \notin ok
  <2>1. u.left = 0 /\ u.got = s.got
    BY <1>1, <1>2, <1>5 DEF Reading
  <2>2. s.at = at + n
    BY <1>5 DEF PeeksSo
  <2>3. (at + Len(u.got)) \div Page \notin ok
    BY <1>5, <2>1, <2>2
  <2>4. QED
    BY <1>1, <1>3, <2>1, <2>3 DEF PeeksSo, u
<1>6. CASE s.left # 0 /\ s.at \div Page \in ok
  <2>1. s.at = at + n /\ s.left = len - n /\ s.left + j <= len
    BY <1>6 DEF PeeksSo
  <2>1a. s.left \in Nat \ {0} /\ part = Min({Long - (s.at % Long), s.left})
    BY <1>1, <1>6
  <2> HIDE DEF part
  <2> DEFINE a1 == s.at
             l1 == s.left
  <2>1b. a1 \in Nat /\ l1 \in Nat \ {0} /\ part = Min({Long - (a1 % Long), l1})
    BY <1>1, <2>1a
  <2> HIDE DEF a1, l1
  <2>1c. part \in 1..l1 /\ \A i \in 1..part : (a1 + i - 1) \div Page = a1 \div Page
    BY <2>1b, WordOf
  <2>2. part \in 1..s.left /\ \A i \in 1..part : (s.at + i - 1) \div Page = s.at \div Page
    BY <2>1c DEF a1, l1
  <2>2a. s.at \in Int /\ part \in Nat
    BY <1>1, <2>2
  <2> HIDE DEF new
  <2>3. /\ new \in Seq(Int) /\ Len(new) = part
        /\ \A i \in 1..part : new[i] = s.at + i - 1
    BY <2>2a, RunOf, Zenon DEF new
  <2>4. Starts(new, at + n, Len(new))
    <3>1. \A i \in 1..Len(new) : new[i] = (at + n) + i - 1
      BY <2>1, <2>3
    <3>2. QED
      BY <2>2, <2>3, <3>1 DEF Starts
  <2>5. Follow(at, len, ok, s.got, new)
    <3>1. n + Len(new) <= len
      BY <1>1, <2>1, <2>2, <2>3
    <3>2. \A i \in 1..Len(new) : (at + n + i - 1) \div Page \in ok
      BY <1>6, <2>1, <2>2, <2>3
    <3>3. QED
      BY <2>4, <3>1, <3>2 DEF Follow
  <2>6. Got(at, len, ok, s.got \o new) /\ Len(s.got \o new) = n + part
    BY <1>1, <2>3, <2>5, GotMore
  <2>7. u.at = s.at + part /\ u.left = s.left - part /\ u.got = s.got \o new
    BY <1>2, <1>6
  <2>8. u.at = at + Len(u.got) /\ u.left = len - Len(u.got) /\ u.left + (j + 1) <= len
    <3> DEFINE at1 == s.at
               left1 == s.left
               at2 == u.at
               left2 == u.left
               n2 == Len(u.got)
    <3>1. at1 = at + n /\ left1 = len - n /\ left1 + j <= len /\ at2 = at1 + part
          /\ left2 = left1 - part /\ n2 = n + part
      BY <2>1, <2>6, <2>7
    <3>2. n \in Nat /\ part >= 1 /\ part \in Nat /\ left1 \in Nat
      BY <1>1, <2>2, <2>2a
    <3> HIDE DEF at1, left1, at2, left2, n2, n
    <3>3. at2 = at + n2 /\ left2 = len - n2 /\ left2 + (j + 1) <= len
      BY <1>1, <3>1, <3>2
    <3>4. QED
      BY <3>3 DEF at2, left2, n2
  <2>9. QED
    BY <1>3, <2>6, <2>7, <2>8 DEF PeeksSo, u
<1>7. QED
  BY <1>4, <1>5, <1>6

WordsRead(at, len, ok) ==
  CHOOSE g : g = [j \in 0..len |->
                    IF j = 0 THEN [at |-> at, left |-> len, got |-> <<>>]
                    ELSE AfterWord(g[j - 1], ok)]

LEMMA WordsStep ==
  ASSUME NEW at \in Nat, NEW len \in 0..AddrSpace - 1, NEW ok
  PROVE  /\ WordsRead(at, len, ok)[0] = [at |-> at, left |-> len, got |-> <<>>]
         /\ \A j \in 1..len : WordsRead(at, len, ok)[j] = AfterWord(WordsRead(at, len, ok)[j - 1], ok)
<1> DEFINE b == [at |-> at, left |-> len, got |-> <<>>]
           step == [x \in (1..len) \X Reading |-> AfterWord(x[2], ok)]
           Solves(g) == g = [j \in 0..len |-> IF j = 0 THEN b ELSE AfterWord(g[j - 1], ok)]
           t == WordsRead(at, len, ok)
<1>1. step \in [(1..len) \X Reading -> Reading]
  BY AfterWordType
<1>2. b \in Reading /\ len \in Nat
  BY MemoryAssumption DEF Reading
<1>3. \A j \in 1..len, s \in Reading : step[<<j, s>>] = AfterWord(s, ok)
  OBVIOUS
<1>4. t = CHOOSE g : Solves(g)
  BY DEF WordsRead
<1> HIDE DEF step, b, t
<1>5. PICK g : Steps(len, Reading, b, step, g)
  BY <1>1, <1>2, StepsExist
<1>6. g \in [0..len -> Reading] /\ g[0] = b /\ \A j \in 1..len : g[j] = step[<<j, g[j - 1]>>]
  BY <1>5 DEF Steps
<1>7. \A j \in 1..len : g[j] = AfterWord(g[j - 1], ok)
  <2> TAKE j \in 1..len
  <2>1. j - 1 \in 0..len
    BY <1>2
  <2>2. QED
    BY <1>3, <1>6, <2>1
<1>8. Solves(g)
  BY <1>2, <1>6, <1>7
<1>9. Solves(t)
  <2> HIDE DEF Solves
  <2>1. QED
    BY <1>4, <1>8
<1>10. t[0] = b /\ \A j \in 1..len : t[j] = AfterWord(t[j - 1], ok)
  <2>1. t = [j \in 0..len |-> IF j = 0 THEN b ELSE AfterWord(t[j - 1], ok)]
    BY <1>9
  <2>2. QED
    BY <1>2, <2>1
<1>11. QED
  BY <1>10 DEF t, b

\* original_ptrace: the bytes up to the first hole, nothing if the end overflows.
LEMMA PeekReads ==
  ASSUME NEW at \in Nat, NEW len \in 0..AddrSpace - 1, NEW ok
  PROVE  /\ Got(at, len, ok, OriginalPtrace(at, len, ok))
         /\ at + len < AddrSpace =>
              \/ Len(OriginalPtrace(at, len, ok)) = len
              \/ (at + Len(OriginalPtrace(at, len, ok))) \div Page \notin ok
<1> DEFINE t == WordsRead(at, len, ok)
           S == {j \in 0..len : PeeksSo(at, len, ok, t[j], j)}
<1>1. /\ t[0] = [at |-> at, left |-> len, got |-> <<>>]
      /\ \A j \in 1..len : t[j] = AfterWord(t[j - 1], ok)
  BY WordsStep
<1>2. len \in Nat
  BY MemoryAssumption
<1> HIDE DEF t
<1>3. 0 \in S
  <2> DEFINE s == t[0]
  <2>1. s \in Reading /\ s.at = at /\ s.left = len /\ s.got = <<>> /\ Len(s.got) = 0
    BY <1>1 DEF Reading
  <2> HIDE DEF s
  <2>2. Got(at, len, ok, s.got)
    BY <1>2, <2>1 DEF Got, Starts
  <2>3. PeeksSo(at, len, ok, s, 0)
    BY <1>2, <2>1, <2>2 DEF PeeksSo
  <2>4. QED
    BY <1>2, <2>3 DEF s
<1>4. ASSUME NEW j \in 1..len, j - 1 \in S PROVE j \in S
  <2> DEFINE i == j - 1
  <2>1. i \in Nat /\ i + 1 = j /\ PeeksSo(at, len, ok, t[i], i) /\ t[j] = AfterWord(t[i], ok)
    BY <1>1, <1>4
  <2> HIDE DEF i
  <2>2. PeeksSo(at, len, ok, AfterWord(t[i], ok), i + 1)
    BY <2>1, PeeksNext
  <2>3. QED
    BY <1>2, <2>1, <2>2
<1> HIDE DEF S
<1>5. 0..len \subseteq S
  BY <1>2, <1>3, <1>4, UpTo
<1>6. len \in S
  BY <1>2, <1>5
<1> DEFINE s == t[len]
<1>7. PeeksSo(at, len, ok, s, len)
  BY <1>6 DEF S
<1>8. OriginalPtrace(at, len, ok) = IF at + len >= AddrSpace THEN <<>> ELSE s.got
  BY DEF OriginalPtrace, t, WordsRead
<1>9. CASE at + len >= AddrSpace
  <2>1. Got(at, len, ok, <<>>)
    BY <1>2 DEF Got, Starts
  <2>2. ~(at + len < AddrSpace)
    BY <1>2, <1>9, MemoryAssumption
  <2>3. QED
    BY <1>8, <1>9, <2>1, <2>2
<1>10. CASE ~(at + len >= AddrSpace)
  <2>1. Got(at, len, ok, s.got)
    BY <1>7 DEF PeeksSo
  <2>2. s.left \in Nat /\ Len(s.got) \in Nat
    BY <1>7 DEF PeeksSo, Reading
  <2> HIDE DEF s
  <2>3. Len(s.got) = len \/ (at + Len(s.got)) \div Page \notin ok
    BY <1>2, <1>7, <2>2 DEF PeeksSo
  <2>4. QED
    BY <1>8, <1>10, <2>1, <2>3
<1>11. QED
  BY <1>9, <1>10

-----------------------------------------------------------------------------
(* Both ways of reading *)

LEMMA ReadableIs ==
  ASSUME NEW at \in Nat, NEW len \in Nat, NEW ok, NEW n \in 0..len,
         \A i \in 0..n - 1 : at + i < AddrSpace /\ (at + i) \div Page \in ok,
         n = len \/ (at + n) \div Page \notin ok
  PROVE  Readable(at, len, ok) = n
<1> DEFINE bad == {i \in 0..len-1 : at + i >= AddrSpace \/ (at + i) \div Page \notin ok}
<1>1. Readable(at, len, ok) = IF bad = {} THEN len ELSE Min(bad)
  BY DEF Readable
<1>2. \A i \in bad : i >= n
  BY MemoryAssumption
<1>3. CASE n = len
  <2>1. bad = {}
    BY <1>2, <1>3
  <2>2. QED
    BY <1>1, <1>3, <2>1
<1>4. CASE n # len
  <2>1. n \in bad /\ bad \in SUBSET Nat
    BY <1>4
  <2> HIDE DEF bad
  <2>2. Min(bad) \in bad /\ Min(bad) <= n /\ Min(bad) \in Nat
    BY <2>1, LeastOf
  <2>3. Min(bad) = n
    BY <1>2, <2>2
  <2>4. QED
    BY <1>1, <2>1, <2>3
<1>5. QED
  BY <1>3, <1>4

LEMMA AllReadable ==
  ASSUME NEW at \in Nat, NEW len \in Nat, NEW ok, Readable(at, len, ok) = len
  PROVE  AllThere(at, len, ok)
<1> DEFINE bad == {i \in 0..len-1 : at + i >= AddrSpace \/ (at + i) \div Page \notin ok}
<1>1. Readable(at, len, ok) = IF bad = {} THEN len ELSE Min(bad)
  BY DEF Readable
<1>2. bad = {}
  <2>1. ASSUME NEW i \in bad PROVE FALSE
    <3>1. bad \in SUBSET Nat /\ \A j \in bad : j < len
      OBVIOUS
    <3> HIDE DEF bad
    <3>2. Min(bad) \in bad
      BY <2>1, <3>1, LeastOf
    <3>3. QED
      BY <1>1, <3>1, <3>2
  <2>2. QED
    BY <2>1
<1>3. QED
  BY <1>2 DEF AllThere

LEMMA RunFrom ==
  ASSUME NEW at \in Nat, NEW b, Starts(b, at, Len(b))
  PROVE  b = Run(at, Len(b))
<1>1. b \in Seq(Int) /\ Len(b) \in Nat /\ \A i \in 1..Len(b) : b[i] = at + i - 1
  BY DEF Starts
<1>2. b = [i \in 1..Len(b) |-> b[i]]
  BY <1>1
<1>3. QED
  BY <1>1, <1>2 DEF Run

\* What one way owes.
Owes(at, len, ok, b) ==
  /\ Fits(at, len) \/ Readable(at, len, ok) = len => b = Run(at, Len(b))
  /\ at + len + IovMax * Page < AddrSpace /\ Fits(at, len) => Len(b) = Readable(at, len, ok)

LEMMA GotOwes ==
  ASSUME NEW at \in Nat, NEW len \in 0..AddrSpace - 1, NEW ok, NEW b,
         Fits(at, len) \/ AllThere(at, len, ok) => Got(at, len, ok, b),
         Fits(at, len) => Whole(at, len, ok, b)
  PROVE  Owes(at, len, ok, b)
<1>0. len \in Nat
  OBVIOUS
<1>1. ASSUME Fits(at, len) \/ Readable(at, len, ok) = len PROVE b = Run(at, Len(b))
  <2>1. Got(at, len, ok, b)
    BY <1>0, <1>1, AllReadable
  <2>2. QED
    BY <2>1, RunFrom DEF Got
<1>2. ASSUME at + len + IovMax * Page < AddrSpace, Fits(at, len)
      PROVE  Len(b) = Readable(at, len, ok)
  <2> DEFINE n == Len(b)
             span == IovMax * Page
  <2>1. Got(at, len, ok, b) /\ (n = len \/ (at + n) \div Page \notin ok)
    BY <1>2 DEF Whole
  <2>2. n \in Nat /\ n <= len /\ \A i \in 1..n : (at + i - 1) \div Page \in ok
    BY <2>1 DEF Got, Starts
  <2>3. at + len < AddrSpace
    <3>1. span \in Nat /\ at + len + span < AddrSpace
      BY <1>2, CallBelowHalf
    <3> HIDE DEF span
    <3>2. QED
      BY <1>0, <3>1, MemoryAssumption
  <2> HIDE DEF n
  <2>4. ASSUME NEW i \in 0..n - 1 PROVE at + i < AddrSpace /\ (at + i) \div Page \in ok
    <3>1. i + 1 \in 1..n /\ at + (i + 1) - 1 = at + i
      BY <2>2
    <3>2. (at + i) \div Page \in ok
      BY <2>2, <3>1
    <3>3. at + i < AddrSpace
      BY <1>0, <2>2, <2>3, MemoryAssumption
    <3>4. QED
      BY <3>2, <3>3
  <2>5. n \in 0..len
    BY <2>2
  <2>6. Readable(at, len, ok) = n
    BY <1>0, <2>1, <2>4, <2>5, ReadableIs
  <2>7. QED
    BY <2>6 DEF n
<1>3. QED
  BY <1>1, <1>2 DEF Owes

LEMMA VmOwes ==
  ASSUME NEW at \in Nat, NEW len \in 0..AddrSpace - 1, NEW ok
  PROVE  Owes(at, len, ok, VmReadv(at, len, ok))
BY VmReads, GotOwes

LEMMA PeekOwes ==
  ASSUME NEW at \in Nat, NEW len \in 0..AddrSpace - 1, NEW ok
  PROVE  Owes(at, len, ok, OriginalPtrace(at, len, ok))
<1> DEFINE b == OriginalPtrace(at, len, ok)
           span == IovMax * Page
<1>1. Got(at, len, ok, b)
  BY PeekReads
<1>2. Whole(at, len, ok, b)
  <2>1. ASSUME at + len + span < AddrSpace PROVE at + len < AddrSpace
    <3>1. span \in Nat /\ len \in Nat
      BY CallBelowHalf
    <3> HIDE DEF span
    <3>2. QED
      BY <2>1, <3>1, MemoryAssumption
  <2>2. at + len < AddrSpace => Len(b) = len \/ (at + Len(b)) \div Page \notin ok
    BY PeekReads
  <2>3. QED
    BY <2>1, <2>2 DEF Whole
<1> HIDE DEF b
<1>3. Owes(at, len, ok, b)
  BY <1>1, <1>2, GotOwes
<1>4. QED
  BY <1>3 DEF b

(* xcd_util_ptrace_read: at any address, of any length, whatever pages are readable and whichever
   way was chosen before, a read puts each byte at its place; one of a single call stops at the
   first hole only. *)
THEOREM ReadsInPlaceAnywhere ==
  ASSUME NEW c, c.at \in 0..AddrSpace - 1, c.len \in 0..AddrSpace - 1,
         c.method \in {"none", "vm", "peek"}
  PROVE  ReadsInPlace(c)
<1> DEFINE vm == VmReadv(c.at, c.len, c.ok)
           wide == c.ok \cup c.peek
           word == OriginalPtrace(c.at, c.len, wide)
           r == PtraceRead(c.method, c.at, c.len, c.ok, c.peek)
<1>1. c.at \in Nat
  OBVIOUS
<1>2. Owes(c.at, c.len, c.ok, vm) /\ Owes(c.at, c.len, wide, word)
  BY <1>1, VmOwes, PeekOwes
<1>3. r = FirstThatReads(c.method, vm, word)
  BY DEF PtraceRead
<1> HIDE DEF vm, word, wide
<1>4. \/ r.bytes = vm /\ r.method # "peek"
      \/ r.bytes = word /\ r.method = "peek"
  <2>1. CASE c.method = "vm"
    BY <1>3, <2>1 DEF FirstThatReads
  <2>2. CASE c.method = "peek"
    BY <1>3, <2>2 DEF FirstThatReads
  <2>3. CASE c.method = "none"
    BY <1>3, <2>3 DEF FirstThatReads
  <2>4. QED
    BY <2>1, <2>2, <2>3
<1> HIDE DEF r
<1>5. Owes(c.at, c.len, IF r.method = "peek" THEN wide ELSE c.ok, r.bytes)
  BY <1>2, <1>4
<1>6. QED
  BY <1>5 DEF ReadsInPlace, Owes, Fits, r, wide

-----------------------------------------------------------------------------
(* Memory near an address *)

LEMMA WordDownOf ==
  ASSUME NEW n \in Nat
  PROVE  WordDown(n) \in Nat /\ WordDown(n) <= n
BY MemoryAssumption DEF WordDown

LEMMA NearStartOf ==
  ASSUME NEW at \in Nat
  PROVE  NearStart(at) \in Nat
<1> DEFINE a == WordDown(at)
<1>1. a \in Nat
  BY WordDownOf
<1> HIDE DEF a
<1>2. QED
  BY <1>1, MemoryAssumption DEF NearStart, a

\* A read of what is shown near an address.
LEMMA NearReads ==
  ASSUME NEW at \in Nat, NEW len \in 0..Near, NEW ok
  PROVE  LET b == VmReadv(at, len, ok)
         IN b \in Seq(Int) /\ Len(b) \in 0..len /\ \A i \in 1..Len(b) : b[i] = at + i - 1
<1> DEFINE b == VmReadv(at, len, ok)
           span == IovMax * Page
<1>1. span \in Nat /\ 2 * Page <= span /\ span < AddrSpace
  <2>1. 2 \in 0..IovMax
    BY MemoryAssumption
  <2>2. 2 * Page <= span
    BY <2>1, CallSpan
  <2> HIDE DEF span
  <2>3. QED
    BY <2>2, CallBelowHalf, MemoryAssumption DEF span
<1>2. Fits(at, len)
  <2> DEFINE r == at % Page
  <2>1. r \in 0..Page - 1 /\ len <= Page /\ Page \in Nat /\ len \in Nat
    BY ToEndOf, MemoryAssumption
  <2> HIDE DEF r, span
  <2>2. r + len <= span
    BY <1>1, <2>1
  <2>3. QED
    BY <2>2 DEF Fits, r, span
<1>3. len \in 0..AddrSpace - 1
  <2> HIDE DEF span
  <2>1. QED
    BY <1>1, MemoryAssumption
<1>4. Got(at, len, ok, b)
  BY <1>2, <1>3, VmReads
<1> HIDE DEF b
<1>5. QED
  BY <1>4 DEF Got, Starts, b

\* What the two reads leave in the buffer: the bytes from `start` on, each in its place.
Filled(a, b) ==
  /\ b.start \in Nat /\ b.bytes \in Nat /\ b.bytes <= Near
  /\ \A i \in 0..Near - 1 : i < b.bytes => b.data[i] = a + b.start + i

LEMMA BothReads ==
  ASSUME NEW a \in Nat, NEW ok
  PROVE  Filled(a, Buffered(a, ok))
<1> DEFINE first == VmReadv(a, Near, ok)
           bytes == WordDown(Len(first))
           start == IF bytes = 0 THEN (-a) % Page ELSE 0
           skip == bytes = Near \/ (bytes = 0 /\ (start = 0 \/ start >= Near))
           second == IF skip THEN <<>> ELSE VmReadv(a + start + bytes, Near - bytes - start, ok)
           all == IF second = <<>> THEN bytes ELSE WordDown(bytes + Len(second))
           b == Buffered(a, ok)
<1>0. Near \in Nat /\ Near <= Page /\ Page \in Nat \ {0}
  BY MemoryAssumption
<1>1. /\ first \in Seq(Int) /\ Len(first) \in 0..Near
      /\ \A i \in 1..Len(first) : first[i] = a + i - 1
  BY <1>0, NearReads
<1>2. bytes \in Nat /\ bytes <= Len(first) /\ Len(first) \in Nat
  BY <1>0, <1>1, WordDownOf
<1>3. start \in Nat /\ (bytes # 0 => start = 0)
  BY <1>0
<1>4. b = AfterSecond(first, second, start, bytes, bytes)
  BY DEF Buffered, ReadFirst, ReadSecond, SecondReadTo
<1>5. /\ b.start = start /\ b.bytes = all
      /\ \A i \in 0..Near - 1 :
           b.data[i] = IF i - bytes + 1 \in DOMAIN second THEN second[i - bytes + 1]
                       ELSE IF i + 1 \in DOMAIN first THEN first[i + 1] ELSE 0
  <2> HIDE DEF b, first, second, start, bytes
  <2>1. QED
    BY <1>4 DEF AfterSecond, all
<1> HIDE DEF b
<1>6. /\ second \in Seq(Int) /\ Len(second) \in Nat
      /\ bytes + Len(second) <= Near
      /\ \A i \in 1..Len(second) : second[i] = (a + start + bytes) + i - 1
  <2> HIDE DEF first, bytes
  <2>1. CASE skip
    <3>1. second = <<>> /\ Len(second) = 0
      BY <2>1
    <3> HIDE DEF second, start
    <3>2. QED
      BY <1>0, <1>1, <1>2, <3>1
  <2>2. CASE ~skip
    <3> DEFINE from == a + start + bytes
               n == Near - bytes - start
    <3>1. bytes # Near /\ (bytes = 0 => start < Near)
      <4> HIDE DEF start
      <4>1. QED
        BY <1>0, <1>3, <2>2
    <3>2. second = VmReadv(from, n, ok)
      BY <2>2
    <3> HIDE DEF second, start
    <3>3. from \in Nat /\ n \in 0..Near /\ bytes + n <= Near
      BY <1>0, <1>1, <1>2, <1>3, <3>1
    <3>3a. from = a + start + bytes
      OBVIOUS
    <3> HIDE DEF from, n
    <3>4. /\ second \in Seq(Int) /\ Len(second) \in 0..n
          /\ \A i \in 1..Len(second) : second[i] = from + i - 1
      BY <3>2, <3>3, NearReads
    <3>5. QED
      BY <1>0, <1>2, <3>3, <3>3a, <3>4
  <2>3. QED
    BY <2>1, <2>2
<1>7. all \in Nat /\ all <= bytes + Len(second) /\ (second = <<>> => all = bytes)
  <2> HIDE DEF second, bytes
  <2>1. WordDown(bytes + Len(second)) \in Nat /\ WordDown(bytes + Len(second)) <= bytes + Len(second)
    BY <1>2, <1>6, WordDownOf
  <2>2. QED
    BY <1>2, <1>6, <2>1
<1> HIDE DEF first, bytes, start, second, all
<1>8. ASSUME NEW i \in 0..Near - 1, i < all PROVE b.data[i] = a + start + i
  <2>1. CASE i < bytes
    <3>1. start = 0 /\ i + 1 \in 1..Len(first) /\ ~(i - bytes + 1 \in 1..Len(second))
      BY <1>2, <1>3, <2>1
    <3>2. DOMAIN first = 1..Len(first) /\ DOMAIN second = 1..Len(second)
      BY <1>1, <1>6
    <3>3. b.data[i] = first[i + 1]
      BY <1>5, <3>1, <3>2
    <3>4. first[i + 1] = a + (i + 1) - 1
      BY <1>1, <3>1
    <3>5. QED
      BY <3>1, <3>3, <3>4
  <2>2. CASE ~(i < bytes)
    <3>1. i - bytes + 1 \in 1..Len(second)
      BY <1>2, <1>6, <1>7, <1>8, <2>2
    <3>2. DOMAIN second = 1..Len(second)
      BY <1>6
    <3>3. b.data[i] = second[i - bytes + 1]
      BY <1>5, <3>1, <3>2
    <3>4. second[i - bytes + 1] = (a + start + bytes) + (i - bytes + 1) - 1
      BY <1>6, <3>1
    <3>5. QED
      BY <1>2, <1>3, <3>3, <3>4
  <2>3. QED
    BY <2>1, <2>2
<1>9. b.start \in Nat /\ b.bytes \in Nat /\ b.bytes <= Near
  BY <1>0, <1>2, <1>3, <1>5, <1>6, <1>7
<1>10. QED
  BY <1>5, <1>8, <1>9 DEF Filled, b

(* xcd_thread_record_memory: near any address, whatever pages are readable, a word is shown beside
   the address it was read from, or as dashes. *)
THEOREM MemoryShownAnywhere ==
  ASSUME NEW c, c.at \in 0..AddrSpace - 1
  PROVE  MemoryShownInPlace(c)
<1> DEFINE a == NearStart(c.at)
           b == Buffered(a, c.ok)
           shown == RecordMemory(c.at, c.ok)
<1>1. a \in Nat
  BY NearStartOf
<1>2. Filled(a, b)
  BY <1>1, BothReads
<1>3. shown.at = a /\ shown.words = IF NearShown(a) THEN Words(b) ELSE <<>>
  BY DEF RecordMemory
<1> HIDE DEF a, b, shown
<1>4. ASSUME NEW k \in DOMAIN Words(b) PROVE Words(b)[k] \in {-1, a + k * Long}
  <2> DEFINE m == k * Long
             i == m - b.start
  <2>1. k \in 0..(Near \div Long) - 1
    BY DEF Words
  <2>2. m \in Nat /\ (k + 1) * Long = m + Long /\ Long \in Nat \ {0} /\ Near \in Nat
    BY <2>1, MemoryAssumption
  <2>3. Words(b)[k] = IF m >= b.start /\ (k + 1) * Long <= b.start + b.bytes THEN b.data[i] ELSE -1
    BY <2>1 DEF Words
  <2> HIDE DEF m
  <2>4. ASSUME m >= b.start, (k + 1) * Long <= b.start + b.bytes PROVE b.data[i] = a + m
    <3>1. b.start \in Nat /\ b.bytes \in Nat /\ b.bytes <= Near
      BY <1>2 DEF Filled
    <3>2. i \in 0..Near - 1 /\ i < b.bytes
      BY <2>2, <2>4, <3>1
    <3>3. b.data[i] = a + b.start + i
      BY <1>2, <3>2 DEF Filled
    <3>4. QED
      BY <1>1, <2>2, <3>1, <3>3
  <2>5. QED
    BY <2>3, <2>4 DEF m
<1>5. ASSUME NEW k \in DOMAIN shown.words PROVE shown.words[k] \in {-1, shown.at + k * Long}
  <2>1. CASE NearShown(a)
    BY <1>3, <1>4, <2>1
  <2>2. CASE ~NearShown(a)
    <3>1. shown.words = <<>>
      BY <1>3, <2>2
    <3>2. QED
      BY <3>1
  <2>3. QED
    BY <2>1, <2>2
<1>6. QED
  BY <1>5 DEF MemoryShownInPlace, shown

-----------------------------------------------------------------------------
(* The ELF of a mapping *)

\* What mmap gives begins at the offset, and reaches to the size or to the end of the file.
LEMMA MappedPart ==
  ASSUME NEW file, FileOf(file), NEW size \in Int, NEW offset \in Nat, NEW most \in Int,
         NEW w, w = FileInit(file, size, offset, most)
  PROVE  /\ w.kind \in {"none", "file"}
         /\ w.kind = "file" =>
              /\ w.at = offset /\ w.size \in Int
              /\ w.size >= size \/ w.size >= file.size - offset
         /\ offset < file.size /\ most >= file.size => w.kind = "file"
<1> DEFINE inPage == offset % PageSize
           toEnd == file.size - (offset - inPage)
           mapped == IF size + inPage > SizeMax THEN toEnd ELSE Min({size + inPage, toEnd})
<1>1. inPage \in Nat /\ inPage <= offset
  BY InPageOf, MapsAssumption
<1>2. toEnd \in Int /\ toEnd <= file.size /\ toEnd - inPage = file.size - offset
  BY <1>1 DEF FileOf
<1> HIDE DEF inPage, toEnd
<1>3. /\ mapped \in Int /\ mapped <= toEnd
      /\ mapped >= size + inPage \/ mapped >= toEnd
  <2>1. CASE size + inPage > SizeMax
    BY <1>1, <1>2, <2>1
  <2>2. CASE ~(size + inPage > SizeMax)
    <3>1. mapped = Min({size + inPage, toEnd})
      BY <2>2
    <3>2. size + inPage \in Int
      BY <1>1
    <3> HIDE DEF mapped
    <3>3. QED
      BY <1>2, <3>1, <3>2, MinOfTwo
  <2>3. QED
    BY <2>1, <2>2
<1>4. w = IF offset >= file.size \/ mapped > most THEN None
          ELSE [None EXCEPT !.kind = "file", !.at = offset, !.size = mapped - inPage]
  BY DEF FileInit, inPage, toEnd
<1> HIDE DEF mapped
<1>5. CASE offset >= file.size \/ mapped > most
  BY <1>1, <1>2, <1>3, <1>4, <1>5 DEF None, FileOf
<1>6. CASE ~(offset >= file.size \/ mapped > most)
  <2>1. w = [[[None EXCEPT !.kind = "file"] EXCEPT !.at = offset] EXCEPT !.size = mapped - inPage]
    BY <1>4, <1>6
  <2>2. w.kind = "file" /\ w.at = offset /\ w.size = mapped - inPage
    BY <2>1 DEF None
  <2>3. QED
    BY <1>1, <1>2, <1>3, <2>2
<1>7. QED
  BY <1>5, <1>6
\* A memory in the file begins where an ELF begins, shows the pc of the mapping at their
\* positions behind it, and holds that ELF to its end if mmap gave what was asked for.
Right(m, map, file, most) ==
  m.kind = "file" =>
    /\ m.at \in DOMAIN file.elfs /\ m.at = m.elf_start_offset
    /\ m.at \in Nat /\ m.size \in Int /\ m.elf_offset = map.offset - m.at
    /\ most >= file.size => m.size >= file.elfs[m.at] \/ m.size >= file.size - m.at

\* w: what was mapped at the offset; all: the ELF that begins there.
Begins(file, size, offset, most, w, all) ==
  /\ all.kind \in {"none", "file"} /\ w.kind \in {"none", "file"}
  /\ w.kind = "file" => w.at = offset /\ w.size \in Int
  /\ all.kind = "file" =>
       /\ w.kind = "file" /\ all.at = offset /\ all.size \in Int /\ offset \in DOMAIN file.elfs
       /\ all.size >= file.elfs[offset] \/ all.size >= file.size - offset
  /\ IsElf(w, file) /\ all.kind = "none" /\ most >= file.size =>
       w.size >= file.elfs[offset] \/ w.size >= file.size - offset

LEMMA AllOfBegins ==
  ASSUME NEW file, FileOf(file), NEW size \in Int, NEW offset \in Nat, NEW most \in Int
  PROVE  LET w == FileInit(file, size, offset, most)
         IN Begins(file, size, offset, most, w, AllOf(w, size, file, most))
<1> DEFINE w == FileInit(file, size, offset, most)
           all == AllOf(w, size, file, most)
<1> SUFFICES Begins(file, size, offset, most, w, all)
  OBVIOUS
<1>1. /\ w.kind \in {"none", "file"}
      /\ w.kind = "file" =>
           /\ w.at = offset /\ w.size \in Int
           /\ w.size >= size \/ w.size >= file.size - offset
  BY MappedPart
<1>0. all = AllOf(w, size, file, most) /\ w = FileInit(file, size, offset, most)
  OBVIOUS
<1> HIDE DEF w, all
<1>2. CASE IsElf(w, file) /\ file.elfs[w.at] > size
  <2>1. w.kind = "file" /\ w.at = offset /\ offset \in DOMAIN file.elfs /\ file.elfs[offset] \in Int
    BY <1>1, <1>2 DEF IsElf, FileOf
  <2>2. all = FileInit(file, file.elfs[offset], offset, most)
    BY <1>0, <1>2, <2>1 DEF AllOf
  <2>3. /\ all.kind \in {"none", "file"}
        /\ all.kind = "file" => /\ all.at = offset /\ all.size \in Int
                                /\ all.size >= file.elfs[offset] \/ all.size >= file.size - offset
        /\ offset < file.size /\ most >= file.size => all.kind = "file"
    BY <2>1, <2>2, MappedPart
  <2>4. offset < file.size
    BY <1>0, <2>1 DEF FileInit, FileOf, None
  <2>5. QED
    BY <1>1, <2>1, <2>3, <2>4 DEF Begins
<1>3. CASE ~(IsElf(w, file) /\ file.elfs[w.at] > size)
  <2>1. all.kind = "none"
    BY <1>0, <1>3 DEF AllOf, None
  <2>2. IsElf(w, file) => file.elfs[offset] \in Int /\ file.elfs[offset] <= size
    BY <1>1, <1>3 DEF IsElf, FileOf
  <2>3. file.size - offset \in Int
    BY DEF FileOf
  <2>4. ASSUME IsElf(w, file)
        PROVE  w.size >= file.elfs[offset] \/ w.size >= file.size - offset
    BY <1>1, <2>2, <2>3, <2>4 DEF IsElf
  <2>5. QED
    BY <1>1, <2>1, <2>4 DEF Begins
<1>4. QED
  BY <1>2, <1>3

LEMMA FoundRight ==
  ASSUME NEW map, MapOf(map), NEW prev, MapOf(prev), NEW file, FileOf(file), NEW most \in Int
  PROVE  Right(MemoryFileCreate(map, prev, file, most), map, file, most)
<1> DEFINE here == FileInit(file, SizeOf(map), map.offset, most)
           whole == FileInit(file, SizeMax, 0, most)
           all == AllOf(here, SizeOf(map), file, most)
           w == FileInit(file, SizeOf(prev), prev.offset, most)
           before == AllOf(w, SizeOf(prev), file, most)
           m == MemoryFileCreate(map, prev, file, most)
<1>1. m = FoundElf(map, prev, file, whole, here, all, before)
  BY DEF MemoryFileCreate
<1>0. /\ here = FileInit(file, SizeOf(map), map.offset, most)
      /\ whole = FileInit(file, SizeMax, 0, most)
      /\ all = AllOf(here, SizeOf(map), file, most)
      /\ w = FileInit(file, SizeOf(prev), prev.offset, most)
      /\ before = AllOf(w, SizeOf(prev), file, most)
  OBVIOUS
<1>2. /\ SizeOf(map) \in Int /\ SizeOf(prev) \in Int /\ SizeMax \in Int
      /\ map.offset \in Nat /\ prev.offset \in Nat
  BY MapsAssumption DEF SizeOf, MapOf
<1> SUFFICES Right(m, map, file, most)
  OBVIOUS
<1> HIDE DEF here, whole, all, before, w, m
<1>3. /\ whole.kind \in {"none", "file"}
      /\ whole.kind = "file" =>
           /\ whole.at = 0 /\ whole.size \in Int /\ whole.size >= file.size
  <2>1. /\ whole.kind \in {"none", "file"}
        /\ whole.kind = "file" =>
             /\ whole.at = 0 /\ whole.size \in Int
             /\ whole.size >= SizeMax \/ whole.size >= file.size - 0
    BY <1>0, <1>2, MappedPart
  <2>2. QED
    BY <1>2, <2>1 DEF FileOf
<1>4. Begins(file, SizeOf(map), map.offset, most, here, all)
  BY <1>0, <1>2, AllOfBegins
<1>5. Begins(file, SizeOf(prev), prev.offset, most, w, before)
  BY <1>0, <1>2, AllOfBegins
<1>6. CASE map.offset = 0
  BY <1>1, <1>3, <1>6 DEF FoundElf, InFile, None, Right, IsElf, FileOf
<1>7. CASE map.offset > 0 /\ (here.kind = "none" \/ IsElf(here, file))
  <2>1. CASE here.kind = "none"
    <3>1. m = None
      BY <1>1, <1>7, <2>1 DEF FoundElf, MapOf, IsElf
    <3>2. QED
      BY <3>1 DEF None, Right
  <2>2. CASE here.kind # "none" /\ IsElf(here, file)
    <3>1. m = InFile(IF all.kind = "none" THEN here ELSE all, 0, map.offset)
      BY <1>1, <1>7, <2>2 DEF FoundElf, MapOf
    <3>2. CASE all.kind = "none"
      BY <1>4, <2>2, <3>1, <3>2 DEF Begins, InFile, Right, IsElf, MapOf
    <3>3. CASE all.kind # "none"
      BY <1>4, <2>2, <3>1, <3>3 DEF Begins, InFile, Right, IsElf, MapOf
    <3>4. QED
      BY <3>2, <3>3
  <2>3. QED
    BY <1>7, <2>1, <2>2
<1>8. CASE map.offset > 0 /\ here.kind # "none" /\ ~IsElf(here, file)
  <2>1. m = CASE IsElf(whole, file) -> InFile(whole, map.offset, 0)
              [] whole.kind = "file" /\ ~IsElf(whole, file) /\ MayBePart(map, prev) /\ before.kind = "file" ->
                   PartOfEmbeddedElf(before, map, prev)
              [] OTHER -> None
    BY <1>1, <1>8 DEF FoundElf, MapOf
  <2>2. CASE IsElf(whole, file)
    <3>1. m = InFile(whole, map.offset, 0)
      BY <2>1, <2>2
    <3>2. QED
      BY <1>3, <2>2, <3>1 DEF InFile, Right, IsElf, MapOf, FileOf
  <2>3. CASE whole.kind = "file" /\ ~IsElf(whole, file) /\ MayBePart(map, prev) /\ before.kind = "file"
    <3>1. m = PartOfEmbeddedElf(before, map, prev)
      BY <2>1, <2>3
    <3>2. QED
      BY <1>5, <2>3, <3>1 DEF Begins, PartOfEmbeddedElf, InFile, Right, MapOf
  <2>4. CASE ~IsElf(whole, file) /\ ~(whole.kind = "file" /\ MayBePart(map, prev) /\ before.kind = "file")
    <3>1. m = None
      BY <2>1, <2>4
    <3>2. QED
      BY <3>1 DEF None, Right
  <2>5. QED
    BY <2>2, <2>3, <2>4
<1>9. QED
  BY <1>6, <1>7, <1>8 DEF MapOf

(* xcd_memory_file_create, xcd_map_get_rel_pc: for every pair of mappings, every file with ELFs
   anywhere in it, and whatever mmap gives, a pc becomes the position of its byte in the ELF found for
   it, and back. *)
THEOREM RelPcInAnyFile ==
  ASSUME NEW c, MapOf(c.map), MapOf(c.prev), FileOf(c.file), c.most \in Int
  PROVE  RelPcIsElfPosition(c)
<1> DEFINE m == ElfOf(c)
           f == MemoryFileCreate(c.map, c.prev, c.file, c.most)
<1>1. Right(f, c.map, c.file, c.most)
  BY FoundRight
<1>2. m.kind = "file" => m = f
  BY DEF ElfOf, MemoryCreate, InFileOrProcess, None
<1> HIDE DEF m, f
<1>3. SUFFICES ASSUME m.kind = "file"
               PROVE  /\ \A pc \in c.map.start..c.map.stop-1 :
                           /\ RelPc(c.map, m, 0, pc) = c.map.offset + (pc - c.map.start) - m.at
                           /\ AbsPc(c.map, m, 0, RelPc(c.map, m, 0, pc)) = pc
                      /\ m.at = m.elf_start_offset /\ m.at \in DOMAIN c.file.elfs
                      /\ c.most >= c.file.size =>
                           m.size >= Min({c.file.elfs[m.at], c.file.size - m.at})
  BY DEF RelPcIsElfPosition, ElfPosition, m
<1>4. /\ m.at \in DOMAIN c.file.elfs /\ m.at = m.elf_start_offset
      /\ m.at \in Nat /\ m.size \in Int /\ m.elf_offset = c.map.offset - m.at
      /\ c.most >= c.file.size =>
           m.size >= c.file.elfs[m.at] \/ m.size >= c.file.size - m.at
  BY <1>1, <1>2, <1>3 DEF Right
<1>5. ASSUME NEW pc \in c.map.start..c.map.stop-1
      PROVE  /\ RelPc(c.map, m, 0, pc) = c.map.offset + (pc - c.map.start) - m.at
             /\ AbsPc(c.map, m, 0, RelPc(c.map, m, 0, pc)) = pc
  BY <1>4 DEF RelPc, AbsPc, MapOf
<1>6. ASSUME c.most >= c.file.size
      PROVE  m.size >= Min({c.file.elfs[m.at], c.file.size - m.at})
  <2> DEFINE x == c.file.elfs[m.at]
             y == c.file.size - m.at
  <2>1. x \in Int /\ y \in Int
    BY <1>4 DEF FileOf
  <2>2. m.size \in Int /\ (m.size >= x \/ m.size >= y)
    BY <1>4, <1>6
  <2> HIDE DEF x, y
  <2>3. Min({x, y}) \in Int /\ Min({x, y}) <= x /\ Min({x, y}) <= y
    BY <2>1, MinOfTwo
  <2>4. m.size >= Min({x, y})
    BY <2>1, <2>2, <2>3
  <2>5. QED
    BY <2>4 DEF x, y
<1>7. QED
  BY <1>4, <1>5, <1>6

-----------------------------------------------------------------------------
(* The section "memory map" *)

(* xcd_maps_record: however many mappings there are, their names can be read back from the section.
   The names are a solution of the reader's recursion; a least place where another solution differs
   would have a line above it that differs too. *)
THEOREM NamesOfAnyMaps ==
  ASSUME NEW M, NEW c, c.maps \in Seq(M), \A i \in DOMAIN c.maps : c.maps[i].name # ">"
  PROVE  NamesRecoverable(c)
<1> DEFINE D == DOMAIN c.maps
           lines == RecordMaps(c.maps, c.biased)
           named == CHOOSE g : g = [i \in D |-> IF lines[i] = ">" THEN g[i - 1] ELSE lines[i]]
           names == [i \in D |-> c.maps[i].name]
<1>1. D = 1..Len(c.maps) /\ Len(c.maps) \in Nat
  OBVIOUS
<1>2. ASSUME NEW i \in D
      PROVE  IF lines[i] = ">" THEN i - 1 \in D /\ c.maps[i - 1].name = c.maps[i].name
                               ELSE lines[i] = c.maps[i].name
  <2>1. lines[i] = IF c.maps[i].name # "" /\ NameAbove(c.maps, i) = c.maps[i].name /\ i \notin c.biased
                   THEN ">" ELSE c.maps[i].name
    BY DEF RecordMaps
  <2>2. CASE lines[i] = ">"
    <3>1. c.maps[i].name # "" /\ NameAbove(c.maps, i) = c.maps[i].name
      BY <2>1, <2>2
    <3>2. i # 1 /\ c.maps[i - 1].name = c.maps[i].name
      BY <3>1 DEF NameAbove
    <3>3. QED
      BY <1>1, <2>2, <3>2
  <2>3. CASE lines[i] # ">"
    BY <2>1, <2>3
  <2>4. QED
    BY <2>2, <2>3
<1>3. NamesRecoverable(c) <=> \A i \in D : named[i] = c.maps[i].name
  BY DEF NamesRecoverable
<1> HIDE DEF lines
<1>4. names = [i \in D |-> IF lines[i] = ">" THEN names[i - 1] ELSE lines[i]]
  <2>1. \A i \in D : names[i] = IF lines[i] = ">" THEN names[i - 1] ELSE lines[i]
    BY <1>2
  <2>2. QED
    BY <2>1
<1>5. named = [i \in D |-> IF lines[i] = ">" THEN named[i - 1] ELSE lines[i]]
  BY <1>4
<1> HIDE DEF named, names, D
<1>6. \A i \in D : named[i] = c.maps[i].name
  <2> DEFINE wrong == {i \in D : named[i] # c.maps[i].name}
  <2>1. SUFFICES ASSUME wrong # {} PROVE FALSE
    OBVIOUS
  <2>2. PICK i \in wrong : \A j \in wrong : i <= j
    <3>1. wrong \in SUBSET Nat
      BY <1>1
    <3> HIDE DEF wrong
    <3>2. QED
      BY <2>1, <3>1, SmallestOf
  <2>3. i \in D /\ named[i] # c.maps[i].name /\ named[i] = IF lines[i] = ">" THEN named[i - 1] ELSE lines[i]
    BY <1>5
  <2>4. i - 1 \in D /\ named[i] = named[i - 1] /\ c.maps[i - 1].name = c.maps[i].name
    BY <1>2, <2>3
  <2>5. i - 1 \in wrong
    BY <2>3, <2>4
  <2>6. QED
    BY <1>1, <2>2, <2>3, <2>5
<1>7. QED
  BY <1>3, <1>6

(* xcd_process_record_abort_message: of a message of any length, into a buffer of any size. *)
THEOREM AbortMessageOfAnyLength ==
  ASSUME NEW c, c.len \in Nat, c.header \in Nat, c.room \in Nat
  PROVE  AbortMessageWhole(c)
<1> DEFINE n == Min({c.len, c.room})
<1>1. n \in Nat /\ n <= c.len
  <2>1. c.len \in Int /\ c.room \in Int
    OBVIOUS
  <2>2. n \in {c.len, c.room} /\ n <= c.len
    BY <2>1, MinOfTwo, Zenon
  <2> HIDE DEF n
  <2>3. QED
    BY <2>2
<1>2. MessageSize(c.header + c.len + 1, c.header) = c.len
  BY DEF MessageSize
<1>3. AbortMessage(c.len, c.header, c.room) = IF c.len < 1 THEN <<>> ELSE [i \in 1..n |-> i]
  <2>1. c.header + c.len + 1 < c.header + 2 <=> c.len < 1
    OBVIOUS
  <2>2. QED
    BY <1>2, <2>1, Zenon DEF AbortMessage
<1> HIDE DEF n
<1>4. Len(AbortMessage(c.len, c.header, c.room)) = n
  <2>1. CASE c.len < 1
    BY <1>1, <1>3, <2>1
  <2>2. CASE c.len >= 1
    BY <1>1, <1>3, <2>2
  <2>3. QED
    BY <2>1, <2>2
<1>5. QED
  BY <1>4 DEF AbortMessageWhole, n

-----------------------------------------------------------------------------
(* Appending to a log *)

LEMMA GreatestOf ==
  ASSUME NEW S \in SUBSET Nat, S # {}, NEW n \in Nat, \A x \in S : x <= n
  PROVE  Max(S) \in S /\ \A x \in S : x <= Max(S)
<1> DEFINE above == {b \in Nat : \A x \in S : x <= b}
<1>1. above \in SUBSET Nat /\ n \in above
  OBVIOUS
<1>2. PICK b \in above : \A d \in above : b <= d
  <2> HIDE DEF above
  <2>1. QED
    BY <1>1, SmallestOf
<1>3. b \in Nat /\ \A x \in S : x <= b
  BY <1>2
<1>4. b \in S
  <2>1. SUFFICES ASSUME b \notin S PROVE FALSE
    OBVIOUS
  <2>2. \A x \in S : x <= b - 1
    BY <1>3, <2>1
  <2>3. b - 1 \in above
    <3>1. PICK y \in S : y \in Nat
      OBVIOUS
    <3>2. b - 1 \in Nat
      BY <1>3, <2>2, <3>1
    <3>3. QED
      BY <2>2, <3>2
  <2>4. QED
    BY <1>2, <1>3, <2>3
<1>5. \E x \in S : \A y \in S : x >= y
  BY <1>3, <1>4
<1>6. Max(S) \in S /\ \A y \in S : Max(S) >= y
  BY <1>5 DEF Max
<1>7. QED
  BY <1>6

Bytes == Seq(Nat)

\* The zeros behind the content are not text.
EndsAt(file, e) ==
  /\ e \in 0..Len(file) /\ (e # 0 => file[e] # 0)
  /\ \A i \in 1..Len(file) : i > e => file[i] = 0

LEMMA ContentEndIs ==
  ASSUME NEW file \in Bytes
  PROVE  EndsAt(file, ContentEnd(file)) /\ \A e : EndsAt(file, e) => e = ContentEnd(file)
<1> DEFINE S == {0} \cup {i \in DOMAIN file : file[i] # 0}
<1>1. DOMAIN file = 1..Len(file) /\ Len(file) \in Nat
  BY DEF Bytes
<1>2. S \in SUBSET Nat /\ S # {} /\ \A x \in S : x <= Len(file)
  BY <1>1
<1>3. ContentEnd(file) = Max(S)
  BY DEF ContentEnd
<1>4. ContentEnd(file) \in S /\ \A x \in S : x <= ContentEnd(file)
  <2> HIDE DEF S
  <2>1. QED
    BY <1>1, <1>2, <1>3, GreatestOf
<1>5. EndsAt(file, ContentEnd(file))
  BY <1>1, <1>4 DEF EndsAt
<1>6. ASSUME NEW e, EndsAt(file, e) PROVE e = ContentEnd(file)
  BY <1>1, <1>4, <1>6 DEF EndsAt
<1>7. QED
  BY <1>5, <1>6

LEMMA BeginningOf ==
  ASSUME NEW file \in Bytes, NEW e \in 0..Len(file)
  PROVE  /\ SubSeq(file, 1, e) \in Bytes /\ Len(SubSeq(file, 1, e)) = e
         /\ \A i \in 1..e : SubSeq(file, 1, e)[i] = file[i]
<1>1. e \in Nat /\ \A i \in 1..e : file[i] \in Nat
  BY DEF Bytes
<1>2. /\ SubSeq(file, 1, e) \in Seq(Nat)
      /\ Len(SubSeq(file, 1, e)) = IF 1 <= e THEN e - 1 + 1 ELSE 0
      /\ \A i \in 1..e - 1 + 1 : SubSeq(file, 1, e)[i] = file[1 + i - 1]
  BY <1>1, SubSeqProperties
<1>3. QED
  BY <1>1, <1>2 DEF Bytes

LEMMA AppendedBytes ==
  ASSUME NEW file \in Bytes, NEW text \in Bytes
  PROVE  LET e == ContentEnd(file)
             r == AppendText(file, text)
         IN /\ e \in 0..Len(file)
            /\ r \in Bytes /\ Len(r) >= Len(file) /\ Len(r) >= e + Len(text)
            /\ Len(r) = Len(file) \/ Len(r) = e + Len(text)
            /\ \A i \in 1..Len(r) : r[i] = IF i \in e + 1..e + Len(text) THEN text[i - e] ELSE file[i]
<1> DEFINE e == ContentEnd(file)
           r == AppendText(file, text)
           size == Max({Len(file), e + Len(text)})
<1>1. e \in 0..Len(file) /\ Len(file) \in Nat /\ Len(text) \in Nat
  BY ContentEndIs DEF EndsAt, Bytes
<1>2. r = [i \in 1..size |-> IF i \in e + 1..e + Len(text) THEN text[i - e] ELSE file[i]]
  BY DEF AppendText
<1> HIDE DEF e, r
<1>3. /\ size \in Nat /\ size >= Len(file) /\ size >= e + Len(text)
      /\ size = Len(file) \/ size = e + Len(text)
  <2> DEFINE both == {Len(file), e + Len(text)}
  <2>1. /\ both \in SUBSET Nat /\ both # {} /\ Len(file) + Len(text) \in Nat
        /\ \A x \in both : x <= Len(file) + Len(text)
    BY <1>1
  <2>2. Max(both) \in both /\ \A x \in both : x <= Max(both)
    <3> HIDE DEF both
    <3>1. QED
      BY <2>1, GreatestOf
  <2>3. size \in both /\ \A x \in both : x <= size
    BY <2>2
  <2> HIDE DEF size
  <2>4. QED
    BY <1>1, <2>3
<1> HIDE DEF size
<1>4. ASSUME NEW i \in 1..size
      PROVE  (IF i \in e + 1..e + Len(text) THEN text[i - e] ELSE file[i]) \in Nat
  <2>1. CASE i \in e + 1..e + Len(text)
    <3>1. i - e \in 1..Len(text)
      BY <1>1, <2>1
    <3>2. QED
      BY <2>1, <3>1 DEF Bytes
  <2>2. CASE i \notin e + 1..e + Len(text)
    <3>1. i \in 1..Len(file)
      BY <1>1, <1>3, <2>2
    <3>2. QED
      BY <2>2, <3>1 DEF Bytes
  <2>3. QED
    BY <2>1, <2>2
<1>5. r \in [1..size -> Nat]
  BY <1>2, <1>4
<1>6. r \in Bytes /\ Len(r) = size
  BY <1>3, <1>5 DEF Bytes
<1>7. \A i \in 1..size : r[i] = IF i \in e + 1..e + Len(text) THEN text[i - e] ELSE file[i]
  BY <1>2
<1>8. QED
  BY <1>1, <1>3, <1>6, <1>7 DEF e, r

Content(file) == SubSeq(file, 1, ContentEnd(file))

(* FileManager.appendText: whatever file it is, shorter or longer than the zeros left in it, a text
   that does not end in a zero follows the content without a gap, and nothing but zeros follows
   it.  Sections appended one after the other are so many calls of this. *)
THEOREM AppendedToAnyFile ==
  ASSUME NEW file \in Bytes, NEW text \in Bytes, Len(text) # 0 => text[Len(text)] # 0
  PROVE  Content(AppendText(file, text)) = Content(file) \o text
<1> DEFINE e == ContentEnd(file)
           n == Len(text)
           r == AppendText(file, text)
<1>1. /\ e \in 0..Len(file)
      /\ r \in Bytes /\ Len(r) >= Len(file) /\ Len(r) >= e + n
      /\ Len(r) = Len(file) \/ Len(r) = e + n
      /\ \A i \in 1..Len(r) : r[i] = IF i \in e + 1..e + n THEN text[i - e] ELSE file[i]
  BY AppendedBytes
<1>2. EndsAt(file, e)
  BY ContentEndIs
<1>3. Len(file) \in Nat /\ n \in Nat /\ Len(r) \in Nat
  BY <1>1 DEF Bytes
<1> HIDE DEF e, r
<1>4. EndsAt(r, e + n)
  <2>1. e + n \in 0..Len(r)
    BY <1>1, <1>3
  <2>2. ASSUME e + n # 0 PROVE r[e + n] # 0
    <3>1. CASE n = 0
      BY <1>1, <1>2, <1>3, <2>2, <3>1 DEF EndsAt
    <3>2. CASE n # 0
      <4>1. e + n \in e + 1..e + n /\ e + n \in 1..Len(r) /\ (e + n) - e = n
        BY <1>1, <1>3, <3>2
      <4>2. r[e + n] = text[n]
        BY <1>1, <4>1
      <4>3. QED
        BY <3>2, <4>2
    <3>3. QED
      BY <3>1, <3>2
  <2>3. ASSUME NEW i \in 1..Len(r), i > e + n PROVE r[i] = 0
    <3>1. i \notin e + 1..e + n /\ i > e /\ i \in 1..Len(file)
      BY <1>1, <1>3, <2>3
    <3>2. QED
      BY <1>1, <1>2, <3>1 DEF EndsAt
  <2>4. QED
    BY <2>1, <2>2, <2>3 DEF EndsAt
<1>5. ContentEnd(r) = e + n
  BY <1>1, <1>4, ContentEndIs
<1>6. /\ Content(r) \in Bytes /\ Len(Content(r)) = e + n
      /\ \A i \in 1..e + n : Content(r)[i] = r[i]
  BY <1>1, <1>4, <1>5, BeginningOf DEF Content, EndsAt
<1>7. /\ Content(file) \in Bytes /\ Len(Content(file)) = e
      /\ \A i \in 1..e : Content(file)[i] = file[i]
  BY <1>1, BeginningOf DEF Content, e
<1>8. /\ Content(file) \o text \in Bytes /\ Len(Content(file) \o text) = e + n
      /\ \A i \in 1..e + n : (Content(file) \o text)[i] = IF i <= e THEN Content(file)[i] ELSE text[i - e]
  BY <1>3, <1>7, ConcatProperties DEF Bytes
<1>9. ASSUME NEW i \in 1..e + n PROVE Content(r)[i] = (Content(file) \o text)[i]
  <2>1. i \in 1..Len(r)
    BY <1>1, <1>3
  <2>2. r[i] = IF i <= e THEN file[i] ELSE text[i - e]
    BY <1>1, <1>3, <2>1
  <2>3. QED
    BY <1>1, <1>3, <1>6, <1>7, <1>8, <2>2
<1>10. QED
  <2>1. Content(r) = Content(file) \o text
    BY <1>6, <1>8, <1>9, SeqEqual DEF Bytes
  <2>2. QED
    BY <2>1 DEF r
-----------------------------------------------------------------------------
(* All of it *)

(* What the dumper shows of the memory of the process is what was there, for every input: the
   theorems above, one for each algorithm. *)
THEOREM MemoryOfAnyProcess == MemoryCalls => []MemoryTrue
<1>1. ASSUME MemoryCall(call) PROVE MemoryTrue
  <2>1. CASE call.alg = "read"
    <3>1. ReadsInPlace(call.in)
      BY <1>1, <2>1, ReadsInPlaceAnywhere DEF MemoryCall
    <3>2. QED
      BY <2>1, <3>1 DEF MemoryTrue
  <2>2. CASE call.alg = "near"
    <3>1. MemoryShownInPlace(call.in)
      BY <1>1, <2>2, MemoryShownAnywhere DEF MemoryCall
    <3>2. QED
      BY <2>2, <3>1 DEF MemoryTrue
  <2>3. CASE call.alg = "relpc"
    <3>1. RelPcIsElfPosition(call.in)
      BY <1>1, <2>3, RelPcInAnyFile DEF MemoryCall
    <3>2. QED
      BY <2>3, <3>1 DEF MemoryTrue
  <2>4. CASE call.alg = "names"
    <3> DEFINE M == [start : Nat, stop : Nat, offset : Nat, flags : SUBSET STRING,
                     name : STRING \ {">"}]
               maps == call.in.maps
    <3>1. maps \in Seq(M)
      BY <1>1, <2>4 DEF MemoryCall
    <3>2. \A m \in M : m.name # ">"
      OBVIOUS
    <3> HIDE DEF M, maps
    <3>3. \A i \in DOMAIN maps : maps[i] \in M
      BY <3>1
    <3>4. NamesRecoverable(call.in)
      BY <3>1, <3>2, <3>3, NamesOfAnyMaps DEF maps
    <3>5. QED
      BY <2>4, <3>4 DEF MemoryTrue
  <2>5. CASE call.alg = "abort"
    <3>1. AbortMessageWhole(call.in)
      BY <1>1, <2>5, AbortMessageOfAnyLength DEF MemoryCall
    <3>2. QED
      BY <2>5, <3>1 DEF MemoryTrue
  <2>6. QED
    BY <1>1, <2>1, <2>2, <2>3, <2>4, <2>5 DEF MemoryCall
<1>2. MemoryTrue /\ [MemoryCall(call)']_call => MemoryTrue'
  <2>1. ASSUME MemoryCall(call)' PROVE MemoryTrue'
    BY <1>1, <2>1, PTL
  <2>2. MemoryTrue /\ UNCHANGED call => MemoryTrue'
    BY DEF MemoryTrue
  <2>3. QED
    BY <2>1, <2>2
<1>3. QED
  BY <1>1, <1>2, PTL DEF MemoryCalls

-----------------------------------------------------------------------------
(* The backtrace *)

FrameInput(w) ==
  /\ w.regs \in [pc : DOMAIN w.map, sp : Int] /\ w.lr \in DOMAIN w.map
  /\ \A pc \in DOMAIN w.map :
       w.map[pc] = "elf" => w.step[pc].pc \in DOMAIN w.map /\ w.step[pc].up \in Int

FrameSet(w) == [pc : DOMAIN w.map, sp : Int, marks : SUBSET {"mapped", "guessed", "stepped", "adjusted"}]
LoopSet(w) == [frames : Seq(FrameSet(w)), regs : [pc : DOMAIN w.map, sp : Int],
               return_address_attempt : {0, 1}, loop : {"on", "over"}]

\* The next frame differs from the last.
Moved(f, i) == <<f[i].pc, f[i].sp>> # <<f[i+1].pc, f[i+1].sp>>
GuessedOnce(f, i) == "guessed" \in f[i].marks => "guessed" \notin f[i+1].marks
GuessConfirmed(f, i) == "guessed" \in f[i].marks => "stepped" \in f[i].marks

\* The frames so far: as GuessesAreChecked wants them, but for a last guess that led nowhere and is
\* all there is.
Chained(f) == \A i \in 1..Len(f) - 1 : Moved(f, i) /\ GuessedOnce(f, i)
Confirmed(f) ==
  \/ \A i \in 1..Len(f) : GuessConfirmed(f, i)
  \/ Len(f) = 2 /\ "mapped" \notin f[1].marks
\* What the registers say of the frame to come.
Onward(s) ==
  s.frames # <<>> =>
    LET last == s.frames[Len(s.frames)] IN
    /\ <<last.pc, last.sp>> # <<s.regs.pc, s.regs.sp>>
    /\ s.return_address_attempt = 1 => "guessed" \notin last.marks

Loading(w, s, k) ==
  /\ s \in LoopSet(w) /\ Chained(s.frames)
  /\ IF s.loop = "over" THEN Len(s.frames) \in 1..FramesMax /\ Confirmed(s.frames)
     ELSE /\ Len(s.frames) = k /\ Onward(s) /\ \A i \in 1..Len(s.frames) : GuessConfirmed(s.frames, i)
          /\ k = 0 => s.return_address_attempt = 0

LEMMA RegsAfterType ==
  ASSUME NEW w, FrameInput(w), NEW r \in [pc : DOMAIN w.map, sp : Int]
  PROVE  RegsAfter(w, r) \in [pc : DOMAIN w.map, sp : Int]
BY DEF FrameInput, RegsAfter, StepTried

NewFrame(w, s) == [pc |-> s.regs.pc, sp |-> s.regs.sp, marks |-> Marks(w, s)]

LEMMA NewFrameType ==
  ASSUME NEW w, NEW s \in LoopSet(w)
  PROVE  /\ NewFrame(w, s) \in FrameSet(w)
         /\ NewFrame(w, s).pc = s.regs.pc /\ NewFrame(w, s).sp = s.regs.sp
         /\ "guessed" \in NewFrame(w, s).marks <=> s.return_address_attempt = 1
         /\ Stepped(w, s.regs) <=> "stepped" \in NewFrame(w, s).marks
<1>1. Marks(w, s) \in SUBSET {"mapped", "guessed", "stepped", "adjusted"}
  BY DEF Marks
<1>2. s.regs \in [pc : DOMAIN w.map, sp : Int]
  BY DEF LoopSet
<1>3. "guessed" \in Marks(w, s) <=> s.return_address_attempt = 1
  BY DEF Marks
<1>4. "stepped" \in Marks(w, s) <=> Stepped(w, s.regs)
  BY DEF Marks
<1>5. QED
  BY <1>1, <1>2, <1>3, <1>4 DEF NewFrame, FrameSet

\* The frames with a new last one.
LEMMA OneMore ==
  ASSUME NEW w, NEW s \in LoopSet(w), Chained(s.frames), Onward(s),
         s.frames = <<>> => s.return_address_attempt = 0
  PROVE  LET all == Append(s.frames, NewFrame(w, s))
         IN /\ all \in Seq(FrameSet(w)) /\ Len(all) = Len(s.frames) + 1 /\ Len(s.frames) \in Nat
            /\ all[Len(all)] = NewFrame(w, s)
            /\ \A i \in 1..Len(s.frames) : all[i] = s.frames[i]
            /\ Chained(all)
            /\ s.return_address_attempt = 1 => Len(all) >= 2
            /\ Front(all) = s.frames /\ Head(all) = all[1]
<1> DEFINE f == s.frames
           new == NewFrame(w, s)
           all == Append(f, new)
           n == Len(f)
<1>1. f \in Seq(FrameSet(w)) /\ n \in Nat /\ new \in FrameSet(w) /\ (f = <<>> <=> n = 0)
  BY NewFrameType DEF LoopSet
<1>2. new.pc = s.regs.pc /\ new.sp = s.regs.sp /\ ("guessed" \in new.marks <=> s.return_address_attempt = 1)
  BY NewFrameType
<1> HIDE DEF new
<1>3. /\ all \in Seq(FrameSet(w)) /\ Len(all) = n + 1 /\ all[n + 1] = new
      /\ \A i \in 1..n : all[i] = f[i]
  BY <1>1
<1>4. Front(all) = f
  BY <1>1, <1>3 DEF Front
<1>5. Head(all) = all[1]
  BY <1>3, <1>1
<1> HIDE DEF all
<1>6. ASSUME NEW i \in 1..Len(all) - 1 PROVE Moved(all, i) /\ GuessedOnce(all, i)
  <2>1. CASE i < n
    <3>1. all[i] = f[i] /\ all[i + 1] = f[i + 1] /\ i \in 1..n - 1
      BY <1>1, <1>3, <2>1
    <3>2. Moved(f, i) /\ GuessedOnce(f, i)
      BY <3>1 DEF Chained
    <3>3. QED
      BY <3>1, <3>2 DEF Moved, GuessedOnce
  <2>2. CASE i = n
    <3>1. all[i] = f[n] /\ all[i + 1] = new /\ n # 0
      BY <1>1, <1>3, <2>2
    <3>2. f # <<>>
      BY <1>1, <3>1
    <3>3. /\ <<f[n].pc, f[n].sp>> # <<s.regs.pc, s.regs.sp>>
          /\ s.return_address_attempt = 1 => "guessed" \notin f[n].marks
      BY <3>2 DEF Onward
    <3>4. QED
      BY <1>2, <3>1, <3>3 DEF Moved, GuessedOnce
  <2>3. QED
    BY <1>1, <1>3, <2>1, <2>2
<1>7. Chained(all)
  BY <1>6 DEF Chained
<1>8. s.return_address_attempt = 1 => Len(all) >= 2
  BY <1>1, <1>3
<1>9. QED
  BY <1>1, <1>3, <1>4, <1>5, <1>7, <1>8 DEF all, new

\* What a turn leaves before the comparison of the registers.
Left(w, s, u, k) ==
  /\ u \in LoopSet(w) /\ Chained(u.frames)
  /\ u.loop = "over" => Len(u.frames) \in 1..FramesMax /\ Confirmed(u.frames)
  /\ u.loop = "on" =>
       /\ Len(u.frames) = k /\ u.frames # <<>> /\ \A i \in 1..Len(u.frames) : GuessConfirmed(u.frames, i)
       /\ LET last == u.frames[Len(u.frames)] IN
          /\ last.pc = s.regs.pc /\ last.sp = s.regs.sp
          /\ u.return_address_attempt = 1 => "guessed" \notin last.marks

LEMMA LeftByFrame ==
  ASSUME NEW w, FrameInput(w), NEW k \in 1..FramesMax, NEW s, Loading(w, s, k - 1), s.loop = "on"
  PROVE  Left(w, s, AfterFrame(w, s), k)
<1> DEFINE f == s.frames
           new == NewFrame(w, s)
           all == Append(f, new)
           regs == RegsAfter(w, s.regs)
           u == AfterFrame(w, s)
<1>1. /\ s \in LoopSet(w) /\ Chained(f) /\ Len(f) = k - 1 /\ Onward(s) /\ k \in Nat /\ k <= FramesMax
      /\ \A i \in 1..Len(f) : GuessConfirmed(f, i)
      /\ f = <<>> => s.return_address_attempt = 0
  <2>1. s \in LoopSet(w) /\ Chained(f) /\ Len(f) = k - 1 /\ Onward(s) /\ (k - 1 = 0 => s.return_address_attempt = 0)
        /\ \A i \in 1..Len(f) : GuessConfirmed(f, i)
    BY DEF Loading
  <2>2. k \in Nat /\ k <= FramesMax
    BY FramesAssumption
  <2>3. f = <<>> => Len(f) = 0
    OBVIOUS
  <2>4. QED
    BY <2>1, <2>2, <2>3
<1>2. /\ all \in Seq(FrameSet(w)) /\ Len(all) = k /\ all[k] = new
      /\ \A i \in 1..k - 1 : all[i] = f[i]
      /\ Chained(all)
      /\ s.return_address_attempt = 1 => k >= 2
      /\ Front(all) = f /\ Head(all) = all[1]
  BY <1>1, OneMore
<1>3. /\ new.pc = s.regs.pc /\ new.sp = s.regs.sp
      /\ "guessed" \in new.marks <=> s.return_address_attempt = 1
      /\ Stepped(w, s.regs) <=> "stepped" \in new.marks
  BY <1>1, NewFrameType
<1>4. s.regs \in [pc : DOMAIN w.map, sp : Int] /\ regs \in [pc : DOMAIN w.map, sp : Int]
      /\ s.return_address_attempt \in {0, 1} /\ w.lr \in DOMAIN w.map
  BY <1>1, RegsAfterType DEF LoopSet, FrameInput
<1>5. u = IF Stepped(w, s.regs)
          THEN [frames |-> all, regs |-> regs, return_address_attempt |-> 0,
                loop |-> IF w.step[s.regs.pc].finished THEN "over" ELSE "on"]
          ELSE AfterFailure(w, s, all, regs)
  BY DEF AfterFrame, NewFrame
<1> HIDE DEF f, new, all, regs, u
<1>6. ASSUME "guessed" \in new.marks => "stepped" \in new.marks
      PROVE  \A i \in 1..Len(all) : GuessConfirmed(all, i)
  <2> TAKE i \in 1..Len(all)
  <2>1. CASE i = k
    BY <1>2, <1>6, <2>1 DEF GuessConfirmed
  <2>2. CASE i # k
    <3>1. i \in 1..k - 1 /\ i \in 1..Len(f)
      BY <1>1, <1>2, <2>2 DEF f
    <3>2. GuessConfirmed(f, i) /\ all[i] = f[i]
      BY <1>1, <1>2, <3>1
    <3>3. QED
      BY <3>2 DEF GuessConfirmed
  <2>3. QED
    BY <2>1, <2>2
<1>7. all # <<>>
  BY <1>2
<1>8. CASE Stepped(w, s.regs)
  <2>1. u.frames = all /\ u.regs = regs /\ u.return_address_attempt = 0 /\ u.loop \in {"on", "over"}
    BY <1>5, <1>8
  <2>2. u \in LoopSet(w)
    BY <1>2, <1>4, <1>5, <1>8 DEF LoopSet
  <2>3. \A i \in 1..Len(all) : GuessConfirmed(all, i)
    BY <1>3, <1>6, <1>8
  <2>4. Confirmed(all)
    BY <2>3 DEF Confirmed
  <2>5. QED
    BY <1>1, <1>2, <1>3, <1>7, <2>1, <2>2, <2>3, <2>4 DEF Left, u
<1>9. CASE ~Stepped(w, s.regs) /\ s.return_address_attempt = 1
  <2> DEFINE g == IF Len(all) > 2 \/ "mapped" \in Head(all).marks THEN Front(all) ELSE all
  <2>1. u = LoopOver(s, g)
    BY <1>5, <1>9 DEF AfterFailure
  <2>2. g \in Seq(FrameSet(w)) /\ Chained(g) /\ Len(g) \in 1..FramesMax /\ Confirmed(g)
    <3>1. CASE Len(all) > 2 \/ "mapped" \in Head(all).marks
      <4>1. g = f
        BY <1>2, <3>1
      <4>2. f \in Seq(FrameSet(w))
        <5>1. s \in LoopSet(w)
          BY <1>1
        <5>2. QED
          BY <5>1 DEF LoopSet, f
      <4>3. Len(f) \in 1..FramesMax
        BY <1>1, <1>2, <1>9, FramesAssumption
      <4>4. Confirmed(f)
        BY <1>1 DEF Confirmed
      <4>5. QED
        BY <1>1, <4>1, <4>2, <4>3, <4>4
    <3>2. CASE ~(Len(all) > 2 \/ "mapped" \in Head(all).marks)
      <4>1. g = all /\ Len(all) = 2 /\ "mapped" \notin all[1].marks
        BY <1>1, <1>2, <1>9, <3>2
      <4>2. Confirmed(all)
        BY <4>1 DEF Confirmed
      <4>3. QED
        BY <1>1, <1>2, <4>1, <4>2
    <3>3. QED
      BY <3>1, <3>2
  <2> HIDE DEF g
  <2>3. u.frames = g /\ u.loop = "over" /\ u \in LoopSet(w)
    BY <1>1, <2>1, <2>2 DEF LoopOver, LoopSet
  <2>4. QED
    BY <2>2, <2>3 DEF Left, u
<1>10. CASE ~Stepped(w, s.regs) /\ s.return_address_attempt = 0
  <2>1. \A i \in 1..Len(all) : GuessConfirmed(all, i)
    BY <1>3, <1>6, <1>10
  <2>2. Confirmed(all)
    BY <2>1 DEF Confirmed
  <2>3. CASE Device(w, s.regs) \/ w.lr = regs.pc
    <3>1. u = LoopOver(s, all)
      BY <1>5, <1>10, <2>3 DEF AfterFailure
    <3>2. u.frames = all /\ u.loop = "over" /\ u \in LoopSet(w)
      BY <1>1, <1>2, <3>1 DEF LoopOver, LoopSet
    <3>3. QED
      BY <1>1, <1>2, <2>2, <3>2 DEF Left, u
  <2>4. CASE ~(Device(w, s.regs) \/ w.lr = regs.pc)
    <3>1. u = [frames |-> all, regs |-> [regs EXCEPT !.pc = w.lr], return_address_attempt |-> 1,
               loop |-> "on"]
      BY <1>5, <1>10, <2>4 DEF AfterFailure
    <3>2. [regs EXCEPT !.pc = w.lr] \in [pc : DOMAIN w.map, sp : Int]
      BY <1>4
    <3>3. u \in LoopSet(w) /\ u.frames = all /\ u.loop = "on"
      BY <1>2, <3>1, <3>2 DEF LoopSet
    <3>4. QED
      BY <1>2, <1>3, <1>7, <1>10, <2>1, <3>3 DEF Left, u
  <2>5. QED
    BY <2>3, <2>4
<1>11. QED
  BY <1>4, <1>8, <1>9, <1>10

LEMMA TurnNext ==
  ASSUME NEW w, FrameInput(w), NEW k \in 1..FramesMax, NEW s, Loading(w, s, k - 1)
  PROVE  Loading(w, Turn(w, s), k)
<1> DEFINE u == AfterFrame(w, s)
<1>1. s \in LoopSet(w) /\ s.loop \in {"on", "over"}
  BY DEF Loading, LoopSet
<1>2. CASE s.loop = "over"
  <2>1. Turn(w, s) = s
    BY <1>2 DEF Turn
  <2>2. QED
    BY <1>2, <2>1 DEF Loading
<1>3. CASE s.loop = "on"
  <2>1. Left(w, s, u, k)
    BY <1>3, LeftByFrame
  <2>2. Turn(w, s) = IF u.regs = s.regs THEN [u EXCEPT !.loop = "over"] ELSE u
    BY <1>3 DEF Turn
  <2> HIDE DEF u
  <2>3. u \in LoopSet(w) /\ Chained(u.frames) /\ u.loop \in {"on", "over"}
    BY <2>1 DEF Left, LoopSet
  <2>4. u.loop = "on" => Len(u.frames) = k /\ Confirmed(u.frames)
    BY <2>1 DEF Left, Confirmed
  <2>5. k \in 1..FramesMax /\ k # 0
    BY FramesAssumption
  <2>6. Len(u.frames) \in 1..FramesMax /\ Confirmed(u.frames)
    BY <2>1, <2>3, <2>4, <2>5 DEF Left
  <2>7. CASE u.regs = s.regs
    <3> DEFINE v == [u EXCEPT !.loop = "over"]
    <3>1. v \in LoopSet(w) /\ v.frames = u.frames /\ v.loop = "over"
      BY <2>3 DEF LoopSet
    <3> HIDE DEF v
    <3>2. Loading(w, v, k)
      BY <2>3, <2>6, <3>1 DEF Loading
    <3>3. QED
      BY <2>2, <2>7, <3>2 DEF v
  <2>8. CASE u.regs # s.regs /\ u.loop = "over"
    BY <2>2, <2>3, <2>6, <2>8 DEF Loading
  <2>9. CASE u.regs # s.regs /\ u.loop = "on"
    <3>1. Turn(w, s) = u
      BY <2>2, <2>9
    <3>2. Onward(u)
      <4> DEFINE last == u.frames[Len(u.frames)]
      <4>1. last.pc = s.regs.pc /\ last.sp = s.regs.sp
            /\ (u.return_address_attempt = 1 => "guessed" \notin last.marks)
        BY <2>1, <2>9 DEF Left
      <4>2. s.regs \in [pc : DOMAIN w.map, sp : Int] /\ u.regs \in [pc : DOMAIN w.map, sp : Int]
        BY <1>1, <2>3 DEF LoopSet
      <4>3. s.regs.pc # u.regs.pc \/ s.regs.sp # u.regs.sp
        BY <2>9, <4>2
      <4> HIDE DEF last
      <4>4. <<last.pc, last.sp>> # <<u.regs.pc, u.regs.sp>>
        BY <4>1, <4>3
      <4>5. QED
        BY <4>1, <4>4 DEF Onward, last
    <3>3. \A i \in 1..Len(u.frames) : GuessConfirmed(u.frames, i)
      BY <2>1, <2>9 DEF Left
    <3>4. QED
      BY <2>3, <2>4, <2>5, <2>9, <3>1, <3>2, <3>3 DEF Loading
  <2>10. QED
    BY <2>3, <2>7, <2>8, <2>9
<1>4. QED
  BY <1>1, <1>2, <1>3

Loads(w) ==
  CHOOSE g : g = [k \in 0..FramesMax |-> IF k = 0 THEN FirstTurn(w) ELSE Turn(w, g[k - 1])]

LEMMA TurnType ==
  ASSUME NEW w, FrameInput(w), NEW s \in LoopSet(w)
  PROVE  Turn(w, s) \in LoopSet(w)
<1> DEFINE all == Append(s.frames, NewFrame(w, s))
           regs == RegsAfter(w, s.regs)
           u == AfterFrame(w, s)
           g == IF Len(all) > 2 \/ "mapped" \in Head(all).marks THEN Front(all) ELSE all
<1>1. /\ s.frames \in Seq(FrameSet(w)) /\ s.regs \in [pc : DOMAIN w.map, sp : Int]
      /\ NewFrame(w, s) \in FrameSet(w) /\ w.lr \in DOMAIN w.map
  BY NewFrameType DEF LoopSet, FrameInput
<1>2. all \in Seq(FrameSet(w)) /\ Front(all) \in Seq(FrameSet(w))
  BY <1>1 DEF Front
<1>3. regs \in [pc : DOMAIN w.map, sp : Int]
  BY <1>1, RegsAfterType
<1>4. \/ u = [frames |-> all, regs |-> regs, return_address_attempt |-> 0,
              loop |-> IF w.step[s.regs.pc].finished THEN "over" ELSE "on"]
      \/ u = LoopOver(s, g) \/ u = LoopOver(s, all)
      \/ u = [frames |-> all, regs |-> [regs EXCEPT !.pc = w.lr], return_address_attempt |-> 1,
              loop |-> "on"]
  BY DEF AfterFrame, AfterFailure, NewFrame
<1>5. g \in Seq(FrameSet(w))
  BY <1>2
<1> HIDE DEF all, regs, g, u
<1>6. u \in LoopSet(w)
  <2>1. CASE u = [frames |-> all, regs |-> regs, return_address_attempt |-> 0,
                  loop |-> IF w.step[s.regs.pc].finished THEN "over" ELSE "on"]
    BY <1>2, <1>3, <2>1 DEF LoopSet
  <2>2. \A h \in Seq(FrameSet(w)) : LoopOver(s, h) \in LoopSet(w)
    BY DEF LoopSet, LoopOver
  <2>3. CASE u = [frames |-> all, regs |-> [regs EXCEPT !.pc = w.lr], return_address_attempt |-> 1,
                  loop |-> "on"]
    <3>1. [regs EXCEPT !.pc = w.lr] \in [pc : DOMAIN w.map, sp : Int]
      BY <1>1, <1>3
    <3>2. QED
      BY <1>2, <2>3, <3>1 DEF LoopSet
  <2>4. QED
    BY <1>2, <1>4, <1>5, <2>1, <2>2, <2>3
<1>7. [u EXCEPT !.loop = "over"] \in LoopSet(w)
  BY <1>6 DEF LoopSet
<1>8. QED
  BY <1>6, <1>7 DEF Turn, u

LEMMA LoadsStep ==
  ASSUME NEW w, FrameInput(w)
  PROVE  /\ Loads(w)[0] = FirstTurn(w)
         /\ \A k \in 1..FramesMax : Loads(w)[k] = Turn(w, Loads(w)[k - 1])
<1> DEFINE b == FirstTurn(w)
           n == FramesMax
           step == [x \in (1..n) \X LoopSet(w) |-> Turn(w, x[2])]
           Solves(g) == g = [k \in 0..n |-> IF k = 0 THEN b ELSE Turn(w, g[k - 1])]
           t == Loads(w)
<1>1. step \in [(1..n) \X LoopSet(w) -> LoopSet(w)]
  BY TurnType
<1>2. b \in LoopSet(w) /\ n \in Nat
  BY FramesAssumption DEF LoopSet, FirstTurn, FrameInput
<1>3. \A k \in 1..n, s \in LoopSet(w) : step[<<k, s>>] = Turn(w, s)
  OBVIOUS
<1>4. t = CHOOSE g : Solves(g)
  BY DEF Loads
<1> HIDE DEF step, b, t, n
<1>5. PICK g : Steps(n, LoopSet(w), b, step, g)
  BY <1>1, <1>2, StepsExist
<1>6. g \in [0..n -> LoopSet(w)] /\ g[0] = b /\ \A k \in 1..n : g[k] = step[<<k, g[k - 1]>>]
  BY <1>5 DEF Steps
<1>7. \A k \in 1..n : g[k] = Turn(w, g[k - 1])
  <2> TAKE k \in 1..n
  <2>1. k - 1 \in 0..n
    BY <1>2
  <2>2. QED
    BY <1>3, <1>6, <2>1
<1>8. Solves(g)
  BY <1>2, <1>6, <1>7
<1>9. Solves(t)
  <2> HIDE DEF Solves
  <2>1. QED
    BY <1>4, <1>8
<1>10. t[0] = b /\ \A k \in 1..n : t[k] = Turn(w, t[k - 1])
  <2>1. t = [k \in 0..n |-> IF k = 0 THEN b ELSE Turn(w, t[k - 1])]
    BY <1>9
  <2>2. QED
    BY <1>2, <2>1
<1>11. QED
  BY <1>10 DEF t, b, n

(* xcd_frames_load: whatever the unwinders make of each pc, the loop ends, makes progress, and shows
   a guess that no step confirmed only if nothing better is known. *)
THEOREM AnyBacktrace ==
  ASSUME NEW w, FrameInput(w)
  PROVE  GuessesAreChecked(w)
<1> DEFINE t == Loads(w)
           S == {k \in 0..FramesMax : Loading(w, t[k], k)}
           n == FramesMax
<1>0. n \in Nat /\ n >= 1
  BY FramesAssumption
<1>1. t[0] = FirstTurn(w) /\ \A k \in 1..n : t[k] = Turn(w, t[k - 1])
  BY LoadsStep
<1> HIDE DEF t
<1>2. 0 \in S
  <2> DEFINE s == FirstTurn(w)
  <2>1. s \in LoopSet(w) /\ s.frames = <<>> /\ s.loop = "on" /\ s.return_address_attempt = 0
    BY DEF FirstTurn, LoopSet, FrameInput
  <2>2. Len(<<>>) = 0
    OBVIOUS
  <2> HIDE DEF s
  <2>3. Loading(w, s, 0)
    BY <2>1, <2>2 DEF Loading, Chained, Onward
  <2>4. QED
    BY <1>0, <1>1, <2>3 DEF s
<1>3. ASSUME NEW k \in 1..n, k - 1 \in S PROVE k \in S
  <2>1. Loading(w, t[k - 1], k - 1) /\ t[k] = Turn(w, t[k - 1])
    BY <1>1, <1>3
  <2>2. Loading(w, t[k], k)
    BY <2>1, TurnNext
  <2>3. QED
    BY <1>0, <2>2
<1> HIDE DEF S
<1>4. 0..n \subseteq S
  <2> HIDE DEF n
  <2>1. QED
    BY <1>0, <1>2, <1>3, UpTo
<1>5. n \in S
  BY <1>0, <1>4
<1>6. Loading(w, t[n], n)
  BY <1>5 DEF S
<1>7. Backtrace(w) = t[n].frames
  BY DEF Backtrace, t, Loads
<1> DEFINE f == t[n].frames
<1>8. Len(f) \in 1..n /\ Chained(f) /\ Confirmed(f)
  <2>1. CASE t[n].loop = "over"
    BY <1>6, <2>1 DEF Loading
  <2>2. CASE t[n].loop # "over"
    <3>1. Len(f) = n /\ Chained(f) /\ \A i \in 1..Len(f) : GuessConfirmed(f, i)
      BY <1>6, <2>2 DEF Loading
    <3>2. QED
      BY <1>0, <3>1 DEF Confirmed
  <2>3. QED
    BY <2>1, <2>2
<1>9. DOMAIN f = 1..Len(f)
  BY <1>6 DEF Loading, LoopSet
<1> HIDE DEF f
<1>10. \A i \in DOMAIN f : "guessed" \in f[i].marks /\ "stepped" \notin f[i].marks =>
         Len(f) = 2 /\ "mapped" \notin f[1].marks
  BY <1>8, <1>9 DEF Confirmed, GuessConfirmed
<1>11. QED
  BY <1>7, <1>8, <1>10 DEF GuessesAreChecked, Chained, Moved, GuessedOnce, f

-----------------------------------------------------------------------------
(* The build ids *)

NamesSoFar(names, i) == {names[j] : j \in 1..i}

\* The list so far names each file of the fault and of the first i frames once.
ListedOnce(fault, names, files, i, ids) ==
  /\ \A a, b \in 1..Len(ids) : ids[a] = ids[b] => a = b
  /\ ToSet(ids) = ((NamesSoFar(names, i) \cap files) \cup {fault}) \ {NoFile}

FirstId(fault) == IF fault = NoFile THEN <<>> ELSE <<fault>>
NextIds(fault, names, files, i, ids) ==
  IF Listed(fault, names, files, i) THEN Append(ids, names[i]) ELSE ids
IdLists(fault, names, files) ==
  CHOOSE g : g = [i \in 0..Len(names) |->
    IF i = 0 THEN IF fault = NoFile THEN <<>> ELSE <<fault>>
    ELSE IF Listed(fault, names, files, i) THEN Append(g[i - 1], names[i]) ELSE g[i - 1]]

LEMMA IdListsStep ==
  ASSUME NEW T, NEW names \in Seq(T), NEW fault \in T, NEW files
  PROVE  LET g == IdLists(fault, names, files)
         IN /\ g[0] = FirstId(fault)
            /\ \A i \in 1..Len(names) : g[i] = NextIds(fault, names, files, i, g[i - 1])
<1> DEFINE b == FirstId(fault)
           n == Len(names)
           Next(i, ids) == NextIds(fault, names, files, i, ids)
           step == [x \in (1..n) \X Seq(T) |-> Next(x[1], x[2])]
           Solves(g) == g = [i \in 0..n |-> IF i = 0 THEN b ELSE Next(i, g[i - 1])]
           t == IdLists(fault, names, files)
<1>1. step \in [(1..n) \X Seq(T) -> Seq(T)]
  <2>1. ASSUME NEW i \in 1..n, NEW ids \in Seq(T) PROVE Next(i, ids) \in Seq(T)
    <3>1. names[i] \in T
      OBVIOUS
    <3>2. QED
      BY <3>1 DEF NextIds
  <2> HIDE DEF Next
  <2>2. QED
    BY <2>1
<1>2. b \in Seq(T) /\ n \in Nat
  BY DEF FirstId
<1>3. \A i \in 1..n, s \in Seq(T) : step[<<i, s>>] = Next(i, s)
  <2> HIDE DEF Next
  <2>1. QED
    OBVIOUS
<1>4. t = CHOOSE g : Solves(g)
  BY DEF IdLists, NextIds, FirstId
<1> HIDE DEF step, b, t, n, Next
<1>5. PICK g : Steps(n, Seq(T), b, step, g)
  BY <1>1, <1>2, StepsExist
<1>6. g \in [0..n -> Seq(T)] /\ g[0] = b /\ \A k \in 1..n : g[k] = step[<<k, g[k - 1]>>]
  BY <1>5 DEF Steps
<1>7. \A k \in 1..n : g[k] = Next(k, g[k - 1])
  <2> TAKE k \in 1..n
  <2>1. k - 1 \in 0..n
    BY <1>2
  <2>2. QED
    BY <1>3, <1>6, <2>1
<1>8. Solves(g)
  BY <1>2, <1>6, <1>7
<1>9. Solves(t)
  <2> HIDE DEF Solves
  <2>1. QED
    BY <1>4, <1>8
<1>10. t[0] = b /\ \A k \in 1..n : t[k] = Next(k, t[k - 1])
  <2>1. t = [i \in 0..n |-> IF i = 0 THEN b ELSE Next(i, t[i - 1])]
    BY <1>9
  <2>2. QED
    BY <1>2, <2>1
<1>11. QED
  BY <1>10 DEF t, b, n, Next

LEMMA NextIdsOnce ==
  ASSUME NEW T, NEW names \in Seq(T), NEW fault \in T, NEW files, NoFile \notin files,
         NEW i \in 1..Len(names), NEW ids \in Seq(T), ListedOnce(fault, names, files, i - 1, ids)
  PROVE  /\ NextIds(fault, names, files, i, ids) \in Seq(T)
         /\ ListedOnce(fault, names, files, i, NextIds(fault, names, files, i, ids))
<1> DEFINE before == NamesSoFar(names, i - 1)
           new == names[i]
           m == Len(ids)
<1>1. new \in T /\ i \in Nat /\ m \in Nat
      /\ ids \in Seq(T) /\ (\A a, b \in 1..m : ids[a] = ids[b] => a = b)
      /\ ToSet(ids) = ((before \cap files) \cup {fault}) \ {NoFile}
      /\ ToSet(ids) = {ids[a] : a \in 1..m}
  BY DEF ListedOnce, ToSet
<1>2. NamesSoFar(names, i) = before \cup {new}
  <2>1. 1..i = (1..i - 1) \cup {i}
    BY <1>1
  <2>2. QED
    BY <2>1, Zenon DEF NamesSoFar
<1>3. Repeated(names, i) <=> new \in before
  BY DEF Repeated, NamesSoFar
<1> HIDE DEF before, new
<1>4. CASE new \in files /\ new # fault /\ new \notin before
  <2> DEFINE all == Append(ids, new)
  <2>1. NextIds(fault, names, files, i, ids) = all
    BY <1>3, <1>4 DEF NextIds, Listed, new
  <2>2. new \notin ToSet(ids) /\ new # NoFile
    BY <1>1, <1>4
  <2>3. all \in Seq(T) /\ Len(all) = m + 1 /\ all[m + 1] = new
        /\ \A a \in 1..m : all[a] = ids[a] /\ ids[a] # new
    BY <1>1, <2>2
  <2>4. ToSet(all) = ToSet(ids) \cup {new}
    <3>1. 1..m + 1 = (1..m) \cup {m + 1}
      BY <1>1
    <3>2. ToSet(all) = {all[a] : a \in 1..m + 1}
      BY <2>3 DEF ToSet
    <3> HIDE DEF all
    <3>3. \A x : x \in ToSet(all) <=> \E a \in 1..m + 1 : x = all[a]
      BY <3>2
    <3>4. \A x : x \in ToSet(ids) <=> \E a \in 1..m : x = ids[a]
      BY <1>1
    <3>5. \A x : x \in ToSet(all) <=> x = new \/ x \in ToSet(ids)
      <4>1. ASSUME NEW a \in 1..m + 1 PROVE all[a] = new \/ all[a] \in ToSet(ids)
        <5>1. CASE a \in 1..m
          BY <2>3, <3>4, <5>1
        <5>2. CASE a = m + 1
          BY <2>3, <5>2
        <5>3. QED
          BY <3>1, <5>1, <5>2
      <4>2. new \in ToSet(all)
        BY <2>3, <3>1, <3>3
      <4>3. ASSUME NEW a \in 1..m PROVE ids[a] \in ToSet(all)
        BY <2>3, <3>1, <3>3
      <4>4. QED
        BY <3>3, <3>4, <4>1, <4>2, <4>3
    <3>6. QED
      BY <3>5
  <2> HIDE DEF all
  <2>5. \A a, b \in 1..m + 1 : all[a] = all[b] => a = b
    <3> TAKE a, b \in 1..m + 1
    <3>1. CASE a = m + 1 /\ b # m + 1
      <4>1. b \in 1..m
        BY <1>1, <3>1
      <4>2. QED
        BY <2>3, <3>1, <4>1
    <3>2. CASE a # m + 1 /\ b = m + 1
      <4>1. a \in 1..m
        BY <1>1, <3>2
      <4>2. QED
        BY <2>3, <3>2, <4>1
    <3>3. CASE a # m + 1 /\ b # m + 1
      <4>1. a \in 1..m /\ b \in 1..m
        BY <1>1, <3>3
      <4>2. QED
        BY <1>1, <2>3, <4>1
    <3>4. QED
      BY <3>1, <3>2, <3>3
  <2>6. ToSet(all) = ((NamesSoFar(names, i) \cap files) \cup {fault}) \ {NoFile}
    BY <1>1, <1>2, <1>4, <2>2, <2>4
  <2>7. QED
    BY <2>1, <2>3, <2>5, <2>6 DEF ListedOnce
<1>5. CASE ~(new \in files /\ new # fault /\ new \notin before)
  <2>1. NextIds(fault, names, files, i, ids) = ids
    BY <1>3, <1>5 DEF NextIds, Listed, new
  <2>2. ToSet(ids) = ((NamesSoFar(names, i) \cap files) \cup {fault}) \ {NoFile}
    BY <1>1, <1>2, <1>5
  <2>3. QED
    BY <1>1, <2>1, <2>2 DEF ListedOnce
<1>6. QED
  BY <1>4, <1>5

(* xcd_frames_record_buildid lists the file of each frame and of the fault once, for any names of the
   mappings. *)
THEOREM BuildIdsOfAnyFrames ==
  ASSUME NEW c, NEW T, c.names \in Seq(T), c.fault \in T, NoFile \notin c.files
  PROVE  BuildIdsOnce(c)
<1> DEFINE names == c.names
           fault == c.fault
           files == c.files
           n == Len(names)
           t == IdLists(fault, names, files)
           S == {i \in 0..n : t[i] \in Seq(T) /\ ListedOnce(fault, names, files, i, t[i])}
<1>0. n \in Nat /\ names \in Seq(T) /\ fault \in T /\ NoFile \notin files
  OBVIOUS
<1>1. t[0] = FirstId(fault) /\ \A i \in 1..n : t[i] = NextIds(fault, names, files, i, t[i - 1])
  BY <1>0, IdListsStep
<1>2. BuildIds(fault, names, files) = t[n]
  BY DEF BuildIds, IdLists
<1> HIDE DEF t, n, names, fault, files
<1>3. 0 \in S
  <2>1. NamesSoFar(names, 0) = {}
    BY DEF NamesSoFar
  <2>2. CASE fault = NoFile
    <3>1. FirstId(fault) = <<>> /\ ToSet(<<>>) = {} /\ Len(<<>>) = 0 /\ <<>> \in Seq(T)
      BY <1>0, <2>2 DEF FirstId, ToSet
    <3>2. ListedOnce(fault, names, files, 0, <<>>)
      BY <2>1, <2>2, <3>1 DEF ListedOnce
    <3>3. t[0] \in Seq(T) /\ ListedOnce(fault, names, files, 0, t[0]) /\ 0 \in 0..n
      BY <1>0, <1>1, <3>1, <3>2
    <3>4. QED
      BY <3>3
  <2>3. CASE fault # NoFile
    <3>1. FirstId(fault) = <<fault>> /\ ToSet(<<fault>>) = {fault} /\ Len(<<fault>>) = 1 /\ <<fault>> \in Seq(T)
      BY <1>0, <2>3 DEF FirstId, ToSet
    <3>2. ListedOnce(fault, names, files, 0, <<fault>>)
      BY <1>0, <2>1, <2>3, <3>1 DEF ListedOnce
    <3>3. t[0] \in Seq(T) /\ ListedOnce(fault, names, files, 0, t[0]) /\ 0 \in 0..n
      BY <1>0, <1>1, <3>1, <3>2
    <3>4. QED
      BY <3>3
  <2>4. QED
    BY <2>2, <2>3
<1>4. ASSUME NEW i \in 1..n, i - 1 \in S PROVE i \in S
  <2>1. t[i - 1] \in Seq(T) /\ ListedOnce(fault, names, files, i - 1, t[i - 1])
    BY <1>4
  <2>2. i \in 1..Len(names)
    BY DEF n
  <2>3. t[i] \in Seq(T) /\ ListedOnce(fault, names, files, i, t[i])
    BY <1>0, <1>1, <2>1, <2>2, NextIdsOnce
  <2>4. i \in 0..n
    BY <1>0
  <2>5. QED
    BY <2>3, <2>4
<1>5. 0..n \subseteq S
  <2> HIDE DEF S
  <2>1. QED
    BY <1>0, <1>3, <1>4, UpTo
<1> DEFINE ids == t[n]
<1>6. ids \in Seq(T) /\ ListedOnce(fault, names, files, n, ids)
  <2>1. n \in S
    BY <1>0, <1>5
  <2>2. QED
    BY <2>1
<1>7. NamesSoFar(names, n) = ToSet(names)
  BY <1>0 DEF NamesSoFar, ToSet, n
<1> HIDE DEF ids
<1>8. IsInjective(ids)
  BY <1>6 DEF ListedOnce, IsInjective
<1>9. QED
  BY <1>2, <1>6, <1>7, <1>8 DEF BuildIdsOnce, ListedOnce, ids, names, fault, files

-----------------------------------------------------------------------------
(* The stack *)

LineSet == [at : Int, label : Int]

\* A line that follows no dots is the next word; the lines end before `sp`, or start at it.
InSteps(l) == \A i \in 1..Len(l) - 1 : Dots \in {l[i], l[i+1]} \/ l[i+1].at = l[i].at + 1
LinesEndAt(l, sp) == Len(l) # 0 => l[Len(l)] = Dots \/ l[Len(l)].at = sp - 1
LinesStartAt(l, sp) == Len(l) # 0 => l[1] = Dots \/ l[1].at = sp

\* The labels are of the first i frames, each at the stack pointer of its frame.
LabelsAtSp(l, sps, i) ==
  \A k \in 1..Len(l) : l[k].label >= 0 => l[k].label \in 0..i - 1 /\ l[k].at = sps[l[k].label + 1]

Unlabelled(l, x) == \A k \in 1..Len(l) : l[k].label # x
LabelledOnce(l, x) == \E p \in 1..Len(l) : \A k \in 1..Len(l) : l[k].label = x <=> k = p

\* A label -1 is none.
SegmentOf(l, sp, label, end) ==
  /\ l \in Seq(LineSet) /\ end \in Int
  /\ InSteps(l) /\ LinesStartAt(l, sp) /\ LinesEndAt(l, end) /\ (Len(l) = 0 => end = sp)
  /\ \A k \in 1..Len(l) : l[k].label = IF k = 1 THEN label ELSE -1
  /\ Len(l) # 0 => l[1].at = sp

LEMMA JoinedLines ==
  ASSUME NEW a \in Seq(LineSet), NEW b \in Seq(LineSet)
  PROVE  /\ a \o b \in Seq(LineSet) /\ Len(a \o b) = Len(a) + Len(b)
         /\ Len(a) \in Nat /\ Len(b) \in Nat
         /\ \A k \in 1..Len(a) : (a \o b)[k] = a[k]
         /\ \A k \in 1..Len(b) : (a \o b)[Len(a) + k] = b[k]
OBVIOUS

LEMMA InEither ==
  ASSUME NEW n \in Nat, NEW m \in Nat, NEW k \in 1..n + m
  PROVE  k \in 1..n \/ (k - n \in 1..m /\ k = n + (k - n))
OBVIOUS

LEMMA JoinedInSteps ==
  ASSUME NEW a \in Seq(LineSet), NEW b \in Seq(LineSet), NEW sp \in Int,
         InSteps(a), LinesEndAt(a, sp), InSteps(b), LinesStartAt(b, sp)
  PROVE  InSteps(a \o b)
<1> DEFINE l == a \o b
           n == Len(a)
           m == Len(b)
<1>1. /\ l \in Seq(LineSet) /\ Len(l) = n + m /\ n \in Nat /\ m \in Nat
      /\ \A k \in 1..n : l[k] = a[k]
      /\ \A k \in 1..m : l[n + k] = b[k]
  BY JoinedLines
<1>2. /\ \A i \in 1..n - 1 : Dots \in {a[i], a[i+1]} \/ a[i+1].at = a[i].at + 1
      /\ \A i \in 1..m - 1 : Dots \in {b[i], b[i+1]} \/ b[i+1].at = b[i].at + 1
      /\ n # 0 => a[n] = Dots \/ a[n].at = sp - 1
      /\ m # 0 => b[1] = Dots \/ b[1].at = sp
  BY DEF InSteps, LinesEndAt, LinesStartAt
<1> HIDE DEF l, n, m
<1>3. ASSUME NEW i \in 1..Len(l) - 1
      PROVE  Dots \in {l[i], l[i+1]} \/ l[i+1].at = l[i].at + 1
  <2>1. CASE i < n
    <3>1. i \in 1..n - 1 /\ i \in 1..n /\ i + 1 \in 1..n
      BY <1>1, <2>1
    <3>2. l[i] = a[i] /\ l[i + 1] = a[i + 1]
      BY <1>1, <3>1
    <3>3. QED
      BY <1>2, <3>1, <3>2
  <2>2. CASE i = n
    <3>1. n \in 1..n /\ 1 \in 1..m /\ n # 0 /\ m # 0
      BY <1>1, <2>2
    <3>2. l[i] = a[n] /\ l[i + 1] = b[1]
      BY <1>1, <2>2, <3>1
    <3>3. CASE a[n] = Dots \/ b[1] = Dots
      BY <3>2, <3>3
    <3>4. CASE a[n].at = sp - 1 /\ b[1].at = sp
      BY <3>2, <3>4
    <3>5. QED
      BY <1>2, <3>1, <3>3, <3>4
  <2>3. CASE i > n
    <3> DEFINE d == i - n
               next == d + 1
    <3>1. d \in 1..m - 1 /\ d \in 1..m /\ next \in 1..m /\ i = n + d /\ i + 1 = n + next
      BY <1>1, <2>3
    <3>2. Dots \in {b[d], b[next]} \/ b[next].at = b[d].at + 1
      BY <1>2, <3>1
    <3> HIDE DEF d, next
    <3>3. l[n + d] = b[d] /\ l[n + next] = b[next]
      BY <1>1, <3>1
    <3>4. QED
      BY <3>1, <3>2, <3>3
  <2>4. QED
    BY <1>1, <2>1, <2>2, <2>3
<1>4. QED
  BY <1>3 DEF InSteps, l

LEMMA JoinedEnd ==
  ASSUME NEW a \in Seq(LineSet), NEW b \in Seq(LineSet), NEW sp, LinesEndAt(b, sp),
         Len(b) = 0 => LinesEndAt(a, sp)
  PROVE  LinesEndAt(a \o b, sp)
<1> DEFINE l == a \o b
           n == Len(a)
           m == Len(b)
<1>1. /\ l \in Seq(LineSet) /\ Len(l) = n + m /\ n \in Nat /\ m \in Nat
      /\ \A k \in 1..n : l[k] = a[k]
      /\ \A k \in 1..m : l[n + k] = b[k]
  BY JoinedLines
<1>2. /\ m # 0 => b[m] = Dots \/ b[m].at = sp - 1
      /\ m = 0 /\ n # 0 => a[n] = Dots \/ a[n].at = sp - 1
  BY DEF LinesEndAt
<1> HIDE DEF l, n, m
<1>3. CASE m # 0
  <2>1. m \in 1..m /\ Len(l) = n + m
    BY <1>1, <1>3
  <2>2. l[Len(l)] = b[m]
    BY <1>1, <2>1
  <2>3. QED
    BY <1>2, <1>3, <2>2 DEF LinesEndAt, l
<1>4. CASE m = 0
  <2>1. Len(l) = n /\ (n # 0 => n \in 1..n)
    BY <1>1, <1>4
  <2>2. n # 0 => l[n] = a[n]
    BY <1>1, <2>1
  <2>3. QED
    BY <1>2, <1>4, <2>1, <2>2 DEF LinesEndAt, l
<1>5. QED
  BY <1>3, <1>4

LEMMA JoinedLabels ==
  ASSUME NEW a \in Seq(LineSet), NEW b \in Seq(LineSet), NEW sps, NEW i,
         LabelsAtSp(a, sps, i), LabelsAtSp(b, sps, i)
  PROVE  LabelsAtSp(a \o b, sps, i)
<1> DEFINE l == a \o b
           n == Len(a)
           m == Len(b)
           At(x) == x.label >= 0 => x.label \in 0..i - 1 /\ x.at = sps[x.label + 1]
<1>1. /\ Len(l) = n + m /\ n \in Nat /\ m \in Nat
      /\ \A k \in 1..n : l[k] = a[k]
      /\ \A k \in 1..m : l[n + k] = b[k]
  BY JoinedLines
<1>2. (\A k \in 1..n : At(a[k])) /\ \A k \in 1..m : At(b[k])
  BY DEF LabelsAtSp
<1> HIDE DEF l, n, m, At
<1>3. ASSUME NEW k \in 1..Len(l) PROVE At(l[k])
  <2>1. CASE k \in 1..n
    BY <1>1, <1>2, <2>1
  <2>2. CASE k - n \in 1..m /\ k = n + (k - n)
    BY <1>1, <1>2, <2>2
  <2>3. QED
    BY <1>1, <2>1, <2>2, InEither
<1>4. QED
  BY <1>3 DEF LabelsAtSp, l, At

LEMMA JoinedOnce ==
  ASSUME NEW a \in Seq(LineSet), NEW b \in Seq(LineSet), NEW x
  PROVE  /\ LabelledOnce(a, x) /\ Unlabelled(b, x) => LabelledOnce(a \o b, x)
         /\ Unlabelled(a, x) /\ LabelledOnce(b, x) => LabelledOnce(a \o b, x)
         /\ Unlabelled(a, x) /\ Unlabelled(b, x) => Unlabelled(a \o b, x)
<1> DEFINE l == a \o b
           n == Len(a)
           m == Len(b)
<1>1. /\ Len(l) = n + m /\ n \in Nat /\ m \in Nat
      /\ \A k \in 1..n : l[k] = a[k]
      /\ \A k \in 1..m : l[n + k] = b[k]
  BY JoinedLines
<1> HIDE DEF l, n, m
<1>2. \A k \in 1..Len(l) : k \in 1..n \/ (k - n \in 1..m /\ k = n + (k - n))
  BY <1>1
<1>3. \A k \in 1..Len(l) : \/ k \in 1..n /\ l[k] = a[k]
                           \/ k - n \in 1..m /\ k = n + (k - n) /\ l[k] = b[k - n]
  BY <1>1, <1>2
<1>4. ASSUME LabelledOnce(a, x), Unlabelled(b, x) PROVE LabelledOnce(l, x)
  <2>1. PICK p \in 1..n : \A k \in 1..n : a[k].label = x <=> k = p
    BY <1>4 DEF LabelledOnce, n
  <2>2. \A k \in 1..m : b[k].label # x
    BY <1>4 DEF Unlabelled, m
  <2>3. p \in 1..Len(l)
    BY <1>1
  <2>4. ASSUME NEW k \in 1..Len(l) PROVE l[k].label = x <=> k = p
    <3>1. CASE k \in 1..n /\ l[k] = a[k]
      BY <2>1, <3>1
    <3>2. CASE k - n \in 1..m /\ k = n + (k - n) /\ l[k] = b[k - n]
      <4>1. k # p
        BY <1>1, <3>2
      <4>2. QED
        BY <2>2, <3>2, <4>1
    <3>3. QED
      BY <1>3, <3>1, <3>2
  <2>5. QED
    BY <2>3, <2>4 DEF LabelledOnce
<1>5. ASSUME Unlabelled(a, x), LabelledOnce(b, x) PROVE LabelledOnce(l, x)
  <2>1. PICK q \in 1..m : \A k \in 1..m : b[k].label = x <=> k = q
    BY <1>5 DEF LabelledOnce, m
  <2>2. \A k \in 1..n : a[k].label # x
    BY <1>5 DEF Unlabelled, n
  <2>3. n + q \in 1..Len(l) /\ q \in Nat
    BY <1>1
  <2>4. ASSUME NEW k \in 1..Len(l) PROVE l[k].label = x <=> k = n + q
    <3>1. CASE k \in 1..n /\ l[k] = a[k]
      <4>1. k # n + q
        BY <1>1, <2>3, <3>1
      <4>2. QED
        BY <2>2, <3>1, <4>1
    <3>2. CASE k - n \in 1..m /\ k = n + (k - n) /\ l[k] = b[k - n]
      <4>1. k - n = q <=> k = n + q
        BY <1>1, <2>3
      <4>2. QED
        BY <2>1, <3>2, <4>1
    <3>3. QED
      BY <1>3, <3>1, <3>2
  <2>5. QED
    BY <2>3, <2>4 DEF LabelledOnce
<1>6. ASSUME Unlabelled(a, x), Unlabelled(b, x) PROVE Unlabelled(l, x)
  BY <1>3, <1>6 DEF Unlabelled, n, m
<1>7. QED
  BY <1>4, <1>5, <1>6 DEF l

LEMMA SegmentIs ==
  ASSUME NEW sp \in Int, NEW words \in Nat, NEW label \in Int, NEW ok
  PROVE  LET g == Segment(sp, words, label, ok)
         IN SegmentOf(g.lines, sp, label, g.sp) /\ (words # 0 /\ sp \in ok => Len(g.lines) # 0)
<1> DEFINE ends == {k \in 0..words : k = words \/ sp + k \notin ok}
           n == Min(ends)
           LineAt(i) == [at |-> sp + i - 1, label |-> IF i = 1 THEN label ELSE -1]
           l == [i \in 1..n |-> LineAt(i)]
           g == Segment(sp, words, label, ok)
<1>1. n \in 0..words /\ (n = words \/ sp + n \notin ok)
  <2>1. ends \in SUBSET Nat /\ words \in ends
    OBVIOUS
  <2>2. n \in ends
    <3> HIDE DEF ends
    <3>1. QED
      BY <2>1, LeastOf
  <2> HIDE DEF n
  <2>3. QED
    BY <2>2
<1>2. g.lines = l /\ g.sp = sp + n
  BY DEF Segment
<1>3. n \in Nat
  BY <1>1
<1> HIDE DEF n, g
<1>4. \A i \in 1..n : LineAt(i) \in LineSet /\ LineAt(i).at = sp + i - 1
                      /\ LineAt(i).label = IF i = 1 THEN label ELSE -1
  BY <1>3 DEF LineSet
<1>5. l \in Seq(LineSet) /\ Len(l) = n /\ \A i \in 1..n : l[i] = LineAt(i)
  <2> HIDE DEF LineAt
  <2>1. QED
    BY <1>3, <1>4
<1>6. \A i \in 1..n : l[i].at = sp + i - 1 /\ l[i].label = IF i = 1 THEN label ELSE -1
  BY <1>4, <1>5
<1> HIDE DEF l, LineAt
<1>7. InSteps(l)
  <2>1. ASSUME NEW i \in 1..n - 1 PROVE l[i + 1].at = l[i].at + 1
    <3>1. i \in 1..n /\ i + 1 \in 1..n /\ sp + (i + 1) - 1 = (sp + i - 1) + 1
      BY <1>3
    <3>2. QED
      BY <1>6, <3>1
  <2>2. QED
    BY <1>5, <2>1 DEF InSteps
<1>8. n # 0 => l[1].at = sp
  BY <1>3, <1>6
<1>9. n # 0 => l[n].at = (sp + n) - 1
  BY <1>3, <1>6
<1>10. SegmentOf(l, sp, label, sp + n)
  BY <1>3, <1>5, <1>6, <1>7, <1>8, <1>9 DEF SegmentOf, LinesStartAt, LinesEndAt
<1>11. words # 0 /\ sp \in ok => n # 0
  BY <1>1
<1>12. QED
  BY <1>2, <1>5, <1>10, <1>11 DEF g

LEMMA MinMaxPositive ==
  ASSUME NEW d \in Int, NEW n \in Nat \ {0}
  PROVE  Max({1, Min({n, d})}) \in Nat \ {0}
<1> DEFINE m == Min({n, d})
<1>1. m \in {n, d}
  BY MinOfTwo
<1>2. m \in Int
  BY <1>1
<1> HIDE DEF m
<1>3. \E x \in {1, m} : \A y \in {1, m} : x >= y
  BY <1>2, m <= 1 \/ m >= 1
<1>4. Max({1, m}) \in {1, m} /\ \A y \in {1, m} : Max({1, m}) >= y
  BY <1>3 DEF Max
<1>5. QED
  BY <1>2, <1>4 DEF m

LEMMA SomeWords ==
  ASSUME NEW sps \in Seq(Nat), NEW i \in 1..Len(sps)
  PROVE  WordsToNext(sps, i) \in Nat \ {0}
<1>1. CASE i = Len(sps) \/ sps[i+1] = 0 \/ sps[i+1] < sps[i]
  BY <1>1, FramesAssumption DEF WordsToNext
<1>2. CASE ~(i = Len(sps) \/ sps[i+1] = 0 \/ sps[i+1] < sps[i])
  <2>1. sps[i+1] - sps[i] \in Int
    BY <1>2
  <2>2. WordsToNext(sps, i) = Max({1, Min({StackWords, sps[i+1] - sps[i]})})
    BY <1>2 DEF WordsToNext
  <2>3. QED
    BY <2>1, <2>2, FramesAssumption, MinMaxPositive
<1>3. QED
  BY <1>1, <1>2

\* The sp of frame i is in readable memory, and no frame before it has lost its sp.
KnownSp(sps, ok, i) ==
  /\ sps[i] \in ok
  /\ \A j \in 1..i-1 : sps[j] = 0 => \A k \in 1..j : sps[k] = 0

ShownSet == [lines : Seq(LineSet), sp : Int, segments : {"none", "recorded", "over"}]

\* What holds of the stack after i frames.
Shown(sps, ok, i, t) ==
  /\ t \in ShownSet
  /\ InSteps(t.lines) /\ LabelsAtSp(t.lines, sps, i)
  /\ t.segments = "recorded" => LinesEndAt(t.lines, t.sp)
  /\ t.segments # "none" => \E k \in 1..i : sps[k] # 0
  /\ t.segments = "none" => \A k \in 1..i : sps[k] = 0
  /\ t.segments = "over" => \E j \in 1..i : sps[j] = 0 /\ \E k \in 1..j : sps[k] # 0
  /\ \A j \in 1..i : KnownSp(sps, ok, j) /\ sps[j] # 0 => LabelledOnce(t.lines, j - 1)

\* The lines of a frame behind those before it.
LEMMA OwnLines ==
  ASSUME NEW sps \in Seq(Nat), NEW ok, NEW i \in 1..Len(sps),
         NEW old \in Seq(LineSet), NEW from \in Int,
         InSteps(old), LinesEndAt(old, from), LabelsAtSp(old, sps, i - 1)
  PROVE  LET dots == IF from = sps[i] THEN <<>> ELSE <<Dots>>
             own == Segment(sps[i], WordsToNext(sps, i), i - 1, ok)
             all == old \o dots \o own.lines
         IN /\ all \in Seq(LineSet) /\ own.sp \in Int
            /\ InSteps(all) /\ LinesEndAt(all, own.sp) /\ LabelsAtSp(all, sps, i)
            /\ \A x \in 0..i - 2 : LabelledOnce(old, x) => LabelledOnce(all, x)
            /\ sps[i] \in ok => LabelledOnce(all, i - 1)
<1> DEFINE sp == sps[i]
           dots == IF from = sp THEN <<>> ELSE <<Dots>>
           seg == Segment(sp, WordsToNext(sps, i), i - 1, ok)
           own == seg.lines
           end == seg.sp
           first == old \o dots
           all == first \o own
<1>1. sp \in Nat /\ i \in Nat /\ i >= 1
  OBVIOUS
<1>2. WordsToNext(sps, i) \in Nat \ {0}
  BY SomeWords
<1>3. SegmentOf(own, sp, i - 1, end) /\ (sp \in ok => Len(own) # 0)
  <2>1. i - 1 \in Int /\ sp \in Int
    BY <1>1
  <2> HIDE DEF sp
  <2>2. QED
    BY <1>2, <2>1, SegmentIs
<1> HIDE DEF sp, seg
<1>4. /\ own \in Seq(LineSet) /\ end \in Int
      /\ InSteps(own) /\ LinesStartAt(own, sp) /\ LinesEndAt(own, end) /\ (Len(own) = 0 => end = sp)
      /\ \A k \in 1..Len(own) : own[k].label = IF k = 1 THEN i - 1 ELSE -1
      /\ Len(own) # 0 => own[1].at = sp
      /\ Len(own) \in Nat
  BY <1>3 DEF SegmentOf
<1> HIDE DEF own, end
<1>5. Dots \in LineSet /\ Dots.label = -1
  BY DEF Dots, LineSet
<1>6. /\ dots \in Seq(LineSet) /\ InSteps(dots) /\ LinesStartAt(dots, from) /\ LinesEndAt(dots, sp)
      /\ Len(dots) = 0 => from = sp
      /\ \A k \in 1..Len(dots) : dots[k].label = -1
  <2>1. CASE from = sp
    <3>1. dots = <<>> /\ Len(dots) = 0 /\ dots \in Seq(LineSet)
      BY <2>1
    <3>2. QED
      BY <2>1, <3>1 DEF InSteps, LinesStartAt, LinesEndAt
  <2>2. CASE from # sp
    <3>1. dots = <<Dots>> /\ Len(dots) = 1 /\ dots \in Seq(LineSet) /\ dots[1] = Dots
      BY <1>5, <2>2
    <3>2. QED
      BY <1>5, <3>1 DEF InSteps, LinesStartAt, LinesEndAt
  <2>3. QED
    BY <2>1, <2>2
<1> HIDE DEF dots
<1>7. first \in Seq(LineSet) /\ InSteps(first) /\ LinesEndAt(first, sp)
  BY <1>6, JoinedInSteps, JoinedEnd, JoinedLines
<1>8. LabelsAtSp(old, sps, i) /\ LabelsAtSp(dots, sps, i) /\ LabelsAtSp(own, sps, i)
  <2>1. LabelsAtSp(old, sps, i)
    <3>1. \A x \in Int : x \in 0..(i - 1) - 1 => x \in 0..i - 1
      BY <1>1
    <3>2. \A k \in 1..Len(old) : old[k].label \in Int
      <4>1. \A k \in 1..Len(old) : old[k] \in LineSet
        OBVIOUS
      <4>2. QED
        BY <4>1 DEF LineSet
    <3>3. QED
      BY <3>1, <3>2 DEF LabelsAtSp
  <2>2. LabelsAtSp(dots, sps, i)
    BY <1>6 DEF LabelsAtSp
  <2>3. LabelsAtSp(own, sps, i)
    <3>1. ASSUME NEW k \in 1..Len(own), own[k].label >= 0
          PROVE  own[k].label \in 0..i - 1 /\ own[k].at = sps[own[k].label + 1]
      <4>0. own[k].label = IF k = 1 THEN i - 1 ELSE -1
        BY <1>4, Zenon
      <4>1. k = 1 /\ own[k].label = i - 1 /\ Len(own) # 0
        <5>1. ASSUME k # 1 PROVE FALSE
          BY <3>1, <4>0, <5>1
        <5>2. Len(own) \in Nat
          BY <1>4
        <5>3. QED
          BY <4>0, <5>1, <5>2
      <4>2. (i - 1) + 1 = i /\ i - 1 \in 0..i - 1
        BY <1>1
      <4>3. QED
        BY <1>4, <4>1, <4>2 DEF sp
    <3>2. QED
      BY <3>1 DEF LabelsAtSp
  <2>4. QED
    BY <2>1, <2>2, <2>3
<1>9. LabelsAtSp(first, sps, i)
  BY <1>6, <1>8, JoinedLabels
<1>10. ASSUME NEW x \in 0..i - 1 PROVE Unlabelled(dots, x)
  BY <1>6 DEF Unlabelled
<1>11. ASSUME NEW x \in 0..i - 2 PROVE Unlabelled(own, x)
  <2>1. x # i - 1 /\ x # -1
    BY <1>1
  <2>2. QED
    BY <1>4, <2>1 DEF Unlabelled
<1>12. Unlabelled(old, i - 1)
  <2>1. ASSUME NEW k \in 1..Len(old), old[k].label = i - 1 PROVE FALSE
    <3>1. i - 1 >= 0 /\ ~(i - 1 \in 0..(i - 1) - 1)
      BY <1>1
    <3>2. QED
      BY <2>1, <3>1 DEF LabelsAtSp
  <2>2. QED
    BY <2>1 DEF Unlabelled
<1>13. Len(own) # 0 => LabelledOnce(own, i - 1)
  <2>1. ASSUME Len(own) # 0 PROVE LabelledOnce(own, i - 1)
    <3>1. 1 \in 1..Len(own) /\ i - 1 # -1
      BY <1>1, <1>4, <2>1
    <3>2. \A k \in 1..Len(own) : own[k].label = i - 1 <=> k = 1
      BY <1>4, <3>1
    <3>3. QED
      BY <3>1, <3>2 DEF LabelledOnce
  <2>2. QED
    BY <2>1
<1> HIDE DEF first
<1>14. all \in Seq(LineSet) /\ InSteps(all) /\ LabelsAtSp(all, sps, i)
  <2>1. sp \in Int
    BY <1>1
  <2>2. QED
    BY <1>4, <1>7, <1>8, <1>9, <2>1, JoinedInSteps, JoinedLabels, JoinedLines
<1>15. LinesEndAt(all, end)
  BY <1>4, <1>7, JoinedEnd
<1>16. ASSUME NEW x \in 0..i - 2, LabelledOnce(old, x) PROVE LabelledOnce(all, x)
  <2>1. x \in 0..i - 1
    BY <1>1
  <2>2. LabelledOnce(first, x)
    BY <1>6, <1>10, <1>16, <2>1, JoinedOnce DEF first
  <2>3. QED
    BY <1>4, <1>7, <1>11, <2>2, JoinedOnce
<1>17. ASSUME sp \in ok PROVE LabelledOnce(all, i - 1)
  <2>1. Unlabelled(first, i - 1)
    <3>1. i - 1 \in 0..i - 1
      BY <1>1
    <3>2. QED
      BY <1>6, <1>10, <1>12, <3>1, JoinedOnce DEF first
  <2>2. LabelledOnce(own, i - 1)
    BY <1>3, <1>13, <1>17 DEF own
  <2>3. QED
    BY <1>4, <1>7, <2>1, <2>2, JoinedOnce
<1>18. QED
  BY <1>4, <1>14, <1>15, <1>16, <1>17 DEF all, first, own, end, dots, seg, sp

LEMMA ShownNext ==
  ASSUME NEW sps \in Seq(Nat), NEW ok, NEW i \in 1..Len(sps), NEW t, Shown(sps, ok, i - 1, t)
  PROVE  Shown(sps, ok, i, AfterStackOf(sps, i, t, ok))
<1> DEFINE u == AfterStackOf(sps, i, t, ok)
<1>1. /\ t.lines \in Seq(LineSet) /\ t.sp \in Int /\ t.segments \in {"none", "recorded", "over"}
      /\ t \in ShownSet
      /\ InSteps(t.lines) /\ LabelsAtSp(t.lines, sps, i - 1)
      /\ t.segments = "recorded" => LinesEndAt(t.lines, t.sp)
      /\ t.segments # "none" => \E k \in 1..i - 1 : sps[k] # 0
      /\ t.segments = "none" => \A k \in 1..i - 1 : sps[k] = 0
      /\ t.segments = "over" => \E j \in 1..i - 1 : sps[j] = 0 /\ \E k \in 1..j : sps[k] # 0
      /\ \A j \in 1..i - 1 : KnownSp(sps, ok, j) /\ sps[j] # 0 => LabelledOnce(t.lines, j - 1)
  BY DEF Shown, ShownSet
<1>2. i \in Nat /\ i >= 1 /\ sps[i] \in Nat /\ i \in 1..i
      /\ (\A j \in 1..i - 1 : j \in 1..i) /\ \A j \in 1..i : j = i \/ j \in 1..i - 1
  OBVIOUS
<1>3. LabelsAtSp(t.lines, sps, i)
  <2>1. \A x \in Int : x \in 0..(i - 1) - 1 => x \in 0..i - 1
    BY <1>2
  <2>2. \A k \in 1..Len(t.lines) : t.lines[k].label \in Int
    <3>1. \A k \in 1..Len(t.lines) : t.lines[k] \in LineSet
      BY <1>1
    <3>2. QED
      BY <3>1 DEF LineSet
  <2>3. QED
    BY <1>1, <2>1, <2>2 DEF LabelsAtSp
<1> HIDE DEF u
<1>4. CASE t.segments = "over"
  <2>1. u = t
    BY <1>4 DEF u, AfterStackOf
  <2>2. ~KnownSp(sps, ok, i)
    BY <1>1, <1>4 DEF KnownSp
  <2>3. \A j \in 1..i : KnownSp(sps, ok, j) /\ sps[j] # 0 => LabelledOnce(t.lines, j - 1)
    BY <1>1, <1>2, <2>2
  <2>4. (\E k \in 1..i : sps[k] # 0) /\ \E j \in 1..i : sps[j] = 0 /\ \E k \in 1..j : sps[k] # 0
    BY <1>1, <1>2, <1>4
  <2>5. QED
    BY <1>1, <1>3, <1>4, <2>1, <2>3, <2>4 DEF Shown, u
<1>5. CASE t.segments # "over" /\ sps[i] = 0
  <2> DEFINE new == IF t.segments = "none" THEN "none" ELSE "over"
  <2>1. u = [t EXCEPT !.segments = new]
    BY <1>5 DEF u, AfterStackOf
  <2>2. /\ u \in ShownSet /\ u.lines = t.lines /\ u.sp = t.sp /\ u.segments = new
    BY <1>1, <2>1 DEF ShownSet
  <2>3. \A j \in 1..i : KnownSp(sps, ok, j) /\ sps[j] # 0 => LabelledOnce(t.lines, j - 1)
    BY <1>1, <1>2, <1>5
  <2>4. CASE t.segments = "none"
    <3>1. u.segments = "none" /\ \A k \in 1..i : sps[k] = 0
      BY <1>1, <1>2, <1>5, <2>2, <2>4
    <3>2. QED
      BY <1>1, <1>3, <2>2, <2>3, <3>1 DEF Shown, u
  <2>5. CASE t.segments # "none"
    <3>1. u.segments = "over" /\ \E k \in 1..i - 1 : sps[k] # 0
      BY <1>1, <2>2, <2>5
    <3>2. (\E k \in 1..i : sps[k] # 0) /\ sps[i] = 0
      BY <1>2, <1>5, <3>1
    <3>3. \E j \in 1..i : sps[j] = 0 /\ \E k \in 1..j : sps[k] # 0
      BY <1>2, <3>2
    <3>4. QED
      BY <1>1, <1>3, <2>2, <2>3, <3>1, <3>2, <3>3 DEF Shown, u
  <2>6. QED
    BY <2>4, <2>5
<1>6. CASE t.segments # "over" /\ sps[i] # 0
  <2> DEFINE sp == sps[i]
             before == IF t.segments = "recorded" THEN [lines |-> t.lines, sp |-> t.sp]
                       ELSE Segment(sp - StackWords, StackWords, -1, ok)
             old == before.lines
             from == before.sp
             dots == IF from = sp THEN <<>> ELSE <<Dots>>
             own == Segment(sp, WordsToNext(sps, i), i - 1, ok)
             all == old \o dots \o own.lines
  <2>1. u = [lines |-> all, sp |-> own.sp, segments |-> "recorded"]
    BY <1>6 DEF u, AfterStackOf
  <2>2. /\ old \in Seq(LineSet) /\ from \in Int
        /\ InSteps(old) /\ LinesEndAt(old, from) /\ LabelsAtSp(old, sps, i - 1)
        /\ \A j \in 1..i - 1 : KnownSp(sps, ok, j) /\ sps[j] # 0 => LabelledOnce(old, j - 1)
    <3>1. CASE t.segments = "recorded"
      <4>1. old = t.lines /\ from = t.sp
        BY <3>1
      <4> HIDE DEF old, from
      <4>2. QED
        BY <1>1, <3>1, <4>1
    <3>2. CASE t.segments # "recorded"
      <4>1. sp - StackWords \in Int /\ StackWords \in Nat /\ -1 \in Int
        BY <1>2, FramesAssumption
      <4>2. before = Segment(sp - StackWords, StackWords, -1, ok)
        BY <3>2
      <4> HIDE DEF before, sp
      <4>3. SegmentOf(old, sp - StackWords, -1, from)
        BY <4>1, <4>2, SegmentIs
      <4> HIDE DEF old, from
      <4>4. \A k \in 1..Len(old) : old[k].label = -1
        BY <4>3 DEF SegmentOf
      <4>5. LabelsAtSp(old, sps, i - 1)
        BY <4>4 DEF LabelsAtSp
      <4>6. t.segments = "none"
        BY <1>1, <1>6, <3>2
      <4>7. \A j \in 1..i - 1 : sps[j] = 0
        BY <1>1, <4>6
      <4>8. QED
        BY <4>3, <4>5, <4>7 DEF SegmentOf
    <3>3. QED
      BY <3>1, <3>2
  <2> HIDE DEF before, old, from
  <2>3. /\ all \in Seq(LineSet) /\ own.sp \in Int
        /\ InSteps(all) /\ LinesEndAt(all, own.sp) /\ LabelsAtSp(all, sps, i)
        /\ \A x \in 0..i - 2 : LabelledOnce(old, x) => LabelledOnce(all, x)
        /\ sps[i] \in ok => LabelledOnce(all, i - 1)
    BY <2>2, OwnLines
  <2> HIDE DEF all, own
  <2>4. u \in ShownSet /\ u.lines = all /\ u.sp = own.sp /\ u.segments = "recorded"
    BY <2>1, <2>3 DEF ShownSet
  <2>5. ASSUME NEW j \in 1..i, KnownSp(sps, ok, j), sps[j] # 0 PROVE LabelledOnce(all, j - 1)
    <3>1. CASE j = i
      BY <2>3, <2>5, <3>1 DEF KnownSp
    <3>2. CASE j # i
      <4>1. j \in 1..i - 1 /\ j - 1 \in 0..i - 2
        BY <1>2, <3>2
      <4>2. QED
        BY <2>2, <2>3, <2>5, <4>1
    <3>3. QED
      BY <3>1, <3>2
  <2>6. \E k \in 1..i : sps[k] # 0
    BY <1>2, <1>6
  <2>7. QED
    BY <2>3, <2>4, <2>5, <2>6 DEF Shown, u
<1>7. QED
  BY <1>4, <1>5, <1>6 DEF u

ShownAfter(sps, ok) ==
  CHOOSE g : g = [i \in 0..Len(sps) |->
    IF i = 0 THEN [lines |-> <<>>, sp |-> 0, segments |-> "none"]
    ELSE AfterStackOf(sps, i, g[i - 1], ok)]

NothingShown == [lines |-> <<>>, sp |-> 0, segments |-> "none"]

LEMMA AfterStackOfType ==
  ASSUME NEW sps \in Seq(Nat), NEW ok, NEW i \in 1..Len(sps), NEW t \in ShownSet
  PROVE  AfterStackOf(sps, i, t, ok) \in ShownSet
<1> DEFINE sp == sps[i]
           before == IF t.segments = "recorded" THEN [lines |-> t.lines, sp |-> t.sp]
                     ELSE Segment(sp - StackWords, StackWords, -1, ok)
           dots == IF before.sp = sp THEN <<>> ELSE <<Dots>>
           own == Segment(sp, WordsToNext(sps, i), i - 1, ok)
           u == AfterStackOf(sps, i, t, ok)
<1>1. \/ u = t
      \/ u = [t EXCEPT !.segments = "none"] \/ u = [t EXCEPT !.segments = "over"]
      \/ u = [lines |-> before.lines \o dots \o own.lines, sp |-> own.sp, segments |-> "recorded"]
  BY DEF AfterStackOf
<1>2. t.lines \in Seq(LineSet) /\ t.sp \in Int
  BY DEF ShownSet
<1>3. sp \in Int /\ sp - StackWords \in Int /\ StackWords \in Nat /\ i - 1 \in Int /\ -1 \in Int
  BY FramesAssumption
<1>4. WordsToNext(sps, i) \in Nat
  BY SomeWords
<1>5. before.lines \in Seq(LineSet)
  <2>1. CASE t.segments = "recorded"
    BY <1>2, <2>1
  <2>2. CASE t.segments # "recorded"
    <3>1. before = Segment(sp - StackWords, StackWords, -1, ok)
      BY <2>2
    <3> HIDE DEF before, sp
    <3>2. SegmentOf(before.lines, sp - StackWords, -1, before.sp)
      BY <1>3, <3>1, SegmentIs
    <3>3. QED
      BY <3>2 DEF SegmentOf
  <2>3. QED
    BY <2>1, <2>2
<1>6. own.lines \in Seq(LineSet) /\ own.sp \in Int
  <2> HIDE DEF sp
  <2>1. SegmentOf(own.lines, sp, i - 1, own.sp)
    BY <1>3, <1>4, SegmentIs
  <2>2. QED
    BY <2>1 DEF SegmentOf
<1>7. dots \in Seq(LineSet)
  <2>1. Dots \in LineSet
    BY DEF Dots, LineSet
  <2>2. QED
    BY <2>1
<1> HIDE DEF before, dots, own, u
<1>8. before.lines \o dots \o own.lines \in Seq(LineSet)
  BY <1>5, <1>6, <1>7
<1>9. [t EXCEPT !.segments = "none"] \in ShownSet /\ [t EXCEPT !.segments = "over"] \in ShownSet
  BY DEF ShownSet
<1>10. [lines |-> before.lines \o dots \o own.lines, sp |-> own.sp, segments |-> "recorded"] \in ShownSet
  <2> DEFINE all == before.lines \o dots \o own.lines
             end == own.sp
  <2>1. all \in Seq(LineSet) /\ end \in Int
    BY <1>6, <1>8
  <2> HIDE DEF all, end
  <2>2. [lines |-> all, sp |-> end, segments |-> "recorded"] \in ShownSet
    BY <2>1 DEF ShownSet
  <2>3. QED
    BY <2>2 DEF all, end
<1>11. u \in ShownSet
  BY <1>1, <1>9, <1>10, Zenon
<1>12. QED
  BY <1>11 DEF u

LEMMA ShownAfterStep ==
  ASSUME NEW sps \in Seq(Nat), NEW ok
  PROVE  LET g == ShownAfter(sps, ok)
         IN /\ g[0] = NothingShown
            /\ \A i \in 1..Len(sps) : g[i] = AfterStackOf(sps, i, g[i - 1], ok)
<1> DEFINE b == NothingShown
           n == Len(sps)
           Next(i, s) == AfterStackOf(sps, i, s, ok)
           step == [x \in (1..n) \X ShownSet |-> Next(x[1], x[2])]
           Solves(g) == g = [i \in 0..n |-> IF i = 0 THEN b ELSE Next(i, g[i - 1])]
           t == ShownAfter(sps, ok)
<1>1. step \in [(1..n) \X ShownSet -> ShownSet]
  <2>1. \A i \in 1..n, s \in ShownSet : Next(i, s) \in ShownSet
    BY AfterStackOfType
  <2> HIDE DEF Next
  <2>2. QED
    BY <2>1
<1>2. b \in ShownSet /\ n \in Nat
  BY DEF NothingShown, ShownSet
<1>3. \A i \in 1..n, s \in ShownSet : step[<<i, s>>] = Next(i, s)
  <2> HIDE DEF Next
  <2>1. QED
    OBVIOUS
<1>4. t = CHOOSE g : Solves(g)
  BY DEF ShownAfter, NothingShown
<1> HIDE DEF step, b, t, n, Next
<1>5. PICK g : Steps(n, ShownSet, b, step, g)
  BY <1>1, <1>2, StepsExist
<1>6. g \in [0..n -> ShownSet] /\ g[0] = b /\ \A k \in 1..n : g[k] = step[<<k, g[k - 1]>>]
  BY <1>5 DEF Steps
<1>7. \A k \in 1..n : g[k] = Next(k, g[k - 1])
  <2> TAKE k \in 1..n
  <2>1. k - 1 \in 0..n
    BY <1>2
  <2>2. QED
    BY <1>3, <1>6, <2>1
<1>8. Solves(g)
  BY <1>2, <1>6, <1>7
<1>9. Solves(t)
  <2> HIDE DEF Solves
  <2>1. QED
    BY <1>4, <1>8
<1>10. t[0] = b /\ \A k \in 1..n : t[k] = Next(k, t[k - 1])
  <2>1. t = [i \in 0..n |-> IF i = 0 THEN b ELSE Next(i, t[i - 1])]
    BY <1>9
  <2>2. QED
    BY <1>2, <2>1
<1>11. QED
  BY <1>10 DEF t, b, n, Next

(* xcd_frames_record_stack: read from top to bottom the stack section is true, whatever the stack
   pointers of the frames and whatever can be read. *)
THEOREM StackOfAnyFrames ==
  ASSUME NEW c, c.sps \in Seq(Nat)
  PROVE  StackInOrder(c)
<1> DEFINE sps == c.sps
           ok == c.ok
           n == Len(sps)
           t == ShownAfter(sps, ok)
           S == {i \in 0..n : Shown(sps, ok, i, t[i])}
<1>0. n \in Nat /\ sps \in Seq(Nat)
  OBVIOUS
<1>1. t[0] = NothingShown /\ \A i \in 1..n : t[i] = AfterStackOf(sps, i, t[i - 1], ok)
  BY <1>0, ShownAfterStep
<1>2. Stack(sps, ok) = t[n].lines
  BY DEF Stack, ShownAfter
<1> HIDE DEF t, n, sps, ok
<1>3. 0 \in S
  <2> DEFINE none == NothingShown
  <2>1. none.lines = <<>> /\ none.segments = "none" /\ none \in ShownSet /\ Len(<<>>) = 0
    BY DEF NothingShown, ShownSet
  <2> HIDE DEF none
  <2>2. Shown(sps, ok, 0, none)
    BY <2>1 DEF Shown, InSteps, LabelsAtSp
  <2>3. 0 \in 0..n /\ t[0] = none
    BY <1>0, <1>1 DEF none
  <2>4. QED
    BY <2>2, <2>3
<1>4. ASSUME NEW i \in 1..n, i - 1 \in S PROVE i \in S
  <2>1. Shown(sps, ok, i - 1, t[i - 1])
    BY <1>4
  <2>2. i \in 1..Len(sps)
    BY DEF n
  <2>3. Shown(sps, ok, i, t[i])
    BY <1>0, <1>1, <2>1, <2>2, ShownNext
  <2>4. i \in 0..n
    BY <1>0
  <2>5. QED
    BY <2>3, <2>4
<1>5. 0..n \subseteq S
  <2> HIDE DEF S
  <2>1. QED
    BY <1>0, <1>3, <1>4, UpTo
<1>6. Shown(sps, ok, n, t[n])
  <2>1. n \in S
    BY <1>0, <1>5
  <2>2. QED
    BY <2>1
<1> DEFINE l == Stack(sps, ok)
<1>7. /\ l \in Seq(LineSet) /\ InSteps(l) /\ LabelsAtSp(l, sps, n)
      /\ \A j \in 1..n : KnownSp(sps, ok, j) /\ sps[j] # 0 => LabelledOnce(l, j - 1)
  BY <1>2, <1>6 DEF Shown, ShownSet
<1>8. DOMAIN l = 1..Len(l)
  BY <1>7
<1> HIDE DEF l
<1>9. \A i \in 1..Len(l) - 1 : Dots \in {l[i], l[i+1]} \/ l[i+1].at = l[i].at + 1
  BY <1>7 DEF InSteps
<1>10. \A i \in DOMAIN l : l[i].label >= 0 => l[i].at = sps[l[i].label + 1]
  BY <1>7, <1>8 DEF LabelsAtSp
<1>11. ASSUME NEW i \in DOMAIN sps, KnownSp(sps, ok, i), sps[i] # 0
       PROVE  Cardinality({k \in DOMAIN l : l[k].label = i - 1}) = 1
  <2>1. i \in 1..n
    BY <1>0 DEF n
  <2>2. PICK p \in 1..Len(l) : \A k \in 1..Len(l) : l[k].label = i - 1 <=> k = p
    BY <1>7, <1>11, <2>1 DEF LabelledOnce
  <2>3. {k \in DOMAIN l : l[k].label = i - 1} = {p}
    BY <1>8, <2>2
  <2>4. QED
    BY <2>3, FS_Singleton
<1>12. QED
  BY <1>9, <1>10, <1>11 DEF StackInOrder, KnownSp, l, sps, ok

-----------------------------------------------------------------------------
(* The registers *)

(* xcd_regs_*_try_step_sigreturn: in every form of signal frame, wherever it is on the stack, the
   registers are loaded from where the kernel saved them. *)
THEOREM SignalFrameAnywhere ==
  ASSUME NEW c, c.form \in SignalForms, c.sp \in Nat, c.sp % 4 = 0, c.uc \in Nat
  PROVE  InterruptedRegsFound(c)
<1> DEFINE k == SignalFrame(c.form, c.sp, c.uc)
<1>1. c.form \in {"arm_old", "arm", "arm_rt_old", "arm_rt", "arm64", "x86", "x86_rt", "x86_64"}
  BY DEF SignalForms
<1>2. CASE c.form = "arm_old"
  <2>1. k.word = [a \in {c.sp} |-> 14] /\ k.regs = c.sp + 3 * 4
    BY <1>2 DEF SignalFrame
  <2> HIDE DEF k
  <2>2. k.word[c.sp] = 14
    BY <2>1
  <2>3. SigreturnReads(c.form, c.sp, k.word) = ArmSigreturn(FALSE, c.sp, k.word[c.sp])
    BY <1>2 DEF SigreturnReads
  <2>4. QED
    BY <2>1, <2>2, <2>3 DEF ArmSigreturn, Magic, InterruptedRegsFound, k
<1>3. CASE c.form = "arm"
  <2>1. k.word = [a \in {c.sp} |-> Magic] /\ k.regs = c.sp + (2 * 4 + 3 * 4) + 3 * 4
    BY <1>3 DEF SignalFrame
  <2> HIDE DEF k
  <2>2. k.word[c.sp] = Magic
    BY <2>1
  <2>3. SigreturnReads(c.form, c.sp, k.word) = ArmSigreturn(FALSE, c.sp, k.word[c.sp])
    BY <1>3 DEF SigreturnReads
  <2>4. QED
    BY <2>1, <2>2, <2>3 DEF ArmSigreturn, InterruptedRegsFound, k
<1>4. CASE c.form = "arm_rt_old"
  <2>1. k.word = [a \in {c.sp} |-> c.sp + 2 * 4]
        /\ k.regs = c.sp + 2 * 4 + 128 + (2 * 4 + 3 * 4) + 3 * 4
    BY <1>4 DEF SignalFrame
  <2> HIDE DEF k
  <2>2. k.word[c.sp] = c.sp + 2 * 4
    BY <2>1
  <2>3. SigreturnReads(c.form, c.sp, k.word) = ArmSigreturn(TRUE, c.sp, k.word[c.sp])
    BY <1>4 DEF SigreturnReads
  <2>4. QED
    BY <2>1, <2>2, <2>3 DEF ArmSigreturn, InterruptedRegsFound, k
<1>5. CASE c.form = "arm_rt"
  <2>1. k.word = [a \in {c.sp} |-> 11] /\ k.regs = c.sp + 128 + (2 * 4 + 3 * 4) + 3 * 4
    BY <1>5 DEF SignalFrame
  <2> HIDE DEF k
  <2>2. k.word[c.sp] = 11
    BY <2>1
  <2>3. SigreturnReads(c.form, c.sp, k.word) = ArmSigreturn(TRUE, c.sp, k.word[c.sp])
    BY <1>5 DEF SigreturnReads
  <2>4. 11 # c.sp + 8
    <3>1. (c.sp = 3) => c.sp % 4 = 3
      OBVIOUS
    <3>2. QED
      BY <3>1
  <2>5. QED
    BY <2>1, <2>2, <2>3, <2>4 DEF ArmSigreturn, InterruptedRegsFound, k
<1>6. CASE c.form = "arm64"
  <2>1. k.regs = c.sp + 128 + ((((2 * 8 + 3 * 8) + 128 + 15) \div 16) * 16) + 8
    BY <1>6 DEF SignalFrame
  <2>2. ((((2 * 8 + 3 * 8) + 128 + 15) \div 16) * 16) = 176
    OBVIOUS
  <2>3. SigreturnReads(c.form, c.sp, k.word) = Arm64Sigreturn(c.sp)
    BY <1>6 DEF SigreturnReads
  <2> HIDE DEF k
  <2>4. QED
    BY <2>1, <2>2, <2>3 DEF Arm64Sigreturn, InterruptedRegsFound, k
<1>7. CASE c.form = "x86"
  <2>1. k.regs = c.sp + 4
    BY <1>7 DEF SignalFrame
  <2>2. SigreturnReads(c.form, c.sp, k.word) = X86Sigreturn(FALSE, c.sp, k.word)
    BY <1>7 DEF SigreturnReads
  <2>3. QED
    BY <2>1, <2>2 DEF X86Sigreturn, InterruptedRegsFound
<1>8. CASE c.form = "x86_rt"
  <2>1. k.word = [a \in {c.sp + 2 * 4} |-> c.uc] /\ k.regs = c.uc + (2 * 4 + 3 * 4)
    BY <1>8 DEF SignalFrame
  <2> HIDE DEF k
  <2>2. k.word[c.sp + 8] = c.uc
    <3>1. c.sp + 2 * 4 = c.sp + 8
      OBVIOUS
    <3>2. QED
      BY <2>1, <3>1
  <2>3. SigreturnReads(c.form, c.sp, k.word) = X86Sigreturn(TRUE, c.sp, k.word)
    BY <1>8 DEF SigreturnReads
  <2>4. QED
    BY <2>1, <2>2, <2>3 DEF X86Sigreturn, InterruptedRegsFound, k
<1>9. CASE c.form = "x86_64"
  <2>1. k.regs = c.sp + (2 * 8 + 3 * 8)
    BY <1>9 DEF SignalFrame
  <2>2. SigreturnReads(c.form, c.sp, k.word) = X8664Sigreturn(c.sp)
    BY <1>9 DEF SigreturnReads
  <2>3. QED
    BY <2>1, <2>2 DEF X8664Sigreturn, InterruptedRegsFound
<1>10. QED
  BY <1>1, <1>2, <1>3, <1>4, <1>5, <1>6, <1>7, <1>8, <1>9

\* What the adjustment of arm is behind a call of `size` bytes in the ELF.
LEMMA ArmAdjustIs ==
  ASSUME NEW pc \in Nat, NEW bias \in Nat, bias % 2 = 0, NEW known, NEW wide, NEW size,
         size \in (IF pc % 2 = 1 THEN {2, 4} ELSE {4}), pc - (pc % 2) >= bias + size,
         wide => size = 4
  PROVE  ArmAdjust(pc, bias, known, wide) - (pc % 2) \in 1..size
<1> DEFINE thumb == pc % 2
           adjust == ArmAdjust(pc, bias, known, wide)
<1>1. thumb \in {0, 1}
  OBVIOUS
<1>2. (pc - bias) % 2 = thumb
  OBVIOUS
<1>3. CASE ~known
  <2>1. adjust = 2
    BY <1>3 DEF ArmAdjust
  <2>2. QED
    BY <1>1, <2>1
<1>4. CASE known
  <2> DEFINE d == pc - bias
  <2>1. d \in Int /\ d >= size + thumb /\ size \in {2, 4} /\ (size = 2 => thumb = 1 /\ ~wide)
        /\ ~(pc < bias) /\ d % 2 = thumb
    <3>1. pc - thumb >= bias + size /\ size \in {2, 4} /\ (size = 2 => thumb = 1)
      OBVIOUS
    <3>2. (pc - bias) % 2 = thumb
      BY <1>2
    <3> HIDE DEF thumb
    <3>3. QED
      BY <1>1, <3>1, <3>2
  <2> HIDE DEF thumb, d
  <2>2. d % 2 = 0 \/ d % 2 = 1
    BY <1>1, <2>1
  <2>3. adjust = IF d < 5 THEN 2 ELSE IF thumb = 1 /\ ~wide THEN 2 ELSE 4
    <3>1. adjust = IF d < 5 THEN (IF d < 2 THEN 0 ELSE 2) ELSE IF d % 2 = 1 /\ ~wide THEN 2 ELSE 4
      BY <1>4, <2>1, Zenon DEF ArmAdjust, d
    <3> HIDE DEF adjust
    <3>2. QED
      BY <1>1, <2>1, <3>1
  <2> HIDE DEF adjust
  <2>4. d < 5 /\ size = 4 => thumb = 0
    BY <1>1, <2>1
  <2>5. adjust - thumb \in 1..size
    BY <1>1, <2>1, <2>3, <2>4
  <2>6. QED
    BY <2>5 DEF adjust, thumb
<1>5. QED
  BY <1>3, <1>4

(* xcd_regs_adjust_pc: a return address is moved back into the call it returns from, whatever the call
   and wherever it is in the ELF. *)
THEOREM AdjustedPcAnywhere ==
  ASSUME NEW c, c.arch \in {"arm", "arm64", "x86"}, c.pc \in Nat, c.bias \in Nat, c.bias % 2 = 0
  PROVE  AdjustedPcInCall(c)
<1> DEFINE pc == c.pc
           bias == c.bias
<1>1. CASE c.arch = "arm"
  <2>1. AdjustedPcInCall(c) <=>
          \A size \in CallSizes(c.arch, pc) :
            pc - (pc % 2) >= bias + size /\ (c.wide => size = 4) =>
              ArmAdjust(pc, bias, c.known, c.wide) - (pc % 2) \in 1..size
    BY <1>1 DEF AdjustedPcInCall
  <2>2. CallSizes(c.arch, pc) = IF pc % 2 = 1 THEN {2, 4} ELSE {4}
    BY <1>1 DEF CallSizes
  <2>3. QED
    BY <2>1, <2>2, ArmAdjustIs
<1>2. CASE c.arch = "arm64"
  <2>1. AdjustedPcInCall(c) <=>
          \A size \in {4} : pc - 0 >= bias + size /\ (c.wide => size = 4) =>
              Arm64Adjust(pc) - 0 \in 1..size
    BY <1>2 DEF AdjustedPcInCall, CallSizes
  <2>2. QED
    BY <2>1 DEF Arm64Adjust
<1>3. CASE c.arch = "x86"
  <2>1. AdjustedPcInCall(c) <=>
          \A size \in {2, 5} : pc - 0 >= bias + size /\ (c.wide => size = 4) =>
              X86Adjust(pc) - 0 \in 1..size
    BY <1>3 DEF AdjustedPcInCall, CallSizes
  <2>2. QED
    BY <2>1 DEF X86Adjust
<1>4. QED
  BY <1>1, <1>2, <1>3

LEMMA FrameCallTrue ==
  ASSUME NEW c, FrameCall(c)
  PROVE  /\ c.alg = "frames" => GuessesAreChecked(c.in)
         /\ c.alg = "ids" => BuildIdsOnce(c.in)
         /\ c.alg = "stack" => StackInOrder(c.in)
         /\ c.alg = "sigreturn" => InterruptedRegsFound(c.in)
         /\ c.alg = "adjust" => AdjustedPcInCall(c.in)
<1>0. /\ "frames" # "ids" /\ "frames" # "stack" /\ "frames" # "sigreturn" /\ "frames" # "adjust"
      /\ "ids" # "stack" /\ "ids" # "sigreturn" /\ "ids" # "adjust"
      /\ "stack" # "sigreturn" /\ "stack" # "adjust" /\ "sigreturn" # "adjust"
  OBVIOUS
<1>1. ASSUME c.alg = "frames" PROVE GuessesAreChecked(c.in)
  <2>1. FrameInput(c.in)
    BY <1>0, <1>1, Zenon DEF FrameCall, FrameInput
  <2>2. QED
    BY <2>1, AnyBacktrace
<1>2. ASSUME c.alg = "ids" PROVE BuildIdsOnce(c.in)
  <2>1. c.in.names \in Seq(STRING) /\ c.in.fault \in STRING /\ NoFile \notin c.in.files
    BY <1>0, <1>2, Zenon DEF FrameCall
  <2>2. QED
    BY <2>1, BuildIdsOfAnyFrames, Zenon
<1>3. ASSUME c.alg = "stack" PROVE StackInOrder(c.in)
  <2>1. c.in.sps \in Seq(Nat)
    BY <1>0, <1>3, Zenon DEF FrameCall
  <2>2. QED
    BY <2>1, StackOfAnyFrames
<1>4. ASSUME c.alg = "sigreturn" PROVE InterruptedRegsFound(c.in)
  <2>1. c.in.form \in SignalForms /\ c.in.sp \in Nat /\ c.in.sp % 4 = 0 /\ c.in.uc \in Nat
    BY <1>0, <1>4, Zenon DEF FrameCall
  <2>2. QED
    BY <2>1, SignalFrameAnywhere
<1>5. ASSUME c.alg = "adjust" PROVE AdjustedPcInCall(c.in)
  <2>1. /\ c.in.arch \in {"arm", "arm64", "x86"} /\ c.in.pc \in Nat
        /\ c.in.bias \in Nat /\ c.in.bias % 2 = 0
    BY <1>0, <1>5, Zenon DEF FrameCall
  <2>2. QED
    BY <2>1, AdjustedPcAnywhere
<1>6. QED
  BY <1>1, <1>2, <1>3, <1>4, <1>5

(* xcd_frames.c and xcd_regs_*.c: what the log shows of the stack of a thread is true, for every input
   the program can give these algorithms. *)
THEOREM FramesOfAnyThread == FrameCalls => []FramesTrue
<1>1. FrameCall(call) => FramesTrue
  BY FrameCallTrue DEF FramesTrue
<1>2. FrameCall(call) /\ [FrameCall(call)']_call => FrameCall(call)'
  BY DEF FrameCall
<1>3. QED
  BY <1>1, <1>2, PTL DEF FrameCalls

-----------------------------------------------------------------------------
(* The build id, the name of an image, the image inside *)

\* The multiple of four behind the name.
LEMMA PaddedName ==
  ASSUME NEW name \in Nat, NEW n \in Nat, NEW a \in n..n + 3, a % 4 = 0
  PROVE  a = ((n + 3) \div 4) * 4
OBVIOUS

(* xcd_elf_interface_get_build_id: a build id is shown whole or not at all, whatever note the linker
   wrote and whatever can be read. *)
THEOREM BuildIdOfAnyNote ==
  ASSUME NEW c, c.note \in Nat, c.size \in Nat, c.namesz \in Nat, c.descsz \in Nat, c.readable \in Nat
  PROVE  BuildIdWhole(c)
<1> DEFINE note == c.note
           n == c.namesz
           pad == ((n + 3) \div 4) * 4
           name == note + NoteHeader
           desc == CHOOSE a \in name + n..name + n + 3 : a % 4 = note % 4
           at == NoteDesc(note, n)
           id == BuildId(note, c.size, n, c.descsz, c.readable)
<1>1. NoteHeader \in Nat /\ NoteHeader % 4 = 0 /\ BuildIdRoom \in Nat
  BY ElfAssumption
<1>2. pad \in n..n + 3 /\ pad % 4 = 0
  OBVIOUS
<1>3. at = name + pad
  BY DEF NoteDesc
<1>4. name + pad \in name + n..name + n + 3 /\ (name + pad) % 4 = note % 4
  <2> HIDE DEF pad
  <2>1. name \in Nat /\ pad \in Nat
    BY <1>1, <1>2
  <2>2. (name + pad) % 4 = note % 4
    BY <1>1, <1>2, <2>1
  <2>3. QED
    BY <1>2, <2>1, <2>2
<1>5. ASSUME NEW a \in name + n..name + n + 3, a % 4 = note % 4 PROVE a = name + pad
  <2> DEFINE d == a - name
  <2>1. name \in Nat /\ a \in Int /\ n \in Nat
    BY <1>1
  <2>2. d \in n..n + 3 /\ a = name + d
    BY <2>1
  <2>3. d % 4 = 0
    BY <1>1, <1>5, <2>1
  <2>4. d = pad
    <3> HIDE DEF d
    <3>1. QED
      BY <2>2, <2>3, PaddedName
  <2>5. QED
    BY <2>2, <2>4
<1>6. desc = at
  <2> HIDE DEF pad, name, at
  <2>1. QED
    BY <1>3, <1>4, <1>5
<1> HIDE DEF desc, at
<1>7. id = IF note = 0 \/ c.size < NoteHeader \/ c.descsz \notin 1..BuildIdRoom \/ at + c.descsz > c.readable
           THEN <<>> ELSE [i \in 1..c.descsz |-> at + i - 1]
  BY DEF BuildId, at
<1>8. id # <<>> => id = [i \in 1..c.descsz |-> desc + i - 1]
  BY <1>6, <1>7
<1>9. id = <<>> => note = 0 \/ c.descsz = 0 \/ c.size < NoteHeader \/ c.descsz > BuildIdRoom
                   \/ desc + c.descsz > c.readable
  <2>1. ASSUME c.descsz \in 1..BuildIdRoom PROVE [i \in 1..c.descsz |-> at + i - 1] # <<>>
    BY <1>1, <2>1
  <2>2. c.descsz \notin 1..BuildIdRoom => c.descsz = 0 \/ c.descsz > BuildIdRoom
    BY <1>1
  <2>3. QED
    BY <1>6, <1>7, <2>1, <2>2
<1>10. QED
  BY <1>8, <1>9 DEF BuildIdWhole, desc, id, name

LEMMA MaxOfOne ==
  ASSUME NEW i
  PROVE  Max({i}) = i
BY DEF Max

(* xcd_elf_interface_get_so_name: the name of an image is found in whatever order the linker wrote the
   dynamic tags and the string tables. *)
THEOREM SoNameOfAnyOrder ==
  ASSUME NEW c, Len(c.order) \in Nat, DOMAIN c.order = 1..Len(c.order),
         DOMAIN c.strtabs = 1..Len(c.strtabs),
         \A tag \in {"STRTAB", "STRSZ", "SONAME"} : TagOnce(c.order, tag) /\ c.val[tag] \in Nat
  PROVE  SoNameAnyOrder(c)
<1> DEFINE order == c.order
           dyn == [i \in DOMAIN order |-> [tag |-> order[i], val |-> c.val[order[i]]]]
           nulls == {i \in DOMAIN dyn : dyn[i].tag = "NULL"}
           tags == IF nulls = {} THEN DOMAIN dyn ELSE 1..Min(nulls) - 1
           of(t) == LET s == {i \in tags : dyn[i].tag = t} IN IF s = {} THEN 0 ELSE dyn[Max(s)].val
           tabs == {k \in DOMAIN c.strtabs : c.strtabs[k].addr = c.val["STRTAB"]}
<1>1. DOMAIN dyn = DOMAIN order /\ \A i \in DOMAIN order : dyn[i].tag = order[i] /\ dyn[i].val = c.val[order[i]]
  OBVIOUS
<1>2. nulls \in SUBSET Nat /\ \A i \in nulls : i \in DOMAIN order /\ order[i] = "NULL"
  OBVIOUS
<1> HIDE DEF dyn
<1>3. ASSUME NEW t \in {"STRTAB", "STRSZ", "SONAME"} PROVE of(t) = c.val[t]
  <2>1. PICK i \in DOMAIN order : \A j \in DOMAIN order : (order[j] = t <=> j = i) /\ (order[j] = "NULL" => i < j)
    BY <1>3 DEF TagOnce
  <2>2. i \in tags /\ tags \subseteq DOMAIN order
    <3>1. CASE nulls = {}
      <4>1. tags = DOMAIN dyn
        BY <3>1
      <4> HIDE DEF tags
      <4>2. QED
        BY <1>1, <2>1, <4>1
    <3>2. CASE nulls # {}
      <4>1. Min(nulls) \in nulls
        <5> HIDE DEF nulls
        <5>1. QED
          BY <1>2, <3>2, LeastOf
      <4> DEFINE m == Min(nulls)
      <4>2. m \in DOMAIN order /\ order[m] = "NULL"
        BY <1>2, <4>1
      <4> HIDE DEF m
      <4>3. i < m /\ i \in Nat /\ m \in 1..Len(order)
        BY <2>1, <4>2
      <4>4. tags = 1..m - 1
        BY <3>2 DEF m
      <4>5. i \in 1..m - 1 /\ 1..m - 1 \subseteq DOMAIN order
        BY <4>3
      <4> HIDE DEF tags
      <4>6. QED
        BY <4>4, <4>5
    <3>3. QED
      BY <3>1, <3>2
  <2> DEFINE s == {j \in tags : dyn[j].tag = t}
  <2> HIDE DEF tags
  <2>3. s = {i}
    BY <1>1, <2>1, <2>2
  <2>4. Max(s) = i
    BY <2>3, MaxOfOne
  <2>5. of(t) = dyn[i].val
    BY <2>3, <2>4
  <2>6. QED
    BY <1>1, <2>1, <2>5
<1>4. dyn # <<>>
  <2>1. PICK i \in DOMAIN order : TRUE
    BY DEF TagOnce
  <2>2. QED
    BY <1>1, <2>1
<1>5. SoName(dyn, c.strtabs) =
        LET at == {k \in DOMAIN c.strtabs : c.strtabs[k].addr = of("STRTAB")}
        IN IF dyn = <<>> \/ at = {} \/ of("SONAME") >= of("STRSZ") THEN -1
           ELSE c.strtabs[Min(at)].offset + of("SONAME")
  BY DEF SoName
<1> HIDE DEF of
<1>6. SoName(dyn, c.strtabs) =
        IF tabs = {} \/ c.val["SONAME"] >= c.val["STRSZ"] THEN -1 ELSE c.strtabs[Min(tabs)].offset + c.val["SONAME"]
  BY <1>3, <1>4, <1>5
<1>7. tabs # {} => Min(tabs) \in tabs
  <2>1. tabs \in SUBSET Nat
    OBVIOUS
  <2> HIDE DEF tabs
  <2>2. QED
    BY <2>1, LeastOf
<1>8. QED
  BY <1>6, <1>7 DEF SoNameAnyOrder, dyn

\* The turns of the loop of xcd_util_xz_decompress.
Decoding(t, k, given, total) ==
  /\ t.size \in Nat \ {0} /\ t.done \in 0..given /\ t.over = 0
  /\ t.status \in {"not_finished", "finished", "needs_input"}
  /\ t.status = "not_finished" => t.done >= k /\ t.done <= t.size /\ (k # 0 => t.done < total)
  /\ t.status = "finished" => t.done = total
  /\ t.status = "needs_input" => given # total

DecodedSet == [size : Nat \ {0}, done : Int, over : Int, status : {"not_finished", "finished", "needs_input"}]

LEMMA MaxOfTwo ==
  ASSUME NEW a \in Int, NEW b \in Int
  PROVE  Max({a, b}) \in {a, b} /\ Max({a, b}) >= a /\ Max({a, b}) >= b
<1>1. \E x \in {a, b} : \A y \in {a, b} : x >= y
  BY a <= b \/ b <= a
<1>2. Max({a, b}) \in {a, b} /\ \A y \in {a, b} : Max({a, b}) >= y
  BY <1>1 DEF Max
<1>3. QED
  BY <1>2

LEMMA AfterCodeType ==
  ASSUME NEW given \in Int, NEW total \in Int, NEW t \in DecodedSet
  PROVE  AfterCode(t, given, total) \in DecodedSet
<1> DEFINE size == 2 * t.size
           code == XzCode(t.done, RoomLeft(size, t.done), given, total)
           done == t.done + code.n
           over == Max({t.over, t.done + code.n - size})
<1>1. size \in Nat \ {0} /\ t.done \in Int /\ t.over \in Int
  BY DEF DecodedSet
<1>2. RoomLeft(size, t.done) \in Int /\ given - t.done \in Int
  BY <1>1 DEF RoomLeft
<1>3. code.n \in Int /\ code.status \in {"not_finished", "finished", "needs_input"}
  <2> DEFINE n == Min({RoomLeft(size, t.done), given - t.done})
  <2>1. n \in Int
    BY <1>2, MinOfTwo
  <2>2. code.n = n
    BY DEF XzCode
  <2>3. code.status \in {"not_finished", "finished", "needs_input"}
    BY DEF XzCode
  <2>4. QED
    BY <2>1, <2>2, <2>3
<1> HIDE DEF size, code
<1>4. done \in Int /\ t.done + code.n - size \in Int
  BY <1>1, <1>3
<1>5. over \in Int
  <2> DEFINE d == t.done + code.n - size
  <2>1. d \in Int
    BY <1>4
  <2> HIDE DEF d
  <2>2. Max({t.over, d}) \in Int
    BY <1>1, <2>1, MaxOfTwo
  <2>3. QED
    BY <2>2 DEF d
<1> HIDE DEF done, over
<1>6. [size |-> size, done |-> done, over |-> over, status |-> code.status] \in DecodedSet
  BY <1>1, <1>3, <1>4, <1>5 DEF DecodedSet
<1>7. AfterCode(t, given, total) =
        IF t.status # "not_finished" THEN t
        ELSE [size |-> size, done |-> done, over |-> over, status |-> code.status]
  BY DEF AfterCode, size, code, done, over
<1>8. CASE t.status # "not_finished"
  BY <1>7, <1>8
<1>9. CASE t.status = "not_finished"
  BY <1>6, <1>7, <1>9
<1>10. QED
  BY <1>8, <1>9

LEMMA AfterCodeNext ==
  ASSUME NEW given \in Nat, NEW total \in Nat, given <= total, NEW k \in Nat, NEW t,
         Decoding(t, k, given, total)
  PROVE  Decoding(AfterCode(t, given, total), k + 1, given, total)
<1> DEFINE room == RoomLeft(2 * t.size, t.done)
           more == given - t.done
           n == Min({room, more})
           u == AfterCode(t, given, total)
<1>1. /\ t.size \in Nat \ {0} /\ t.done \in 0..given /\ t.over = 0
      /\ t.status \in {"not_finished", "finished", "needs_input"}
      /\ t.status = "not_finished" => t.done >= k /\ t.done <= t.size
      /\ t.status = "finished" => t.done = total
      /\ t.status = "needs_input" => given # total
  BY DEF Decoding
<1>2. CASE t.status # "not_finished"
  <2>1. u = t
    BY <1>2 DEF AfterCode
  <2>2. QED
    BY <1>1, <1>2, <2>1 DEF Decoding
<1>3. CASE t.status = "not_finished"
  <2>1. room = 2 * t.size - t.done /\ room \in Nat /\ room >= 1 /\ more \in Nat /\ room \in Int /\ more \in Int
    BY <1>1, <1>3 DEF RoomLeft
  <2> DEFINE status == IF n = room /\ t.done + n < total THEN "not_finished"
                       ELSE IF t.done + n = total THEN "finished" ELSE "needs_input"
             over == Max({t.over, t.done + n - 2 * t.size})
  <2>2. u = [size |-> 2 * t.size, done |-> t.done + n, over |-> over, status |-> status]
    BY <1>3 DEF AfterCode, XzCode
  <2> HIDE DEF room, more
  <2>3. n \in {room, more} /\ n <= room /\ n <= more
    BY <2>1, MinOfTwo
  <2>4. n \in Nat
    BY <2>1, <2>3
  <2> HIDE DEF n
  <2>5. t.done + n - 2 * t.size \in Int /\ t.done + n - 2 * t.size <= 0
    BY <1>1, <2>1, <2>3, <2>4
  <2>6. over = 0
    <3> DEFINE d == t.done + n - 2 * t.size
    <3>1. d \in Int /\ d <= 0 /\ t.over = 0
      BY <1>1, <2>5
    <3> HIDE DEF d
    <3>2. Max({0, d}) \in {0, d} /\ Max({0, d}) >= 0
      BY <3>1, MaxOfTwo
    <3>3. Max({0, d}) = 0
      BY <3>1, <3>2
    <3>4. QED
      BY <3>1, <3>3 DEF d
  <2> HIDE DEF over
  <2>7. u.size = 2 * t.size /\ u.done = t.done + n /\ u.over = 0 /\ u.status = status
    BY <2>2, <2>6
  <2>8. u.done \in 0..given /\ u.size \in Nat \ {0}
    BY <1>1, <2>3, <2>4, <2>7 DEF more
  <2>9. u.status = "not_finished" => u.done >= k + 1 /\ u.done <= u.size /\ u.done < total
    <3>1. ASSUME u.status = "not_finished" PROVE n = room /\ u.done < total
      BY <2>7, <3>1
    <3>2. n = room => u.done = u.size /\ u.done >= k + 1
      BY <1>1, <1>3, <2>1, <2>7
    <3>3. QED
      BY <2>8, <3>1, <3>2
  <2>10. u.status = "finished" => u.done = total
    BY <2>7
  <2>11. u.status = "needs_input" => given # total
    <3>1. ASSUME u.status = "needs_input", given = total PROVE FALSE
      <4>1. ~(n = room /\ t.done + n < total) /\ t.done + n # total
        BY <2>7, <3>1
      <4>2. n = more => t.done + n = total
        BY <1>1, <2>4, <3>1 DEF more
      <4>3. n = room /\ t.done + n >= total
        BY <1>1, <2>3, <2>4, <4>1, <4>2
      <4>4. t.done + n <= total
        BY <2>7, <2>8, <3>1
      <4>5. QED
        BY <1>1, <2>4, <4>1, <4>3, <4>4
    <3>2. QED
      BY <3>1
  <2>12. u.status \in {"not_finished", "finished", "needs_input"}
    BY <2>7
  <2> HIDE DEF u
  <2>13. Decoding(u, k + 1, given, total)
    BY <2>7, <2>8, <2>9, <2>10, <2>11, <2>12 DEF Decoding
  <2>14. QED
    BY <2>13 DEF u
<1>4. QED
  BY <1>2, <1>3

StartOfDecoding(src) == [size |-> 2 * src, done |-> 0, over |-> 0, status |-> "not_finished"]
Decoded(src, given, total) ==
  CHOOSE g : g = [k \in 0..total + 1 |->
    IF k = 0 THEN [size |-> 2 * src, done |-> 0, over |-> 0, status |-> "not_finished"]
    ELSE AfterCode(g[k - 1], given, total)]

LEMMA DecodedStep ==
  ASSUME NEW src \in Nat \ {0}, NEW total \in Nat, NEW given \in Nat
  PROVE  LET g == Decoded(src, given, total)
         IN /\ g[0] = StartOfDecoding(src)
            /\ \A k \in 1..total + 1 : g[k] = AfterCode(g[k - 1], given, total)
<1> DEFINE b == StartOfDecoding(src)
           n == total + 1
           Next(s) == AfterCode(s, given, total)
           step == [x \in (1..n) \X DecodedSet |-> Next(x[2])]
           Solves(g) == g = [i \in 0..n |-> IF i = 0 THEN b ELSE Next(g[i - 1])]
           t == Decoded(src, given, total)
<1>1. step \in [(1..n) \X DecodedSet -> DecodedSet]
  <2>1. \A s \in DecodedSet : Next(s) \in DecodedSet
    BY AfterCodeType
  <2> HIDE DEF Next
  <2>2. QED
    BY <2>1
<1>2. b \in DecodedSet /\ n \in Nat
  BY DEF StartOfDecoding, DecodedSet
<1>3. \A i \in 1..n, s \in DecodedSet : step[<<i, s>>] = Next(s)
  <2> HIDE DEF Next
  <2>1. QED
    OBVIOUS
<1>4. t = CHOOSE g : Solves(g)
  BY DEF Decoded, StartOfDecoding
<1> HIDE DEF step, b, t, n, Next
<1>5. PICK g : Steps(n, DecodedSet, b, step, g)
  BY <1>1, <1>2, StepsExist
<1>6. g \in [0..n -> DecodedSet] /\ g[0] = b /\ \A k \in 1..n : g[k] = step[<<k, g[k - 1]>>]
  BY <1>5 DEF Steps
<1>7. \A k \in 1..n : g[k] = Next(g[k - 1])
  <2> TAKE k \in 1..n
  <2>1. k - 1 \in 0..n
    BY <1>2
  <2>2. QED
    BY <1>3, <1>6, <2>1
<1>8. Solves(g)
  BY <1>2, <1>6, <1>7
<1>9. Solves(t)
  <2> HIDE DEF Solves
  <2>1. QED
    BY <1>4, <1>8
<1>10. t[0] = b /\ \A k \in 1..n : t[k] = Next(t[k - 1])
  <2>1. t = [i \in 0..n |-> IF i = 0 THEN b ELSE Next(t[i - 1])]
    BY <1>9
  <2>2. QED
    BY <1>2, <2>1
<1>11. QED
  BY <1>10 DEF t, b, n, Next

(* xcd_util_xz_decompress: an image of any size, of which any part can be decoded, is decompressed whole,
   within the buffer, or not used. *)
THEOREM ImageOfAnySize ==
  ASSUME NEW c, c.src \in Nat \ {0}, c.total \in Nat, c.given \in 0..c.total
  PROVE  DecompressedWhole(c)
<1> DEFINE given == c.given
           total == c.total
           n == total + 1
           t == Decoded(c.src, given, total)
           S == {k \in 0..n : Decoding(t[k], k, given, total)}
<1>1. total \in Nat /\ given \in Nat /\ given <= total /\ n \in Nat
  OBVIOUS
<1>2. t[0] = StartOfDecoding(c.src) /\ \A k \in 1..n : t[k] = AfterCode(t[k - 1], given, total)
  BY <1>1, DecodedStep
<1>3. XzDecompress(c.src, given, total) = t[n]
  BY DEF XzDecompress, Decoded
<1> HIDE DEF t, n, total, given
<1>4. 0 \in S
  <2> DEFINE s == StartOfDecoding(c.src)
  <2>1. s.size = 2 * c.src /\ s.done = 0 /\ s.over = 0 /\ s.status = "not_finished"
    BY DEF StartOfDecoding
  <2> HIDE DEF s
  <2>2. Decoding(s, 0, given, total)
    BY <1>1, <2>1 DEF Decoding
  <2>3. QED
    BY <1>1, <1>2, <2>2 DEF s
<1>5. ASSUME NEW k \in 1..n, k - 1 \in S PROVE k \in S
  <2>1. Decoding(t[k - 1], k - 1, given, total) /\ k - 1 \in Nat /\ (k - 1) + 1 = k
    BY <1>1, <1>5
  <2>2. Decoding(t[k], k, given, total)
    <3>1. Decoding(AfterCode(t[k - 1], given, total), (k - 1) + 1, given, total)
      BY <1>1, <2>1, AfterCodeNext
    <3>2. QED
      BY <1>2, <2>1, <3>1
  <2>3. QED
    BY <1>1, <2>2
<1>6. 0..n \subseteq S
  <2> HIDE DEF S
  <2>1. QED
    BY <1>1, <1>4, <1>5, UpTo
<1> DEFINE r == t[n]
<1>7. Decoding(r, n, given, total) /\ n = total + 1
  <2>1. n \in S
    BY <1>1, <1>6
  <2>2. QED
    BY <2>1 DEF n
<1> HIDE DEF r
<1>8. /\ r.done \in 0..given /\ r.over = 0 /\ r.status \in {"not_finished", "finished", "needs_input"}
      /\ r.status # "not_finished"
      /\ r.status = "finished" => r.done = total
      /\ r.status = "needs_input" => given # total
  BY <1>1, <1>7 DEF Decoding
<1>9. r.status = "finished" <=> given = total
  BY <1>1, <1>8
<1>10. QED
  BY <1>3, <1>8, <1>9 DEF DecompressedWhole, r, given, total

-----------------------------------------------------------------------------
(* Symbols *)

\* A readable symbol of a function with a name around the address, and what is shown of it.
Knows(tables, k, i, addr) ==
  LET s == tables[k].syms[i] IN
  k \in DOMAIN tables /\ i \in ReadableSyms(tables[k]) /\ Around(s, addr) /\ s.name # NoName
InFunction(s, addr) == [name |-> s.name, offset |-> addr - s.start]

LEMMA ReadableSymsAre ==
  ASSUME NEW tables, SymbolsOf(tables), NEW k \in DOMAIN tables
  PROVE  ReadableSyms(tables[k]) \subseteq 1..Len(tables[k].syms) /\ ReadableSyms(tables[k]) \in SUBSET Nat
<1> DEFINE t == tables[k]
<1>1. t \in ToSet(tables)
  BY DEF ToSet
<1>2. t.readable \in Nat /\ Len(t.syms) \in Nat
  BY <1>1 DEF SymbolsOf
<1> DEFINE a == t.readable
           b == Len(t.syms)
           m == Min({a, b})
<1> HIDE DEF t
<1>3. m \in Nat /\ m <= Len(t.syms)
  <2>1. a \in Nat /\ b \in Nat /\ a \in Int /\ b \in Int
    BY <1>2
  <2> HIDE DEF a, b
  <2>2. m \in {a, b} /\ m <= b
    BY <2>1, MinOfTwo
  <2>3. m \in Nat /\ m <= b
    BY <2>1, <2>2
  <2>4. QED
    BY <2>3 DEF b
<1>4. ReadableSyms(t) = 1..m
  BY DEF ReadableSyms
<1> HIDE DEF m
<1>5. QED
  BY <1>2, <1>3, <1>4 DEF t

LEMMA FunctionInfoIs ==
  ASSUME NEW tables, SymbolsOf(tables), NEW addr \in Nat
  PROVE  \/ \E k, i : Knows(tables, k, i, addr) /\ FunctionInfo(tables, addr) = InFunction(tables[k].syms[i], addr)
         \/ (\A k, i : ~Knows(tables, k, i, addr)) /\ FunctionInfo(tables, addr) = NotFound(0)
<1> DEFINE over(t) == {i \in ReadableSyms(t) : Around(t.syms[i], addr)}
           hits(t) == {i \in over(t) : t.syms[i].name # NoName}
           seen == {k \in DOMAIN tables : over(tables[k]) # {}}
           found == {k \in DOMAIN tables : hits(tables[k]) # {}}
           k0 == Min(found)
           i0 == Min(hits(tables[k0]))
<1>1. \A k \in DOMAIN tables : \A i : i \in hits(tables[k]) <=> Knows(tables, k, i, addr)
  BY DEF Knows
<1>2. found \in SUBSET Nat
  BY DEF SymbolsOf
<1>3. \A k \in DOMAIN tables : hits(tables[k]) \in SUBSET Nat
  BY ReadableSymsAre
<1>4. \E x : FunctionInfo(tables, addr) =
        IF found # {} THEN InFunction(tables[k0].syms[i0], addr) ELSE NotFound(x)
  <2> DEFINE last == tables[Max(seen)]
             x == IF seen = {} THEN 0 ELSE addr - last.syms[Max(over(last))].start
  <2>1. FunctionInfo(tables, addr) = IF found # {} THEN InFunction(tables[k0].syms[i0], addr) ELSE NotFound(x)
    BY DEF FunctionInfo, InFunction
  <2> HIDE DEF x, found, k0, i0
  <2>2. QED
    BY <2>1
<1>5. CASE found = {}
  <2>1. \A k, i : ~Knows(tables, k, i, addr)
    BY <1>1, <1>5 DEF Knows
  <2>2. FunctionInfo(tables, addr) = NotFound(0)
    BY <1>4, <1>5 DEF NotFound
  <2>3. QED
    BY <2>1, <2>2
<1>6. CASE found # {}
  <2>1. k0 \in found
    <3> HIDE DEF found
    <3>1. QED
      BY <1>2, <1>6, LeastOf
  <2>2. k0 \in DOMAIN tables /\ hits(tables[k0]) # {}
    BY <2>1
  <2>3. i0 \in hits(tables[k0])
    <3> DEFINE h == hits(tables[k0])
    <3>1. h \in SUBSET Nat /\ h # {}
      BY <1>3, <2>2
    <3> HIDE DEF h
    <3>2. Min(h) \in h
      BY <3>1, LeastOf
    <3>3. QED
      BY <3>2 DEF h
  <2>4. Knows(tables, k0, i0, addr)
    BY <1>1, <2>2, <2>3
  <2>5. FunctionInfo(tables, addr) = InFunction(tables[k0].syms[i0], addr)
    BY <1>4, <1>6
  <2>6. QED
    BY <2>4, <2>5
<1>7. QED
  BY <1>5, <1>6

(* xcd_elf_get_function_info: a frame gets the name and the offset of one function around its pc, and
   neither if no readable table knows one, whatever the tables. *)
THEOREM FunctionOfAnyPc ==
  ASSUME NEW c, SymbolsOf(c.tables), SymbolsOf(c.gnu), c.addr \in Nat
  PROVE  FunctionAroundPc(c)
<1> DEFINE a == c.addr
           tables == c.tables
           gnu == c.gnu
           f == ElfFunctionInfo(tables, gnu, a)
           syms(t) == {t.syms[i] : i \in ReadableSyms(t)}
           all == UNION {syms(t) : t \in ToSet(tables) \cup ToSet(gnu)}
           known == {s \in all : s.kind = "func" /\ s.name # NoName /\ a \in s.start..(s.start + s.size - 1)}
<1>1. ASSUME NEW ts \in {tables, gnu}, NEW k, NEW i, Knows(ts, k, i, a)
      PROVE  ts[k].syms[i] \in known
  <2> DEFINE t == ts[k]
             s == t.syms[i]
  <2>1. k \in DOMAIN ts /\ i \in ReadableSyms(t) /\ Around(s, a) /\ s.name # NoName
    BY <1>1 DEF Knows
  <2>2. t \in ToSet(ts)
    BY <2>1 DEF ToSet
  <2>3. s \in all
    <3>1. t \in ToSet(tables) \cup ToSet(gnu)
      BY <2>2
    <3>2. s \in syms(t)
      BY <2>1
    <3> HIDE DEF syms, s, t
    <3>3. QED
      BY <3>1, <3>2
  <2>4. s.start \in Nat /\ s.size \in Nat
    <3>1. SymbolsOf(ts)
      OBVIOUS
    <3>2. i \in 1..Len(t.syms)
      BY <2>1, <3>1, ReadableSymsAre
    <3>3. QED
      BY <2>2, <3>1, <3>2 DEF SymbolsOf
  <2> HIDE DEF s, all
  <2>5. s.kind = "func" /\ a \in s.start..(s.start + s.size - 1)
    BY <2>1, <2>4 DEF Around
  <2>6. QED
    BY <2>1, <2>3, <2>5 DEF s
<1>2. ASSUME NEW s \in known PROVE \E ts \in {tables, gnu} : \E k, i : Knows(ts, k, i, a)
  <2>1. PICK t \in ToSet(tables) \cup ToSet(gnu) : s \in syms(t)
    <3> HIDE DEF syms
    <3>1. QED
      OBVIOUS
  <2>2. PICK ts \in {tables, gnu} : t \in ToSet(ts)
    BY <2>1
  <2>3. PICK k \in DOMAIN ts : t = ts[k]
    BY <2>2 DEF ToSet
  <2>4. PICK i \in ReadableSyms(t) : s = t.syms[i]
    BY <2>1
  <2>5. s.start \in Nat /\ s.size \in Nat
    <3>1. SymbolsOf(ts)
      OBVIOUS
    <3>2. i \in 1..Len(t.syms)
      BY <2>3, <2>4, <3>1, ReadableSymsAre
    <3>3. QED
      BY <2>2, <2>4, <3>1, <3>2 DEF SymbolsOf
  <2>6. s.kind = "func" /\ s.name # NoName /\ a \in s.start..(s.start + s.size - 1)
    OBVIOUS
  <2> HIDE DEF known
  <2>7. Around(s, a)
    BY <2>5, <2>6 DEF Around
  <2>8. Knows(ts, k, i, a)
    BY <2>3, <2>4, <2>6, <2>7 DEF Knows
  <2>9. QED
    BY <2>8
<1>3. ASSUME NEW ts \in {tables, gnu}
      PROVE  \/ \E s \in known : FunctionInfo(ts, a) = InFunction(s, a) /\ s.name # NoName
             \/ (\A k, i : ~Knows(ts, k, i, a)) /\ FunctionInfo(ts, a) = NotFound(0)
  <2>1. SymbolsOf(ts) /\ a \in Nat
    OBVIOUS
  <2> HIDE DEF known, a, tables, gnu
  <2>2. CASE \E k, i : Knows(ts, k, i, a) /\ FunctionInfo(ts, a) = InFunction(ts[k].syms[i], a)
    <3>1. PICK k, i : Knows(ts, k, i, a) /\ FunctionInfo(ts, a) = InFunction(ts[k].syms[i], a)
      BY <2>2
    <3>2. ts[k].syms[i] \in known
      BY <1>1, <3>1
    <3>3. ts[k].syms[i].name # NoName
      BY <3>1 DEF Knows
    <3>4. QED
      BY <3>1, <3>2, <3>3
  <2>3. CASE (\A k, i : ~Knows(ts, k, i, a)) /\ FunctionInfo(ts, a) = NotFound(0)
    BY <2>3
  <2>4. QED
    BY <2>1, <2>2, <2>3, FunctionInfoIs
<1>4. f = IF FunctionInfo(tables, a).name # NoName THEN FunctionInfo(tables, a) ELSE FunctionInfo(gnu, a)
  BY DEF ElfFunctionInfo
<1>5. FunctionAroundPc(c) <=>
        IF known = {} THEN f = NotFound(0) ELSE \E s \in known : f = InFunction(s, a)
  BY DEF FunctionAroundPc, NotFound, InFunction
<1>6. \A s : InFunction(s, a).name = s.name
  BY DEF InFunction
<1>7. NotFound(0).name = NoName
  BY DEF NotFound
<1> HIDE DEF known, f, a, tables, gnu
<1>8. CASE \E s \in known : FunctionInfo(tables, a) = InFunction(s, a) /\ s.name # NoName
  BY <1>4, <1>5, <1>6, <1>8
<1>9. CASE (\A k, i : ~Knows(tables, k, i, a)) /\ FunctionInfo(tables, a) = NotFound(0)
  <2>1. f = FunctionInfo(gnu, a)
    BY <1>4, <1>7, <1>9
  <2>2. CASE \E s \in known : FunctionInfo(gnu, a) = InFunction(s, a) /\ s.name # NoName
    BY <1>5, <2>1, <2>2
  <2>3. CASE (\A k, i : ~Knows(gnu, k, i, a)) /\ FunctionInfo(gnu, a) = NotFound(0)
    <3>1. known = {}
      BY <1>2, <1>9, <2>3
    <3>2. QED
      BY <1>5, <2>1, <2>3, <3>1
  <2>4. QED
    BY <1>3, <2>2, <2>3
<1>10. QED
  BY <1>3, <1>8, <1>9

-----------------------------------------------------------------------------
(* Section headers *)

LEMMA NoNameOfSection == NoName # ".note.gnu.build-id" /\ NoName # "?"
BY Zenon DEF NoName

SectionFields == {"bias", "hdr", "eh", "debug", "gnu", "note", "symbols", "strtabs", "readable", "status"}


StringTables(sh) == {j \in DOMAIN sh : sh[j].type = "STRTAB"}

\* What one section header does to what was found.
HeaderRead(u, e, sh, names, i) ==
  /\ DOMAIN u = SectionFields
  /\ u.hdr \in {e.hdr, TableOf(sh[i])}
  /\ u.eh = IF sh[i].type = "PROGBITS" /\ names[i] = ".eh_frame" THEN TableOf(sh[i]) ELSE e.eh
  /\ u.symbols = e.symbols
     \/ \E j \in StringTables(sh) : u.symbols = Append(e.symbols, [table |-> i, strings |-> j])
  /\ u.readable = e.readable
  /\ u.status \in {e.status, "error"}

LEMMA ReadSectionIs ==
  ASSUME NEW e, DOMAIN e = SectionFields, NEW sh, NEW names, NEW i
  PROVE  HeaderRead(ReadSection(e, sh, names, i), e, sh, names, i)
<1> DEFINE h == sh[i]
           named == names[i]
           linked == h.link \in DOMAIN sh /\ sh[h.link].type = "STRTAB"
           one == [table |-> i, strings |-> h.link]
           syms == IF h.link \in DOMAIN sh /\ h.link > e.readable THEN [e EXCEPT !.status = "error"]
                   ELSE IF linked THEN [e EXCEPT !.symbols = Append(@, one)] ELSE e
           u == ReadSection(e, sh, names, i)
           table == TableOf(h)
           bias == [table EXCEPT !.bias = e.bias]
           note == [offset |-> h.offset, size |-> h.size]
           Is(type, name) == h.type = type /\ named = name
           Same(d) == /\ DOMAIN d = SectionFields /\ d.hdr = e.hdr /\ d.eh = e.eh
                      /\ d.readable = e.readable /\ d.status \in {e.status, "error"}
                      /\ d.symbols = e.symbols
                         \/ \E j \in StringTables(sh) : d.symbols = Append(e.symbols, [table |-> i, strings |-> j])
<1>1. Same(syms)
  <2>1. CASE h.link \in DOMAIN sh /\ h.link > e.readable
    <3>1. syms = [e EXCEPT !.status = "error"]
      BY <2>1
    <3> HIDE DEF syms
    <3>2. QED
      BY <3>1 DEF SectionFields
  <2>2. CASE ~(h.link \in DOMAIN sh /\ h.link > e.readable) /\ linked
    <3>1. syms = [e EXCEPT !.symbols = Append(@, one)]
      BY <2>2
    <3>2. h.link \in StringTables(sh)
      BY <2>2 DEF StringTables
    <3> HIDE DEF syms
    <3>3. syms.symbols = Append(e.symbols, [table |-> i, strings |-> h.link])
      BY <3>1 DEF SectionFields
    <3>4. DOMAIN syms = SectionFields /\ syms.hdr = e.hdr /\ syms.eh = e.eh
          /\ syms.readable = e.readable /\ syms.status = e.status
      BY <3>1 DEF SectionFields
    <3>5. QED
      BY <3>2, <3>3, <3>4
  <2>3. CASE ~(h.link \in DOMAIN sh /\ h.link > e.readable) /\ ~linked
    <3>1. syms = e
      BY <2>3
    <3> HIDE DEF syms
    <3>2. QED
      BY <3>1
  <2>4. QED
    BY <2>1, <2>2, <2>3
<1>2. u = CASE h.type \in {"SYMTAB", "DYNSYM"} -> syms
            [] Is("NOTE", ".note.gnu.build-id") -> [syms EXCEPT !.note = note]
            [] h.type = "NOTE" /\ named \in {NoName, "?"} -> e
            [] h.type = "STRTAB" -> [e EXCEPT !.strtabs = Append(@, i)]
            [] Is("PROGBITS", "?") -> [e EXCEPT !.status = "error"]
            [] Is("PROGBITS", ".debug_frame") -> [e EXCEPT !.debug = bias]
            [] Is("PROGBITS", ".eh_frame") -> [e EXCEPT !.eh = table]
            [] h.type = "PROGBITS" /\ named = ".eh_frame_hdr" /\ e.hdr.offset = 0 -> [e EXCEPT !.hdr = table]
            [] Is("PROGBITS", ".gnu_debugdata") -> [e EXCEPT !.gnu = table]
            [] h.type = "NOTE" /\ named \notin {".note.gnu.build-id", NoName, "?"} -> syms
            [] OTHER -> e
  BY DEF ReadSection
<1> HIDE DEF u, syms, bias, note, table
<1> SUFFICES HeaderRead(u, e, sh, names, i)
  BY DEF u
<1>3. Same(e)
  OBVIOUS
<1>4. CASE h.type = "PROGBITS"
  <2>1. u = CASE named = "?" -> [e EXCEPT !.status = "error"]
              [] named = ".debug_frame" -> [e EXCEPT !.debug = bias]
              [] named = ".eh_frame" -> [e EXCEPT !.eh = table]
              [] named = ".eh_frame_hdr" /\ e.hdr.offset = 0 -> [e EXCEPT !.hdr = table]
              [] named = ".gnu_debugdata" -> [e EXCEPT !.gnu = table]
              [] OTHER -> e
    BY <1>2, <1>4
  <2> HIDE DEF Same
  <2>2. CASE named = "?"
    <3>1. u = [e EXCEPT !.status = "error"]
      BY <2>1, <2>2
    <3>2. QED
      BY <1>4, <2>2, <3>1 DEF HeaderRead, SectionFields
  <2>3. CASE named = ".debug_frame"
    <3>1. u = [e EXCEPT !.debug = bias]
      BY <2>1, <2>3
    <3>2. QED
      BY <1>4, <2>3, <3>1 DEF HeaderRead, SectionFields
  <2>4. CASE named = ".eh_frame"
    <3>1. u = [e EXCEPT !.eh = table]
      BY <2>1, <2>4
    <3>2. QED
      BY <1>4, <2>4, <3>1 DEF HeaderRead, SectionFields, table
  <2>5. CASE named = ".eh_frame_hdr" /\ e.hdr.offset = 0
    <3>1. u = [e EXCEPT !.hdr = table]
      BY <2>1, <2>5
    <3>2. QED
      BY <1>4, <2>5, <3>1 DEF HeaderRead, SectionFields, table
  <2>6. CASE named = ".gnu_debugdata"
    <3>1. u = [e EXCEPT !.gnu = table]
      BY <2>1, <2>6
    <3>2. QED
      BY <1>4, <2>6, <3>1 DEF HeaderRead, SectionFields
  <2>7. CASE named \notin {"?", ".debug_frame", ".eh_frame", ".gnu_debugdata"}
             /\ ~(named = ".eh_frame_hdr" /\ e.hdr.offset = 0)
    <3>1. u = e
      BY <2>1, <2>7
    <3>2. QED
      BY <1>4, <2>7, <3>1 DEF HeaderRead, SectionFields
  <2>8. QED
    BY <2>2, <2>3, <2>4, <2>5, <2>6, <2>7
<1>5. ASSUME h.type # "PROGBITS", NEW d, Same(d), u = d PROVE HeaderRead(u, e, sh, names, i)
  BY <1>5 DEF HeaderRead
<1>6. CASE h.type \in {"SYMTAB", "DYNSYM"}
  <2>1. u = syms /\ h.type # "PROGBITS"
    BY <1>2, <1>6
  <2> HIDE DEF Same
  <2>2. QED
    BY <1>1, <1>5, <2>1
<1>7. CASE h.type = "NOTE"
  <2>1. u = CASE named = ".note.gnu.build-id" -> [syms EXCEPT !.note = note]
              [] named \in {NoName, "?"} -> e
              [] named \notin {".note.gnu.build-id", NoName, "?"} -> syms
              [] OTHER -> e
    BY <1>2, <1>7
  <2>2. CASE named = ".note.gnu.build-id"
    <3>1. u = [syms EXCEPT !.note = note]
      BY <2>1, <2>2, NoNameOfSection
    <3>2. Same(u)
      BY <1>1, <3>1 DEF SectionFields
    <3> HIDE DEF Same
    <3>3. h.type # "PROGBITS"
      BY <1>7
    <3>4. QED
      BY <1>5, <3>2, <3>3
  <2>3. CASE named \in {NoName, "?"}
    <3>1. u = e /\ h.type # "PROGBITS"
      BY <1>7, <2>1, <2>3, NoNameOfSection
    <3> HIDE DEF Same
    <3>2. QED
      BY <1>3, <1>5, <3>1
  <2>4. CASE named \notin {".note.gnu.build-id", NoName, "?"}
    <3>1. u = syms /\ h.type # "PROGBITS"
      BY <1>7, <2>1, <2>4, NoNameOfSection
    <3> HIDE DEF Same
    <3>2. QED
      BY <1>1, <1>5, <3>1
  <2>5. QED
    BY <2>2, <2>3, <2>4
<1>8. CASE h.type = "STRTAB"
  <2>1. u = [e EXCEPT !.strtabs = Append(@, i)] /\ h.type # "PROGBITS"
    BY <1>2, <1>8
  <2>2. Same(u)
    BY <2>1 DEF SectionFields
  <2> HIDE DEF Same
  <2>3. QED
    BY <1>5, <2>1, <2>2
<1>9. CASE h.type \notin {"SYMTAB", "DYNSYM", "NOTE", "STRTAB", "PROGBITS"}
  <2>1. u = e /\ h.type # "PROGBITS"
    BY <1>2, <1>9
  <2> HIDE DEF Same
  <2>2. QED
    BY <1>3, <1>5, <2>1
<1>10. QED
  BY <1>4, <1>6, <1>7, <1>8, <1>9


Sections(p, sh, names, readable) ==
  CHOOSE g : g = [i \in 0..Len(sh) |->
    IF i = 0 THEN NoSections(p, readable) ELSE AfterSection(g[i - 1], sh, names, i)]

LEMMA SectionsStep ==
  ASSUME NEW p, NEW sh, NEW names, NEW readable, Len(sh) \in Nat
  PROVE  LET g == Sections(p, sh, names, readable)
         IN /\ g[0] = NoSections(p, readable)
            /\ \A k \in 1..Len(sh) : g[k] = AfterSection(g[k - 1], sh, names, k)
<1> DEFINE b == NoSections(p, readable)
           n == Len(sh)
           Next(e, k) == AfterSection(e, sh, names, k)
           Upto(m, g) == g[0] = b /\ \A k \in 1..m : g[k] = Next(g[k - 1], k)
           S == {m \in 0..n : \E g : Upto(m, g)}
           Solves(g) == g = [i \in 0..n |-> IF i = 0 THEN b ELSE Next(g[i - 1], i)]
           t == Sections(p, sh, names, readable)
<1>1. n \in Nat
  OBVIOUS
<1>2. t = CHOOSE g : Solves(g)
  BY DEF Sections
<1> HIDE DEF b, n, t, Next
<1>3. 0 \in S
  <2> DEFINE g == [i \in 0..0 |-> b]
  <2>1. Upto(0, g) /\ 0 \in 0..n
    BY <1>1
  <2>2. QED
    BY <2>1
<1>4. ASSUME NEW m \in 1..n, m - 1 \in S PROVE m \in S
  <2>1. PICK g : Upto(m - 1, g)
    BY <1>4
  <2> DEFINE last == Next(g[m - 1], m)
             f == [i \in 0..m |-> IF i = m THEN last ELSE g[i]]
  <2>2. m \in Nat /\ m >= 1
    BY <1>1
  <2> HIDE DEF last
  <2>3. f[m] = last /\ \A i \in 0..m - 1 : f[i] = g[i]
    BY <2>2
  <2> HIDE DEF f
  <2>4. f[0] = b
    BY <2>1, <2>2, <2>3
  <2>5. ASSUME NEW k \in 1..m PROVE f[k] = Next(f[k - 1], k)
    <3>1. CASE k = m
      BY <2>2, <2>3, <3>1 DEF last
    <3>2. CASE k # m
      <4>1. k \in 1..m - 1 /\ k - 1 \in 0..m - 1 /\ k \in 0..m - 1
        BY <2>2, <3>2
      <4>2. QED
        BY <2>1, <2>3, <4>1
    <3>3. QED
      BY <3>1, <3>2
  <2>6. Upto(m, f)
    BY <2>4, <2>5
  <2> HIDE DEF Upto
  <2>7. QED
    BY <1>1, <2>6
<1>5. n \in S
  <2> HIDE DEF S
  <2>1. QED
    BY <1>1, <1>3, <1>4, UpTo
<1>6. PICK g : Upto(n, g)
  BY <1>5
<1> DEFINE f == [i \in 0..n |-> g[i]]
<1>7. \A i \in 1..n : i \in 0..n /\ i - 1 \in 0..n
  BY <1>1
<1>8. f = [i \in 0..n |-> IF i = 0 THEN b ELSE Next(f[i - 1], i)]
  <2>1. \A i \in 0..n : f[i] = g[i]
    OBVIOUS
  <2> HIDE DEF f
  <2>2. \A i \in 0..n : f[i] = IF i = 0 THEN b ELSE Next(f[i - 1], i)
    <3> TAKE i \in 0..n
    <3>1. CASE i = 0
      BY <1>6, <2>1, <3>1
    <3>2. CASE i # 0
      <4>1. i \in 1..n
        BY <1>1, <3>2
      <4>2. QED
        BY <1>6, <1>7, <2>1, <3>2, <4>1
    <3>3. QED
      BY <3>1, <3>2
  <2>3. f = [i \in 0..n |-> f[i]]
    BY DEF f
  <2>4. QED
    BY <2>2, <2>3
<1>9. Solves(f)
  <2> HIDE DEF f
  <2>1. QED
    BY <1>8
<1>10. Solves(t)
  <2> HIDE DEF Solves, f
  <2>1. QED
    BY <1>2, <1>9
<1>11. t[0] = b /\ \A k \in 1..n : t[k] = Next(t[k - 1], k)
  BY <1>1, <1>7, <1>10
<1>12. QED
  BY <1>11 DEF t, b, n, Next

\* The tables that the headers of a call describe.
Described(c) == {TableOf(c.ph[i]) : i \in DOMAIN c.ph} \cup {TableOf(c.sh[i]) : i \in DOMAIN c.sh}

\* What is known after the first k section headers.
SectionsRead(e, k, c) ==
  /\ DOMAIN e = SectionFields
  /\ e.hdr \in Described(c) \cup {NoTable} /\ e.eh \in Described(c) \cup {NoTable}
  /\ e.symbols \in Seq([table : Nat, strings : StringTables(c.sh)])
  /\ e.readable = c.readable
  /\ e.status \in {"ok", "error"}
  /\ e.status = "ok" /\ (\E j \in 1..k : c.names[j] = ".eh_frame" /\ c.sh[j].type = "PROGBITS")
       => e.eh.offset # 0 /\ e.eh.size # 0

LEMMA SectionsReadNext ==
  ASSUME NEW c, HeadersOf(c.sh), NEW k \in 1..Len(c.sh), NEW e, SectionsRead(e, k - 1, c),
         \A i \in DOMAIN c.sh : c.names[i] = ".eh_frame" => c.sh[i].offset # 0 /\ c.sh[i].size # 0
  PROVE  SectionsRead(AfterSection(e, c.sh, c.names, k), k, c)
<1> DEFINE u == AfterSection(e, c.sh, c.names, k)
           Frame(j) == c.names[j] = ".eh_frame" /\ c.sh[j].type = "PROGBITS"
           Type == [table : Nat, strings : StringTables(c.sh)]
<1>1. /\ DOMAIN e = SectionFields
      /\ e.hdr \in Described(c) \cup {NoTable} /\ e.eh \in Described(c) \cup {NoTable}
      /\ e.symbols \in Seq(Type)
      /\ e.readable = c.readable
      /\ e.status \in {"ok", "error"}
      /\ e.status = "ok" /\ (\E j \in 1..k - 1 : Frame(j)) => e.eh.offset # 0 /\ e.eh.size # 0
  BY DEF SectionsRead
<1>2. k \in Nat /\ k \in DOMAIN c.sh /\ Len(c.sh) \in Nat
  BY DEF HeadersOf
<1>3. CASE e.status = "error"
  <2>1. u = e
    BY <1>3 DEF AfterSection
  <2> HIDE DEF u
  <2>2. SectionsRead(u, k, c)
    BY <1>1, <1>3, <2>1 DEF SectionsRead
  <2>3. QED
    BY <2>2 DEF u
<1>4. CASE e.status # "error" /\ k > e.readable
  <2>1. u = [e EXCEPT !.status = "error"]
    BY <1>4 DEF AfterSection
  <2> HIDE DEF u
  <2>2. /\ DOMAIN u = SectionFields /\ u.hdr = e.hdr /\ u.eh = e.eh /\ u.symbols = e.symbols
        /\ u.readable = e.readable /\ u.status = "error"
    BY <1>1, <2>1 DEF SectionFields
  <2>3. SectionsRead(u, k, c)
    BY <1>1, <2>2 DEF SectionsRead
  <2>4. QED
    BY <2>3 DEF u
<1>5. CASE e.status # "error" /\ ~(k > e.readable)
  <2>1. HeaderRead(u, e, c.sh, c.names, k)
    BY <1>1, <1>5, ReadSectionIs DEF AfterSection
  <2> HIDE DEF u, Frame, Type
  <2>2. TableOf(c.sh[k]) \in Described(c)
    BY <1>2 DEF Described
  <2>3. /\ DOMAIN u = SectionFields
        /\ u.hdr \in {e.hdr, TableOf(c.sh[k])}
        /\ u.eh = IF Frame(k) THEN TableOf(c.sh[k]) ELSE e.eh
        /\ u.readable = e.readable /\ u.status \in {e.status, "error"}
    BY <2>1 DEF HeaderRead, Frame
  <2>4. u.symbols \in Seq(Type)
    <3>1. CASE u.symbols = e.symbols
      BY <1>1, <3>1
    <3>2. ASSUME NEW j \in StringTables(c.sh), u.symbols = Append(e.symbols, [table |-> k, strings |-> j])
          PROVE  u.symbols \in Seq(Type)
      <4> DEFINE s == e.symbols
                 one == [table |-> k, strings |-> j]
      <4>1. one \in Type
        BY <1>2 DEF Type
      <4>2. s \in Seq(Type) /\ u.symbols = Append(s, one)
        BY <1>1, <3>2
      <4> HIDE DEF s, one
      <4>3. Append(s, one) \in Seq(Type)
        BY <4>1, <4>2
      <4>4. QED
        BY <4>2, <4>3
    <3>3. QED
      BY <2>1, <3>1, <3>2 DEF HeaderRead
  <2>5. Frame(k) => u.eh.offset # 0 /\ u.eh.size # 0
    <3>1. ASSUME Frame(k) PROVE c.sh[k].offset # 0 /\ c.sh[k].size # 0
      BY <1>2, <3>1 DEF Frame
    <3>2. TableOf(c.sh[k]).offset = c.sh[k].offset /\ TableOf(c.sh[k]).size = c.sh[k].size
      BY DEF TableOf
    <3>3. QED
      BY <2>3, <3>1, <3>2
  <2>6. u.status = "ok" /\ (\E j \in 1..k : Frame(j)) => u.eh.offset # 0 /\ u.eh.size # 0
    <3>1. CASE Frame(k)
      BY <2>5, <3>1
    <3>2. CASE ~Frame(k)
      <4>1. u.eh = e.eh /\ (u.status = "ok" => e.status = "ok")
        BY <2>3, <3>2
      <4>2. (\E j \in 1..k : Frame(j)) => \E j \in 1..k - 1 : Frame(j)
        <5>1. \A j \in 1..k : j = k \/ j \in 1..k - 1
          BY <1>2
        <5>2. QED
          BY <3>2, <5>1
      <4>3. QED
        BY <1>1, <4>1, <4>2
    <3>3. QED
      BY <3>1, <3>2
  <2>7. u.hdr \in Described(c) \cup {NoTable} /\ u.eh \in Described(c) \cup {NoTable}
    BY <1>1, <2>2, <2>3
  <2>8. u.readable = c.readable /\ u.status \in {"ok", "error"}
    BY <1>1, <2>3
  <2>9. SectionsRead(u, k, c)
    BY <2>3, <2>4, <2>6, <2>7, <2>8 DEF SectionsRead, Frame, Type
  <2>10. QED
    BY <2>9 DEF u
<1>6. QED
  BY <1>3, <1>4, <1>5


\* The exception table that the program headers name.
LEMMA HeaderTable ==
  ASSUME NEW c, HeadersOf(c.ph)
  PROVE  ProgramHeaders(c.ph).hdr \in Described(c) \cup {NoTable}
<1> DEFINE ph == c.ph
           s == {i \in DOMAIN ph : ph[i].type = "EH_FRAME"}
           p == ProgramHeaders(ph)
<1>1. p.hdr = IF s = {} THEN NoTable ELSE TableOf(ph[Max(s)])
  BY DEF ProgramHeaders
<1>2. s \in SUBSET Nat /\ (\A x \in s : x <= Len(ph)) /\ Len(ph) \in Nat /\ s \subseteq DOMAIN ph
  BY DEF HeadersOf
<1>3. s # {} => Max(s) \in s
  <2> HIDE DEF s, ph
  <2>1. QED
    BY <1>2, GreatestOf
<1> HIDE DEF p, s
<1>4. p.hdr \in Described(c) \cup {NoTable}
  <2>1. CASE s = {}
    BY <1>1, <2>1
  <2>2. CASE s # {}
    BY <1>1, <1>2, <1>3, <2>2 DEF Described
  <2>3. QED
    BY <2>1, <2>2
<1>5. QED
  BY <1>4 DEF p

(* xcd_elf_interface_read_section_headers: the unwinder of exceptions gets the table of one header, and
   one if a good one can be read, whatever the headers of the image and however many can be read. *)
THEOREM TablesOfAnyHeaders ==
  ASSUME NEW c, HeadersOf(c.ph), HeadersOf(c.sh), c.readable \in 0..Len(c.sh),
         \A i \in DOMAIN c.sh : c.names[i] = ".eh_frame" => c.sh[i].offset # 0 /\ c.sh[i].size # 0
  PROVE  TablesOfOneHeader(c)
<1> DEFINE p == ProgramHeaders(c.ph)
           sh == c.sh
           n == Len(sh)
           t == Sections(p, sh, c.names, c.readable)
           S == {k \in 0..n : SectionsRead(t[k], k, c)}
<1>1. n \in Nat /\ c.readable \in 0..n
  BY DEF HeadersOf
<1>2. t[0] = NoSections(p, c.readable) /\ \A k \in 1..n : t[k] = AfterSection(t[k - 1], sh, c.names, k)
  BY <1>1, SectionsStep
<1> DEFINE end == t[n]
           e == SectionHeaders(p, sh, c.names, c.readable)
<1>3. e = IF end.status = "error" THEN [end EXCEPT !.symbols = <<>>, !.strtabs = <<>>] ELSE end
  BY DEF SectionHeaders, Sections
<1> HIDE DEF e, t, n
<1>4. 0 \in S
  <2> DEFINE b == NoSections(p, c.readable)
  <2> HIDE DEF p
  <2>1. p.hdr \in Described(c) \cup {NoTable}
    BY HeaderTable DEF p
  <2>2. /\ b.hdr = p.hdr /\ b.eh = NoTable /\ b.symbols = <<>> /\ b.readable = c.readable
        /\ b.status = "ok" /\ DOMAIN b = SectionFields
    BY DEF NoSections, SectionFields
  <2> HIDE DEF b
  <2>3. ~(\E j \in 1..0 : c.names[j] = ".eh_frame" /\ c.sh[j].type = "PROGBITS")
    OBVIOUS
  <2> DEFINE Type == [table : Nat, strings : StringTables(c.sh)]
  <2>4. <<>> \in Seq(Type)
    <3> HIDE DEF Type
    <3>1. QED
      OBVIOUS
  <2>5. SectionsRead(b, 0, c)
    BY <2>1, <2>2, <2>3, <2>4 DEF SectionsRead
  <2>6. QED
    BY <1>1, <1>2, <2>5 DEF b
<1>5. ASSUME NEW k \in 1..n, k - 1 \in S PROVE k \in S
  <2>1. SectionsRead(t[k - 1], k - 1, c) /\ k \in 1..Len(c.sh)
    BY <1>5 DEF n
  <2>2. SectionsRead(AfterSection(t[k - 1], c.sh, c.names, k), k, c)
    BY <2>1, SectionsReadNext
  <2>3. t[k] = AfterSection(t[k - 1], c.sh, c.names, k)
    BY <1>2
  <2>4. k \in 0..n
    BY <1>1
  <2>5. QED
    BY <2>2, <2>3, <2>4
<1>6. 0..n \subseteq S
  <2> HIDE DEF S
  <2>1. QED
    BY <1>1, <1>4, <1>5, UpTo
<1>7. SectionsRead(end, n, c)
  BY <1>1, <1>6
<1> HIDE DEF end
<1> DEFINE Type == [table : Nat, strings : StringTables(c.sh)]
<1>8. /\ DOMAIN end = SectionFields
      /\ end.hdr \in Described(c) \cup {NoTable} /\ end.eh \in Described(c) \cup {NoTable}
      /\ end.symbols \in Seq(Type)
      /\ end.status \in {"ok", "error"}
      /\ end.status = "ok" /\ (\E j \in 1..n : c.names[j] = ".eh_frame" /\ c.sh[j].type = "PROGBITS")
           => end.eh.offset # 0 /\ end.eh.size # 0
  BY <1>7 DEF SectionsRead
<1>9. /\ e.hdr = end.hdr /\ e.eh = end.eh /\ e.status = end.status
      /\ end.status = "error" => e.symbols = <<>>
      /\ end.status # "error" => e.symbols = end.symbols
  <2>1. CASE end.status = "error"
    <3>1. e = [end EXCEPT !.symbols = <<>>, !.strtabs = <<>>]
      BY <1>3, <2>1
    <3>2. e.hdr = end.hdr /\ e.eh = end.eh /\ e.status = end.status /\ e.symbols = <<>>
      BY <1>8, <3>1 DEF SectionFields
    <3>3. QED
      BY <2>1, <3>2
  <2>2. CASE end.status # "error"
    BY <1>3, <2>2
  <2>3. QED
    BY <2>1, <2>2
<1> DEFINE u == Unwinders(e, c.good)
           there(x) == x.offset # 0 /\ x.size # 0
<1>10. /\ u.eh.type = "hdr" => u.eh.table = e.hdr /\ there(e.hdr)
       /\ u.eh.type = "eh" => u.eh.table = e.eh /\ there(e.eh)
       /\ u.eh.type \in {"hdr", "eh", "none"}
       /\ u.eh.type = "none" => ~(there(e.eh) /\ "eh" \in c.good)
  BY DEF Unwinders
<1> HIDE DEF u
<1>11. ~there(NoTable)
  BY DEF NoTable
<1>12. u.eh.type # "none" => u.eh.table \in Described(c)
  BY <1>8, <1>9, <1>10, <1>11
<1>13. e.status = "ok" /\ "eh" \in c.good
       /\ (\E i \in 1..c.readable : c.names[i] = ".eh_frame" /\ c.sh[i].type = "PROGBITS") => u.eh.type # "none"
  <2>1. 1..c.readable \subseteq 1..n
    BY <1>1
  <2>2. QED
    BY <1>8, <1>9, <1>10, <2>1
<1>14. \A k \in DOMAIN e.symbols : e.status = "ok" /\ c.sh[e.symbols[k].strings].type = "STRTAB"
  <2>1. CASE end.status = "error"
    <3>1. DOMAIN e.symbols = {}
      BY <1>9, <2>1
    <3>2. QED
      BY <3>1
  <2>2. CASE end.status # "error"
    <3>1. e.status = "ok" /\ e.symbols = end.symbols
      BY <1>8, <1>9, <2>2
    <3> DEFINE q == end.symbols
    <3>2. q \in Seq(Type)
      BY <1>8
    <3> HIDE DEF q, Type
    <3>3. \A k \in DOMAIN q : q[k] \in Type
      BY <3>2
    <3>4. \A x \in Type : c.sh[x.strings].type = "STRTAB"
      BY DEF Type, StringTables
    <3>5. QED
      BY <3>1, <3>3, <3>4 DEF q
  <2>3. QED
    BY <2>1, <2>2
<1>15. TablesOfOneHeader(c) <=>
         /\ u.eh.type # "none" => u.eh.table \in Described(c)
         /\ e.status = "ok" /\ "eh" \in c.good
            /\ (\E i \in 1..c.readable : c.names[i] = ".eh_frame" /\ c.sh[i].type = "PROGBITS")
              => u.eh.type # "none"
         /\ \A k \in DOMAIN e.symbols : e.status = "ok" /\ c.sh[e.symbols[k].strings].type = "STRTAB"
  BY Zenon DEF TablesOfOneHeader, Described, u, e, p, sh
<1>16. QED
  BY <1>12, <1>13, <1>14, <1>15

LEMMA ElfCallTrue ==
  ASSUME NEW c, ElfCall(c)
  PROVE  /\ c.alg = "elf" => TablesOfOneHeader(c.in)
         /\ c.alg = "sym" => FunctionAroundPc(c.in)
         /\ c.alg = "id" => BuildIdWhole(c.in)
         /\ c.alg = "so" => SoNameAnyOrder(c.in)
         /\ c.alg = "xz" => DecompressedWhole(c.in)
<1>0. /\ "elf" # "sym" /\ "elf" # "id" /\ "elf" # "so" /\ "elf" # "xz" /\ "sym" # "id"
      /\ "sym" # "so" /\ "sym" # "xz" /\ "id" # "so" /\ "id" # "xz" /\ "so" # "xz"
  OBVIOUS
<1>1. ASSUME c.alg = "elf" PROVE TablesOfOneHeader(c.in)
  <2>1. /\ HeadersOf(c.in.ph) /\ HeadersOf(c.in.sh) /\ c.in.readable \in 0..Len(c.in.sh)
        /\ \A i \in DOMAIN c.in.sh : c.in.names[i] = ".eh_frame" => c.in.sh[i].offset # 0 /\ c.in.sh[i].size # 0
    BY <1>0, <1>1, Zenon DEF ElfCall
  <2>2. QED
    BY <2>1, TablesOfAnyHeaders, Zenon
<1>2. ASSUME c.alg = "sym" PROVE FunctionAroundPc(c.in)
  <2>1. SymbolsOf(c.in.tables) /\ SymbolsOf(c.in.gnu) /\ c.in.addr \in Nat
    BY <1>0, <1>2, Zenon DEF ElfCall
  <2>2. QED
    BY <2>1, FunctionOfAnyPc, Zenon
<1>3. ASSUME c.alg = "id" PROVE BuildIdWhole(c.in)
  <2>1. /\ c.in.note \in Nat /\ c.in.size \in Nat /\ c.in.namesz \in Nat /\ c.in.descsz \in Nat
        /\ c.in.readable \in Nat
    BY <1>0, <1>3, Zenon DEF ElfCall
  <2>2. QED
    BY <2>1, BuildIdOfAnyNote, Zenon
<1>4. ASSUME c.alg = "so" PROVE SoNameAnyOrder(c.in)
  <2>1. /\ Len(c.in.order) \in Nat /\ DOMAIN c.in.order = 1..Len(c.in.order)
        /\ DOMAIN c.in.strtabs = 1..Len(c.in.strtabs)
        /\ \A tag \in {"STRTAB", "STRSZ", "SONAME"} : TagOnce(c.in.order, tag) /\ c.in.val[tag] \in Nat
    BY <1>0, <1>4, Zenon DEF ElfCall
  <2>2. QED
    BY <2>1, SoNameOfAnyOrder, Zenon
<1>5. ASSUME c.alg = "xz" PROVE DecompressedWhole(c.in)
  <2>1. c.in.src \in Nat \ {0} /\ c.in.total \in Nat /\ c.in.given \in 0..c.in.total
    BY <1>0, <1>5, Zenon DEF ElfCall
  <2>2. QED
    BY <2>1, ImageOfAnySize, Zenon
<1>6. QED
  BY <1>1, <1>2, <1>3, <1>4, <1>5

(* xcd_elf_interface.c and xcd_elf.c: what the dumper takes from an ELF image is true to the image, for
   every input the program can give these algorithms. *)
THEOREM ElfOfAnyImage == ElfCalls => []ElfTrue
<1>1. ElfCall(call) => ElfTrue
  BY ElfCallTrue DEF ElfTrue
<1>2. ElfCall(call) /\ [ElfCall(call)']_call => ElfCall(call)'
  BY DEF ElfCall
<1>3. QED
  BY <1>1, <1>2, PTL DEF ElfCalls
=============================================================================
