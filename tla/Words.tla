------------------------------- MODULE Words -------------------------------
(* Machine words wider than the integers of the model: a word is the sequence *)
(* of its bytes, the lowest first.                                            *)
EXTENDS Integers, Sequences, SequencesExt

\* F of the value v, which is computed once.
With(v, F(_)) == CHOOSE r \in {F(x) : x \in {v}} : TRUE

\* FoldLeft, in a time linear in the length of s (what is folded here are bytes and bits): each
\* value is computed before the next step takes it.
FoldBytes(Op(_, _), base, s) ==
  LET RECURSIVE Part(_, _, _)
      Part(v, i, j) ==
        IF i > j THEN v
        ELSE IF i = j THEN Op(v, s[i])
        ELSE With(Part(v, i, (i + j) \div 2), LAMBDA u : Part(u, ((i + j) \div 2) + 1, j))
  IN Part(base, 1, Len(s))

BitAt(x, i) == (x \div 2^i) % 2
Nibbles(F(_, _)) ==
  [a \in 0..15 |-> [b \in 0..15 |->
     F(BitAt(a, 0), BitAt(b, 0)) + 2 * F(BitAt(a, 1), BitAt(b, 1))
       + 4 * F(BitAt(a, 2), BitAt(b, 2)) + 8 * F(BitAt(a, 3), BitAt(b, 3))]]
XorNibble == Nibbles(LAMBDA x, y : (x + y) % 2)
AndNibble == Nibbles(LAMBDA x, y : x * y)

XorByte(a, b) == 16 * XorNibble[a \div 16][b \div 16] + XorNibble[a % 16][b % 16]
AndByte(a, b) == 16 * AndNibble[a \div 16][b \div 16] + AndNibble[a % 16][b % 16]

\* The same word, with all its bytes computed.
Tuple(v) == v \o <<>>

Xor(v, w) == Tuple([i \in DOMAIN v |-> XorByte(v[i], w[i])])
And(v, w) == Tuple([i \in DOMAIN v |-> AndByte(v[i], w[i])])
Not(v) == Tuple([i \in DOMAIN v |-> 255 - v[i]])
Or(v, w) == Not(And(Not(v), Not(w)))

Zero(n) == Tuple([i \in 1..n |-> 0])
ByteOf(v, i) == IF i \in DOMAIN v THEN v[i] ELSE 0

\* v >> n and v << n
Shr(v, n) ==
  LET q == n \div 8
      r == n % 8
  IN Tuple([i \in DOMAIN v |-> (ByteOf(v, i + q) \div 2^r) + ((ByteOf(v, i + q + 1) * 2^(8 - r)) % 256)])
Shl(v, n) ==
  LET q == n \div 8
      r == n % 8
  IN Tuple([i \in DOMAIN v |-> ((ByteOf(v, i - q) * 2^r) % 256) + (ByteOf(v, i - q - 1) \div 2^(8 - r))])
RotL(v, n) == LET s == Shl(v, n) t == Shr(v, 8 * Len(v) - n) IN Tuple([i \in DOMAIN v |-> s[i] + t[i]])
RotR(v, n) == RotL(v, 8 * Len(v) - n)

\* Sums of words of four bytes, without the carry out of them.
Add(v, w) ==
  LET low == v[1] + 256 * v[2] + w[1] + 256 * w[2]
      high == v[3] + 256 * v[4] + w[3] + 256 * w[4] + (low \div 65536)
  IN <<low % 256, (low \div 256) % 256, high % 256, (high \div 256) % 256>>

Halves(high, low) == <<low % 256, low \div 256, high % 256, high \div 256>>
=============================================================================
