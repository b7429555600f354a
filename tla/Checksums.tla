----------------------------- MODULE Checksums -----------------------------
(* The checks of an xz stream (7zCrc.c, XzCrc64.c, Sha256.c) and the MD5 of  *)
(* the files in a dump (xcd_md5.c).                                          *)
EXTENDS Words, FiniteSetsExt

-----------------------------------------------------------------------------
(* CRC32 and CRC64: words of four and eight bytes, of one table of 256 words and tables made  *)
(* of it, which take several bytes at once.                                                   *)

kCrcPoly == <<32, 131, 184, 237>>
kCrc64Poly == <<66, 15, 135, 215, 149, 87, 108, 201>>

\* CrcGenerateTable: eight bits of a byte, one after the other.
CrcOfBit(r, poly) == IF r[1] % 2 = 1 THEN Xor(Shr(r, 1), poly) ELSE Shr(r, 1)
CrcOfByte(b, poly) ==
  FoldBytes(LAMBDA r, j : CrcOfBit(r, poly), [Zero(Len(poly)) EXCEPT ![1] = b], <<1, 2, 3, 4, 5, 6, 7, 8>>)

\* Table k + 1 is table k behind one more byte of zero.
NextTable(first, t) == Tuple([b \in 1..256 |-> Xor(first[t[b][1] + 1], Shr(t[b], 8))])
GenerateTables(poly, n) ==
  LET first == Tuple([b \in 1..256 |-> CrcOfByte(b - 1, poly)])
  IN FoldBytes(LAMBDA tables, k : Append(tables, NextTable(first, Last(tables))), <<first>>, [k \in 1..n-1 |-> k])

g_CrcTable == GenerateTables(kCrcPoly, 8)
g_Crc64Table == GenerateTables(kCrc64Poly, 4)

\* CRC_UPDATE_BYTE_2 and CrcUpdateT1
UpdateByte(tables, v, b) == Xor(tables[1][XorByte(v[1], b) + 1], Shr(v, 8))
CrcUpdateT1(tables, v, data) == FoldBytes(LAMBDA w, b : UpdateByte(tables, w, b), v, data)

\* The words of tables n, n-1, ... 1 for the bytes of d, xored.
Lookups(tables, d) ==
  LET n == Len(d)
  IN FoldBytes(LAMBDA w, i : Xor(w, tables[n + 1 - i][d[i] + 1]), Zero(Len(tables[1][1])), [i \in 1..n |-> i])

\* A mutant: nothing is left of the word.
UpdateStepWhole(tables, v, d) ==
  Lookups(tables, [i \in DOMAIN d |-> IF i <= Len(v) THEN XorByte(v[i], d[i]) ELSE d[i]])

\* The first bytes of the data are mixed with the word, and what is left of the word is shifted
\* in: of eight bytes the second four are not mixed, of the eight of a CRC64 four are left.
UpdateStep(tables, v, d) ==
  LET mixed == [i \in DOMAIN d |-> IF i <= Len(v) THEN XorByte(v[i], d[i]) ELSE d[i]]
  IN IF Len(v) > Len(d) THEN Xor(Shr(v, 8 * Len(d)), Lookups(tables, mixed)) ELSE Lookups(tables, mixed)

\* CrcUpdateT4 and T8 (step 4 and 8), XzCrc64UpdateT4: bytes up to an aligned address, steps,
\* and the bytes behind them.  `at` is the address of the data.
CrcSteps(step, at, size) ==
  LET head == Min({size, (step - (at % step)) % step})
      steps == (size - head) \div step
  IN [head |-> head, steps |-> steps]
CrcUpdate(tables, v, data, step, at) ==
  LET n == CrcSteps(step, at, Len(data))
      tail == n.head + n.steps * step
      begun == CrcUpdateT1(tables, v, SubSeq(data, 1, n.head))
      middle == FoldBytes(LAMBDA w, k : UpdateStep(tables, w, SubSeq(data, n.head + (k - 1) * step + 1, n.head + k * step)),
                         begun, [k \in 1..n.steps |-> k])
  IN CrcUpdateT1(tables, middle, SubSeq(data, tail + 1, Len(data)))

\* On machines with the highest byte first the tables hold swapped words, and so does v between
\* the swap at the start and the swap at the end: CrcUpdateT1_BeT4, BeT8, XzCrc64UpdateT1_BeT4.
BeTables(tables) == [k \in DOMAIN tables |-> [b \in DOMAIN tables[k] |-> Reverse(tables[k][b])]]
BeByte(tables, v, b) == Xor(tables[1][XorByte(v[Len(v)], b) + 1], Shl(v, 8))
BeLookups(tables, d) ==
  LET n == Len(d)
  IN FoldBytes(LAMBDA w, i : Xor(w, tables[n + 1 - i][d[i] + 1]), Zero(Len(tables[1][1])), [i \in 1..n |-> i])
BeStep(tables, v, d) ==
  LET mixed == [i \in DOMAIN d |-> IF i <= Len(v) THEN XorByte(v[Len(v) + 1 - i], d[i]) ELSE d[i]]
  IN IF Len(v) > Len(d) THEN Xor(Shl(v, 8 * Len(d)), BeLookups(tables, mixed)) ELSE BeLookups(tables, mixed)
CrcUpdateBe(tables, v, data, step, at) ==
  LET n == CrcSteps(step, at, Len(data))
      tail == n.head + n.steps * step
      bytes(w, d) == FoldBytes(LAMBDA u, b : BeByte(tables, u, b), w, d)
      middle == FoldBytes(LAMBDA w, k : BeStep(tables, w, SubSeq(data, n.head + (k - 1) * step + 1, n.head + k * step)),
                         bytes(Reverse(v), SubSeq(data, 1, n.head)), [k \in 1..n.steps |-> k])
  IN Reverse(bytes(middle, SubSeq(data, tail + 1, Len(data))))

\* CrcCalc
CrcCalc(data) == Not(CrcUpdateT1(g_CrcTable, Not(Zero(4)), data))

\* Whatever function the machine and the alignment of the data choose, it computes the remainder
\* by the polynomial, bit by bit.
CrcAgrees(c) ==
  LET poly == IF c.wide THEN kCrc64Poly ELSE kCrcPoly
      tables == IF c.wide THEN g_Crc64Table ELSE g_CrcTable
      v == Not(Zero(Len(poly)))
      def == FoldBytes(LAMBDA w, b : Xor(CrcOfByte(XorByte(w[1], b), poly), Shr(w, 8)), v, c.data)
  IN \A step \in (IF c.wide THEN {4} ELSE {4, 8}) :
       /\ CrcUpdate(tables, v, c.data, step, c.at) = def
       /\ CrcUpdateBe(BeTables(tables), v, c.data, step, c.at) = def

-----------------------------------------------------------------------------
(* Hashes: p = [state, buffer, count].  Compress(state, block) takes a block of 64 bytes.    *)

Placed(buffer, pos, data) ==
  Tuple([i \in 1..64 |-> IF i - pos \in DOMAIN data THEN data[i - pos] ELSE buffer[i]])
Blocks64(data) == [k \in 1..Len(data) \div 64 |-> SubSeq(data, 64 * (k - 1) + 1, 64 * k)]

\* Sha256_Update behind its Compress: the buffer is filled up, whole blocks pass through it, the rest stays in it.
Sha256Fed(Compress(_, _), p, data) ==
  LET pos == p.count % 64
      num == 64 - pos
      first == Placed(p.buffer, pos, SubSeq(data, 1, num))
      blocks == <<first>> \o Blocks64(SubSeq(data, num + 1, Len(data)))
      rest == SubSeq(data, num + 64 * (Len(blocks) - 1) + 1, Len(data))
  IN IF Len(data) < num THEN [p EXCEPT !.buffer = Placed(@, pos, data), !.count = @ + Len(data)]
     ELSE [state |-> FoldBytes(Compress, p.state, blocks), buffer |-> Placed(Last(blocks), 0, rest),
           count |-> p.count + Len(data)]

\* Sha256_Final behind its Compress: a bit, zeros up to the last eight bytes of a block, the number of bits.
Sha256Ended(Compress(_, _), p) ==
  LET pos == p.count % 64
      marked == Placed(p.buffer, pos, <<128>>)
      zeros(b, from) == [i \in 1..64 |-> IF i \in from..56 THEN 0 ELSE b[i]]
      bits == Reverse(Shl(Halves(p.count \div 65536, p.count % 65536), 3))
      full == [i \in 1..64 |-> IF i > pos + 1 THEN 0 ELSE marked[i]]
      last(b) == Placed(b, 56, Zero(4) \o bits)
  IN IF pos + 1 <= 56 THEN Compress(p.state, last(zeros(marked, pos + 2)))
     ELSE Compress(Compress(p.state, full), last(zeros(full, 1)))

\* xcd_MD5_Update.  The count is in two words, of 29 bits and of the rest.
MD5Fed(Compress(_, _), p, data) ==
  LET used == p.lo % 64
      available == 64 - used
      lo == (p.lo + Len(data)) % 2^29
      counted == [p EXCEPT !.lo = lo, !.hi = @ + (IF lo < p.lo THEN 1 ELSE 0) + (Len(data) \div 2^29)]
      first == Placed(p.buffer, used, SubSeq(data, 1, available))
      begun == IF used = 0 THEN p ELSE [p EXCEPT !.buffer = first, !.state = Compress(@, first)]
      more == IF used = 0 THEN data ELSE SubSeq(data, available + 1, Len(data))
      rest == SubSeq(more, 64 * (Len(more) \div 64) + 1, Len(more))
  IN IF used # 0 /\ Len(data) < available THEN [counted EXCEPT !.buffer = Placed(@, used, data)]
     ELSE [counted EXCEPT !.state = FoldBytes(Compress, begun.state, Blocks64(more)), !.buffer = Placed(begun.buffer, 0, rest)]

\* xcd_MD5_Final
MD5Ended(Compress(_, _), p) ==
  LET used == (p.lo % 64) + 1
      marked == Placed(p.buffer, used - 1, <<128>>)
      room == 64 - used
      full == Placed(marked, used, [i \in 1..room |-> 0])
      padded == IF room < 8 THEN Placed(full, 0, [i \in 1..56 |-> 0]) ELSE Placed(marked, used, [i \in 1..room - 8 |-> 0])
      state == IF room < 8 THEN Compress(p.state, full) ELSE p.state
      bits == Shl(Halves(p.lo \div 65536, p.lo % 65536), 3) \o Halves(p.hi \div 65536, p.hi % 65536)
  IN Compress(state, Placed(padded, 56, bits))

\* The message as the two hashes define it: padded to whole blocks, with its length in bits.
HashPadded(data, bits) ==
  LET zeros == (119 - (Len(data) % 64)) % 64
  IN Blocks64(data \o <<128>> \o [i \in 1..zeros |-> 0] \o bits)

\* In whatever pieces the data comes, what is hashed is the data, padded, with the number of its
\* bits; `before` bytes of it were hashed already by MD5.
HashedWhole(c) ==
  LET keep(state, block) == Append(state, block)
      pieces == [k \in DOMAIN c.sizes |-> [i \in 1..c.sizes[k] |-> (i * 7 + k) % 251]]
      data == FlattenSeq(pieces)
      empty == [i \in 1..64 |-> 255]
      sha == FoldBytes(LAMBDA p, d : Sha256Fed(keep, p, d), [state |-> <<>>, buffer |-> empty, count |-> 0], pieces)
      md5 == FoldBytes(LAMBDA p, d : MD5Fed(keep, p, d),
                       [state |-> <<>>, buffer |-> empty, lo |-> c.before, hi |-> 0], pieces)
      n == c.before + Len(data)
  IN /\ Sha256Ended(keep, sha) = HashPadded(data, Zero(4) \o Reverse(Shl(Halves(0, Len(data)), 3)))
     /\ MD5Ended(keep, md5) =
          HashPadded(data, Shl(Halves((n \div 65536) % 2^13, n % 65536), 3) \o <<n \div 2^29, 0, 0, 0>>)

-----------------------------------------------------------------------------
(* What a block does to the state *)

\* Sha256_WriteByteBlock: t is the registers a to h; a round writes h and d, and the names move on.
Sha256_K == <<
    <<\h428a,\h2f98>>, <<\h7137,\h4491>>, <<\hb5c0,\hfbcf>>, <<\he9b5,\hdba5>>, <<\h3956,\hc25b>>, <<\h59f1,\h11f1>>,
    <<\h923f,\h82a4>>, <<\hab1c,\h5ed5>>, <<\hd807,\haa98>>, <<\h1283,\h5b01>>, <<\h2431,\h85be>>, <<\h550c,\h7dc3>>,
    <<\h72be,\h5d74>>, <<\h80de,\hb1fe>>, <<\h9bdc,\h06a7>>, <<\hc19b,\hf174>>, <<\he49b,\h69c1>>, <<\hefbe,\h4786>>,
    <<\h0fc1,\h9dc6>>, <<\h240c,\ha1cc>>, <<\h2de9,\h2c6f>>, <<\h4a74,\h84aa>>, <<\h5cb0,\ha9dc>>, <<\h76f9,\h88da>>,
    <<\h983e,\h5152>>, <<\ha831,\hc66d>>, <<\hb003,\h27c8>>, <<\hbf59,\h7fc7>>, <<\hc6e0,\h0bf3>>, <<\hd5a7,\h9147>>,
    <<\h06ca,\h6351>>, <<\h1429,\h2967>>, <<\h27b7,\h0a85>>, <<\h2e1b,\h2138>>, <<\h4d2c,\h6dfc>>, <<\h5338,\h0d13>>,
    <<\h650a,\h7354>>, <<\h766a,\h0abb>>, <<\h81c2,\hc92e>>, <<\h9272,\h2c85>>, <<\ha2bf,\he8a1>>, <<\ha81a,\h664b>>,
    <<\hc24b,\h8b70>>, <<\hc76c,\h51a3>>, <<\hd192,\he819>>, <<\hd699,\h0624>>, <<\hf40e,\h3585>>, <<\h106a,\ha070>>,
    <<\h19a4,\hc116>>, <<\h1e37,\h6c08>>, <<\h2748,\h774c>>, <<\h34b0,\hbcb5>>, <<\h391c,\h0cb3>>, <<\h4ed8,\haa4a>>,
    <<\h5b9c,\hca4f>>, <<\h682e,\h6ff3>>, <<\h748f,\h82ee>>, <<\h78a5,\h636f>>, <<\h84c8,\h7814>>, <<\h8cc7,\h0208>>,
    <<\h90be,\hfffa>>, <<\ha450,\h6ceb>>, <<\hbef9,\ha3f7>>, <<\hc671,\h78f2>>>>

Sigma(x, i, j, k) == Xor(Xor(RotR(x, i), RotR(x, j)), RotR(x, k))
SmallSigma(x, i, j, k) == Xor(Xor(RotR(x, i), RotR(x, j)), Shr(x, k))
Ch(x, y, z) == Xor(z, And(x, Xor(y, z)))
Maj(x, y, z) == Or(And(x, y), And(z, Or(x, y)))

Scheduled(words, n) ==
  LET at(i) == words[(i % 16) + 1]
  IN IF n < 16 THEN at(n)
     ELSE Add(Add(Add(at(n), SmallSigma(at(n - 2), 17, 19, 10)), at(n - 7)), SmallSigma(at(n - 15), 7, 18, 3))
Sha256_Round(s, n) ==
  LET t == s.t
      k == Halves(Sha256_K[n + 1][1], Sha256_K[n + 1][2])
  IN With(Scheduled(s.w, n), LAMBDA w :
       With(Add(Add(Add(Add(t[8], Sigma(t[5], 6, 11, 25)), Ch(t[5], t[6], t[7])), k), w), LAMBDA h :
         [t |-> <<Add(Add(h, Sigma(t[1], 2, 13, 22)), Maj(t[1], t[2], t[3])), t[1], t[2], t[3], Add(t[4], h), t[5], t[6], t[7]>>,
          w |-> Tuple([s.w EXCEPT ![(n % 16) + 1] = w])]))
Sha256_WriteByteBlock(state, block) ==
  LET w == [i \in 1..16 |-> Reverse(SubSeq(block, 4 * i - 3, 4 * i))]
      s == FoldBytes(Sha256_Round, [t |-> state, w |-> w], [n \in 1..64 |-> n - 1])
  IN [i \in 1..8 |-> Add(state[i], s.t[i])]

Sha256_Init ==
  <<Halves(\h6a09, \he667), Halves(\hbb67, \hae85), Halves(\h3c6e, \hf372), Halves(\ha54f, \hf53a),
    Halves(\h510e, \h527f), Halves(\h9b05, \h688c), Halves(\h1f83, \hd9ab), Halves(\h5be0, \hcd19)>>

\* body of xcd_md5.c: t is the registers a to d; a step writes the first, and the names move on.
MD5Steps == <<
    <<\hd76a,\ha478>>, <<\he8c7,\hb756>>, <<\h2420,\h70db>>, <<\hc1bd,\hceee>>, <<\hf57c,\h0faf>>, <<\h4787,\hc62a>>,
    <<\ha830,\h4613>>, <<\hfd46,\h9501>>, <<\h6980,\h98d8>>, <<\h8b44,\hf7af>>, <<\hffff,\h5bb1>>, <<\h895c,\hd7be>>,
    <<\h6b90,\h1122>>, <<\hfd98,\h7193>>, <<\ha679,\h438e>>, <<\h49b4,\h0821>>, <<\hf61e,\h2562>>, <<\hc040,\hb340>>,
    <<\h265e,\h5a51>>, <<\he9b6,\hc7aa>>, <<\hd62f,\h105d>>, <<\h0244,\h1453>>, <<\hd8a1,\he681>>, <<\he7d3,\hfbc8>>,
    <<\h21e1,\hcde6>>, <<\hc337,\h07d6>>, <<\hf4d5,\h0d87>>, <<\h455a,\h14ed>>, <<\ha9e3,\he905>>, <<\hfcef,\ha3f8>>,
    <<\h676f,\h02d9>>, <<\h8d2a,\h4c8a>>, <<\hfffa,\h3942>>, <<\h8771,\hf681>>, <<\h6d9d,\h6122>>, <<\hfde5,\h380c>>,
    <<\ha4be,\hea44>>, <<\h4bde,\hcfa9>>, <<\hf6bb,\h4b60>>, <<\hbebf,\hbc70>>, <<\h289b,\h7ec6>>, <<\heaa1,\h27fa>>,
    <<\hd4ef,\h3085>>, <<\h0488,\h1d05>>, <<\hd9d4,\hd039>>, <<\he6db,\h99e5>>, <<\h1fa2,\h7cf8>>, <<\hc4ac,\h5665>>,
    <<\hf429,\h2244>>, <<\h432a,\hff97>>, <<\hab94,\h23a7>>, <<\hfc93,\ha039>>, <<\h655b,\h59c3>>, <<\h8f0c,\hcc92>>,
    <<\hffef,\hf47d>>, <<\h8584,\h5dd1>>, <<\h6fa8,\h7e4f>>, <<\hfe2c,\he6e0>>, <<\ha301,\h4314>>, <<\h4e08,\h11a1>>,
    <<\hf753,\h7e82>>, <<\hbd3a,\hf235>>, <<\h2ad7,\hd2bb>>, <<\heb86,\hd391>>>>
MD5Shifts == <<<<7, 12, 17, 22>>, <<5, 9, 14, 20>>, <<4, 11, 16, 23>>, <<6, 10, 15, 21>>>>

MD5Function(round, x, y, z) ==
  CASE round = 1 -> Xor(z, And(x, Xor(y, z)))
    [] round = 2 -> Xor(y, And(z, Xor(x, y)))
    [] round = 3 -> Xor(Xor(x, y), z)
    [] round = 4 -> Xor(y, Or(x, Not(z)))
MD5Word(round, i) == CASE round = 1 -> i [] round = 2 -> 5 * i + 1 [] round = 3 -> 3 * i + 5 [] round = 4 -> 7 * i
MD5Step(block, t, n) ==
  LET round == (n \div 16) + 1
      k == MD5Word(round, n) % 16
      x == SubSeq(block, 4 * k + 1, 4 * k + 4)
      const == Halves(MD5Steps[n + 1][1], MD5Steps[n + 1][2])
      sum == Add(Add(Add(t[1], MD5Function(round, t[2], t[3], t[4])), x), const)
  IN <<t[4], Add(RotL(sum, MD5Shifts[round][(n % 4) + 1]), t[2]), t[2], t[3]>>
MD5Body(state, block) ==
  LET t == FoldBytes(LAMBDA u, n : MD5Step(block, u, n), state, [n \in 1..64 |-> n - 1])
  IN [i \in 1..4 |-> Add(state[i], t[i])]
xcd_MD5_Init ==
  <<Halves(\h6745, \h2301), Halves(\hefcd, \hab89), Halves(\h98ba, \hdcfe), Halves(\h1032, \h5476)>>

Sha256_Update(p, data) == Sha256Fed(Sha256_WriteByteBlock, p, data)
Sha256_Final(p) == Sha256Ended(Sha256_WriteByteBlock, p)
xcd_MD5_Update(p, data) == MD5Fed(MD5Body, p, data)
xcd_MD5_Final(p) == MD5Ended(MD5Body, p)

Sha256Of(data) ==
  LET p == Sha256_Update([state |-> Sha256_Init, buffer |-> [i \in 1..64 |-> 0], count |-> 0], data)
  IN FlattenSeq([i \in 1..8 |-> Reverse(Sha256_Final(p)[i])])
MD5Of(data) ==
  LET p == xcd_MD5_Update([state |-> xcd_MD5_Init, buffer |-> [i \in 1..64 |-> 0], lo |-> 0, hi |-> 0], data)
  IN FlattenSeq(xcd_MD5_Final(p))

\* The digests of c.data are those the standards state for it.
DigestsStandard(c) == Sha256Of(c.data) = c.sha256 /\ MD5Of(c.data) = c.md5
=============================================================================
