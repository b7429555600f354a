------------------------------ MODULE LzmaDec ------------------------------
(* LzmaDec.c: the decoder of LZMA.  Its state p is the record of a CLzmaDec   *)
(* and of the locals of its functions; `in` is the input of one call and      *)
(* `buf` how much of it was read.                                             *)
EXTENDS Words, FiniteSetsExt

CONSTANTS kNumTopBits,    \* range and code have kNumTopBits + 8 bits: 24 in the code
          LZMA_DIC_MIN    \* the smallest dictionary: 4096 in the code

kTopValue == 2^kNumTopBits
kRangeSize == 256 * kTopValue          \* what range and code wrap at
kNumBitModelTotalBits == 11
kBitModelTotal == 2^kNumBitModelTotalBits
kNumMoveBits == 5
RC_INIT_SIZE == (kNumTopBits \div 8) + 2
LZMA_REQUIRED_INPUT_MAX == 20

kMatchMinLen == 2
kMatchSpecLenStart == kMatchMinLen + 8 * 2 + 256
kNumStates == 12
kNumLitStates == 7

\* The probabilities are one array, indexed from the middle.
LenChoice == 0
LenChoice2 == 8
LenHigh == 2 * 16 * 8
SpecPos == -1664
IsRep0Long == SpecPos + 128
RepLenCoder == IsRep0Long + 16 * 16
LenCoder == RepLenCoder + LenHigh + 256
IsMatch == LenCoder + LenHigh + 256
Align == IsMatch + 16 * 16
IsRep == Align + 16
IsRepG0 == IsRep + kNumStates
IsRepG1 == IsRepG0 + kNumStates
IsRepG2 == IsRepG1 + kNumStates
PosSlot == IsRepG2 + kNumStates
Literal == PosSlot + 4 * 64
LzmaProps_GetNumProbs(prop) == Literal - SpecPos + 768 * 2^(prop.lc + prop.lp)

Prob(p, i) == IF i \in DOMAIN p.probs THEN p.probs[i] ELSE kBitModelTotal \div 2
ByteAt(p, pos) == p.dic[pos + 1]
\* The byte `distance` before dicPos, in a dictionary that is a ring.
Behind(p, distance) == p.dicPos - distance + (IF p.dicPos < distance THEN Len(p.dic) ELSE 0)
PosState(p) == 16 * (p.processedPos % 2^p.prop.pb)

-----------------------------------------------------------------------------
(* The range decoder                                                          *)

\* NORMALIZE.  `over` records a byte taken from behind the end of the input.
Shifted(code, byte) == 256 * (code % kTopValue) + byte
Normalize(p) ==
  IF p.range >= kTopValue THEN p
  ELSE [p EXCEPT !.range = 256 * @, !.buf = @ + 1, !.over = @ \/ p.buf >= Len(p.in),
                 !.code = Shifted(@, IF p.buf < Len(p.in) THEN p.in[p.buf + 1] ELSE 0)]

\* IF_BIT_0 with UPDATE_0 and UPDATE_1
BitDecoded(n, i, ttt) ==
  LET bound == (n.range \div kBitModelTotal) * ttt
  IN IF n.code < bound
     THEN [n EXCEPT !.bit = 0, !.range = bound,
                    !.probs = (i :> ttt + ((kBitModelTotal - ttt) \div 2^kNumMoveBits)) @@ @]
     ELSE [n EXCEPT !.bit = 1, !.range = @ - bound, !.code = @ - bound,
                    !.probs = (i :> ttt - (ttt \div 2^kNumMoveBits)) @@ @]
Bit(p, i) == With(Normalize(p), LAMBDA n : BitDecoded(n, i, Prob(p, i)))

\* TREE_GET_BIT, n times from the root on
TreeBit(p, base) == With(Bit(p, base + p.symbol), LAMBDA q : [q EXCEPT !.symbol = 2 * @ + q.bit])
Tree(p, base, n) ==
  With(FoldBytes(LAMBDA r, k : TreeBit(r, base), [p EXCEPT !.symbol = 1], [k \in 1..n |-> k]),
       LAMBDA q : [q EXCEPT !.symbol = @ - 2^n])

\* MATCHED_LITER_DEC: offs stays on while the bits are those of the byte at distance rep0.
MatchedBit(p, base) ==
  LET offs == IF p.offs # 0 /\ p.matchByte % 256 >= 128 THEN 256 ELSE 0
  IN With(Bit(p, base + offs + p.offs + p.symbol),
          LAMBDA q : [q EXCEPT !.symbol = 2 * @ + q.bit, !.matchByte = 2 * @,
                               !.offs = IF q.bit = 0 THEN p.offs - offs ELSE offs])

\* REV_BIT_VAR, REV_BIT_CONST, REV_BIT_LAST: n bits, the lowest first
RevBit(p, base) == With(Bit(p, base + p.symbol), LAMBDA q : [q EXCEPT !.symbol = @ + (1 + q.bit) * p.m, !.m = 2 * @])
ReverseTree(p, base, first, n) ==
  With(FoldBytes(LAMBDA r, k : RevBit(r, base), [p EXCEPT !.symbol = first, !.m = 1], [k \in 1..n |-> k]),
       LAMBDA q : [q EXCEPT !.symbol = @ - q.m])

DirectBit(p) ==
  With(Normalize(p), LAMBDA n :
    LET half == n.range \div 2
        rest == (n.code + kRangeSize - half) % kRangeSize
    IN IF rest >= kRangeSize \div 2 THEN [n EXCEPT !.range = half, !.symbol = 2 * @]
       ELSE [n EXCEPT !.range = half, !.code = rest, !.symbol = 2 * @ + 1])
DirectBits(p, first, n) == FoldBytes(LAMBDA q, k : DirectBit(q), [p EXCEPT !.symbol = first], [k \in 1..n |-> k])

-----------------------------------------------------------------------------
(* LzmaDec_DecodeReal_3: one symbol                                           *)

PutByte(p, byte) ==
  [p EXCEPT !.dic[p.dicPos + 1] = byte, !.dicPos = @ + 1, !.processedPos = @ + 1]

LiteralProbs(p) ==
  LET prev == ByteAt(p, (IF p.dicPos = 0 THEN Len(p.dic) ELSE p.dicPos) - 1)
      masked == ((p.processedPos * 256 + prev) % 2^(8 + p.prop.lp)) \div 2^(8 - p.prop.lc)
  IN IF p.processedPos = 0 /\ p.checkDicSize = 0 THEN Literal ELSE Literal + 768 * masked
LiteralState(state) == IF state < 4 THEN 0 ELSE IF state < 10 THEN state - 3 ELSE state - 6
DecodeLiteral(p) ==
  LET base == LiteralProbs(p)
      matched == [p EXCEPT !.symbol = 1, !.offs = 256, !.matchByte = ByteAt(p, Behind(p, p.reps[1]))]
  IN With(IF p.state < kNumLitStates THEN Tree(p, base, 8)
          ELSE FoldBytes(LAMBDA r, k : MatchedBit(r, base), matched, <<1, 2, 3, 4, 5, 6, 7, 8>>),
          LAMBDA q : PutByte([q EXCEPT !.state = LiteralState(@)], q.symbol % 256))

\* Which of the last four distances is meant; it becomes the first.
Rotate(reps, k) == <<reps[k]>> \o SubSeq(reps, 1, k - 1) \o SubSeq(reps, k + 1, 4)
DecodeRepIndex(p) ==
  With(Bit(p, IsRepG1 + p.state), LAMBDA q :
    IF q.bit = 0 THEN [q EXCEPT !.reps = Rotate(@, 2)]
    ELSE With(Bit(q, IsRepG2 + p.state), LAMBDA s : [s EXCEPT !.reps = Rotate(@, 3 + s.bit)]))

\* len, before kMatchMinLen is added: low, mid or high is the range it lies in
LenTree(p, coder, range) ==
  CASE range = "low" -> [base |-> coder + PosState(p), n |-> 3, first |-> 0]
    [] range = "mid" -> [base |-> coder + PosState(p) + 8, n |-> 3, first |-> 8]
    [] range = "high" -> [base |-> coder + LenHigh, n |-> 8, first |-> 16]
DecodeLen(p, coder) ==
  With(With(Bit(p, coder + LenChoice), LAMBDA q :
         IF q.bit = 0 THEN <<q, LenTree(p, coder, "low")>>
         ELSE With(Bit(q, coder + LenChoice2), LAMBDA s : <<s, LenTree(p, coder, IF s.bit = 0 THEN "mid" ELSE "high")>>)),
       LAMBDA l : With(Tree(l[1], l[2].base, l[2].n), LAMBDA q : [q EXCEPT !.symbol = @ + l[2].first]))

\* 32 bits of a distance, as a signed number: -1 is the end mark.
FarDistance(high, low) == (IF high >= 2^27 THEN high - 2^28 ELSE high) * 16 + low
AtLeast(distance, n) == distance < 0 \/ distance >= n
DecodeSlot(p) == Tree(p, PosSlot + 64 * Min({p.len, 3}), 6)
DecodeDistance(q) ==
  LET slot == q.symbol
      bits == (slot \div 2) - 1
      first == 2 + (slot % 2)
  IN IF slot < 4 THEN q
     ELSE IF slot < 14 THEN ReverseTree(q, SpecPos, first * 2^bits + 1, bits)
     ELSE With(DirectBits(q, first, bits - 4), LAMBDA high :
            With(ReverseTree(high, Align, 1, 4), LAMBDA r : [r EXCEPT !.symbol = FarDistance(high.symbol, @)]))

\* Up to `limit`: what is left of len remains for LzmaDec_WriteRem.
CopyByte(p) ==
  LET q == PutByte(p, ByteAt(p, p.pos)) IN [q EXCEPT !.pos = IF @ + 1 = Len(p.dic) THEN 0 ELSE @ + 1]
\* A mutant: what finds no room is lost.
CopyMatchOnce(p, limit) ==
  LET curLen == Min({limit - p.dicPos, p.len + kMatchMinLen})
  IN IF limit = p.dicPos THEN [p EXCEPT !.res = "SZ_ERROR_DATA"]
     ELSE With(FoldBytes(LAMBDA r, k : CopyByte(r), [p EXCEPT !.pos = Behind(p, p.reps[1])], [k \in 1..curLen |-> k]),
               LAMBDA q : [q EXCEPT !.len = 0])

CopyMatch(p, limit) ==
  LET len == p.len + kMatchMinLen
      curLen == Min({limit - p.dicPos, len})
  IN IF limit = p.dicPos THEN [p EXCEPT !.res = "SZ_ERROR_DATA"]
     ELSE With(FoldBytes(LAMBDA r, k : CopyByte(r), [p EXCEPT !.pos = Behind(p, p.reps[1])], [k \in 1..curLen |-> k]),
               LAMBDA q : [q EXCEPT !.len = len - curLen])

DecodeMatch(p, limit) ==
  With(With(With(DecodeLen(p, LenCoder), LAMBDA l : DecodeSlot([l EXCEPT !.len = l.symbol])), DecodeDistance), LAMBDA d :
    IF d.symbol = -1 THEN [d EXCEPT !.len = kMatchSpecLenStart]
    ELSE With([d EXCEPT !.reps = <<d.symbol + 1>> \o SubSeq(@, 1, 3), !.state = IF @ < kNumLitStates THEN 7 ELSE 10],
              LAMBDA q : IF AtLeast(d.symbol, IF p.checkDicSize = 0 THEN p.processedPos ELSE p.checkDicSize)
                         THEN [q EXCEPT !.res = "SZ_ERROR_DATA"] ELSE CopyMatch(q, limit)))
DecodeRepMatch(p, limit) ==
  With(DecodeLen(p, RepLenCoder),
       LAMBDA l : CopyMatch([l EXCEPT !.len = l.symbol, !.state = IF @ < kNumLitStates THEN 8 ELSE 11], limit))
DecodeRep(p, limit) ==
  With(With(Bit(p, IsRepG0 + p.state), LAMBDA q :
         IF q.bit = 1 THEN [p |-> DecodeRepIndex(q), long |-> TRUE]
         ELSE With(Bit(q, IsRep0Long + PosState(p) + p.state), LAMBDA s : [p |-> s, long |-> s.bit = 1])), LAMBDA rep :
    IF rep.long THEN DecodeRepMatch(rep.p, limit)
    ELSE PutByte([rep.p EXCEPT !.state = IF @ < kNumLitStates THEN 9 ELSE 11], ByteAt(rep.p, Behind(rep.p, rep.p.reps[1]))))

DecodeSymbol(p, limit) ==
  With(Bit(p, IsMatch + PosState(p) + p.state), LAMBDA q :
    IF q.bit = 0 THEN DecodeLiteral(q)
    ELSE With(Bit(q, IsRep + p.state), LAMBDA s :
           IF s.bit = 0 THEN DecodeMatch(s, limit) ELSE DecodeRep(s, limit)))

-----------------------------------------------------------------------------
(* LzmaDec_DecodeReal_3 and LzmaDec_DecodeReal2                               *)

RECURSIVE DecodeSymbols(_, _, _)
DecodeSymbols(p, limit, bufLimit) ==
  With(DecodeSymbol(p, limit),
       LAMBDA q : IF q.res # "SZ_OK" \/ q.len = kMatchSpecLenStart \/ q.dicPos >= limit \/ q.buf >= bufLimit
                  THEN q ELSE DecodeSymbols(q, limit, bufLimit))
\* An error drops the locals of the function: what was written to memory stays.
LzmaDec_DecodeReal(p, limit, bufLimit) ==
  With(DecodeSymbols([p EXCEPT !.len = 0], limit, bufLimit),
       LAMBDA q : IF q.res = "SZ_OK" THEN [Normalize(q) EXCEPT !.remainLen = q.len]
                  ELSE [p EXCEPT !.dic = q.dic, !.dicPos = q.dicPos, !.probs = q.probs, !.over = q.over, !.res = q.res])

LzmaDec_WriteRem(p, limit) ==
  LET len == Min({limit - p.dicPos, p.remainLen})
      checked == IF p.checkDicSize = 0 /\ p.prop.dicSize - p.processedPos <= len THEN p.prop.dicSize ELSE p.checkDicSize
  IN IF p.remainLen = 0 \/ p.remainLen >= kMatchSpecLenStart THEN p
     ELSE FoldBytes(LAMBDA q, k : PutByte(q, ByteAt(q, Behind(q, q.reps[1]))),
                    [p EXCEPT !.checkDicSize = checked, !.remainLen = @ - len], [k \in 1..len |-> k])

kRange0 == kRangeSize - 1
kBound0 == (kRange0 \div kBitModelTotal) * (kBitModelTotal \div 2)
kBadRepCode == kBound0 + ((kRange0 - kBound0) \div kBitModelTotal) * (kBitModelTotal \div 2)

\* No call decodes across the byte with which the dictionary becomes full.
ToFullDic(p, limit) ==
  IF p.checkDicSize = 0 THEN Min({limit, p.dicPos + p.prop.dicSize - p.processedPos}) ELSE limit
DicFull(p) ==
  IF p.checkDicSize = 0 /\ p.processedPos >= p.prop.dicSize THEN [p EXCEPT !.checkDicSize = p.prop.dicSize] ELSE p
RECURSIVE LzmaDec_DecodeReal2(_, _, _)
LzmaDec_DecodeReal2(p, limit, bufLimit) ==
  IF p.checkDicSize = 0 /\ p.processedPos = 0 /\ p.code >= kBadRepCode THEN [p EXCEPT !.res = "SZ_ERROR_DATA"]
  ELSE With(LzmaDec_DecodeReal(p, ToFullDic(p, limit), bufLimit), LAMBDA d :
         IF d.res # "SZ_OK" THEN d
         ELSE With(LzmaDec_WriteRem(DicFull(d), limit), LAMBDA q :
                IF q.dicPos < limit /\ q.buf < bufLimit /\ q.remainLen < kMatchSpecLenStart
                THEN LzmaDec_DecodeReal2(q, limit, bufLimit) ELSE q))

-----------------------------------------------------------------------------
(* LzmaDec_TryDummy: whether the rest of the input holds a whole symbol, and  *)
(* which.  t follows the range decoder, with what it reads kept to the input  *)
(* and no probability changed; `short` is DUMMY_ERROR.                        *)

CheckNormalize(t) ==
  IF t.range >= kTopValue THEN t
  ELSE IF t.buf >= Len(t.in) THEN [t EXCEPT !.short = TRUE]
  ELSE [t EXCEPT !.range = 256 * @, !.buf = @ + 1, !.code = Shifted(@, t.in[t.buf + 1])]
CheckBit(p, t, i) ==
  With(CheckNormalize(t), LAMBDA n :
    LET bound == (n.range \div kBitModelTotal) * Prob(p, i)
    IN IF n.short THEN n
       ELSE IF n.code < bound THEN [n EXCEPT !.bit = 0, !.range = bound]
       ELSE [n EXCEPT !.bit = 1, !.range = @ - bound, !.code = @ - bound])
CheckTree(p, t, base, n) ==
  With(FoldBytes(LAMBDA u, k : With(CheckBit(p, u, base + u.symbol), LAMBDA q : [q EXCEPT !.symbol = 2 * @ + q.bit]),
                 [t EXCEPT !.symbol = 1], [k \in 1..n |-> k]),
       LAMBDA q : [q EXCEPT !.symbol = @ - 2^n])

CheckMatched(p, u, k, base) ==
  LET offs == IF u.offs # 0 /\ BitAt(ByteAt(p, Behind(p, p.reps[1])), 8 - k) = 1 THEN 256 ELSE 0
  IN With(CheckBit(p, u, base + offs + u.offs + u.symbol),
          LAMBDA q : [q EXCEPT !.symbol = 2 * @ + q.bit, !.offs = IF q.bit = 0 THEN u.offs - offs ELSE offs])
CheckLiteral(p, t) ==
  LET base == IF p.checkDicSize = 0 /\ p.processedPos = 0 THEN Literal
              ELSE Literal + 768 * ((p.processedPos % 2^p.prop.lp) * 2^p.prop.lc
                     + (ByteAt(p, (IF p.dicPos = 0 THEN Len(p.dic) ELSE p.dicPos) - 1) \div 2^(8 - p.prop.lc)))
  IN IF p.state < kNumLitStates THEN CheckTree(p, t, base, 8)
     ELSE FoldBytes(LAMBDA u, k : CheckMatched(p, u, k, base), [t EXCEPT !.symbol = 1, !.offs = 256], <<1, 2, 3, 4, 5, 6, 7, 8>>)

CheckLen(p, t, coder) ==
  With(With(CheckBit(p, t, coder + LenChoice), LAMBDA u :
         IF u.bit = 0 THEN <<u, LenTree(p, coder, "low")>>
         ELSE With(CheckBit(p, u, coder + LenChoice2), LAMBDA s : <<s, LenTree(p, coder, IF s.bit = 0 THEN "mid" ELSE "high")>>)),
       LAMBDA l : With(CheckTree(p, l[1], l[2].base, l[2].n), LAMBDA s : [s EXCEPT !.symbol = @ + l[2].first]))

CheckDirectBit(t) ==
  With(CheckNormalize(t), LAMBDA n :
    LET half == n.range \div 2
        rest == (n.code + kRangeSize - half) % kRangeSize
    IN IF n.short THEN n ELSE [n EXCEPT !.range = half, !.code = IF rest >= kRangeSize \div 2 THEN @ ELSE rest])
CheckReverse(p, t, base, n) ==
  FoldBytes(LAMBDA u, k : With(CheckBit(p, u, base + u.symbol), LAMBDA q : [q EXCEPT !.symbol = @ + (1 + q.bit) * 2^(k - 1)]),
            [t EXCEPT !.symbol = 1], [k \in 1..n |-> k])
CheckDistance(p, t) ==
  With(CheckTree(p, t, PosSlot + 64 * Min({t.symbol, 3}), 6), LAMBDA s :
    LET bits == (s.symbol \div 2) - 1
    IN IF s.symbol < 4 THEN s
       ELSE IF s.symbol < 14 THEN CheckReverse(p, s, SpecPos + (2 + (s.symbol % 2)) * 2^bits, bits)
       ELSE With(FoldBytes(LAMBDA u, k : CheckDirectBit(u), s, [k \in 1..bits - 4 |-> k]),
                 LAMBDA u : CheckReverse(p, u, Align, 4)))

CheckRep(p, t) ==
  With(With(CheckBit(p, t, IsRepG0 + p.state), LAMBDA u :
         IF u.bit = 0
         THEN With(CheckBit(p, u, IsRep0Long + PosState(p) + p.state), LAMBDA s : [t |-> s, long |-> s.bit = 1])
         ELSE With(CheckBit(p, u, IsRepG1 + p.state), LAMBDA s :
                [t |-> IF s.bit = 0 THEN s ELSE CheckBit(p, s, IsRepG2 + p.state), long |-> TRUE])),
       LAMBDA rep : IF rep.long THEN CheckLen(p, rep.t, RepLenCoder) ELSE rep.t)

\* The kind of the symbol, and what it leaves of the input.
LzmaDec_TryDummy(p, input) ==
  LET start == [range |-> p.range, code |-> p.code, in |-> input, buf |-> 0, symbol |-> 0, offs |-> 0, bit |-> 0, short |-> FALSE]
  IN With(With(CheckBit(p, start, IsMatch + PosState(p) + p.state), LAMBDA t :
            IF t.bit = 0 THEN <<"DUMMY_LIT", CheckLiteral(p, t)>>
            ELSE With(CheckBit(p, t, IsRep + p.state), LAMBDA u :
                   IF u.bit = 1 THEN <<"DUMMY_REP", CheckRep(p, u)>>
                   ELSE <<"DUMMY_MATCH", With(CheckLen(p, u, LenCoder), LAMBDA l : CheckDistance(p, l))>>)),
          LAMBDA seen : With(CheckNormalize(seen[2]),
                             LAMBDA t : [kind |-> IF t.short THEN "DUMMY_ERROR" ELSE seen[1], used |-> t.buf]))

-----------------------------------------------------------------------------
(* LzmaDec_DecodeToDic.  r is one call: p, the input src that is left, how    *)
(* much was used, res and status; `done` when the call returns.               *)

LzmaDec_InitDicAndState(p, initDic, initState) ==
  [p EXCEPT !.remainLen = kMatchSpecLenStart + (IF initDic \/ initState THEN 2 ELSE 1), !.tempBuf = <<>>,
            !.processedPos = IF initDic THEN 0 ELSE @, !.checkDicSize = IF initDic THEN 0 ELSE @]
LzmaDec_Init(p) == LzmaDec_InitDicAndState([p EXCEPT !.dicPos = 0], TRUE, TRUE)

Returned(r, res, status) == [r EXCEPT !.res = res, !.status = status, !.done = TRUE]
Used(r, n) == [r EXCEPT !.used = @ + n, !.src = SubSeq(@, n + 1, Len(@))]
TakeFrom(s, n) == SubSeq(s, 1, Min({n, Len(s)}))

\* The bytes that start the range coder, of which the first is zero.
StartCoder(r) ==
  LET p == r.p
      taken == TakeFrom(r.src, RC_INIT_SIZE - Len(p.tempBuf))
      temp == p.tempBuf \o taken
      u == Used([r EXCEPT !.p.tempBuf = temp], Len(taken))
      started == [p EXCEPT !.code = FoldBytes(LAMBDA c, b : 256 * c + b, 0, Tail(temp)), !.range = kRangeSize - 1,
                           !.tempBuf = <<>>, !.remainLen = 0]
  IN IF p.remainLen <= kMatchSpecLenStart THEN r
     ELSE IF temp # <<>> /\ temp[1] # 0 THEN Returned(u, "SZ_ERROR_DATA", "NOT_SPECIFIED")
     ELSE IF Len(temp) < RC_INIT_SIZE THEN Returned(u, "SZ_OK", "NEEDS_MORE_INPUT")
     ELSE [u EXCEPT !.p = IF p.remainLen = kMatchSpecLenStart + 1 THEN started
                          ELSE [started EXCEPT !.probs = <<>>, !.reps = <<1, 1, 1, 1>>, !.state = 0]]

\* From the input: as much as cannot run out of it, or one symbol that TryDummy saw is whole.
\* Try is LzmaDec_TryDummy, Real is LzmaDec_DecodeReal2.
FromInput(Try(_, _), Real(_, _, _), r, dicLimit, checkEndMarkNow) ==
  LET careful == Len(r.src) < LZMA_REQUIRED_INPUT_MAX \/ checkEndMarkNow
      bufLimit == IF careful THEN 0 ELSE Len(r.src) - LZMA_REQUIRED_INPUT_MAX
  IN With(IF careful THEN Try(r.p, r.src).kind ELSE "NOT_TRIED", LAMBDA dummy :
       IF dummy = "DUMMY_ERROR" THEN Returned(Used([r EXCEPT !.p.tempBuf = r.src], Len(r.src)), "SZ_OK", "NEEDS_MORE_INPUT")
       ELSE IF checkEndMarkNow /\ dummy # "DUMMY_MATCH" THEN Returned(r, "SZ_ERROR_DATA", "NOT_FINISHED")
       ELSE With(Real([r.p EXCEPT !.in = r.src, !.buf = 0], dicLimit, bufLimit), LAMBDA q :
              IF q.res = "SZ_OK" THEN Used([r EXCEPT !.p = q], q.buf)
              ELSE Returned([r EXCEPT !.p = q], "SZ_ERROR_DATA", "NOT_SPECIFIED")))

\* From tempBuf, which holds the start of a symbol, and the input behind it.
FromTemp(Try(_, _), Real(_, _, _), r, dicLimit, checkEndMarkNow) ==
  LET ahead == TakeFrom(r.src, LZMA_REQUIRED_INPUT_MAX - Len(r.p.tempBuf))
      temp == r.p.tempBuf \o ahead
      careful == Len(temp) < LZMA_REQUIRED_INPUT_MAX \/ checkEndMarkNow
  IN With([r EXCEPT !.p.tempBuf = temp], LAMBDA t :
       With(IF careful THEN Try(t.p, temp).kind ELSE "NOT_TRIED", LAMBDA dummy :
         IF dummy = "DUMMY_ERROR" THEN Returned(Used(t, Len(ahead)), "SZ_OK", "NEEDS_MORE_INPUT")
         ELSE IF checkEndMarkNow /\ dummy # "DUMMY_MATCH" THEN Returned(t, "SZ_ERROR_DATA", "NOT_FINISHED")
         ELSE With(Real([t.p EXCEPT !.in = temp, !.buf = 0], dicLimit, 0), LAMBDA q :
                LET unused == Len(temp) - q.buf
                IN IF q.res # "SZ_OK" THEN Returned([r EXCEPT !.p = q], "SZ_ERROR_DATA", "NOT_SPECIFIED")
                   ELSE IF unused < 0 \/ Len(ahead) < unused THEN Returned([r EXCEPT !.p = q], "SZ_ERROR_FAIL", "NOT_SPECIFIED")
                   ELSE Used([r EXCEPT !.p = [q EXCEPT !.tempBuf = <<>>]], Len(ahead) - unused))))

DecodeSome(Try(_, _), Real(_, _, _), r, dicLimit, checkEndMarkNow) ==
  IF r.p.tempBuf = <<>> THEN FromInput(Try, Real, r, dicLimit, checkEndMarkNow)
  ELSE FromTemp(Try, Real, r, dicLimit, checkEndMarkNow)

RECURSIVE DecodeRounds(_, _, _)
DecodeRounds(r, dicLimit, finishMode) ==
  LET p == r.p
      full == p.dicPos >= dicLimit
  IN IF r.done THEN r
     ELSE IF p.remainLen = kMatchSpecLenStart
     THEN IF p.code # 0 THEN Returned(r, "SZ_ERROR_DATA", "NOT_SPECIFIED") ELSE Returned(r, "SZ_OK", "FINISHED_WITH_MARK")
     ELSE IF full /\ p.remainLen = 0 /\ p.code = 0 THEN Returned(r, "SZ_OK", "MAYBE_FINISHED_WITHOUT_MARK")
     ELSE IF full /\ finishMode = "ANY" THEN Returned(r, "SZ_OK", "NOT_FINISHED")
     ELSE IF full /\ p.remainLen # 0 THEN Returned(r, "SZ_ERROR_DATA", "NOT_FINISHED")
     ELSE With(DecodeSome(LzmaDec_TryDummy, LzmaDec_DecodeReal2, r, dicLimit, full),
               LAMBDA q : DecodeRounds(q, dicLimit, finishMode))

LzmaDec_DecodeToDic(p, dicLimit, src, finishMode) ==
  LET call == [p |-> [p EXCEPT !.res = "SZ_OK"], src |-> src, used |-> 0, res |-> "SZ_OK", status |-> "NOT_SPECIFIED", done |-> FALSE]
  IN With(StartCoder(call), LAMBDA r :
       IF r.done THEN r ELSE DecodeRounds([r EXCEPT !.p = LzmaDec_WriteRem(r.p, dicLimit)], dicLimit, finishMode))

\* The dictionary is a ring here, out of which every round copies what it decoded: a round that is
\* not the last has given a byte.
LzmaDec_DecodeToBuf(p0, outSize, src, finishMode) ==
  LET p(r) == IF r.p.dicPos = Len(r.p.dic) THEN [r.p EXCEPT !.dicPos = 0] ELSE r.p
      left(r) == outSize - Len(r.dest)
      whole(r) == left(r) <= Len(r.p.dic) - p(r).dicPos
      limit(r) == IF whole(r) THEN p(r).dicPos + left(r) ELSE Len(r.p.dic)
      next(r, c, new) == [c EXCEPT !.used = r.used + @] @@
        [dest |-> r.dest \o new, ended |-> c.res # "SZ_OK" \/ new = <<>> \/ Len(new) = left(r)]
      round(r) == With(LzmaDec_DecodeToDic(p(r), limit(r), r.src, IF whole(r) THEN finishMode ELSE "ANY"),
                       LAMBDA c : next(r, c, SubSeq(c.p.dic, p(r).dicPos + 1, c.p.dicPos)))
  IN FoldBytes(LAMBDA r, k : IF r.ended THEN r ELSE round(r),
               [p |-> p0, src |-> src, used |-> 0, dest |-> <<>>, ended |-> FALSE], [k \in 1..outSize + 1 |-> k])

-----------------------------------------------------------------------------
(* Properties and memory.  An allocation fails when `memory` says so.         *)

LzmaProps_Decode(data) ==
  IF Len(data) < 5 \/ data[1] >= 9 * 5 * 5 THEN [res |-> "SZ_ERROR_UNSUPPORTED"]
  ELSE [res |-> "SZ_OK", lc |-> data[1] % 9, lp |-> (data[1] \div 9) % 5, pb |-> data[1] \div 45,
        dicSize |-> IF data[5] >= 64 THEN 2^30 ELSE Max({LZMA_DIC_MIN, data[2] + 256 * data[3] + 65536 * data[4] + 2^24 * data[5]})]

\* a: the arrays, as their sizes (0: none), and what p remembers of them.
NewDecoder == [probs |-> 0, numProbs |-> 0, dic |-> 0, dicBufSize |-> 0, prop |-> <<>>, res |-> "SZ_OK"]
LzmaDec_AllocateProbs2(a, prop, memory) ==
  LET n == LzmaProps_GetNumProbs(prop)
  IN IF a.probs # 0 /\ n = a.numProbs THEN a
     ELSE IF n > memory THEN [a EXCEPT !.probs = 0, !.res = "SZ_ERROR_MEM"]
     ELSE [a EXCEPT !.probs = n, !.numProbs = n]
LzmaDec_AllocateProbs(a, data, memory) ==
  LET prop == LzmaProps_Decode(data)
      b == LzmaDec_AllocateProbs2([a EXCEPT !.res = "SZ_OK"], prop, memory)
  IN IF prop.res # "SZ_OK" THEN [a EXCEPT !.res = prop.res]
     ELSE IF b.res # "SZ_OK" THEN b ELSE [b EXCEPT !.prop = prop]

\* The dictionary is a multiple of 4 KiB, 1 MiB or 4 MiB, in the code.
DicBufSize(dicSize) ==
  LET unit == IF dicSize >= 2^30 THEN 2^22 ELSE IF dicSize >= 2^22 THEN 2^20 ELSE LZMA_DIC_MIN
  IN unit * ((dicSize + unit - 1) \div unit)
LzmaDec_Allocate(a, data, memory) ==
  LET prop == LzmaProps_Decode(data)
      b == LzmaDec_AllocateProbs2([a EXCEPT !.res = "SZ_OK"], prop, memory)
      n == DicBufSize(prop.dicSize)
      reused == b.dic # 0 /\ n = b.dicBufSize
  IN IF prop.res # "SZ_OK" THEN [a EXCEPT !.res = prop.res]
     ELSE IF b.res # "SZ_OK" THEN b
     ELSE IF ~reused /\ n > memory THEN [b EXCEPT !.dic = 0, !.probs = 0, !.res = "SZ_ERROR_MEM"]
     ELSE [b EXCEPT !.dic = n, !.dicBufSize = n, !.prop = prop]

\* A decoder with its arrays; what the memory of the dictionary held is 170.
Decoder(prop, dicBufSize) ==
  [prop |-> prop, dic |-> Tuple([i \in 1..dicBufSize |-> 170]), dicPos |-> 0, processedPos |-> 0, checkDicSize |-> 0,
   reps |-> <<0, 0, 0, 0>>, state |-> 0, remainLen |-> 0, probs |-> <<>>, range |-> 0, code |-> 0, tempBuf |-> <<>>,
   in |-> <<>>, buf |-> 0, over |-> FALSE, bit |-> 0, symbol |-> 0, m |-> 1, offs |-> 0, matchByte |-> 0,
   len |-> 0, pos |-> 0, res |-> "SZ_OK"]

\* LzmaDecode: the output is the dictionary, and all of the input is there.
LzmaDecode(outSize, src, data, finishMode, memory) ==
  LET a == LzmaDec_AllocateProbs(NewDecoder, data, memory)
      ended(r) == IF r.res = "SZ_OK" /\ r.status = "NEEDS_MORE_INPUT" THEN [r EXCEPT !.res = "SZ_ERROR_INPUT_EOF"] ELSE r
      failed(res) == [res |-> res, status |-> "NOT_SPECIFIED", used |-> 0]
  IN IF Len(src) < RC_INIT_SIZE THEN failed("SZ_ERROR_INPUT_EOF")
     ELSE IF a.res # "SZ_OK" THEN failed(a.res)
     ELSE With(LzmaDec_DecodeToDic(LzmaDec_Init(Decoder(a.prop, outSize)), outSize, src, finishMode), ended)
=============================================================================
