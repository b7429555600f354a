------------------------------ MODULE LzmaEnc ------------------------------
(* What LzmaEnc.c writes for the matches it chose: the inputs of the decoder. *)
(* e is the coder and the state of the encoder; its probabilities are arrays  *)
(* of their own names, not the one array of the decoder.                      *)
EXTENDS LzmaDec

kLiteralNextStates == <<0, 0, 0, 0, 1, 2, 3, 4, 5, 6, 4, 5>>
kMatchNextStates == <<7, 7, 7, 7, 7, 7, 7, 10, 10, 10, 10, 10>>
kRepNextStates == <<8, 8, 8, 8, 8, 8, 8, 11, 11, 11, 11, 11>>
kShortRepNextStates == <<9, 9, 9, 9, 9, 9, 9, 11, 11, 11, 11, 11>>

RangeEnc_Init(e) == [e EXCEPT !.low = 0, !.range = kRangeSize - 1, !.cache = 0, !.cacheSize = 0, !.out = <<>>]
\* A byte that a carry can still change waits in the cache, with the bytes 255 behind it.
RangeEnc_ShiftLow(e) ==
  LET low == e.low % kRangeSize
      high == e.low \div kRangeSize
      behind == [k \in 1..e.cacheSize |-> (high + 255) % 256]
      waits == low >= 255 * kTopValue /\ high = 0
      next == [e EXCEPT !.low = 256 * (low % kTopValue)]
  IN IF waits THEN [next EXCEPT !.cacheSize = @ + 1]
     ELSE [next EXCEPT !.out = @ \o <<(e.cache + high) % 256>> \o behind, !.cache = low \div kTopValue, !.cacheSize = 0]
RangeEnc_FlushData(e) == FoldBytes(LAMBDA f, k : RangeEnc_ShiftLow(f), e, [k \in 1..RC_INIT_SIZE |-> k])

\* RC_NORM, RC_BIT
RcNorm(e) == IF e.range < kTopValue THEN RangeEnc_ShiftLow([e EXCEPT !.range = 256 * @]) ELSE e
RcBit(e, prob, bit) ==
  LET ttt == IF prob \in DOMAIN e.probs THEN e.probs[prob] ELSE kBitModelTotal \div 2
      newBound == (e.range \div kBitModelTotal) * ttt
  IN RcNorm(IF bit = 0
            THEN [e EXCEPT !.range = newBound, !.probs = (prob :> ttt + ((kBitModelTotal - ttt) \div 2^kNumMoveBits)) @@ @]
            ELSE [e EXCEPT !.low = @ + newBound, !.range = @ - newBound, !.probs = (prob :> ttt - (ttt \div 2^kNumMoveBits)) @@ @])

\* n bits of a symbol, the highest first, in a tree whose nodes are the bits seen.
RcTree(e, name, n, symbol) ==
  FoldBytes(LAMBDA f, k : RcBit(f, name \o <<(2^n + symbol) \div 2^(n + 1 - k)>>, BitAt(symbol, n - k)), e, [k \in 1..n |-> k])
LitEnc_Encode(e, name, symbol) == RcTree(e, name, 8, symbol)
\* offs: the bits so far are those of matchByte.
LitEnc_EncodeMatched(e, name, symbol, matchByte) ==
  LET offs(k) == IF symbol \div 2^(9 - k) = matchByte \div 2^(9 - k) THEN 256 ELSE 0
  IN FoldBytes(LAMBDA f, k : RcBit(f, name \o <<offs(k) + offs(k) * BitAt(matchByte, 8 - k) + ((256 + symbol) \div 2^(9 - k))>>,
                                   BitAt(symbol, 8 - k)), e, <<1, 2, 3, 4, 5, 6, 7, 8>>)
RcTree_ReverseEncode(e, name, n, symbol) ==
  LET node(k) == 2^(k - 1) + FoldBytes(LAMBDA m, j : 2 * m + BitAt(symbol, j - 1), 0, [j \in 1..k - 1 |-> j])
  IN FoldBytes(LAMBDA f, k : RcBit(f, name \o <<node(k)>>, BitAt(symbol, k - 1)), e, [k \in 1..n |-> k])

LenEnc_Encode(e, name, symbol, posState) ==
  LET choice == name \o <<"choice">>
      choice2 == name \o <<"choice2">>
  IN CASE symbol < 8 -> RcTree(RcBit(e, choice, 0), name \o <<"low", posState>>, 3, symbol)
       [] symbol \in 8..15 -> RcTree(RcBit(RcBit(e, choice, 1), choice2, 0), name \o <<"mid", posState>>, 3, symbol - 8)
       [] OTHER -> LitEnc_Encode(RcBit(RcBit(e, choice, 1), choice2, 1), name \o <<"high">>, symbol - 16)

\* BSR2_RET: the two highest bits of a distance
PosSlotOf(dist) ==
  LET zz == CHOOSE n \in 0..30 : dist \div 2^n = 1
  IN IF dist < 2 THEN dist ELSE 2 * zz + BitAt(dist, zz - 1)
DirectBitOf(e, bit) ==
  LET half == e.range \div 2 IN RcNorm([e EXCEPT !.range = half, !.low = @ + bit * half])

EncodeDistance(e, dist, len) ==
  LET slot == PosSlotOf(dist)
      footerBits == (slot \div 2) - 1
      base == (2 + (slot % 2)) * 2^footerBits
      slotted == RcTree(e, <<"posSlot", Min({len - 2, 3})>>, 6, slot)
      direct == FoldBytes(LAMBDA f, k : DirectBitOf(f, BitAt(dist, footerBits - k)), slotted, [k \in 1..footerBits - 4 |-> k])
  IN CASE dist < 4 -> slotted
       [] dist \in 4..127 -> RcTree_ReverseEncode(slotted, <<"pos", base>>, footerBits, dist - base)
       [] OTHER -> RcTree_ReverseEncode(direct, <<"align">>, 4, dist % 16)

\* LzmaEnc_CodeOneBlock, for one choice of GetOptimum at a position of the text: back is -1 for a
\* literal, 0 to 3 for one of the last four distances, else a distance and 4.
Rep(reps, k) == <<reps[k + 1]>> \o SubSeq(reps, 1, k) \o SubSeq(reps, k + 2, 4)
EncodeLiteral(e, text) ==
  LET pos == e.nowPos
      prev == IF pos = 0 THEN 0 ELSE text[pos]
      name == <<"literal", ((256 * pos + prev) % 2^(8 + e.prop.lp)) \div 2^(8 - e.prop.lc)>>
      byte == text[pos + 1]
      next == [e EXCEPT !.state = kLiteralNextStates[@ + 1]]
  IN IF e.state < 7 THEN LitEnc_Encode(next, name, byte) ELSE LitEnc_EncodeMatched(next, name, byte, text[pos + 1 - e.reps[1]])
EncodeRep(e, posState, k, len) ==
  LET s == e.state
      rep0 == RcBit(RcBit(e, <<"isRepG0", s>>, 0), <<"isRep0Long", s, posState>>, IF len = 1 THEN 0 ELSE 1)
      g1 == RcBit(RcBit(e, <<"isRepG0", s>>, 1), <<"isRepG1", s>>, IF k = 1 THEN 0 ELSE 1)
      g == CASE k = 0 -> rep0 [] k = 1 -> g1 [] k \in {2, 3} -> RcBit(g1, <<"isRepG2", s>>, k - 2)
      r == [g EXCEPT !.reps = Rep(@, k), !.state = IF len = 1 THEN kShortRepNextStates[@ + 1] ELSE kRepNextStates[@ + 1]]
  IN IF len = 1 THEN r ELSE LenEnc_Encode(r, <<"repLen">>, len - 2, posState)
EncodeMatch(e, posState, dist, len) ==
  LET f == LenEnc_Encode([e EXCEPT !.state = kMatchNextStates[@ + 1], !.reps = <<dist + 1>> \o SubSeq(@, 1, 3)],
                         <<"len">>, len - 2, posState)
  IN EncodeDistance(f, dist, len)
CodeOne(e, text, op) ==
  LET posState == e.nowPos % 2^e.prop.pb
      match == RcBit(e, <<"isMatch", e.state, posState>>, IF op.back = -1 THEN 0 ELSE 1)
  IN With(IF op.back = -1 THEN EncodeLiteral(match, text)
          ELSE With(RcBit(match, <<"isRep", e.state>>, IF op.back < 4 THEN 1 ELSE 0), LAMBDA rep :
                 IF op.back < 4 THEN EncodeRep(rep, posState, op.back, op.len)
                 ELSE EncodeMatch(rep, posState, op.back - 4, op.len)),
          LAMBDA f : [f EXCEPT !.nowPos = @ + op.len])

\* The distance 2^32 - 1.
WriteEndMarker(e) ==
  LET posState == e.nowPos % 2^e.prop.pb
      match == RcBit(RcBit(e, <<"isMatch", e.state, posState>>, 1), <<"isRep", e.state>>, 0)
      len == LenEnc_Encode([match EXCEPT !.state = kMatchNextStates[@ + 1]], <<"len">>, 0, posState)
      direct == FoldBytes(LAMBDA f, k : DirectBitOf(f, 1), RcTree(len, <<"posSlot", 0>>, 6, 63), [k \in 1..26 |-> k])
  IN RcTree_ReverseEncode(direct, <<"align">>, 4, 15)

LzmaEnc_Init(prop) ==
  [prop |-> prop, probs |-> <<>>, state |-> 0, reps |-> <<1, 1, 1, 1>>, nowPos |-> 0,
   low |-> 0, range |-> 0, cache |-> 0, cacheSize |-> 0, out |-> <<>>]
\* LzmaEnc_CodeOneMemBlock: choices behind those coded before, in a stream of the range coder of
\* their own; Flush at the end.
CodeBlock(e, text, ops, mark) ==
  LET coded == FoldBytes(LAMBDA f, op : CodeOne(f, text, op), RangeEnc_Init(e), ops)
  IN RangeEnc_FlushData(IF mark THEN WriteEndMarker(coded) ELSE coded)

\* The choices the match finder may offer: the bytes are those at the distance.
DistanceOf(e, op) == IF op.back < 4 THEN e.reps[op.back + 1] ELSE op.back - 3
Fits(e, text, op) ==
  /\ e.nowPos + op.len <= Len(text)
  /\ IF op.back = -1 THEN op.len = 1
     ELSE /\ DistanceOf(e, op) <= e.nowPos
          /\ \A i \in e.nowPos + 1..e.nowPos + op.len : text[i] = text[i - DistanceOf(e, op)]

-----------------------------------------------------------------------------

PropsOf(prop) == <<(prop.pb * 5 + prop.lp) * 9 + prop.lc, prop.dicSize, 0, 0, 0>>
\* What calls give that offer at most `given` bytes and ask for `room` bytes, up to size bytes: r is
\* the decoder p, the input src that is left, all that came out, the last res and status.
RECURSIVE DecodeInCalls(_, _, _, _)
DecodeInCalls(r, given, room, size) ==
  LET n == Min({room, size - Len(r.dest)})
      next(c) ==
        LET u == [p |-> c.p, src |-> SubSeq(r.src, c.used + 1, Len(r.src)), dest |-> r.dest \o c.dest, res |-> c.res,
                  status |-> c.status]
            stuck == c.used = 0 /\ c.dest = <<>>
        IN IF c.res # "SZ_OK" \/ stuck \/ c.status = "FINISHED_WITH_MARK" THEN u ELSE DecodeInCalls(u, given, room, size)
  IN With(LzmaDec_DecodeToBuf(r.p, n, TakeFrom(r.src, given), IF Len(r.dest) + n = size THEN "END" ELSE "ANY"), next)
StartDecoder(prop) == LzmaDec_Init(Decoder(prop, DicBufSize(prop.dicSize)))
\* No byte behind the input, and no probability outside of the array.
InBounds(p) ==
  /\ ~p.over /\ p.res # "SZ_ERROR_FAIL"
  /\ DOMAIN p.probs \subseteq SpecPos..SpecPos + LzmaProps_GetNumProbs(p.prop) - 1

\* A text that was coded is decoded again, from the first byte to the last of the input, in one call
\* or in many, over a dictionary that is smaller than the text; from less than all of the input come
\* the first bytes of the text and the wish for more.
DecodedAsCoded(c) ==
  LET size == Len(c.text)
      started(src) == [p |-> StartDecoder(c.prop), src |-> src, dest |-> <<>>, res |-> "SZ_OK", status |-> "NOT_SPECIFIED"]
      whole(src, r) ==
        /\ r.res = "SZ_OK" /\ r.used = Len(src) /\ r.p.dic = c.text
        /\ r.status = (IF c.mark THEN "FINISHED_WITH_MARK" ELSE "MAYBE_FINISHED_WITHOUT_MARK")
      ended(r) == r.res = "SZ_OK" /\ r.dest = c.text /\ r.src = <<>> /\ InBounds(r.p)
      cut(r) == /\ r.res = "SZ_OK" /\ r.status # "FINISHED_WITH_MARK" /\ InBounds(r.p)
                /\ Len(r.dest) <= size /\ r.dest = SubSeq(c.text, 1, Len(r.dest))
  IN With(CodeBlock(LzmaEnc_Init(c.prop), c.text, c.ops, c.mark).out, LAMBDA src :
       /\ With(LzmaDecode(size, src, PropsOf(c.prop), "END", 2^20), LAMBDA r : whole(src, r))
       /\ \A eighths \in {c.cut, 8} :
            With(DecodeInCalls(started(SubSeq(src, 1, (eighths * Len(src)) \div 8)), c.given, c.room, size),
                 LAMBDA r : IF eighths = 8 THEN ended(r) ELSE cut(r)))

\* Choices that cover the text, each of them one the match finder may offer.
CoverText(text, ops) ==
  LET step(s, op) ==
        IF ~s.fits \/ ~Fits(s, text, op) THEN [s EXCEPT !.fits = FALSE]
        ELSE [s EXCEPT !.nowPos = @ + op.len,
                       !.reps = IF op.back = -1 THEN @ ELSE IF op.back < 4 THEN Rep(@, op.back) ELSE <<op.back - 3>> \o SubSeq(@, 1, 3)]
      s == FoldBytes(step, [fits |-> TRUE, nowPos |-> 0, reps |-> <<1, 1, 1, 1>>], ops)
  IN s.fits /\ s.nowPos = Len(text)
=============================================================================
