------------------------------ MODULE Lzma2Dec ------------------------------
(* Lzma2Dec.c: chunks, each with a header, that hold LZMA or plain bytes.    *)
(* q is a CLzma2Dec: decoder, and the header read so far.                    *)
EXTENDS LzmaEnc

CONSTANT LZMA2_DIC_LOG   \* the smallest dictionary has 2 << LZMA2_DIC_LOG bytes: 11 in the code

LZMA2_CONTROL_LZMA == 128
LZMA2_CONTROL_COPY_RESET_DIC == 1
LZMA2_CONTROL_COPY_NO_RESET == 2
LZMA2_LCLP_MAX == 4

\* Lzma2Dec_GetOldProps: the properties of LZMA with the dictionary that `prop` names.
Lzma2Dec_GetOldProps(prop) ==
  LET high == 2 + (prop % 2)
      log == (prop \div 2) + LZMA2_DIC_LOG
  IN IF prop > 40 THEN [res |-> "SZ_ERROR_UNSUPPORTED"]
     ELSE [res |-> "SZ_OK",
           props |-> <<LZMA2_LCLP_MAX>> \o (IF prop = 40 THEN <<255, 255, 255, 255>> ELSE Shl(<<high, 0, 0, 0>>, log))]
Lzma2Dec_AllocateProbs(a, prop, memory) ==
  LET old == Lzma2Dec_GetOldProps(prop)
  IN IF old.res # "SZ_OK" THEN [a EXCEPT !.res = old.res] ELSE LzmaDec_AllocateProbs(a, old.props, memory)
Lzma2Dec_Allocate(a, prop, memory) ==
  LET old == Lzma2Dec_GetOldProps(prop)
  IN IF old.res # "SZ_OK" THEN [a EXCEPT !.res = old.res] ELSE LzmaDec_Allocate(a, old.props, memory)

Lzma2Dec_Init(decoder) ==
  [state |-> "CONTROL", needInitLevel |-> 224, isExtraMode |-> FALSE, control |-> 0, unpackSize |-> 0, packSize |-> 0,
   decoder |-> LzmaDec_Init(decoder)]
LZMA2_IS_UNCOMPRESSED_STATE(q) == q.control < 128

\* Lzma2Dec_UpdateState: what one byte of a header leads to.
Control(q, b) ==
  LET c == [q EXCEPT !.isExtraMode = FALSE, !.control = b]
      plain == b < 128
      bad == IF plain THEN b # LZMA2_CONTROL_COPY_RESET_DIC /\ (b > 2 \/ q.needInitLevel = 224) ELSE b < q.needInitLevel
  IN IF b = 0 THEN [c EXCEPT !.state = "FINISHED"]
     ELSE IF bad THEN [c EXCEPT !.state = "ERROR"]
     ELSE [c EXCEPT !.state = "UNPACK0",
                    !.needInitLevel = IF b = LZMA2_CONTROL_COPY_RESET_DIC THEN 192 ELSE IF plain THEN @ ELSE 0,
                    !.unpackSize = IF plain THEN @ ELSE 65536 * (b % 32)]
ChunkProps(q, b) ==
  IF b >= 9 * 5 * 5 \/ (b % 9) + ((b \div 9) % 5) > LZMA2_LCLP_MAX THEN [q EXCEPT !.state = "ERROR"]
  ELSE [q EXCEPT !.state = "DATA", !.decoder.prop.pb = b \div 45, !.decoder.prop.lc = b % 9, !.decoder.prop.lp = (b \div 9) % 5]
Lzma2Dec_UpdateState(q, b) ==
  CASE q.state = "CONTROL" -> Control(q, b)
    [] q.state = "UNPACK0" -> [q EXCEPT !.state = "UNPACK1", !.unpackSize = @ + 256 * b]
    [] q.state = "UNPACK1" -> [q EXCEPT !.state = IF LZMA2_IS_UNCOMPRESSED_STATE(q) THEN "DATA" ELSE "PACK0", !.unpackSize = @ + b + 1]
    [] q.state = "PACK0" -> [q EXCEPT !.state = "PACK1", !.packSize = 256 * b]
    [] q.state = "PACK1" -> [q EXCEPT !.state = IF BitAt(q.control, 6) = 1 THEN "PROP" ELSE "DATA", !.packSize = @ + b + 1]
    [] q.state = "PROP" -> ChunkProps(q, b)
    [] OTHER -> [q EXCEPT !.state = "ERROR"]

LzmaDec_UpdateWithUncompressed(p, bytes) ==
  LET full == p.checkDicSize = 0 /\ p.prop.dicSize - p.processedPos <= Len(bytes)
      at == p.dicPos
  IN [p EXCEPT !.dic = Tuple([i \in DOMAIN @ |-> IF i - at \in DOMAIN bytes THEN bytes[i - at] ELSE @[i]]),
               !.dicPos = @ + Len(bytes), !.processedPos = @ + Len(bytes), !.checkDicSize = IF full THEN p.prop.dicSize ELSE @]

-----------------------------------------------------------------------------
(* Lzma2Dec_DecodeToDic: r is a call, as of LzmaDec_DecodeToDic, with q.      *)

Broken(r) == Returned([r EXCEPT !.q.state = "ERROR"], "SZ_ERROR_DATA", "NOT_SPECIFIED")
InChunk(state) == state \in {"DATA", "DATA_CONT"}

HeaderByte(r, dicLimit) ==
  LET q == Lzma2Dec_UpdateState(r.q, r.src[1])
      u == Used([r EXCEPT !.q = q], 1)
  IN IF r.src = <<>> THEN Returned(r, "SZ_OK", "NEEDS_MORE_INPUT")
     ELSE IF r.q.decoder.dicPos = dicLimit /\ q.state # "FINISHED" THEN Broken(u) ELSE u

OutCur(q, dicLimit) == Min({dicLimit - q.decoder.dicPos, q.unpackSize})
CopyChunk(r, dicLimit) ==
  LET q == r.q
      bytes == TakeFrom(r.src, OutCur(q, dicLimit))
      begun == IF q.state = "DATA" THEN LzmaDec_InitDicAndState(q.decoder, q.control = LZMA2_CONTROL_COPY_RESET_DIC, FALSE) ELSE q.decoder
      copied == [q EXCEPT !.decoder = LzmaDec_UpdateWithUncompressed(begun, bytes), !.unpackSize = @ - Len(bytes),
                          !.state = IF q.unpackSize = Len(bytes) THEN "CONTROL" ELSE "DATA_CONT"]
  IN IF r.src = <<>> THEN Returned(r, "SZ_OK", "NEEDS_MORE_INPUT")
     ELSE IF bytes = <<>> THEN Broken([r EXCEPT !.q.decoder = begun])
     ELSE Used([r EXCEPT !.q = copied], Len(bytes))

\* The decoder is given no byte of the next chunk, and no room behind this one.
LzmaChunk(r, dicLimit) ==
  LET q == r.q
      begun == IF q.state = "DATA" THEN LzmaDec_InitDicAndState(q.decoder, q.control >= 224, q.control >= 160) ELSE q.decoder
      outCur == OutCur(q, dicLimit)
      finishMode == IF outCur = q.unpackSize THEN "END" ELSE "ANY"
  IN With(LzmaDec_DecodeToDic(begun, q.decoder.dicPos + outCur, TakeFrom(r.src, q.packSize), finishMode), LAMBDA c :
       LET out == c.p.dicPos - q.decoder.dicPos
           d == [q EXCEPT !.decoder = c.p, !.state = "DATA_CONT", !.packSize = @ - c.used, !.unpackSize = @ - out]
           u == Used([r EXCEPT !.q = d], c.used)
           stuck == c.used = 0 /\ out = 0
           ended == c.status = "MAYBE_FINISHED_WITHOUT_MARK" /\ d.unpackSize = 0 /\ d.packSize = 0
       IN IF c.res # "SZ_OK" THEN Broken(u)
          ELSE IF c.status = "NEEDS_MORE_INPUT" THEN IF d.packSize = 0 THEN Broken(u) ELSE Returned(u, "SZ_OK", c.status)
          ELSE IF stuck THEN IF ended THEN [u EXCEPT !.q.state = "CONTROL"] ELSE Broken(u)
          ELSE u)

RECURSIVE Lzma2Rounds(_, _, _)
Lzma2Rounds(r, dicLimit, finishMode) ==
  LET q == r.q
  IN IF r.done THEN r
     ELSE IF q.state = "ERROR" THEN Broken(r)
     ELSE IF q.state = "FINISHED" THEN Returned(r, "SZ_OK", "FINISHED_WITH_MARK")
     ELSE IF q.decoder.dicPos = dicLimit /\ finishMode = "ANY" THEN Returned(r, "SZ_OK", "NOT_FINISHED")
     ELSE With(IF ~InChunk(q.state) THEN HeaderByte(r, dicLimit)
               ELSE IF LZMA2_IS_UNCOMPRESSED_STATE(q) THEN CopyChunk(r, dicLimit) ELSE LzmaChunk(r, dicLimit),
               LAMBDA s : Lzma2Rounds(s, dicLimit, finishMode))
Lzma2Dec_DecodeToDic(q, dicLimit, src, finishMode) ==
  Lzma2Rounds([q |-> q, src |-> src, used |-> 0, res |-> "SZ_OK", status |-> "NOT_SPECIFIED", done |-> FALSE], dicLimit, finishMode)

\* A round that is not the last has given a byte.
DecodedToBuf(ToDic(_, _, _, _), q0, outSize, src, finishMode) ==
  LET size == Len(q0.decoder.dic)
      q(r) == IF r.q.decoder.dicPos = size THEN [r.q EXCEPT !.decoder.dicPos = 0] ELSE r.q
      at(r) == q(r).decoder.dicPos
      left(r) == outSize - Len(r.dest)
      whole(r) == size - at(r) >= left(r)
      next(r, c, new) == [c EXCEPT !.used = r.used + @] @@
        [dest |-> r.dest \o new, ended |-> c.res # "SZ_OK" \/ new = <<>> \/ Len(new) = left(r)]
      round(r) == With(ToDic(q(r), IF whole(r) THEN at(r) + left(r) ELSE size, r.src, IF whole(r) THEN finishMode ELSE "ANY"),
                       LAMBDA c : next(r, c, SubSeq(c.q.decoder.dic, at(r) + 1, c.q.decoder.dicPos)))
  IN FoldBytes(LAMBDA r, k : IF r.ended THEN r ELSE round(r),
               [q |-> q0, src |-> src, used |-> 0, dest |-> <<>>, ended |-> FALSE], [k \in 1..outSize + 1 |-> k])
Lzma2Dec_DecodeToBuf(q, outSize, src, finishMode) == DecodedToBuf(Lzma2Dec_DecodeToDic, q, outSize, src, finishMode)

\* Lzma2Decode: the output is the dictionary.
Lzma2Decode(outSize, src, prop, finishMode, memory) ==
  LET a == Lzma2Dec_AllocateProbs(NewDecoder, prop, memory)
      ended(r) == IF r.res = "SZ_OK" /\ r.status = "NEEDS_MORE_INPUT" THEN [r EXCEPT !.res = "SZ_ERROR_INPUT_EOF"] ELSE r
  IN IF a.res # "SZ_OK" THEN [res |-> a.res, status |-> "NOT_SPECIFIED", used |-> 0]
     ELSE With(Lzma2Dec_DecodeToDic(Lzma2Dec_Init(Decoder(a.prop, outSize)), outSize, src, finishMode), ended)

-----------------------------------------------------------------------------
(* Lzma2Dec_Parse: the sizes of the chunks, without decoding them.            *)

\* At the header: the start of a chunk is reported, and so is that of a block without history.
ParseHeader(r, outSize) ==
  LET q == Lzma2Dec_UpdateState(r.q, r.src[1])
      u == Used([r EXCEPT !.q = q], 1)
      newBlock == q.state = "UNPACK0" /\ (q.control = LZMA2_CONTROL_COPY_RESET_DIC \/ q.control >= 224)
  IN IF r.src = <<>> THEN Returned(r, "SZ_OK", "NEEDS_MORE_INPUT")
     ELSE IF newBlock THEN Returned(u, "SZ_OK", "NEW_BLOCK")
     ELSE IF outSize = 0 /\ q.state # "FINISHED" THEN Returned(u, "SZ_OK", "NOT_FINISHED")
     ELSE IF q.state = "DATA" THEN Returned(u, "SZ_OK", "NEW_CHUNK") ELSE u
ParseCopy(r, outSize) ==
  LET n == Min({Len(r.src), r.q.unpackSize, outSize})
      q == [r.q EXCEPT !.decoder.dicPos = @ + n, !.unpackSize = @ - n, !.state = IF r.q.unpackSize = n THEN "CONTROL" ELSE "DATA_CONT"]
  IN IF r.src = <<>> THEN Returned(r, "SZ_OK", "NEEDS_MORE_INPUT") ELSE Used([r EXCEPT !.q = q, !.out = @ + n], n)
\* What a chunk of LZMA holds is there when all of its input was seen; its first byte is zero.
ParseLzma(r, outSize) ==
  LET extra == [r EXCEPT !.q.isExtraMode = TRUE]
      n == Min({Len(r.src), r.q.packSize})
      left == r.q.packSize - n
      got == IF left = 0 THEN Min({outSize, r.q.unpackSize}) ELSE 0
      q == [extra.q EXCEPT !.packSize = left, !.unpackSize = @ - got, !.decoder.dicPos = @ + got,
                           !.state = IF left = 0 /\ r.q.unpackSize = got THEN "CONTROL" ELSE IF r.src = <<>> THEN @ ELSE "DATA_CONT"]
  IN IF r.src = <<>> /\ r.q.packSize # 0 THEN Returned(extra, "SZ_OK", "NEEDS_MORE_INPUT")
     ELSE IF r.src # <<>> /\ r.q.state = "DATA" /\ r.src[1] # 0
     THEN Returned(Used([extra EXCEPT !.q.packSize = @ - 1, !.q.state = "ERROR"], 1), "SZ_OK", "NOT_SPECIFIED")
     ELSE Used([extra EXCEPT !.q = q, !.out = @ + got], n)
RECURSIVE ParseRounds(_, _, _)
ParseRounds(r, outSize, checkFinishBlock) ==
  LET q == r.q
      left == outSize - r.out
      next(s) == ParseRounds(s, outSize, checkFinishBlock)
  IN IF r.done THEN r
     ELSE IF q.state = "ERROR" THEN Returned(r, "SZ_OK", "NOT_SPECIFIED")
     ELSE IF q.state = "FINISHED" THEN Returned(r, "SZ_OK", "FINISHED_WITH_MARK")
     ELSE IF left = 0 /\ ~checkFinishBlock THEN Returned(r, "SZ_OK", "NOT_FINISHED")
     ELSE IF ~InChunk(q.state) THEN With(ParseHeader(r, left), next)
     ELSE IF left = 0 THEN Returned(r, "SZ_OK", "NOT_FINISHED")
     ELSE With(IF LZMA2_IS_UNCOMPRESSED_STATE(q) THEN ParseCopy(r, left) ELSE ParseLzma(r, left), next)
Lzma2Dec_Parse(q, outSize, src, checkFinishBlock) ==
  ParseRounds([q |-> q, src |-> src, used |-> 0, out |-> 0, res |-> "SZ_OK", status |-> "NOT_SPECIFIED", done |-> FALSE],
              outSize, checkFinishBlock)

-----------------------------------------------------------------------------
(* What Lzma2Enc.c writes: w is the writer; ops are the choices of one chunk, *)
(* as of CodeBlock.                                                           *)

Lzma2EncInt_InitBlock(prop) ==
  [enc |-> LzmaEnc_Init(prop), srcPos |-> 0, needInitState |-> TRUE, needInitProp |-> TRUE, out |-> <<>>]
SizeBytes(n) == <<(n \div 256) % 256, n % 256>>
\* A chunk that LZMA does not make smaller is copied; the state of the coder is then what it was.
CopiedChunk(w, bytes, coded) ==
  [w EXCEPT !.out = @ \o <<IF w.srcPos = 0 THEN LZMA2_CONTROL_COPY_RESET_DIC ELSE LZMA2_CONTROL_COPY_NO_RESET>>
                      \o SizeBytes(Len(bytes) - 1) \o bytes,
            !.srcPos = @ + Len(bytes), !.enc.nowPos = coded.nowPos]
PackedChunk(w, n, coded) ==
  LET mode == IF w.srcPos = 0 THEN 3 ELSE IF ~w.needInitState THEN 0 ELSE IF w.needInitProp THEN 2 ELSE 1
      p == w.enc.prop
      props == IF w.needInitProp THEN <<(p.pb * 5 + p.lp) * 9 + p.lc>> ELSE <<>>
  IN [enc |-> coded, srcPos |-> w.srcPos + n, needInitState |-> FALSE, needInitProp |-> FALSE,
      out |-> w.out \o <<LZMA2_CONTROL_LZMA + 32 * mode + ((n - 1) \div 65536)>> \o SizeBytes(n - 1)
                \o SizeBytes(Len(coded.out) - 1) \o props \o coded.out]
Lzma2EncInt_EncodeSubblock(w, text, ops) ==
  LET start == IF w.needInitState THEN [LzmaEnc_Init(w.enc.prop) EXCEPT !.nowPos = w.enc.nowPos] ELSE w.enc
  IN With(CodeBlock(start, text, ops, FALSE), LAMBDA coded :
       LET bytes == SubSeq(text, w.enc.nowPos + 1, coded.nowPos)
       IN IF Len(coded.out) + 2 >= Len(bytes) THEN CopiedChunk(w, bytes, coded) ELSE PackedChunk(w, Len(bytes), coded))
\* The chunks of a text, and the byte that ends them.
Lzma2Written(prop, text, chunks) ==
  FoldBytes(LAMBDA w, ops : Lzma2EncInt_EncodeSubblock(w, text, ops), Lzma2EncInt_InitBlock(prop), chunks).out \o <<0>>

-----------------------------------------------------------------------------

\* r: q, the input src that is left, what came out, the last res and status.
RECURSIVE ChunksInCalls(_, _, _)
ChunksInCalls(r, given, room) ==
  LET next(c) ==
        LET u == [q |-> c.q, src |-> SubSeq(r.src, c.used + 1, Len(r.src)), dest |-> r.dest \o c.dest, res |-> c.res, status |-> c.status]
        IN IF c.res # "SZ_OK" \/ c.status = "FINISHED_WITH_MARK" \/ (c.used = 0 /\ c.dest = <<>>) THEN u ELSE ChunksInCalls(u, given, room)
  IN With(Lzma2Dec_DecodeToBuf(r.q, room, TakeFrom(r.src, given), "ANY"), next)
\* The sum of the sizes that Lzma2Dec_Parse finds, from as many calls as it takes.
RECURSIVE ParsedInCalls(_, _, _, _)
ParsedInCalls(q, src, given, out) ==
  LET offered == TakeFrom(src, given)
      next(c) ==
        LET left == SubSeq(src, c.used + 1, Len(src))
        IN IF c.status = "FINISHED_WITH_MARK" \/ c.status = "NOT_SPECIFIED" \/ (c.used = 0 /\ c.out = 0)
           THEN [out |-> out + c.out, status |-> c.status, left |-> Len(left)]
           ELSE ParsedInCalls(c.q, left, given, out + c.out)
  IN With(Lzma2Dec_Parse(q, 2^20, offered, TRUE), next)

\* Chunks of all kinds give the text back, in one call or in many over a small dictionary, to the
\* last byte of the input; their sizes can be found without decoding them; of less input comes a
\* first part of the text and no end.
ChunksDecoded(c) ==
  LET q == Lzma2Dec_Init(StartDecoder([c.prop EXCEPT !.lc = LZMA2_LCLP_MAX]))
      started(s) == [q |-> q, src |-> s, dest |-> <<>>, res |-> "SZ_OK", status |-> "NOT_SPECIFIED"]
      whole(s, r) == r.res = "SZ_OK" /\ r.status = "FINISHED_WITH_MARK" /\ r.used = Len(s) /\ r.q.decoder.dic = c.text
      ended(r) == /\ r.res = "SZ_OK" /\ r.status = "FINISHED_WITH_MARK" /\ r.src = <<>> /\ r.dest = c.text
                  /\ ~r.q.decoder.over
      cut(r) == r.res = "SZ_OK" /\ r.status # "FINISHED_WITH_MARK" /\ r.dest = SubSeq(c.text, 1, Len(r.dest))
  IN With(Lzma2Written(c.prop, c.text, c.chunks), LAMBDA s :
       /\ With(Lzma2Decode(Len(c.text), s, 0, "END", 2^20), LAMBDA r : whole(s, r))
       /\ \A eighths \in {c.cut, 8} :
            With(ChunksInCalls(started(SubSeq(s, 1, (eighths * Len(s)) \div 8)), c.given, c.room),
                 LAMBDA r : IF eighths = 8 THEN ended(r) ELSE cut(r))
       /\ ParsedInCalls(q, s, c.given, 0) = [out |-> Len(c.text), status |-> "FINISHED_WITH_MARK", left |-> 0])
=============================================================================
