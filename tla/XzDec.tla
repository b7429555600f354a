------------------------------- MODULE XzDec -------------------------------
(* Xz.c and XzDec.c: streams of blocks, each behind a chain of filters, with  *)
(* a check of each block and an index of all of them.  m is a CMixCoder, p a  *)
(* CXzUnpacker.                                                               *)
EXTENDS Lzma2Dec, XzFilters, Checksums

CONSTANT CODER_BUF_SIZE,  \* 2^17 in the code
         MostDoublings    \* of the buffer, before there is no memory

NoSize == -1       \* (UInt64)(Int64)-1: the block does not say
FarSize == 2^28    \* stands for all sizes from here on: no stream of the model is as long

-----------------------------------------------------------------------------
(* Numbers of a header: seven bits in a byte, the lowest first.               *)

RECURSIVE Xz_WriteVarInt(_)
Xz_WriteVarInt(v) == IF v < 128 THEN <<v>> ELSE <<(v % 128) + 128>> \o Xz_WriteVarInt(v \div 128)

\* n: how many bytes, 0 for none that are a number.
VarValue(digits) ==
  IF Len(digits) > 4 THEN FarSize ELSE FoldBytes(LAMBDA v, d : 128 * v + d, 0, Reverse(digits))
Xz_ReadVarInt(bytes) ==
  LET limit == Min({9, Len(bytes)})
      ends == {i \in 1..limit : bytes[i] < 128}
      n == Min(ends)
      digits == [i \in 1..n |-> bytes[i] % 128]
  IN IF ends = {} \/ (n # 1 /\ bytes[n] = 0) THEN [n |-> 0, value |-> 0, digits |-> <<>>]
     ELSE [n |-> n, value |-> VarValue(digits), digits |-> digits]
\* value + headerSize >= 2^63
TooFar(digits, headerSize) ==
  /\ Len(digits) = 9
  /\ \A i \in 3..9 : digits[i] = 127
  /\ digits[1] + 128 * digits[2] + headerSize >= 2^14

-----------------------------------------------------------------------------
(* The check of a block                                                       *)

XzFlags_GetCheckSize(flags) == LET t == flags % 16 IN IF t = 0 THEN 0 ELSE 4 * 2^((t - 1) \div 3)
XzCheck_Init(mode) ==
  [mode |-> mode,
   v |-> CASE mode = 1 -> Not(Zero(4)) [] mode = 4 -> Not(Zero(8))
           [] mode = 10 -> [state |-> Sha256_Init, buffer |-> [i \in 1..64 |-> 0], count |-> 0] [] OTHER -> <<>>]
XzCheck_Update(check, data) ==
  [check EXCEPT !.v = CASE check.mode = 1 -> CrcUpdateT1(g_CrcTable, @, data) [] check.mode = 4 -> CrcUpdateT1(g_Crc64Table, @, data)
                        [] check.mode = 10 -> Sha256_Update(@, data) [] OTHER -> @]
\* <<>>: nothing that the block could be compared with.
XzCheck_Final(check) ==
  CASE check.mode \in {1, 4} -> Not(check.v)
    [] check.mode = 10 -> With(Sha256_Final(check.v), LAMBDA h : FlattenSeq([i \in 1..8 |-> Reverse(h[i])]))
    [] OTHER -> <<>>

-----------------------------------------------------------------------------
(* Headers                                                                    *)

XZ_SIG == <<253, 55, 122, 88, 90, 0>>
XZ_FOOTER_SIG == <<89, 90>>
XZ_STREAM_HEADER_SIZE == 12
Xz_ParseHeader(buf) ==
  LET flags == 256 * buf[7] + buf[8]
      res == IF CrcCalc(SubSeq(buf, 7, 8)) # SubSeq(buf, 9, 12) THEN "SZ_ERROR_NO_ARCHIVE"
             ELSE IF flags > 15 THEN "SZ_ERROR_UNSUPPORTED" ELSE "SZ_OK"
  IN [flags |-> flags, res |-> res]
Xz_CheckFooter(flags, indexSize, buf) ==
  /\ buf[8] < 16 /\ indexSize = 4 * (buf[5] + 256 * buf[6] + 65536 * buf[7] + 2^24 * buf[8] + 1)
  /\ SubSeq(buf, 1, 4) = CrcCalc(SubSeq(buf, 5, 10))
  /\ flags = 256 * buf[9] + buf[10]
  /\ SubSeq(buf, 11, 12) = XZ_FOOTER_SIG

\* A filter is its id and the bytes of its properties; the last of a block is the first to decode.
XzBlock_AreSupportedFilters(filters) ==
  LET last == filters[Len(filters)]
  IN /\ last.id = XzIds.LZMA2 /\ Len(last.props) = 1 /\ last.props[1] <= 40
     /\ \A i \in 1..Len(filters) - 1 :
          LET f == filters[i]
          IN f.id \in XzIds.Delta..XzIds.SPARC /\ Len(f.props) \in (IF f.id = XzIds.Delta THEN {1} ELSE {0, 4})

\* What is read of a header so far: h is its bytes without the check, `bad` an error.
ReadNumber(b, h) ==
  LET v == Xz_ReadVarInt(SubSeq(h, b.pos + 1, Len(h)))
  IN IF v.n = 0 THEN [b EXCEPT !.bad = TRUE] ELSE [b EXCEPT !.pos = @ + v.n, !.number = v]
ReadFilter(b, h) ==
  With(ReadNumber(b, h), LAMBDA id : With(ReadNumber(id, h), LAMBDA size :
    LET n == size.number.value
    IN IF b.bad \/ id.bad \/ size.bad \/ n > Len(h) - size.pos \/ n > 20 THEN [b EXCEPT !.bad = TRUE]
       ELSE [size EXCEPT !.pos = @ + n,
                         !.filters = Append(@, [id |-> id.number.value, props |-> SubSeq(h, size.pos + 1, size.pos + n)])]))
ReadPackSize(b, h) ==
  With(ReadNumber(b, h), LAMBDA r :
    IF r.bad \/ r.number.value = 0 \/ TooFar(r.number.digits, Len(h)) THEN [b EXCEPT !.bad = TRUE]
    ELSE [r EXCEPT !.packSize = r.number.value])
ReadUnpackSize(b, h) ==
  With(ReadNumber(b, h), LAMBDA r : IF b.bad \/ r.bad THEN [b EXCEPT !.bad = TRUE] ELSE [r EXCEPT !.unpackSize = r.number.value])
XzBlock_Parse(header) ==
  LET headerSize == 4 * header[1]
      h == SubSeq(header, 1, headerSize)
      flags == header[2]
      start == [bad |-> FALSE, pos |-> 2, number |-> <<>>, packSize |-> NoSize, unpackSize |-> NoSize, filters |-> <<>>]
  IN With(With(With(IF BitAt(flags, 6) = 1 THEN ReadPackSize(start, h) ELSE start,
                    LAMBDA b : IF BitAt(flags, 7) = 1 THEN ReadUnpackSize(b, h) ELSE b),
               LAMBDA b : FoldBytes(LAMBDA r, k : ReadFilter(r, h), b, [k \in 1..(flags % 4) + 1 |-> k])),
          LAMBDA b :
            [res |-> IF CrcCalc(h) # SubSeq(header, headerSize + 1, headerSize + 4) \/ b.bad THEN "SZ_ERROR_ARCHIVE"
                     ELSE IF (flags \div 4) % 16 # 0 THEN "SZ_ERROR_UNSUPPORTED"
                     ELSE IF \E i \in b.pos + 1..headerSize : h[i] # 0 THEN "SZ_ERROR_ARCHIVE" ELSE "SZ_OK",
             packSize |-> b.packSize, unpackSize |-> b.unpackSize, filters |-> b.filters])

-----------------------------------------------------------------------------
(* Coders.  The first of a chain is LZMA2: a is its memory, q its decoder;    *)
(* with outBufMode the buffer of the caller is the dictionary.                *)

Lzma2State == [id |-> XzIds.LZMA2, a |-> NewDecoder, q |-> Lzma2Dec_Init(Decoder([dicSize |-> 0], 0)), outBufMode |-> FALSE, res |-> "SZ_OK"]
Lzma2State_SetFromMethod(outBuf) ==
  [Lzma2State EXCEPT !.outBufMode = outBuf # <<>>, !.q.decoder.dic = outBuf]
Lzma2State_ResetOutBuf(s, outBuf) ==
  IF s.outBufMode # (outBuf # <<>>) THEN [s EXCEPT !.res = "SZ_ERROR_FAIL"]
  ELSE IF outBuf = <<>> THEN s ELSE [s EXCEPT !.q.decoder.dic = outBuf]
Lzma2State_SetProps(s, props, memory) ==
  LET a == IF s.outBufMode THEN Lzma2Dec_AllocateProbs(s.a, props[1], memory) ELSE Lzma2Dec_Allocate(s.a, props[1], memory)
      dic == IF s.outBufMode \/ a.dic = s.a.dic THEN s.q.decoder.dic ELSE Tuple([i \in 1..a.dic |-> 170])
  IN IF Len(props) # 1 THEN [s EXCEPT !.res = "SZ_ERROR_UNSUPPORTED"]
     ELSE [s EXCEPT !.a = a, !.res = a.res, !.q.decoder.dic = dic, !.q.decoder.prop = a.prop]

Coder_Init(c) ==
  IF c.id = XzIds.LZMA2 THEN [c EXCEPT !.q = Lzma2Dec_Init(c.q.decoder)] ELSE [c EXCEPT !.s = BraState_Init(@)]
Coder_SetProps(c, props, memory) ==
  IF c.id = XzIds.LZMA2 THEN Lzma2State_SetProps(c, props, memory)
  ELSE LET s == BraState_SetProps(c.s, props) IN [c EXCEPT !.s = s, !.res = s.res]
\* What one call of a coder gives: the coder behind it, what it wrote, how much it read.
Coded(c, dest, used, res, status) == [c |-> c, dest |-> dest, used |-> used, res |-> res, status |-> status]
CoderCode(ToDic(_, _, _, _), c, room, src, srcWasFinished, finishMode) ==
  LET at == c.q.decoder.dicPos
      ofDic(r) == Coded([c EXCEPT !.q = r.q], SubSeq(r.q.decoder.dic, at + 1, r.q.decoder.dicPos), r.used, r.res, r.status)
      ofBuf(r) == Coded([c EXCEPT !.q = r.q], r.dest, r.used, r.res, r.status)
      ofBra(r) == Coded([c EXCEPT !.s = r.p], r.dest, r.used, r.res, r.status)
  IN IF c.id # XzIds.LZMA2 THEN With(BraState_Code2(c.s, room, src, srcWasFinished), ofBra)
     ELSE IF c.outBufMode THEN With(ToDic(c.q, at + room, src, finishMode), ofDic)
     ELSE With(DecodedToBuf(ToDic, c.q, room, src, finishMode), ofBuf)
Coder_Code2(c, room, src, srcWasFinished, finishMode) ==
  CoderCode(Lzma2Dec_DecodeToDic, c, room, src, srcWasFinished, finishMode)

-----------------------------------------------------------------------------
(* MixCoder: buf[i] holds what coder i wrote and coder i + 1 did not read.    *)

MixCoder_Construct ==
  [coders |-> <<>>, buf |-> <<>>, finished |-> <<>>, results |-> <<>>, outBuf |-> <<>>, outWritten |-> 0,
   wasFinished |-> FALSE, res |-> "SZ_OK", status |-> "NOT_SPECIFIED"]
\* A mutant: the decoder of the block before goes on where it was.
MixCoder_InitAgain(m) ==
  LET n == Len(m.coders)
  IN [m EXCEPT !.coders = [i \in 1..n |-> IF i = 1 THEN m.coders[1] ELSE Coder_Init(m.coders[i])],
               !.buf = [i \in 1..n |-> <<>>], !.finished = [i \in 1..n |-> FALSE], !.results = [i \in 1..n |-> "SZ_OK"], !.outWritten = 0,
               !.wasFinished = FALSE, !.res = "SZ_OK", !.status = "NOT_SPECIFIED"]

MixCoder_Init(m) ==
  LET n == Len(m.coders)
  IN [m EXCEPT !.coders = [i \in 1..n |-> Coder_Init(m.coders[i])], !.buf = [i \in 1..n |-> <<>>],
               !.finished = [i \in 1..n |-> FALSE], !.results = [i \in 1..n |-> "SZ_OK"], !.outWritten = 0,
               !.wasFinished = FALSE, !.res = "SZ_OK", !.status = "NOT_SPECIFIED"]

\* XzDecMix_Init: coders of the same methods are used again, with new properties.
XzDecMix_Init(m, filters, outBuf, memory) ==
  LET n == Len(filters)
      filter(i) == filters[n + 1 - i]
      same == /\ Len(m.coders) = n /\ (m.outBuf # <<>>) = (outBuf # <<>>)
              /\ \A i \in 1..n : m.coders[i].id = filter(i).id
      fresh(i) == IF filter(i).id = XzIds.LZMA2 THEN Lzma2State_SetFromMethod(outBuf)
                  ELSE [id |-> filter(i).id, s |-> BraState(filter(i).id, FALSE), res |-> "SZ_OK"]
      unknown == \E i \in 1..n : IF i = 1 THEN filter(i).id # XzIds.LZMA2
                                 ELSE filter(i).id # XzIds.LZMA2 /\ filter(i).id \notin XzIds.Delta..XzIds.SPARC
      coders == [i \in 1..n |-> IF ~same THEN fresh(i) ELSE IF i = 1 THEN Lzma2State_ResetOutBuf(m.coders[1], outBuf) ELSE m.coders[i]]
      set == [i \in 1..n |-> Coder_SetProps(coders[i], filter(i).props, memory)]
      ready(c) ==
        LET wrong == {i \in 1..n : c[i].res # "SZ_OK"}
            k == [m EXCEPT !.coders = c, !.outBuf = outBuf]
        IN IF wrong = {} THEN MixCoder_Init(k) ELSE [k EXCEPT !.res = c[Min(wrong)].res]
  IN IF ~same /\ unknown THEN [MixCoder_Construct EXCEPT !.outBuf = outBuf, !.res = "SZ_ERROR_UNSUPPORTED"]
     ELSE With(set, ready)

\* r: the mix, what was written, how much was read, res.
Mixed(m, dest, used, res) == [m |-> m, dest |-> dest, used |-> used, res |-> res]

\* Into the one buffer; when all is there the filters pass over it, in place.
Filtered(coder, buf, processed) ==
  With(BraState_Filter(coder.s, SubSeq(buf, 1, processed)),
       LAMBDA f : [size |-> f.size, buf |-> f.data \o SubSeq(buf, processed + 1, Len(buf))])
FilteredAll(m, written, buf, whole) ==
  FoldBytes(LAMBDA f, i : With(Filtered(m.coders[i], f.buf, f.size), LAMBDA g : IF whole THEN [g EXCEPT !.size = written] ELSE g),
            [size |-> written, buf |-> buf], [i \in 1..Len(m.coders) - 1 |-> i + 1])
CodeSingle(m, room, destFinish, src, srcWasFinished, finishMode) ==
  With(Coder_Code2(m.coders[1], room, src, srcWasFinished, finishMode), LAMBDA r :
    LET ended == r.status = "FINISHED_WITH_MARK"
        written == m.outWritten + Len(r.dest)
        k == [m EXCEPT !.coders[1] = r.c, !.res = r.res, !.status = r.status, !.outWritten = written,
                       !.wasFinished = r.res # "SZ_OK" \/ srcWasFinished \/ ended]
    IN IF Len(m.coders) = 1 THEN Mixed(k, r.dest, r.used, r.res)
       ELSE IF ~k.wasFinished THEN Mixed(k, <<>>, r.used, r.res)
       ELSE With(FilteredAll(m, written, r.c.q.decoder.dic, ended \/ (destFinish /\ written = room)), LAMBDA f :
              Mixed([k EXCEPT !.coders[1].q.decoder.dic = f.buf], SubSeq(f.buf, 1, f.size), r.used, r.res)))

\* One coder of one round: t is the round.
MixStep(t, i, room, srcWasFinished, finishMode) ==
  LET m == t.m
      n == Len(m.coders)
      src == IF i = 1 THEN t.src ELSE m.buf[i - 1]
      ended == IF i = 1 THEN srcWasFinished ELSE m.finished[i - 1]
  IN IF i # n /\ m.buf[i] # <<>> THEN t
     ELSE IF m.results[i] # "SZ_OK" THEN [t EXCEPT !.resMain = IF @ = "SZ_OK" THEN m.results[i] ELSE @]
     ELSE With(Coder_Code2(m.coders[i], IF i = n THEN room - Len(t.dest) ELSE CODER_BUF_SIZE, src, ended, finishMode), LAMBDA r :
            LET mark == r.status = "FINISHED_WITH_MARK"
                left == SubSeq(src, r.used + 1, Len(src))
                result(k) == IF r.res = "SZ_OK" THEN k ELSE [k EXCEPT !.results[i] = r.res]
                read(k) == IF i = 1 THEN k ELSE [k EXCEPT !.buf[i - 1] = left]
                wrote(k) == IF i = n THEN k ELSE [k EXCEPT !.buf[i] = r.dest, !.finished[i] = mark]
                status(k) == IF n = 1 /\ ~mark /\ r.res = "SZ_OK" THEN [k EXCEPT !.status = r.status] ELSE k
            IN [t EXCEPT !.m = status(wrote(read(result([m EXCEPT !.coders[i] = r.c])))),
                         !.src = IF i = 1 THEN left ELSE @, !.used = IF i = 1 THEN @ + r.used ELSE @,
                         !.dest = IF i = n THEN @ \o r.dest ELSE @,
                         !.resMain = IF r.res # "SZ_OK" /\ @ = "SZ_OK" THEN r.res ELSE @,
                         !.allFinished = @ /\ mark, !.processed = @ \/ r.dest # <<>> \/ r.used # 0])
RECURSIVE MixRounds(_, _, _, _)
MixRounds(t, room, srcWasFinished, finishMode) ==
  LET start == [t EXCEPT !.m.status = "NOT_FINISHED", !.processed = FALSE, !.allFinished = TRUE, !.resMain = "SZ_OK"]
  IN With(FoldBytes(LAMBDA u, i : MixStep(u, i, room, srcWasFinished, finishMode), start, [i \in DOMAIN t.m.coders |-> i]), LAMBDA u :
       IF u.processed THEN MixRounds(u, room, srcWasFinished, finishMode)
       ELSE Mixed(IF u.allFinished THEN [u.m EXCEPT !.status = "FINISHED_WITH_MARK"] ELSE u.m, u.dest, u.used, u.resMain))

MixCoder_Code(m, room, destFinish, src, srcWasFinished, finishMode) ==
  LET t == [m |-> m, src |-> src, used |-> 0, dest |-> <<>>, processed |-> FALSE, allFinished |-> TRUE, resMain |-> "SZ_OK"]
  IN IF m.wasFinished THEN Mixed(m, <<>>, 0, m.res)
     ELSE IF m.outBuf # <<>> THEN CodeSingle([m EXCEPT !.status = "NOT_FINISHED"], room, destFinish, src, srcWasFinished, finishMode)
     ELSE MixRounds(t, room, srcWasFinished, IF Len(m.coders) = 1 THEN finishMode ELSE "ANY")

-----------------------------------------------------------------------------
(* XzUnpacker: buf and pos as in the code; two digests of an index are equal  *)
(* only if what was hashed is, so sha and shaDigest are what was hashed.      *)

XzUnpacker_Init(p) ==
  [p EXCEPT !.state = "STREAM_HEADER", !.pos = 0, !.numStartedStreams = 0, !.numFinishedStreams = 0,
            !.numTotalBlocks = 0, !.padSize = 0, !.decodeOnlyOneBlock = FALSE, !.parseMode = FALSE,
            !.decodeToStreamSignature = FALSE, !.outDataWritten = 0]
XzUnpacker_SetOutBuf(p, outBuf) == [p EXCEPT !.outBuf = outBuf]
\* `memory`: the largest allocation that succeeds.
XzUnpacker_Construct(memory) ==
  XzUnpacker_Init(
    [state |-> "", pos |-> 0, alignPos |-> 0, indexPreSize |-> 0, streamFlags |-> 0, blockHeaderSize |-> 0,
     packSize |-> 0, unpackSize |-> 0, numBlocks |-> 0, indexSize |-> 0, indexPos |-> 0, padSize |-> 0,
     numStartedStreams |-> 0, numFinishedStreams |-> 0, numTotalBlocks |-> 0, crc |-> Zero(4),
     decoder |-> MixCoder_Construct, block |-> <<>>, check |-> <<>>, sha |-> <<>>, shaDigest |-> <<>>,
     parseMode |-> FALSE, headerParsedOk |-> FALSE, decodeToStreamSignature |-> FALSE, decodeOnlyOneBlock |-> FALSE,
     outBuf |-> <<>>, outDataWritten |-> 0, buf |-> <<>>, memory |-> memory])
XzUnpacker_PrepareToRandomBlockDecoding(p) ==
  [p EXCEPT !.indexSize = 0, !.numBlocks = 0, !.sha = <<>>, !.state = "BLOCK_HEADER", !.pos = 0, !.decodeOnlyOneBlock = TRUE]
XzUnpacker_UpdateIndex(p, packSize, unpackSize) ==
  LET temp == Xz_WriteVarInt(packSize) \o Xz_WriteVarInt(unpackSize)
  IN [p EXCEPT !.sha = @ \o temp, !.indexSize = @ + Len(temp), !.numBlocks = @ + 1]

\* r is a call: p, src and room that are left, what was written and how much was read; u is r
\* behind n more bytes, with p.
Step(r, n, p) == Used([r EXCEPT !.p = p], n)
Failed(r, res) == Returned(r, res, r.status)
NeedsMoreInput(r) == Returned(r, "SZ_OK", "NEEDS_MORE_INPUT")
\* The next bytes of the input, up to n of them, behind the pos bytes of buf that were read.
Gathered(p, bytes) == [p EXCEPT !.buf = SubSeq(@, 1, p.pos) \o bytes, !.pos = @ + Len(bytes)]
Gather(r, n) == LET bytes == TakeFrom(r.src, n) IN Step(r, Len(bytes), Gathered(r.p, bytes))

StreamHeader(r) ==
  LET p == r.p
      header == Xz_ParseHeader(p.buf)
      parsed == [p EXCEPT !.streamFlags = header.flags]
  IN IF p.pos < XZ_STREAM_HEADER_SIZE
     THEN IF p.pos < 6 /\ r.src[1] # XZ_SIG[p.pos + 1] THEN Failed(r, "SZ_ERROR_NO_ARCHIVE")
          ELSE IF p.decodeToStreamSignature THEN Failed(r, "SZ_OK") ELSE Gather(r, 1)
     ELSE IF header.res # "SZ_OK" THEN Failed([r EXCEPT !.p = parsed], header.res)
     ELSE [r EXCEPT !.p = [parsed EXCEPT !.numStartedStreams = @ + 1, !.indexSize = 0, !.numBlocks = 0, !.sha = <<>>,
                                         !.state = "BLOCK_HEADER", !.pos = 0]]

\* A zero where a block could begin is the index: it must repeat what was hashed of the blocks.
IndexBegins(p) ==
  LET pre == <<0>> \o Xz_WriteVarInt(p.numBlocks)
  IN [p EXCEPT !.buf = pre, !.indexPreSize = Len(pre), !.indexPos = Len(pre), !.indexSize = @ + Len(pre),
               !.shaDigest = p.sha, !.sha = <<>>, !.crc = CrcUpdateT1(g_CrcTable, Not(Zero(4)), pre), !.state = "STREAM_INDEX"]
BlockBegins(r) ==
  LET p == r.p
      begun(block) == [p EXCEPT !.block = block, !.numTotalBlocks = @ + 1, !.state = "BLOCK", !.packSize = 0, !.unpackSize = 0,
                                !.check = XzCheck_Init(p.streamFlags % 16)]
  IN With(XzBlock_Parse(p.buf), LAMBDA block :
       IF block.res # "SZ_OK" THEN Failed([r EXCEPT !.p.block = block], block.res)
       ELSE IF ~XzBlock_AreSupportedFilters(block.filters) THEN Failed([r EXCEPT !.p.block = block], "SZ_ERROR_UNSUPPORTED")
       ELSE IF p.parseMode THEN Failed([r EXCEPT !.p = [begun(block) EXCEPT !.headerParsedOk = TRUE]], "SZ_OK")
       ELSE With(XzDecMix_Init(p.decoder, block.filters, p.outBuf, p.memory), LAMBDA m :
              With([r EXCEPT !.p = [begun(block) EXCEPT !.decoder = m]],
                   LAMBDA u : IF m.res = "SZ_OK" THEN u ELSE Failed(u, m.res))))
BlockHeader(r) ==
  LET p == r.p
      first == Gather(r, 1)
  IN IF p.pos = 0
     THEN IF r.src[1] # 0 THEN [first EXCEPT !.p.blockHeaderSize = 4 * r.src[1] + 4]
          ELSE IF p.decodeOnlyOneBlock THEN Failed(first, "SZ_ERROR_DATA")
          ELSE [first EXCEPT !.p = IndexBegins(first.p)]
     ELSE IF p.pos # p.blockHeaderSize THEN Gather(r, p.blockHeaderSize - p.pos) ELSE BlockBegins(r)

\* Inside a block no coder is given what is behind it, as far as the header says where it ends.
\* `behind` is the call in which the block ended.
BlockEnds(r) ==
  LET p == r.p
      packed == p.packSize + p.blockHeaderSize + XzFlags_GetCheckSize(p.streamFlags)
      q == [XzUnpacker_UpdateIndex(p, packed, p.unpackSize) EXCEPT !.state = "BLOCK_FOOTER", !.pos = 0, !.alignPos = 0]
      wrong == p.block.packSize \notin {NoSize, p.packSize} \/ p.block.unpackSize \notin {NoSize, p.unpackSize}
      u == [r EXCEPT !.p = q, !.status = "NOT_SPECIFIED"]
  IN IF wrong THEN Failed(u, "SZ_ERROR_DATA") ELSE u
Block(r, srcFinished, finishMode) ==
  LET p == r.p
      packRem == p.block.packSize - p.packSize
      unpackRem == p.block.unpackSize - p.unpackSize
      lastSrc == p.block.packSize # NoSize /\ Len(r.src) >= packRem
      destFinish == p.block.unpackSize # NoSize /\ r.room >= unpackRem
      src == IF lastSrc THEN SubSeq(r.src, 1, packRem) ELSE r.src
      room == IF destFinish THEN unpackRem ELSE r.room
      \* what is checked is at outDataWritten in the one buffer, wherever the block was put
      outBuf(c) == IF p.outBuf = <<>> THEN <<>> ELSE c.m.coders[1].q.decoder.dic
      seen(c) == IF p.outBuf = <<>> THEN c.dest ELSE SubSeq(outBuf(c), p.outDataWritten + 1, p.outDataWritten + Len(c.dest))
      after(c) == [p EXCEPT !.decoder = c.m, !.outBuf = outBuf(c), !.check = XzCheck_Update(@, seen(c)),
                            !.outDataWritten = @ + Len(c.dest), !.packSize = @ + c.used, !.unpackSize = @ + Len(c.dest)]
  IN IF lastSrc /\ packRem = 0 /\ unpackRem = 0 THEN Failed(r, "SZ_ERROR_DATA")
     ELSE With(MixCoder_Code(p.decoder, room, destFinish, src, srcFinished \/ lastSrc, IF destFinish THEN "END" ELSE finishMode), LAMBDA c :
       With([Step(r, c.used, after(c)) EXCEPT !.dest = @ \o c.dest, !.room = @ - Len(c.dest), !.status = c.m.status], LAMBDA u :
         IF c.res # "SZ_OK" THEN Failed(u, c.res)
         ELSE IF c.m.status = "FINISHED_WITH_MARK" THEN BlockEnds(u)
         ELSE IF p.block.packSize = u.p.packSize /\ c.m.status = "NEEDS_MORE_INPUT" THEN Returned(u, "SZ_ERROR_DATA", "NOT_SPECIFIED")
         ELSE Failed(u, "SZ_OK")))
BlockFooter(r) ==
  LET p == r.p
      checkSize == XzFlags_GetCheckSize(p.streamFlags)
      g == IF p.pos = checkSize THEN r ELSE Gather(r, checkSize - p.pos)
      next == [g EXCEPT !.p.state = "BLOCK_HEADER", !.p.pos = 0]
      short == r.src = <<>>
  IN IF (p.packSize + p.alignPos) % 4 # 0
     THEN IF short THEN NeedsMoreInput(r)
          ELSE IF r.src[1] # 0 THEN Failed(Step(r, 1, [p EXCEPT !.alignPos = @ + 1]), "SZ_ERROR_CRC")
          ELSE Step(r, 1, [p EXCEPT !.alignPos = @ + 1])
     ELSE IF p.pos # checkSize /\ short THEN NeedsMoreInput(r)
     ELSE IF g.p.pos # checkSize THEN g
     ELSE IF XzCheck_Final(p.check) \notin {<<>>, SubSeq(g.p.buf, 1, checkSize)} THEN Failed(next, "SZ_ERROR_CRC")
     ELSE IF p.decodeOnlyOneBlock THEN Returned(next, "SZ_OK", "FINISHED_WITH_MARK") ELSE next

StreamIndex(r) ==
  LET p == r.p
      bytes == TakeFrom(r.src, p.indexSize - p.indexPos)
      b == r.src[1]
      pre == Step(r, 1, [p EXCEPT !.pos = @ + 1])
      records == [p EXCEPT !.crc = CrcUpdateT1(g_CrcTable, @, bytes), !.sha = @ \o bytes, !.indexPos = @ + Len(bytes)]
      padded == Step(r, 1, [p EXCEPT !.crc = CrcUpdateT1(g_CrcTable, @, <<b>>), !.indexPos = @ + 1, !.indexSize = @ + 1])
      ended == [r EXCEPT !.p = [p EXCEPT !.state = "STREAM_INDEX_CRC", !.indexSize = @ + 4, !.pos = 0]]
  IN IF p.pos < p.indexPreSize THEN IF b # p.buf[p.pos + 1] THEN Failed(pre, "SZ_ERROR_CRC") ELSE pre
     ELSE IF p.indexPos < p.indexSize THEN Step(r, Len(bytes), records)
     ELSE IF p.indexPos % 4 # 0 THEN IF b # 0 THEN Failed(padded, "SZ_ERROR_CRC") ELSE padded
     ELSE IF p.sha # p.shaDigest THEN Failed(ended, "SZ_ERROR_CRC") ELSE ended
StreamIndexCrc(r) ==
  LET p == r.p
      next == [r EXCEPT !.p.state = "STREAM_FOOTER", !.p.pos = 0]
  IN IF p.pos < 4 THEN Gather(r, 1)
     ELSE IF Not(p.crc) # SubSeq(p.buf, 1, 4) THEN Failed(next, "SZ_ERROR_CRC") ELSE next
StreamFooter(r) ==
  LET g == Gather(r, 12 - r.p.pos)
      next == [g EXCEPT !.p.state = "STREAM_PADDING", !.p.numFinishedStreams = @ + 1, !.p.padSize = 0]
  IN IF g.p.pos # 12 THEN g
     ELSE IF Xz_CheckFooter(g.p.streamFlags, g.p.indexSize, g.p.buf) THEN next ELSE Failed(next, "SZ_ERROR_CRC")
StreamPadding(r) ==
  LET p == r.p
  IN IF r.src[1] = 0 THEN Step(r, 1, [p EXCEPT !.padSize = @ + 1])
     ELSE IF p.padSize % 4 # 0 THEN Failed(r, "SZ_ERROR_NO_ARCHIVE")
     ELSE [r EXCEPT !.p = [p EXCEPT !.pos = 0, !.state = "STREAM_HEADER"]]

RECURSIVE UnpackRounds(_, _, _)
UnpackRounds(r, srcFinished, finishMode) ==
  LET state == r.p.state
  IN IF r.done THEN r
     ELSE IF r.src = <<>> /\ state \notin {"BLOCK", "BLOCK_FOOTER"} THEN NeedsMoreInput(r)
     ELSE With(CASE state = "STREAM_HEADER" -> StreamHeader(r)
                 [] state = "BLOCK_HEADER" -> BlockHeader(r)
                 [] state = "BLOCK" -> Block(r, srcFinished, finishMode)
                 [] state = "BLOCK_FOOTER" -> BlockFooter(r)
                 [] state = "STREAM_INDEX" -> StreamIndex(r)
                 [] state = "STREAM_INDEX_CRC" -> StreamIndexCrc(r)
                 [] state = "STREAM_FOOTER" -> StreamFooter(r)
                 [] state = "STREAM_PADDING" -> StreamPadding(r),
               LAMBDA u : UnpackRounds(u, srcFinished, finishMode))
XzUnpacker_Code(p, room, src, srcFinished, finishMode) ==
  UnpackRounds([p |-> p, src |-> src, room |-> room, used |-> 0, dest |-> <<>>, res |-> "SZ_OK", status |-> "NOT_SPECIFIED", done |-> FALSE],
               srcFinished, finishMode)
\* XzUnpacker_CodeFull before it calls XzUnpacker_Code.
FullBuffer(p, outSize) == XzUnpacker_SetOutBuf(XzUnpacker_Init(p), Tuple([i \in 1..outSize |-> 170]))

XzUnpacker_IsBlockFinished(p) == p.state = "BLOCK_HEADER" /\ p.pos = 0
XzUnpacker_IsStreamWasFinished(p) == p.state = "STREAM_PADDING" /\ p.padSize % 4 = 0
XzUnpacker_GetExtraSize(p) ==
  CASE p.state = "STREAM_PADDING" -> p.padSize [] p.state = "STREAM_HEADER" -> p.padSize + p.pos [] OTHER -> 0

\* xcd_util_xz_decompress: a buffer that is doubled while the unpacker has not finished; the
\* doubling after MostDoublings finds no memory.  Code is XzUnpacker_Code, r what it returns.
DecompressEnd(d, errno) == [d EXCEPT !.errno = errno, !.dest = IF errno = "OK" THEN @ ELSE <<>>]
DecompressRound(d, r) ==
  IF r.res # "SZ_OK" THEN DecompressEnd(d, "FORMAT")
  ELSE IF r.status = "NOT_FINISHED" THEN [d EXCEPT !.p = r.p, !.src = r.src, !.dest = @ \o r.dest]
  ELSE DecompressEnd([d EXCEPT !.dest = @ \o r.dest], IF XzUnpacker_IsStreamWasFinished(r.p) THEN "OK" ELSE "FORMAT")
XzDecompressed(Code(_, _, _, _, _), src, memory) ==
  LET round(d, k) == With(Code(d.p, 4 * Len(src) * 2^k - Len(d.dest), d.src, TRUE, "ANY"), LAMBDA r : DecompressRound(d, r))
  IN With(FoldBytes(LAMBDA d, k : IF d.errno = "" THEN round(d, k - 1) ELSE d,
                    [p |-> XzUnpacker_Construct(memory), src |-> src, dest |-> <<>>, errno |-> ""],
                    [k \in 1..MostDoublings + 1 |-> k]),
          LAMBDA d : IF d.errno = "" THEN DecompressEnd(d, "NOMEM") ELSE d)

-----------------------------------------------------------------------------
(* What XzEnc.c writes around the data of the blocks.                         *)

Xz_WriteHeader(flags) == XZ_SIG \o <<0, flags>> \o CrcCalc(<<0, flags>>)
\* b: the filters, in the order of the header, and what it says of the sizes.
XzBlock_WriteHeader(b) ==
  LET size(n) == IF n = NoSize THEN <<>> ELSE Xz_WriteVarInt(n)
      flags == Len(b.filters) - 1 + (IF b.packSize = NoSize THEN 0 ELSE 64) + (IF b.unpackSize = NoSize THEN 0 ELSE 128)
      filter(f) == Xz_WriteVarInt(f.id) \o Xz_WriteVarInt(Len(f.props)) \o f.props
      body == <<flags>> \o size(b.packSize) \o size(b.unpackSize) \o FlattenSeq([i \in DOMAIN b.filters |-> filter(b.filters[i])])
      pad == Zero((4 - ((Len(body) + 1) % 4)) % 4)
      header == <<(1 + Len(body) + Len(pad)) \div 4>> \o body \o pad
  IN header \o CrcCalc(header)
XzEncIndex_WriteFooter(numBlocks, records, flags) ==
  LET index == <<0>> \o Xz_WriteVarInt(numBlocks) \o records
      padded == index \o Zero((4 - (Len(index) % 4)) % 4)
      tail == IntWord(Len(padded) \div 4) \o <<0, flags>>
  IN padded \o CrcCalc(padded) \o CrcCalc(tail) \o tail \o XZ_FOOTER_SIG

\* e.packed is what LZMA2 made of the filtered text; e.sizes: the sizes are known before the header
\* is written.
Xz_CompressBlock(flags, e) ==
  LET header == XzBlock_WriteHeader([filters |-> e.filters, packSize |-> IF e.sizes THEN Len(e.packed) ELSE NoSize,
                                     unpackSize |-> IF e.sizes THEN Len(e.text) ELSE NoSize])
      digest == XzCheck_Final(XzCheck_Update(XzCheck_Init(flags), e.text))
  IN [bytes |-> header \o e.packed \o Zero((4 - (Len(e.packed) % 4)) % 4) \o digest,
      totalSize |-> Len(header) + Len(e.packed) + XzFlags_GetCheckSize(flags), unpackSize |-> Len(e.text)]
XzEncIndex_AddIndexRecord(records, b) == records \o Xz_WriteVarInt(b.totalSize) \o Xz_WriteVarInt(b.unpackSize)
XzWritten(flags, blocks) ==
  With([i \in DOMAIN blocks |-> Xz_CompressBlock(flags, blocks[i])], LAMBDA bs :
    Xz_WriteHeader(flags) \o FlattenSeq([i \in DOMAIN bs |-> bs[i].bytes])
      \o XzEncIndex_WriteFooter(Len(bs), FoldBytes(XzEncIndex_AddIndexRecord, <<>>, bs), flags))

-----------------------------------------------------------------------------

TextOf(blocks) == FlattenSeq([i \in DOMAIN blocks |-> blocks[i].text])
EnoughMemory == 2^20

\* r: p, the input src that is left, what came out, the last res, and whether a call has ended it.
MostCalls == 400
UnpackInCalls(Code(_, _, _, _, _), p, src, given, room) ==
  LET offered(r) == TakeFrom(r.src, given)
      next(r, c) == [p |-> c.p, src |-> SubSeq(r.src, c.used + 1, Len(r.src)), dest |-> r.dest \o c.dest, res |-> c.res,
                     ended |-> c.res # "SZ_OK" \/ (c.used = 0 /\ c.dest = <<>>)]
  IN FoldBytes(LAMBDA r, k : IF r.ended THEN r
                             ELSE With(Code(r.p, room, offered(r), offered(r) = r.src, "ANY"), LAMBDA c : next(r, c)),
               [p |-> p, src |-> src, dest |-> <<>>, res |-> "SZ_OK", ended |-> FALSE], [k \in 1..MostCalls |-> k])

\* In these c.stream is XzWritten(c.flags, c.blocks), Code is XzUnpacker_Code.

\* Streams behind one another, with zeros behind the last, give all their text back: in one call with
\* a buffer that grows, or in calls that give and take a few bytes, if the zeros are a multiple of four.
StreamsUnpacked(Code(_, _, _, _, _), c) ==
  LET src == FlattenSeq([i \in 1..c.streams |-> c.stream]) \o Zero(c.padding)
      text == FlattenSeq([i \in 1..c.streams |-> TextOf(c.blocks)])
      whole(r) == IF c.padding % 4 = 0 THEN r.errno = "OK" /\ r.dest = text ELSE r.errno = "FORMAT"
      calls(r) == /\ r.res = "SZ_OK" /\ r.dest = text /\ r.src = <<>> /\ XzUnpacker_GetExtraSize(r.p) = c.padding
                  /\ XzUnpacker_IsStreamWasFinished(r.p) <=> c.padding % 4 = 0
  IN /\ With(XzDecompressed(Code, src, EnoughMemory), whole)
     /\ With(UnpackInCalls(Code, XzUnpacker_Construct(EnoughMemory), src, c.given, c.room), calls)

\* A single block comes back too when it is decoded on its own, or into the buffer of the caller if
\* its header says how long it is.
BlockUnpacked(Code(_, _, _, _, _), c) ==
  LET p == [XzUnpacker_Construct(EnoughMemory) EXCEPT !.streamFlags = c.flags]
      text == TextOf(c.blocks)
      block == SubSeq(c.stream, XZ_STREAM_HEADER_SIZE + 1, Len(c.stream))
      alone(r) == r.res = "SZ_OK" /\ r.status = "FINISHED_WITH_MARK" /\ r.dest = text /\ XzUnpacker_IsBlockFinished(r.p)
      full(r) == r.res = "SZ_OK" /\ XzUnpacker_IsStreamWasFinished(r.p) /\ r.p.outBuf = text
  IN /\ With(Code(XzUnpacker_PrepareToRandomBlockDecoding(p), Len(text) + 1, block, TRUE, "ANY"), alone)
     /\ (\A i \in DOMAIN c.blocks : c.blocks[i].sizes)
          => With(Code(FullBuffer(p, Len(text)), Len(text), c.stream, TRUE, "ANY"), full)

\* A stream of which the end is missing is not taken for a whole one; one with a wrong byte gives an
\* error, or the text all the same.
DamageNoticed(Code(_, _, _, _, _), c) ==
  LET damaged == {TakeFrom(c.stream, c.at)}
                   \cup (IF c.at \in DOMAIN c.stream THEN {[c.stream EXCEPT ![c.at] = (@ + c.by) % 256]} ELSE {})
  IN \A src \in damaged :
       With(XzDecompressed(Code, src, EnoughMemory), LAMBDA r :
         r.errno = "OK" => Len(src) = Len(c.stream) /\ r.dest = TextOf(c.blocks))

ArchiveRead(Code(_, _, _, _, _), alg, c) ==
  CASE alg = "streams" -> StreamsUnpacked(Code, c)
    [] alg = "block" -> BlockUnpacked(Code, c)
    [] alg = "damage" -> DamageNoticed(Code, c)
=============================================================================
