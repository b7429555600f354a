----------------------------- MODULE XzFilters -----------------------------
(* The filters of an xz stream: Delta.c, Bra.c, Bra86.c, BraIA64.c, which     *)
(* replace the relative addresses in machine code by absolute ones and back,  *)
(* and BraState of XzDec.c, which feeds them a buffer at a time.              *)
EXTENDS Words, FiniteSetsExt

CONSTANT BRA_BUF_SIZE   \* 2^14 in the code

Sub(v, w) == Add(v, Add(Not(w), <<1, 0, 0, 0>>))
IntWord(n) == <<n % 256, (n \div 256) % 256, (n \div 65536) % 256, 0>>
Low26(w) == w[1] + 256 * w[2] + 65536 * w[3] + 2^24 * (w[4] % 4)
\* An address with a displacement: all converters add when they encode.
Moved(v, by, encoding) == IF encoding THEN v + by ELSE v - by

Converted(data, size) == [data |-> data, size |-> size]
Patched(data, at, bytes) == [i \in DOMAIN data |-> IF i - at \in DOMAIN bytes THEN bytes[i - at] ELSE data[i]]

-----------------------------------------------------------------------------
(* Converters: what becomes of the data, and how much of it was looked at.    *)

\* Code of words of four bytes: New(d, a) is the word d at the address a.
WordsConverted(data, ip, Is(_), New(_, _)) ==
  LET n == Len(data) \div 4
      step(r, k) ==
        LET d == SubSeq(r, 4 * k - 3, 4 * k)
        IN IF Is(d) THEN Patched(r, 4 * k - 4, New(d, Low26(Add(ip, IntWord(4 * k - 4))))) ELSE r
  IN Converted(FoldBytes(step, data, [k \in 1..n |-> k]), 4 * n)

\* BL: the address is that of the instruction and 8.
ARM_Convert(data, ip, encoding) ==
  LET is(d) == d[4] = 235
      new(d, at) ==
        LET v == (Moved(4 * (d[1] + 256 * d[2] + 65536 * d[3]), at + 8, encoding) % 2^26) \div 4
        IN <<v % 256, (v \div 256) % 256, v \div 65536, 235>>
  IN WordsConverted(data, ip, is, new)
PPC_Convert(data, ip, encoding) ==
  LET is(d) == d[1] \div 4 = 18 /\ d[4] % 4 = 1
      new(d, at) ==
        LET v == Moved(2^24 * (d[1] % 4) + 65536 * d[2] + 256 * d[3] + d[4], at, encoding) % 2^26
        IN <<72 + (v \div 2^24), (v \div 65536) % 256, (v \div 256) % 256, v % 256>>
  IN WordsConverted(data, ip, is, new)
\* The displacement has 22 bits and a sign, which fills the bits above it.
SPARC_Convert(data, ip, encoding) ==
  LET is(d) == (d[1] = 64 /\ d[2] < 64) \/ (d[1] = 127 /\ d[2] >= 192)
      new(d, at) ==
        LET v == Moved(4 * (65536 * (d[2] % 128) + 256 * d[3] + d[4]), at, encoding) % 2^25
            z == (v % 2^24) \div 4
            sign == v >= 2^24
        IN <<IF sign THEN 127 ELSE 64, (IF sign THEN 192 ELSE 0) + (z \div 65536), (z \div 256) % 256, z % 256>>
  IN WordsConverted(data, ip, is, new)

\* Thumb: a pair of half words, at any even address; behind a pair the search goes on.
RECURSIVE ARMTFrom(_, _, _, _)
ARMTFrom(data, pos, ip, encoding) ==
  LET d == SubSeq(data, pos + 1, pos + 4)
      is == d[2] \in 240..247 /\ d[4] >= 248
      v == Moved(2^19 * (d[2] % 8) + 2^11 * d[1] + 256 * (d[4] % 8) + d[3], Low26(Add(ip, IntWord(pos + 4))) \div 2, encoding) % 2^22
      new == <<(v \div 2^11) % 256, 240 + (v \div 2^19), v % 256, 248 + ((v \div 256) % 8)>>
      next(r) == ARMTFrom(r, pos + 4, ip, encoding)
  IN IF pos > 2 * (Len(data) \div 2) - 4 THEN Converted(data, pos)
     ELSE IF is THEN With(Patched(data, pos, new), next) ELSE ARMTFrom(data, pos + 2, ip, encoding)
ARMT_Convert(data, ip, encoding) == ARMTFrom(data, 0, ip, encoding)

\* Bundles of 16 bytes whose template says in which slots, from which bit on, an instruction may
\* be a branch.
FirstSlot(template) == CASE template \in {8, 12, 14} -> 4 [] template = 9 -> 3 [] template = 11 -> 2 [] OTHER -> 5
SlotConverted(data, i, ip, m, encoding) ==
  LET at == i + 5 * m - 8
      p == SubSeq(data, at + 1, at + 4)
      is == (p[4] \div 2^m) % 16 = 5 /\ ((data[at] + 256 * p[1]) \div 2^(m + 4)) % 8 = 0
      raw == p[1] + 256 * p[2] + 65536 * p[3] + 2^24 * (p[4] % 16)
      old == raw \div 2^m
      v == (Moved(16 * ((old % 2^20) + 2^20 * BitAt(old, 23)), Low26(Add(ip, IntWord(i))), encoding) % 2^25) \div 16
      new == raw + 2^m * ((v % 2^20) - (old % 2^20) + 2^23 * (BitAt(v, 20) - BitAt(old, 23)))
  IN IF ~is THEN data
     ELSE Patched(data, at, <<new % 256, (new \div 256) % 256, (new \div 65536) % 256, (new \div 2^24) + 16 * (p[4] \div 16)>>)
IA64_Convert(data, ip, encoding) ==
  LET n == Len(data) \div 16
      slots(r, k) == FoldBytes(LAMBDA s, m : IF m >= FirstSlot((r[16 * k - 15] % 32) \div 2)
                                             THEN SlotConverted(s, 16 * k - 16, ip, m, encoding) ELSE s,
                               r, <<2, 3, 4>>)
  IN Converted(FoldBytes(slots, data, [k \in 1..n |-> k]), 16 * n)

\* x86: mask remembers which of the last bytes looked like an instruction that was not converted.
Test86MSByte(b) == b \in {0, 255}
x86Operand(p, cur, mask, encoding) ==
  LET move(v) == IF encoding THEN Add(v, cur) ELSE Sub(v, cur)
      n == IF mask < 2 THEN 1 ELSE IF mask = 2 THEN 2 ELSE 3
      inverted(v) == [i \in 1..4 |-> IF i <= n THEN 255 - v[i] ELSE v[i]]
      v == LET w == move(p) IN IF mask # 0 /\ Test86MSByte(w[n]) THEN move(inverted(w)) ELSE w
  IN <<v[1], v[2], v[3], IF v[4] % 2 = 1 THEN 255 ELSE 0>>
RECURSIVE x86From(_, _, _, _, _)
x86From(data, pos, mask0, ip, encoding) ==
  LET limit == Len(data) - 4
      found == {q \in pos..limit - 1 : data[q + 1] \in {232, 233}}
      p == IF found = {} THEN Max({limit, pos}) ELSE Min(found)
      mask == IF p - pos > 2 THEN 0 ELSE mask0 \div 2^(p - pos)
      skip == mask # 0 /\ (mask > 4 \/ mask = 3 \/ Test86MSByte(data[p + (mask \div 2) + 2]))
      operand == x86Operand(SubSeq(data, p + 2, p + 5), Add(ip, IntWord(p + 5)), mask, encoding)
      next(r) == x86From(r, p + 5, 0, ip, encoding)
  IN IF found = {} THEN Converted(data, p) @@ [state |-> mask]
     ELSE IF skip \/ ~Test86MSByte(data[p + 5]) THEN x86From(data, p + 1, (mask \div 2) + 4, ip, encoding)
     ELSE With(Patched(data, p + 1, operand), next)
x86_Convert(data, ip, state, encoding) ==
  IF Len(data) < 5 THEN Converted(data, 0) @@ [state |-> state] ELSE x86From(data, 0, state % 8, ip, encoding)

\* Delta_Encode, Delta_Decode: buf holds the last bytes, from j on the oldest first.
DeltaStep(r, b, encoding) ==
  LET j == IF r.j = Len(r.buf) THEN 1 ELSE r.j + 1
      new == IF encoding THEN (b - r.buf[j]) % 256 ELSE (b + r.buf[j]) % 256
  IN [buf |-> [r.buf EXCEPT ![j] = IF encoding THEN b ELSE new], j |-> j, out |-> Append(r.out, new)]
Delta(state, data, encoding) ==
  With(FoldBytes(LAMBDA s, b : DeltaStep(s, b, encoding), [buf |-> state, j |-> 0, out |-> <<>>], data), LAMBDA r :
    LET j == r.j % Len(state)
    IN Converted(r.out, Len(data)) @@ [state |-> SubSeq(r.buf, j + 1, Len(state)) \o SubSeq(r.buf, 1, j)])

-----------------------------------------------------------------------------
(* BraState: p is a CBraState, whose buf holds bufTotal bytes.                *)

XzIds == [Delta |-> 3, X86 |-> 4, PPC |-> 5, IA64 |-> 6, ARM |-> 7, ARMT |-> 8, SPARC |-> 9, LZMA2 |-> 33]
Alignment(id) ==
  CASE id \in {XzIds.PPC, XzIds.ARM, XzIds.SPARC} -> 4 [] id = XzIds.ARMT -> 2 [] id = XzIds.IA64 -> 16 [] OTHER -> 1

BraState(id, encodeMode) ==
  [methodId |-> id, encodeMode |-> encodeMode, ip |-> Zero(4), delta |-> 1, x86State |-> 0, deltaState |-> <<>>,
   buf |-> <<>>, bufPos |-> 0, bufConv |-> 0, res |-> "SZ_OK"]
BraState_SetProps(p, props) ==
  LET reset == [p EXCEPT !.ip = Zero(4), !.res = "SZ_OK"]
      unsupported == [reset EXCEPT !.res = "SZ_ERROR_UNSUPPORTED"]
  IN IF p.methodId = XzIds.Delta THEN IF Len(props) # 1 THEN unsupported ELSE [reset EXCEPT !.delta = props[1] + 1]
     ELSE IF props = <<>> THEN reset
     ELSE IF Len(props) # 4 \/ props[1] % Alignment(p.methodId) # 0 THEN unsupported
     ELSE [reset EXCEPT !.ip = props]
BraState_Init(p) ==
  [p EXCEPT !.buf = <<>>, !.bufPos = 0, !.bufConv = 0, !.x86State = 0,
            !.deltaState = IF p.methodId = XzIds.Delta THEN Zero(p.delta) ELSE @]

\* r: p behind it, the data, and how much of it is filtered.
BraState_Filter(p, data) ==
  LET id == p.methodId
      e == p.encodeMode
  IN With(CASE id = XzIds.X86 -> x86_Convert(data, p.ip, p.x86State, e)
            [] id = XzIds.Delta -> Delta(p.deltaState, data, e)
            [] id = XzIds.PPC -> PPC_Convert(data, p.ip, e)
            [] id = XzIds.IA64 -> IA64_Convert(data, p.ip, e)
            [] id = XzIds.ARM -> ARM_Convert(data, p.ip, e)
            [] id = XzIds.ARMT -> ARMT_Convert(data, p.ip, e)
            [] id = XzIds.SPARC -> SPARC_Convert(data, p.ip, e),
          LAMBDA d :
            [data |-> d.data, size |-> d.size,
             p |-> [p EXCEPT !.ip = Add(@, IntWord(d.size)), !.x86State = IF id = XzIds.X86 THEN d.state ELSE @,
                             !.deltaState = IF id = XzIds.Delta THEN d.state ELSE @]])

\* BraState_Code2, for room more bytes: what is filtered goes out, then the buffer is filled up
\* and filtered again; at the end of the input what no converter looked at goes out as it is.
RECURSIVE BraRounds(_, _, _)
BraRounds(r, room, srcWasFinished) ==
  LET p == r.p
      ready == SubSeq(p.buf, p.bufPos + 1, p.bufPos + Min({p.bufConv - p.bufPos, room}))
      kept == SubSeq(p.buf, p.bufPos + 1, Len(p.buf))
      n == Min({BRA_BUF_SIZE - Len(kept), Len(r.src)})
      buf == kept \o SubSeq(r.src, 1, n)
      filled == [r EXCEPT !.p.buf = buf, !.p.bufPos = 0, !.p.bufConv = 0, !.src = SubSeq(@, n + 1, Len(@)), !.used = @ + n]
  IN IF room = 0 THEN r
     ELSE IF ready # <<>>
     THEN BraRounds([r EXCEPT !.p.bufPos = @ + Len(ready), !.dest = @ \o ready], room - Len(ready), srcWasFinished)
     ELSE IF buf = <<>> THEN filled
     ELSE With(BraState_Filter(filled.p, buf), LAMBDA f :
            LET q == [filled EXCEPT !.p = [f.p EXCEPT !.buf = f.data, !.bufConv = IF f.size = 0 THEN Len(buf) ELSE f.size]]
            IN IF f.size = 0 /\ ~srcWasFinished THEN [q EXCEPT !.p.bufConv = 0] ELSE BraRounds(q, room, srcWasFinished))
BraState_Code2(p, room, src, srcWasFinished) ==
  LET ended(r) == Len(r.p.buf) = r.p.bufPos /\ r.src = <<>> /\ srcWasFinished
  IN With(BraRounds([p |-> p, src |-> src, used |-> 0, dest |-> <<>>], room, srcWasFinished),
          LAMBDA r : r @@ [res |-> "SZ_OK", status |-> IF ended(r) THEN "FINISHED_WITH_MARK" ELSE "NOT_FINISHED"])

-----------------------------------------------------------------------------

\* All of src through the filter, from calls that offer at most `given` bytes and room for `room`.
RECURSIVE FilterInCalls(_, _, _, _, _)
FilterInCalls(p, src, given, room, dest) ==
  LET offered == SubSeq(src, 1, Min({given, Len(src)}))
      next(r) ==
        IF r.status = "FINISHED_WITH_MARK" THEN dest \o r.dest
        ELSE IF r.used = 0 /\ r.dest = <<>> THEN <<"stuck">>
        ELSE FilterInCalls(r.p, SubSeq(src, r.used + 1, Len(src)), given, room, dest \o r.dest)
  IN With(BraState_Code2(p, room, offered, offered = src), next)

\* What was encoded as a whole comes back, in whatever pieces the calls take it.
FiltersUndone(c) ==
  LET start(encode) == BraState_Init(BraState_SetProps(BraState(c.id, encode), c.props))
  IN /\ start(TRUE).res = "SZ_OK"
     /\ FilterInCalls(start(FALSE), BraState_Filter(start(TRUE), c.data).data, c.given, c.room, <<>>) = c.data
=============================================================================
