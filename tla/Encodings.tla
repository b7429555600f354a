----------------------------- MODULE Encodings ------------------------------
(* Numbers and addresses as they are encoded in the DWARF sections           *)
(* (xcd_memory.c, xcd_dwarf.c) and the augmentation of a CIE.  A section is a*)
(* sequence of bytes, which ends where it cannot be read; a value is         *)
(* [ok, value, at], `at` being the position behind it.                       *)
EXTENDS Integers, Sequences, SequencesExt, FiniteSetsExt

CONSTANTS ValueBytes     \* bytes of a value and of an address: 8

ValueBits == 8 * ValueBytes
Unsigned(x) == x % 2^ValueBits
Error(at) == [ok |-> FALSE, value |-> 0, at |-> at]

\* The part of a leb128 in one byte.  The shift is that of a machine: modulo the width.
Part(byte, shift) == (byte % 128) * 2^(shift % ValueBits)

\* The bits above a negative sleb128.
Fill(value, byte, shift) ==
  IF (byte \div 64) % 2 = 1 /\ shift < ValueBits THEN Unsigned(value - 2^shift) ELSE value

RECURSIVE Leb(_, _, _, _, _)
Leb(mem, at, value, shift, signed) ==
  IF at \notin DOMAIN mem THEN Error(at)
  ELSE LET v == Unsigned(value + Part(mem[at], shift))
       IN IF mem[at] >= 128 THEN Leb(mem, at + 1, v, shift + 7, signed)
          ELSE [ok |-> TRUE, value |-> IF signed THEN Fill(v, mem[at], shift + 7) ELSE v, at |-> at + 1]
ReadUleb128(mem, at) == Leb(mem, at, 0, 0, FALSE)
ReadSleb128(mem, at) == Leb(mem, at, 0, 0, TRUE)

\* What an assembler writes for a number, negative for sleb128 only.
RECURSIVE UlebOf(_)
UlebOf(n) == IF n < 128 THEN <<n>> ELSE <<128 + (n % 128)>> \o UlebOf(n \div 128)
RECURSIVE SlebOf(_)
SlebOf(n) == IF n \in -64..63 THEN <<n % 128>> ELSE <<128 + (n % 128)>> \o SlebOf(n \div 128)

\* Every number an assembler writes in a leb128 is read as itself, and nothing behind it is;
\* one that is cut off is an error.  The longest sleb128 shifts by more than the width, and are
\* left out.
LebReadsBack(c) ==
  LET bytes == IF c.signed THEN SlebOf(c.n) ELSE UlebOf(c.n)
      mem == c.before \o bytes \o <<64>>
      at == Len(c.before) + 1
      r == IF c.signed THEN ReadSleb128(mem, at) ELSE ReadUleb128(mem, at)
      cut == IF c.signed THEN ReadSleb128(Front(Front(mem)), at) ELSE ReadUleb128(Front(Front(mem)), at)
  IN /\ 7 * Len(bytes) <= ValueBits =>
          r = [ok |-> TRUE, value |-> Unsigned(c.n), at |-> at + Len(bytes)]
     /\ ~cut.ok

-----------------------------------------------------------------------------
(* Encoded addresses: an encoding is [format, rel], or "omit" or "aligned" as the format.     *)

Size(format) == CASE format \in {"udata1", "sdata1"} -> 1
                  [] format \in {"udata2", "sdata2"} -> 2
                  [] OTHER -> ValueBytes

LittleEndian(bytes) == FoldRight(LAMBDA b, v : b + 256 * v, bytes, 0)

\* A value of `sdata` is extended to the width of an address.
Widen(v, format) ==
  IF format \in {"sdata1", "sdata2"} /\ v >= 2^(8 * Size(format) - 1)
  THEN Unsigned(v - 2^(8 * Size(format))) ELSE v

ReadBytes(mem, at, format) ==
  IF at + Size(format) - 1 \notin DOMAIN mem THEN Error(at)
  ELSE [ok |-> TRUE, at |-> at + Size(format),
        value |-> Widen(LittleEndian(SubSeq(mem, at, at + Size(format) - 1)), format)]

\* xcd_dwarf_read_encoded; `bases` are the addresses values are relative to, -1 if unknown.
ReadEncoded(mem, at, e, bases) ==
  LET aligned == (((at - 1 + ValueBytes - 1) \div ValueBytes) * ValueBytes) + 1
      v == CASE e.format = "uleb128" -> ReadUleb128(mem, at)
             [] e.format = "sleb128" -> ReadSleb128(mem, at)
             [] OTHER -> ReadBytes(mem, at, e.format)
  IN CASE e.format = "omit" -> [ok |-> TRUE, value |-> 0, at |-> at]
       [] e.format = "aligned" -> ReadBytes(mem, aligned, "absptr")
       [] e.format = "unknown" -> Error(at)
       [] OTHER ->
            CASE ~v.ok \/ e.rel = "abs" -> v
              [] e.rel \in {"pcrel", "datarel"} /\ v.ok ->
                   IF bases[e.rel] = -1 THEN Error(v.at) ELSE [v EXCEPT !.value = Unsigned(@ + bases[e.rel])]
              [] OTHER -> Error(v.at)

RECURSIVE BytesOf(_, _)
BytesOf(v, n) == IF n = 0 THEN <<>> ELSE <<v % 256>> \o BytesOf(v \div 256, n - 1)

\* Whichever encoding and base a linker chooses for an address, the dumper reads that address
\* and stops behind it.  An encoding or a base it does not know is an error, never a value.
AddressReadsBack(c) ==
  LET base == IF c.e.rel \in {"pcrel", "datarel"} THEN c.bases[c.e.rel] ELSE 0
      known == c.e.rel = "abs" \/ (c.e.rel \in {"pcrel", "datarel"} /\ base # -1)
      n == c.address - base
      s == Size(c.e.format)
      fits == CASE c.e.format \in {"udata1", "udata2", "absptr"} -> n \in 0..2^(8 * s) - 1
                [] c.e.format = "uleb128" -> n >= 0 /\ 7 * Len(UlebOf(n)) <= ValueBits
                [] c.e.format = "sleb128" -> 7 * Len(SlebOf(n)) <= ValueBits
                [] OTHER -> n \in -(2^(8 * s - 1))..(2^(8 * s - 1) - 1)
      bytes == CASE c.e.format = "uleb128" -> UlebOf(n) [] c.e.format = "sleb128" -> SlebOf(n)
                 [] OTHER -> BytesOf(n % 2^(8 * s), s)
      r == ReadEncoded(bytes \o <<255, 255, 255>>, 1, c.e, c.bases)
  IN IF known THEN fits => r = [ok |-> TRUE, value |-> c.address, at |-> Len(bytes) + 1]
     ELSE (c.e.format # "uleb128" \/ n >= 0) => ~r.ok

-----------------------------------------------------------------------------
(* The augmentation: a string of letters, and a block of data with what they stand for.       *)

\* The personality routine is as long as its encoding says.
SkipRoutine(mem, at, e, bases) == ReadEncoded(mem, at, e, bases)

\* The letters behind a "z", from position `at` of the data on; decode[b] is the encoding of b.
Augmentation(letters, mem, start, default, decode, bases) ==
  LET one(t, l) ==
        CASE ~t.ok -> t
          [] t.ok /\ l \in {"R", "P"} /\ t.at \notin DOMAIN mem -> [t EXCEPT !.ok = FALSE]
          [] t.ok /\ l = "L" -> [t EXCEPT !.at = @ + 1]
          [] t.ok /\ l = "R" /\ t.at \in DOMAIN mem -> [t EXCEPT !.encoding = decode[mem[t.at]], !.at = @ + 1]
          [] t.ok /\ l = "P" /\ t.at \in DOMAIN mem ->
               LET r == SkipRoutine(mem, t.at + 1, decode[mem[t.at]], bases)
               IN [t EXCEPT !.ok = r.ok, !.at = r.at]
          [] OTHER -> t
  IN FoldLeft(one, [ok |-> TRUE, at |-> start, encoding |-> default], letters)

\* xcd_dwarf_get_cie_from_offset, behind the return address register.
Cie(letters, mem, default, decode, bases) ==
  LET len == ReadUleb128(mem, 1)
      a == Augmentation(Tail(letters), mem, len.at, default, decode, bases)
  IN IF letters = <<>> \/ Head(letters) # "z" THEN [ok |-> TRUE, encoding |-> default, instructions |-> 1]
     ELSE IF ~len.ok THEN [ok |-> FALSE, encoding |-> default, instructions |-> 0]
     ELSE [ok |-> a.ok, encoding |-> a.encoding, instructions |-> len.at + len.value]

\* Whatever else a compiler writes into the augmentation, and in whatever order, the addresses
\* of the entries are read in the encoding it names, and the instructions begin behind it.
EncodingOfCie(c) ==
  LET data(l) == CASE l = "L" -> <<0>> [] l = "R" -> <<c.r>>
                   [] l = "P" -> <<c.p>> \o (IF c.decode[c.p].format = "omit" THEN <<>>
                                             ELSE [i \in 1..Size(c.decode[c.p].format) |-> c.filler])
                   [] OTHER -> <<>>
      block == FlattenSeq([i \in DOMAIN c.letters |-> data(c.letters[i])])
      bytes == UlebOf(Len(block)) \o block \o <<7>>
  IN \A cie \in {Cie(<<"z">> \o c.letters, bytes, c.default, c.decode, c.bases)} :
     /\ cie.ok /\ cie.instructions = Len(block) + 2
     /\ cie.encoding = IF \E i \in DOMAIN c.letters : c.letters[i] = "R" THEN c.decode[c.r] ELSE c.default
=============================================================================
