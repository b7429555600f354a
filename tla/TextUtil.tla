------------------------------ MODULE TextUtil ------------------------------
(* What the C code formats, writes and encodes without the help of libc:     *)
(* the format functions of xcc_fmt.c, the local time of xcc_libc_support.c,  *)
(* writing (xcc_util.c) and base64 (xcc_b64.c).  A character is a number: a  *)
(* digit is its value, Dash and Blank are the others; a text of the caller   *)
(* is the sequence of the positions of its characters.                       *)
EXTENDS Integers, Sequences, SequencesExt, FiniteSetsExt

CONSTANTS Wide,       \* 2^w, w the width of the widest integer: 2^64
          PadRoom     \* characters padded at once: 8

Dash == -1
Blank == -2

RECURSIVE Digits(_, _)
Digits(value, base) == IF value = 0 THEN <<>> ELSE Append(Digits(value \div base, base), value % base)

\* xcc_fmt_format_integer: the octal conversion is signed as well.
Signed(conv) == conv \in {"d", "i", "o"}
FormatUnsigned(value, base) == IF value = 0 THEN <<0>> ELSE Digits(value, base)
FormatInteger(value, conv) ==
  LET base == CASE conv \in {"x", "X"} -> 16 [] conv = "o" -> 8 [] OTHER -> 10
  IN IF Signed(conv) /\ value >= Wide \div 2 THEN <<Dash>> \o FormatUnsigned(Wide - value, base)
     ELSE FormatUnsigned(value, base)

\* The sign extension of an argument of type `size` (2^w).
Extend(value, size, conv) == IF Signed(conv) /\ value >= size \div 2 THEN value + Wide - size ELSE value

Number(arg, size, conv) == FormatInteger(Extend(arg % size, size, conv), conv)

\* Whatever its type, width and sign, the digits of a number are those of its value.
NumberReadsBack(c) ==
  LET text == Number(c.arg, c.size, c.conv)
      minus == Head(text) = Dash
      digits == IF minus THEN Tail(text) ELSE text
      base == IF c.conv = "x" THEN 16 ELSE 10
      value == FoldLeft(LAMBDA v, d : v * base + d, 0, digits)
      meant == IF c.conv = "d" /\ c.arg % c.size >= c.size \div 2 THEN (c.arg % c.size) - c.size ELSE c.arg % c.size
  IN /\ (IF minus THEN -value ELSE value) = meant
     /\ Len(digits) > 1 => digits[1] # 0
     /\ \A i \in DOMAIN digits : digits[i] \in 0..base-1

-----------------------------------------------------------------------------
(* The stream: [out, total, avail], avail being the room left, the final zero included.       *)

\* A mutant: the place of the final zero is given away.
RoomForAll(avail) == avail

RoomFor(avail) == avail - 1

\* xcc_fmt_stream_send
Send(s, data) ==
  LET n == IF Len(data) >= s.avail THEN RoomFor(s.avail) ELSE Len(data)
  IN IF s.avail <= 1 THEN [s EXCEPT !.total = @ + Len(data)]
     ELSE [out |-> s.out \o SubSeq(data, 1, n), total |-> s.total + Len(data), avail |-> s.avail - n]

RECURSIVE SendRepeat(_, _, _)
SendRepeat(s, ch, count) ==
  IF count <= 0 THEN s
  ELSE LET n == Min({count, PadRoom}) IN SendRepeat(Send(s, [i \in 1..n |-> ch]), ch, count - n)

\* One conversion of xcc_fmt_stream_vformat: [data, width, left, zero].
SendItem(s, item) ==
  LET pad == item.width - Len(item.data)
      ch == IF item.zero THEN 0 ELSE Blank
      before == IF item.left THEN s ELSE SendRepeat(s, ch, pad)
      behind == Send(before, item.data)
  IN IF item.left THEN SendRepeat(behind, ch, pad) ELSE behind

\* xcc_fmt_vsnprintf
Format(items, size) == FoldLeft(SendItem, [out |-> <<>>, total |-> 0, avail |-> size], items)

\* A formatted line is the text meant, cut where the buffer ends with room for the final zero,
\* and the length returned is that of the whole text.
FormatCutAtBuffer(c) ==
  LET f == Format(c.items, c.size)
      padded(item) ==
        LET n == Max({0, item.width - Len(item.data)})
            pad == [i \in 1..n |-> IF item.zero THEN 0 ELSE Blank]
        IN IF item.left THEN item.data \o pad ELSE pad \o item.data
      text == FlattenSeq([i \in DOMAIN c.items |-> padded(c.items[i])])
  IN f.total = Len(text) /\ f.out = SubSeq(text, 1, Min({Len(text), Max({0, c.size - 1})}))

-----------------------------------------------------------------------------
(* Local time.  The seconds are kept as days and seconds of the day.                          *)

IsLeap(y) == y % 4 = 0 /\ (y % 100 # 0 \/ y % 400 = 0)

LeapsThruEndOf(y) == (y \div 4) - (y \div 100) + (y \div 400)
MonthDays(leap) == <<0, 31, 59, 90, 120, 151, 181, 212, 243, 273, 304, 334, 365>>
YearDay(leap, m) == IF leap /\ m > 1 THEN MonthDays(leap)[m+1] + 1 ELSE MonthDays(leap)[m+1]

\* The year is guessed from 365 days, and guessed again with the days that are left.
RECURSIVE GuessYear(_, _)
GuessYear(days, y) ==
  LET yg == y + (days \div 365)
  IN IF days >= 0 /\ days < (IF IsLeap(y) THEN 366 ELSE 365) THEN [y |-> y, yday |-> days]
     ELSE GuessYear(days - ((yg - y) * 365 + LeapsThruEndOf(yg - 1) - LeapsThruEndOf(y - 1)), yg)

\* xcc_libc_support_localtime_r, where the offset is less than a day.
Localtime(day, sec, gmtoff) ==
  LET s == sec + gmtoff
      g == GuessYear(day + (s \div 86400), 1970)
      mon == CHOOSE m \in 0..11 : YearDay(IsLeap(g.y), m) <= g.yday /\ (m = 11 \/ g.yday < YearDay(IsLeap(g.y), m + 1))
      rem == s % 86400
  IN [year |-> g.y, mon |-> mon, mday |-> g.yday - YearDay(IsLeap(g.y), mon) + 1,
      hour |-> rem \div 3600, min |-> (rem % 3600) \div 60, sec |-> rem % 60,
      wday |-> (4 + day + (s \div 86400)) % 7]

\* The date is the one of the Gregorian calendar: counted back from it, year by year and month
\* by month, the seconds since 1970 are those it was made of.
DateOfCalendar(c) ==
  LET t == Localtime(c.day, c.sec, c.gmtoff)
      leap(y) == y % 400 = 0 \/ (y % 4 = 0 /\ y % 100 # 0)
      length(m) == CASE m = 1 -> IF leap(t.year) THEN 29 ELSE 28 [] m \in {3, 5, 8, 10} -> 30 [] OTHER -> 31
      days == 365 * (t.year - 1970) + Cardinality({y \in 1970..t.year-1 : leap(y)})
                + MapThenSumSet(length, 0..t.mon-1) + t.mday - 1
      seconds == 3600 * t.hour + 60 * t.min + t.sec - c.gmtoff
  IN /\ t.mday \in 1..length(t.mon) /\ t.min \in 0..59 /\ t.hour \in 0..23 /\ t.wday = (days + 4) % 7
     /\ (days - c.day) * 86400 = c.sec - seconds

-----------------------------------------------------------------------------
NextFrom(at, n) == at + n

\* xcc_util_write, where each call of write(2) has an outcome: the most it accepts, or -1 for
\* EINTR, -2 for another error.  `got` is what the file holds.
RECURSIVE WriteAll(_, _, _, _)
WriteAll(at, left, outcomes, got) ==
  LET o == Head(outcomes)
      n == IF o = -1 THEN 0 ELSE Min({o, left})
  IN IF left = 0 \/ outcomes = <<>> THEN [ok |-> left = 0, got |-> got]
     ELSE IF o \in {0, -2} THEN [ok |-> FALSE, got |-> got]
     ELSE WriteAll(NextFrom(at, n), left - n, Tail(outcomes), got \o [i \in 1..n |-> at + i])

\* Interrupted or cut short, a write puts every character there once and in order, or fails
\* with the beginning of the text written.
WrittenOnce(c) ==
  LET w == WriteAll(0, c.len, c.outcomes, <<>>)
  IN w.got = [i \in 1..Len(w.got) |-> i] /\ Len(w.got) <= c.len /\ (w.ok <=> Len(w.got) = c.len)

-----------------------------------------------------------------------------
(* Base64.  A character is its place in the table, 64 is "=", and 128 one that is not there.  *)

EncodeBlock(b) ==
  LET at(i) == IF i <= Len(b) THEN b[i] ELSE 0
      out == <<at(1) \div 4, (at(1) % 4) * 16 + (at(2) \div 16), (at(2) % 16) * 4 + (at(3) \div 64), at(3) % 64>>
  IN [i \in 1..4 |-> IF i > Len(b) + 1 THEN 64 ELSE out[i]]

RECURSIVE Encode(_)
Encode(in) ==
  IF in = <<>> THEN <<>>
  ELSE LET n == Min({3, Len(in)}) IN EncodeBlock(SubSeq(in, 1, n)) \o Encode(SubSeq(in, n + 1, Len(in)))

\* The bytes of a block that are kept.
Kept(pad) == 3 - pad

\* xcc_b64_decode: what is not in the table is passed over; <<-1>> is an error.
RECURSIVE DecodeBlocks(_)
DecodeBlocks(in) ==
  IF in = <<>> THEN <<>>
  ELSE LET v(i) == IF in[i] = 64 THEN 0 ELSE in[i]
           pad == Cardinality({i \in 1..4 : in[i] = 64})
           out == <<((v(1) * 4) + (v(2) \div 16)) % 256, ((v(2) * 16) + (v(3) \div 4)) % 256, ((v(3) * 64) + v(4)) % 256>>
       IN IF pad > 2 THEN <<-1>>
          ELSE SubSeq(out, 1, Kept(pad)) \o (IF pad > 0 THEN <<>> ELSE DecodeBlocks(SubSeq(in, 5, Len(in))))
B64Decode(in) ==
  LET valid == SelectSeq(in, LAMBDA x : x # 128)
  IN IF valid = <<>> \/ Len(valid) % 4 # 0 THEN <<-1>> ELSE DecodeBlocks(valid)

\* The whitelist that the library encodes for the dumper comes back byte by byte, characters
\* that belong to no base64 between them or not.
DecodedAsEncoded(c) ==
  LET text == Encode(c.in)
      broken == FlattenSeq([i \in DOMAIN text |-> IF i % c.line = 0 THEN <<text[i], 128>> ELSE <<text[i]>>])
  IN c.in # <<>> => B64Decode(broken) = c.in
=============================================================================
