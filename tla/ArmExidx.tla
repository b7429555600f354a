------------------------------ MODULE ArmExidx ------------------------------
(* Unwinding by the table of exceptions of 32 bit ARM (xcd_arm_exidx.c): the *)
(* entry of a pc, the bytes of its unwind instructions, and what they do to  *)
(* the registers.  mem[a] is the word at a, and the rest of the memory cannot be  *)
(* read.                                                                     *)
EXTENDS Integers, Sequences, SequencesExt, FiniteSetsExt

CONSTANTS EntryRoom   \* bytes of an entry: 32

FINISH == 176   \* 0xb0
SP == 13
LR == 14
PC == 15
BitOf(x, i) == (x \div 2^i) % 2
Bits(x) == {i \in 0..15 : BitOf(x, i) = 1}

-----------------------------------------------------------------------------
(* The table: starts[k] is where the function of row k begins, -1 if the row cannot be read.  *)

\* The row before the place where the pc would be inserted, counted from 1.
RowBefore(last) == last

\* xcd_arm_exidx_get_entry_offset: the rows between first and last, counted from 0; 0 is none.
RECURSIVE RowSearch(_, _, _, _)
RowSearch(starts, pc, first, last) ==
  LET current == (first + last) \div 2
      addr == starts[current + 1]
  IN IF first >= last THEN (IF last > 0 THEN RowBefore(last) ELSE 0)
     ELSE IF addr = -1 THEN 0
     ELSE IF pc = addr THEN current + 1
     ELSE IF pc < addr THEN RowSearch(starts, pc, first, current)
     ELSE RowSearch(starts, pc, current + 1, last)

\* A pc inside a function finds the row of that function, the pc of its first instruction and
\* one behind the last function too; rows that cannot be read lead to no row, never to another.
\* The table is sorted and has no two rows for one address.
RowOfFunction(c) ==
  LET real == [k \in 1..c.rows |-> c.base + SumSet(1..k) * c.gap]
      found == RowSearch([k \in 1..c.rows |-> IF k \in c.bad THEN -1 ELSE real[k]], c.pc, 0, c.rows)
      row == {k \in 1..c.rows : real[k] <= c.pc}
  IN IF row = {} THEN found = 0 ELSE found = Max(row) \/ (found = 0 /\ c.bad # {})

-----------------------------------------------------------------------------
\* The models a word may name: in the table itself only the short one.
GoodModel(e) == (e.where = "inline" => e.model = 0) /\ e.model \in 0..2 /\ e.words <= 5

\* xcd_arm_exidx_get_entry: the instructions, or <<>>.  An entry is [where ("cantunwind",
\* "inline", "compact", "generic"), model, words, bytes]; the long forms have 2 bytes (generic 3)
\* and four in each word more, the short ones 3.
GetEntry(e) ==
  LET n == IF e.where = "inline" \/ (e.where = "compact" /\ e.model = 0) THEN 3
           ELSE (IF e.where = "generic" THEN 3 ELSE 2) + 4 * e.words
      b == SubSeq(e.bytes, 1, n)
  IN IF e.where = "cantunwind" \/ ~GoodModel(e) \/ Len(e.bytes) < n \/ n > EntryRoom THEN <<>>
     ELSE IF Last(b) = FINISH THEN b
     ELSE IF n = EntryRoom THEN <<>> ELSE Append(b, FINISH)

-----------------------------------------------------------------------------
(* The instructions: s = [regs, vsp, pcSet, end], where end is "" until an instruction ends   *)
(* the decoding.  A failure leaves the registers read before it.                              *)

Fail(s) == [s EXCEPT !.end = "error"]
Up(s, bytes) == [s EXCEPT !.vsp = @ + bytes]

PopOrder(set) == SelectSeq([i \in 1..16 |-> i - 1], LAMBDA r : r \in set)

Word32(mem, a) == IF a \in DOMAIN mem THEN mem[a] ELSE -1

PopOne(s, r, mem) ==
  IF s.end # "" \/ Word32(mem, s.vsp) = -1 THEN Fail(s)
  ELSE [s EXCEPT !.regs[r] = Word32(mem, s.vsp), !.vsp = @ + 4]
Pop(s, set, mem) == FoldLeft(LAMBDA t, r : PopOne(t, r, mem), s, PopOrder(set))

\* xcd_arm_exidx_decode_entry_10_00
PopMask(s, mask, mem) ==
  LET set == {i + 4 : i \in Bits(mask)}
      t == Pop(s, set, mem)
  IN IF mask = 0 THEN [s EXCEPT !.end = "refused"]
     ELSE IF t.end # "" THEN t
     ELSE [t EXCEPT !.vsp = IF SP \in set THEN t.regs[SP] ELSE @, !.pcSet = @ \/ PC \in set]

\* 10110010 uleb128; [value, size]
RECURSIVE Uleb(_, _, _)
Uleb(b, i, shift) ==
  IF i > Len(b) THEN [value |-> 0, size |-> -1]
  ELSE LET rest == IF b[i] >= 128 THEN Uleb(b, i + 1, shift + 7) ELSE [value |-> 0, size |-> 0]
       IN [value |-> (b[i] % 128) * 2^shift + rest.value, size |-> IF rest.size = -1 THEN -1 ELSE rest.size + 1]

\* xcd_arm_exidx_decode_entry: the instruction that starts with byte b, which takes the bytes
\* of `next` if it has an operand; the result is the state and the number of bytes taken.
Decode(s, b, next, mem) ==
  LET has == next # <<>>
      x == IF has THEN Head(next) ELSE 0
      uleb == Uleb(next, 1, 0)
      one(t) == <<t, 1>>
      two(t) == IF has THEN <<t, 2>> ELSE <<Fail(s), 1>>
      low3 == b % 8
      low4 == b % 16
  IN CASE b < 64 -> one(Up(s, (4 * (b % 64)) + 4))
       [] b \in 64..127 -> one(Up(s, -((4 * (b % 64)) + 4)))
       [] b \in 128..143 -> two(PopMask(s, 256 * low4 + x, mem))
       [] b \in 144..159 -> one(IF low4 \in {13, 15} THEN Fail(s) ELSE [s EXCEPT !.vsp = s.regs[low4]])
       [] b \in 160..175 -> one(Pop(s, (4..(4 + low3)) \cup (IF low4 >= 8 THEN {LR} ELSE {}), mem))
       [] b = FINISH -> one([s EXCEPT !.end = "finished"])
       [] b = 177 -> two(IF x \in 1..15 THEN Pop(s, Bits(x), mem) ELSE Fail(s))
       [] b = 178 -> IF uleb.size = -1 THEN <<Fail(s), 1>> ELSE <<Up(s, 516 + 4 * uleb.value), 1 + uleb.size>>
       [] b = 179 -> two(Up(s, ((x % 16) + 1) * 8 + 4))
       [] b \in 184..191 -> one(Up(s, (low3 + 1) * 8 + 4))
       [] b = 198 -> two(Up(s, ((x % 16) + 1) * 8))
       [] b = 199 -> two(IF x \in 1..15 THEN Up(s, 4 * Cardinality(Bits(x))) ELSE Fail(s))
       [] b \in 192..197 -> one(Up(s, (low3 + 1) * 8))
       [] b \in {200, 201} -> two(Up(s, ((x % 16) + 1) * 8))
       [] b \in 208..215 -> one(Up(s, (low3 + 1) * 8))
       [] OTHER -> one(Fail(s))

RECURSIVE DecodeAll(_, _, _)
DecodeAll(s, bytes, mem) ==
  IF s.end # "" THEN s
  ELSE IF bytes = <<>> THEN Fail(s)
  ELSE LET d == Decode(s, Head(bytes), Tail(bytes), mem)
       IN DecodeAll(d[1], SubSeq(bytes, d[2] + 1, Len(bytes)), mem)

\* xcd_arm_exidx_step behind the search.  Without a pc popped it comes from lr.
ExidxStep(e, regs, mem) ==
  LET bytes == GetEntry(e)
      s == DecodeAll([regs |-> regs, vsp |-> regs[SP], pcSet |-> FALSE, end |-> ""], bytes, mem)
      pc == IF s.pcSet THEN s.regs[PC] ELSE s.regs[LR]
  IN IF e.where = "cantunwind" THEN [ok |-> TRUE, finished |-> TRUE, regs |-> regs]
     ELSE IF s.end = "refused" THEN [ok |-> TRUE, finished |-> TRUE, regs |-> s.regs]
     ELSE IF bytes = <<>> \/ s.end = "error" THEN [ok |-> FALSE, finished |-> FALSE, regs |-> s.regs]
     ELSE [ok |-> TRUE, finished |-> pc = 0, regs |-> [s.regs EXCEPT ![PC] = pc, ![SP] = s.vsp]]

-----------------------------------------------------------------------------
(* A function: what its prologue does, and the unwind instructions the compiler writes for it *)
(* (EHABI).                                                                                   *)

Prologue(steps, regs) ==
  LET one(t, p) ==
        LET low == t.regs[SP] - (CASE p.op = "push" -> 4 * Cardinality(p.set)
                                   [] p.op = "alloc" -> 4 * p.n
                                   [] p.op = "vpush" -> 8 * p.n
                                   [] p.op = "vpushx" -> 8 * p.n + 4
                                   [] p.op = "fp" -> 0)
            stored == IF p.op = "push" THEN SelectSeq([i \in 1..16 |-> i - 1], LAMBDA r : r \in p.set) ELSE <<>>
        IN [regs |-> IF p.op = "fp" THEN [t.regs EXCEPT ![p.n] = low, ![SP] = low - 8]
                     ELSE [t.regs EXCEPT ![SP] = low],
            mem |-> [a \in {low + 4 * (k - 1) : k \in DOMAIN stored} |-> t.regs[stored[1 + ((a - low) \div 4)]]] @@ t.mem]
  IN FoldLeft(one, [regs |-> regs, mem |-> <<>>], steps)

Bytes(p) ==
  CASE p.op = "push" ->
         IF p.set \subseteq 0..3 THEN <<177, SumSet({2^r : r \in p.set})>>
         ELSE IF p.set \in {{4}, {4, 5}} THEN <<160 + Cardinality(p.set) - 1>>
         ELSE IF p.set \in {{4, LR}, {4, 5, LR}} THEN <<168 + Cardinality(p.set) - 2>>
         ELSE LET m == SumSet({2^(r - 4) : r \in p.set}) IN <<128 + (m \div 256), m % 256>>
    [] p.op = "alloc" ->
         IF p.n <= 64 THEN <<p.n - 1>>
         ELSE IF p.n <= 128 THEN <<63, p.n - 65>>
         ELSE IF p.n - 129 < 128 THEN <<178, p.n - 129>>
         ELSE <<178, 128 + ((p.n - 129) % 128), (p.n - 129) \div 128>>
    [] p.op = "vpush" -> IF p.n <= 8 THEN <<208 + p.n - 1>> ELSE <<201, p.n - 1>>
    [] p.op = "vpushx" -> IF p.n <= 8 THEN <<184 + p.n - 1>> ELSE <<179, p.n - 1>>
    [] p.op = "fp" -> <<144 + p.n>>

\* The entry in the shortest form its bytes fit in.
Entry(bytes, generic) ==
  LET first == IF generic THEN 3 ELSE 2
      words == IF Len(bytes) <= first THEN 0 ELSE ((Len(bytes) - first) + 3) \div 4
      pad(n) == bytes \o [i \in 1..(n - Len(bytes)) |-> FINISH]
  IN IF ~generic /\ Len(bytes) <= 3 THEN [where |-> "inline", model |-> 0, words |-> 0, bytes |-> pad(3)]
     ELSE [where |-> IF generic THEN "generic" ELSE "compact", model |-> IF generic THEN 0 ELSE 1,
           words |-> words, bytes |-> pad(first + 4 * words)]

\* A frame pointer is set up once, and only after its register is saved.
Proper(steps) ==
  \A i \in DOMAIN steps : steps[i].op = "fp" =>
    /\ \E j \in 1..i-1 : steps[i].n \in steps[j].set
    /\ \A j \in 1..i-1 : steps[j].op # "fp"

\* In whatever order a function saves registers, allocates stack and sets up a frame pointer,
\* unwinding it gives back every register it saved, the stack pointer at its call and the pc
\* after it; or an error if the entry is too long, and then never a wrong frame.
PrologueUndone(c) ==
  LET in == Prologue(c.steps, c.regs)
      bytes == FlattenSeq([i \in DOMAIN c.steps |-> Bytes(c.steps[Len(c.steps) + 1 - i])])
      start == [in.regs EXCEPT ![LR] = IF c.leaf THEN @ ELSE 0]
      saved == UNION {{r \in c.steps[i].set : \A j \in 1..i-1 : c.steps[j].op # "fp" \/ c.steps[j].n # r} : i \in DOMAIN c.steps}
  IN Proper(c.steps) /\ (LR \in saved \/ c.leaf) =>
       \A out \in {ExidxStep(Entry(bytes, c.generic), start, in.mem)} :
         IF out.ok THEN /\ \A r \in saved \ {LR} : out.regs[r] = c.regs[r]
                        /\ out.regs[SP] = c.regs[SP] /\ out.regs[PC] = c.regs[LR] /\ ~out.finished
         ELSE Len(bytes) > 22

=============================================================================
