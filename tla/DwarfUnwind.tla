---------------------------- MODULE DwarfUnwind -----------------------------
(* How the dumper unwinds a frame by DWARF call frame information            *)
(* (xcd_dwarf.c): it searches the entry (FDE) of a pc, runs the instructions *)
(* of the entry up to the pc, and computes the registers of the caller by the*)
(* rules they leave.  Instructions and operations are records; the bytes     *)
(* they are encoded in are left out, an unreadable byte is op "bad".         *)
EXTENDS Integers, Sequences, SequencesExt, FiniteSetsExt, Functions

CONSTANTS DwarfRegs,    \* registers of the machine: XCD_REGS_MACHINE_NUM
          RuleRegs,     \* registers there are rules for: XCD_DWARF_REG_NUM
          DwarfWord,    \* 2^w, w the width of an address
          StackRoom,    \* stack of an expression: 64
          MaxOps        \* operations of an expression: 1000

Word(x) == x % DwarfWord

-----------------------------------------------------------------------------
(* The entries: [kind, start, size, good], in the order of the section; the table of the     *)
(* header holds their numbers, sorted by start.                                              *)

\* xcd_dwarf_get_fde_from_offset: an entry that is a CIE, has a bad one or does not hold the pc
\* is none.
Covers(e, pc) == e.kind = "fde" /\ e.good /\ pc >= e.start /\ pc < e.start + e.size

\* xcd_dwarf_get_fde_no_hdr: 0 is none.
LinearSearch(entries, pc) ==
  LET s == {i \in DOMAIN entries : Covers(entries[i], pc)} IN IF s = {} THEN 0 ELSE Min(s)

\* The entry before the place where the pc would be inserted (counted from 1).
EntryAt(last) == last

\* xcd_dwarf_get_fde_offset_from_pc: the table between first and last, counted from 0.
RECURSIVE BinarySearch(_, _, _, _)
BinarySearch(starts, pc, first, last) ==
  LET cur == (first + last) \div 2
  IN IF first < last
     THEN IF pc = starts[cur+1] THEN cur + 1
          ELSE IF pc < starts[cur+1] THEN BinarySearch(starts, pc, first, cur)
          ELSE BinarySearch(starts, pc, cur + 1, last)
     ELSE IF last # 0 THEN EntryAt(last) ELSE 0

\* xcd_dwarf_get_fde_with_hdr
SearchWithHdr(entries, table, pc) ==
  LET k == BinarySearch([j \in DOMAIN table |-> entries[table[j]].start], pc, 0, Len(table))
  IN IF k \in DOMAIN table /\ Covers(entries[table[k]], pc) THEN table[k] ELSE 0

\* Both searches find the one entry that covers the pc, or both find none, in tables of
\* functions that do not overlap, with gaps between them and bad entries among them.
SearchesAgree(c) ==
  LET fdes == {i \in DOMAIN c.entries : c.entries[i].kind = "fde"}
      table == SetToSortSeq(fdes, LAMBDA i, j : c.entries[i].start < c.entries[j].start)
      disjoint == \A i, j \in fdes : c.entries[i].start < c.entries[j].start =>
                    c.entries[i].start + c.entries[i].size <= c.entries[j].start
      distinct == \A i, j \in fdes : i # j => c.entries[i].start # c.entries[j].start
  IN disjoint /\ distinct => SearchWithHdr(c.entries, table, c.pc) = LinearSearch(c.entries, c.pc)

-----------------------------------------------------------------------------
(* The rules: cfa = [reg, off], regs = register -> rule [type, n, m].  A rule keeps the second *)
(* value (m) of the rule before it if the instruction sets one value only.  An entry c has the *)
(* instructions cie and fde, the factors code and data of its CIE, the pc it starts at, and    *)
(* behind, the instruction that the bytes behind it read as.                                   *)

NoRules == [cfa |-> [type |-> "none", reg |-> 0, off |-> 0],
            regs |-> [r \in 0..RuleRegs-1 |-> [type |-> "same", n |-> 0, m |-> 0]],
            saved |-> <<>>]

\* DW_CFA_restore_state: the rules remembered last, and the states remembered before them.
RestoreState(l) == [Head(l.saved) EXCEPT !.saved = Tail(l.saved)]

RegisterOps == {"offset", "offset_sf", "offset_extended", "negative_offset", "val_offset", "restore",
                "undefined", "same", "register", "expression", "val_expression"}

\* The operand as it is stored: all offsets in units of the data alignment factor but those of
\* DW_CFA_offset_extended, DW_CFA_GNU_negative_offset_extended, DW_CFA_def_cfa and its offset.
Offset(c, i) ==
  CASE i.op \in {"offset", "offset_sf", "val_offset", "cfa_sf", "cfa_off_sf"} -> i.n * c.data
    [] i.op = "negative_offset" -> -i.n
    [] OTHER -> i.n

\* One instruction that moves no location; l.failed is "goto err".  DW_CFA_register sets the
\* number of the register alone and leaves the offset.
Instruct(c, l, init, i) ==
  LET rule(type, n, m) == [l EXCEPT !.regs[i.reg] = [type |-> type, n |-> n, m |-> m]]
      keep(type, n) == rule(type, n, l.regs[i.reg].m)
  IN CASE i.op \in RegisterOps /\ i.reg >= RuleRegs -> [l EXCEPT !.cfa.type = "failed"]
       [] i.op \in {"offset", "offset_sf", "offset_extended", "negative_offset"} -> keep("offset", Offset(c, i))
       [] i.op = "val_offset" -> keep("val_offset", Offset(c, i))
       [] i.op = "restore" -> [l EXCEPT !.regs[i.reg] = init.regs[i.reg]]
       [] i.op = "undefined" -> keep("undefined", l.regs[i.reg].n)
       [] i.op = "same" -> keep("same", l.regs[i.reg].n)
       [] i.op = "register" -> keep("register", i.n)
       [] i.op \in {"expression", "val_expression"} -> rule(i.op, i.n, i.m)
       [] i.op = "remember" -> [l EXCEPT !.saved = <<l>> \o @]
       [] i.op = "restore_state" -> IF l.saved = <<>> THEN l ELSE RestoreState(l)
       [] i.op \in {"cfa", "cfa_sf"} -> [l EXCEPT !.cfa = [type |-> "register", reg |-> i.reg, off |-> Offset(c, i)]]
       [] i.op = "cfa_reg" /\ l.cfa.type = "register" -> [l EXCEPT !.cfa.reg = i.reg]
       [] i.op \in {"cfa_off", "cfa_off_sf"} /\ l.cfa.type = "register" -> [l EXCEPT !.cfa.off = Offset(c, i)]
       [] i.op = "cfa_expression" -> [l EXCEPT !.cfa = [type |-> "val_expression", reg |-> 0, off |-> i.n]]
       [] i.op = "nop" -> l
       [] OTHER -> [l EXCEPT !.cfa.type = "failed"]

\* The location after an instruction: an advance counts in units of the code alignment factor.
Moves(i) == i.op \in {"advance", "set_loc"}
LocAfter(c, at, i) == CASE i.op = "advance" -> Word(at + i.n * c.code)
                        [] i.op = "set_loc" -> i.n
                        [] OTHER -> at

\* The turn from the CIE to the FDE reads its first instruction before anything compares with the
\* end: an FDE without instructions runs the one behind it.
FdeCode(c) == IF c.fde = <<>> THEN <<c.behind>> ELSE c.fde

\* xcd_dwarf_get_loc: the instructions of the CIE, then those of the FDE, until the location
\* is past the pc.  Entered in the CIE with init = {}, and in the FDE with the rules to restore.
RECURSIVE RunCfa(_, _, _, _, _, _)
RunCfa(c, code, l, init, at, pc) ==
  IF at > pc \/ l.cfa.type = "failed" THEN l
  ELSE IF code = <<>> THEN IF init = {} THEN RunCfa(c, FdeCode(c), l, {l}, at, pc) ELSE l
  ELSE LET i == Head(code)
           first == IF init = {} THEN l ELSE CHOOSE x \in init : TRUE
           next == IF Moves(i) THEN l ELSE Instruct(c, l, first, i)
       IN RunCfa(c, Tail(code), next, init, LocAfter(c, at, i), pc)

Rules(c, pc) == RunCfa(c, c.cie, NoRules, {}, c.start, pc)

\* What DWARF says of the row of a pc: every instruction counts up to the first one that moves
\* the location past the pc, one exactly to it included; and what was done between a remember
\* and its restore leaves no trace behind.  An entry without instructions has the rules of its
\* CIE, if what lies behind it sets none.
RowOfPc(c) ==
  LET where(k) == FoldLeft(LAMBDA at, i : LocAfter(c, at, i), c.start, SubSeq(c.fde, 1, k))
      past == {k \in DOMAIN c.fde : where(k) > c.pc}
      row == IF past = {} THEN c.fde ELSE SubSeq(c.fde, 1, Min(past) - 1)
      run(l0, code, restore(_)) ==
        FoldLeft(LAMBDA l, i : IF Moves(i) \/ l.cfa.type = "failed" THEN l ELSE Instruct(c, l, restore(l), i), l0, code)
      init == run(NoRules, c.cie, LAMBDA l : l)
      end == run(init, row, LAMBDA l : init)
      nested == <<[op |-> "remember"]>> \o SelectSeq(c.fde, LAMBDA i : ~Moves(i) /\ i.op \notin {"restore_state", "remember"})
                \o <<[op |-> "restore_state"]>>
      twice == <<[op |-> "remember"]>> \o nested \o c.cie \o <<[op |-> "restore_state"]>>
      after == Rules([c EXCEPT !.fde = nested \o twice \o @], c.pc)
      bad(f) == \E k \in DOMAIN f :
                  f[k].op \in {"bad", "cfa_reg", "cfa_off", "cfa_off_sf"} \/ (f[k].op \in RegisterOps /\ f[k].reg >= RuleRegs)
  IN /\ c.fde # <<>> \/ Moves(c.behind) \/ c.behind.op = "nop" => Rules(c, c.pc) = end
     /\ c.fde # <<>> /\ ~bad(c.fde) => after = Rules(c, c.pc)

\* The offsets of DW_CFA_offset_extended and DW_CFA_offset mean the same if the data alignment
\* factor is 1.  With another factor the code takes that of the extended one as a number of bytes
\* (DWARF does not), so that a factored operand has to be given to it in bytes.
ExtendedOffsets(c) ==
  LET as(f(_)) == [c EXCEPT !.cie = [k \in DOMAIN @ |-> f(@[k])], !.fde = [k \in DOMAIN @ |-> f(@[k])]]
      short(i) == IF i.op = "offset_extended" THEN [i EXCEPT !.op = "offset"] ELSE i
      bytes(i) == IF i.op = "offset" THEN [i EXCEPT !.op = "offset_extended", !.n = @ * c.data] ELSE i
  IN /\ c.data = 1 => Rules(as(short), c.pc) = Rules(c, c.pc)
     /\ Rules(as(bytes), c.pc) = Rules(c, c.pc)

-----------------------------------------------------------------------------
(* Expressions: [op, n], the stack with its top first.                                        *)

Required(op) == CASE op \in {"lit", "breg", "pick", "skip", "nop"} -> 0
                  [] op \in {"deref", "dup", "drop", "neg", "plus_uconst", "bra"} -> 1
                  [] op \in {"over", "swap", "plus", "minus", "eq"} -> 2
                  [] op = "rot" -> 3

Difference(top, next) == Word(next - top)

\* What an operation leaves on the stack, "lit" standing for all constants and "minus" and
\* "plus" for the other binary operations; mem[a] = -1 is unreadable.
Operate(o, st, regs, mem) ==
  LET drop(n) == SubSeq(st, n + 1, Len(st))
  IN CASE o.op = "lit" -> <<o.n>> \o st
       [] o.op = "breg" -> <<Word(regs[o.n] + o.m)>> \o st
       [] o.op = "deref" -> IF mem[st[1]] = -1 THEN <<-1>> ELSE <<mem[st[1]]>> \o drop(1)
       [] o.op = "dup" -> <<st[1]>> \o st
       [] o.op = "drop" -> drop(1)
       [] o.op = "over" -> <<st[2]>> \o st
       [] o.op = "pick" -> IF o.n >= Len(st) THEN <<-1>> ELSE <<st[o.n + 1]>> \o st
       [] o.op = "swap" -> <<st[2], st[1]>> \o drop(2)
       [] o.op = "rot" -> <<st[2], st[3], st[1]>> \o drop(3)
       [] o.op = "neg" -> <<Word(-st[1])>> \o drop(1)
       [] o.op = "plus" -> <<Word(st[1] + st[2])>> \o drop(2)
       [] o.op = "minus" -> <<Difference(st[1], st[2])>> \o drop(2)
       [] o.op = "plus_uconst" -> <<Word(st[1] + o.n)>> \o drop(1)
       [] o.op = "eq" -> <<IF st[1] = st[2] THEN 1 ELSE 0>> \o drop(2)
       [] o.op = "bra" -> drop(1)
       [] OTHER -> st

\* Where the next operation is.  DW_OP_bra goes back by its operand when the value is zero.
NextOp(o, st, at) == CASE o.op = "skip" -> at + 1 + o.n
                       [] o.op = "bra" -> IF st[1] # 0 THEN at + 1 + o.n ELSE at + 1 - o.n
                       [] OTHER -> at + 1

\* xcd_dwarf_eval_expression: the value, or -1.  What lies before the expression is taken for
\* bytes that are no operation.
RECURSIVE EvalExpression(_, _, _, _)
EvalExpression(code, t, regs, mem) ==
  LET o == code[t.at]
      st == Operate(o, t.st, regs, mem)
      pushed == Len(st) > Len(t.st)
  IN IF t.at > Len(code) THEN (IF t.st = <<>> THEN -1 ELSE t.st[1])
     ELSE IF t.ops > MaxOps \/ t.at < 1 \/ o.op = "bad" \/ Required(o.op) > Len(t.st) THEN -1
     ELSE IF (pushed /\ Len(t.st) = StackRoom) \/ st = <<-1>> THEN -1
     ELSE EvalExpression(code, [at |-> NextOp(o, t.st, t.at), st |-> st, ops |-> t.ops + 1], regs, mem)

Eval(code, regs, mem) == EvalExpression(code, [at |-> 1, st |-> <<>>, ops |-> 0], regs, mem)

\* Every expression, loops included, ends with a value of the width of an address or an error;
\* the stack operations are those of DWARF: over is pick 1, dup is pick 0, three rotations and
\* two swaps leave the stack, a difference is the sum with the negated top.
ExpressionsEnd(c) ==
  LET E(code) == Eval(code, c.regs, c.mem)
      v == E(c.code)
      o(op) == [op |-> op, n |-> 0, m |-> 0]
      same(a, b) == \A last \in {<<>>, <<o("drop")>>, <<o("drop"), o("drop")>>} :
                      c.jumps \/ E(c.code \o a \o last) = E(c.code \o b \o last)
      deep(n) == c.jumps \/ E(c.code \o [i \in 1..n |-> o("drop")]) # -1
  IN /\ v \in -1..DwarfWord-1
     /\ deep(1) => same(<<o("over")>>, <<[o("pick") EXCEPT !.n = 1]>>) /\ same(<<o("swap"), o("swap")>>, <<>>)
     /\ deep(1) => same(<<o("minus")>>, <<o("neg"), o("plus")>>)
     /\ deep(2) => same(<<o("rot"), o("rot"), o("rot")>>, <<>>)
     /\ deep(0) => same(<<o("dup"), o("drop")>>, <<>>)

-----------------------------------------------------------------------------
(* The registers of the caller *)

\* A mutant: rules see the registers that were already computed.
CalleeRegsCurrent(orig, regs) == regs

\* regs_orig: rules see the registers of the frame they unwind.
CalleeRegs(orig, regs) == orig

\* xcd_dwarf_eval: the CFA is a register and an offset (or an expression, whose value is given
\* as cfa.off); the registers are computed one after the other, in place.  A failure leaves
\* those computed before it.
EvalRegs(l, ra, orig, mem) ==
  LET cfa == IF l.cfa.type = "register" THEN Word(orig[l.cfa.reg] + l.cfa.off) ELSE Word(l.cfa.off)
      good == l.cfa.type = "val_expression" \/ (l.cfa.type = "register" /\ l.cfa.reg < DwarfRegs)
      value(regs, r) ==
        LET k == l.regs[r]
        IN CASE k.type = "offset" -> mem[Word(cfa + k.n)]
             [] k.type = "val_offset" -> Word(cfa + k.n)
             [] k.type = "register" -> IF k.n >= DwarfRegs THEN -1 ELSE Word(CalleeRegs(orig, regs)[k.n] + k.m)
             [] k.type = "expression" -> mem[Word(k.n)]
             [] k.type = "val_expression" -> Word(k.n)
             [] OTHER -> regs[r]
      one(t, r) == LET v == value(t.regs, r) IN
                   IF t.failed \/ v = -1 THEN [t EXCEPT !.failed = TRUE] ELSE [t EXCEPT !.regs[r] = v]
      end == FoldLeft(one, [regs |-> orig, failed |-> FALSE], [i \in 1..DwarfRegs |-> i - 1])
      pc == IF l.regs[ra].type = "undefined" THEN 0 ELSE end.regs[ra]
  IN IF ~good THEN [ok |-> FALSE, regs |-> orig, pc |-> 0, sp |-> 0, finished |-> FALSE]
     ELSE IF end.failed THEN [ok |-> FALSE, regs |-> end.regs, pc |-> 0, sp |-> 0, finished |-> FALSE]
     ELSE [ok |-> TRUE, regs |-> end.regs, pc |-> pc, sp |-> cfa, finished |-> pc = 0]

\* xcd_elf_interface_dwarf_step: .eh_frame is tried with the registers .debug_frame has left.
InterfaceStep(debugFrame, ehFrame, ra, orig, mem) ==
  LET e == EvalRegs(debugFrame, ra, orig, mem) IN IF e.ok THEN e ELSE EvalRegs(ehFrame, ra, e.regs, mem)

\* Each register of the caller is what its rule makes of the registers of the callee, whatever
\* the order they are computed in; the frame is the last one if its return address is
\* undefined or zero.  A step that fails leaves the registers whose rules come before the one
\* that fails as the caller's and the others as the callee's; so the step of the next table is
\* the one it would have been without the first, unless a rule before the failing one has
\* changed a register (then it takes that for one of the callee).
CallerRegsByRules(c) ==
  LET e == EvalRegs(c.rules, c.ra, c.regs, c.mem)
      cfa == Word(c.regs[c.rules.cfa.reg] + c.rules.cfa.off)
      caller(r) ==
        LET k == c.rules.regs[r]
        IN CASE k.type = "offset" -> c.mem[Word(cfa + k.n)]
             [] k.type = "register" -> IF k.n < DwarfRegs THEN Word(c.regs[k.n] + k.m) ELSE -1
             [] OTHER -> c.regs[r]
      failing == {r \in 0..DwarfRegs-1 : caller(r) = -1}
      done == IF failing = {} THEN 0..DwarfRegs-1 ELSE 0..Min(failing) - 1
  IN c.rules.cfa.type = "register" =>
       /\ e.ok <=> failing = {}
       /\ \A r \in 0..DwarfRegs-1 : e.regs[r] = IF r \in done THEN caller(r) ELSE c.regs[r]
       /\ e.ok => (e.finished <=> c.rules.regs[c.ra].type = "undefined" \/ e.regs[c.ra] = 0)
       /\ ~e.ok /\ (\A r \in done : caller(r) = c.regs[r]) =>
            InterfaceStep(c.rules, c.next, c.ra, c.regs, c.mem) = EvalRegs(c.next, c.ra, c.regs, c.mem)
=============================================================================
