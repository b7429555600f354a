------------------------------- MODULE Frames -------------------------------
(* The backtrace of a thread (xcd_frames.c): the loop that unwinds the stack *)
(* and guesses when it cannot, the list of build ids and the dump of the     *)
(* stack.  What a step of the unwinders yields at a pc is an input: w.step.  *)
(* The last part is about the registers of each architecture.                *)
EXTENDS Integers, Sequences, FiniteSetsExt, SequencesExt

CONSTANTS FramesMax,   \* XCD_FRAMES_MAX: 256
          StackWords   \* XCD_FRAMES_STACK_WORDS: 16

ASSUME FramesAssumption == FramesMax \in Nat \ {0} /\ StackWords \in Nat \ {0}

Device(w, r) == w.map[r.pc] # "none" /\ (w.map[r.pc] = "device" \/ r.sp \in w.spDevice)
StepTried(w, r) == w.map[r.pc] = "elf" /\ ~Device(w, r)
Stepped(w, r) == StepTried(w, r) /\ w.step[r.pc].ok
Trampoline(w, r) == StepTried(w, r) /\ w.step[r.pc].sigreturn

\* A step that fails may have changed the registers.
RegsAfter(w, r) ==
  IF StepTried(w, r) THEN [pc |-> w.step[r.pc].pc, sp |-> r.sp + w.step[r.pc].up] ELSE r

\* "adjusted": the pc shown lies in the call before the return address.
Marks(w, s) ==
  LET mapped == w.map[s.regs.pc] # "none"
  IN (IF mapped THEN {"mapped"} ELSE {})
     \cup (IF s.return_address_attempt = 1 THEN {"guessed"} ELSE {})
     \cup (IF Stepped(w, s.regs) THEN {"stepped"} ELSE {})
     \cup (IF mapped /\ s.frames # <<>> /\ ~Trampoline(w, s.regs) THEN {"adjusted"} ELSE {})

LoopOver(s, frames) == [s EXCEPT !.frames = frames, !.loop = "over"]

\* A mutant: a guess may follow a guess.
AfterFailureAlways(w, s, all, regs) ==
  IF Device(w, s.regs) \/ w.lr = regs.pc THEN LoopOver(s, all)
  ELSE [frames |-> all, regs |-> [regs EXCEPT !.pc = w.lr], return_address_attempt |-> 1, loop |-> "on"]

\* A step failed: the link register (on x86 the word at sp) may be the return address, once
\* in a row.  A guess that leads nowhere is not shown, unless it is all there is.
AfterFailure(w, s, all, regs) ==
  IF s.return_address_attempt = 1
  THEN LoopOver(s, IF Len(all) > 2 \/ "mapped" \in Head(all).marks THEN Front(all) ELSE all)
  ELSE IF Device(w, s.regs) \/ w.lr = regs.pc THEN LoopOver(s, all)
  ELSE [frames |-> all, regs |-> [regs EXCEPT !.pc = w.lr], return_address_attempt |-> 1, loop |-> "on"]

\* A turn of the loop of xcd_frames_load: what step and guess leave, and the end if the
\* registers did not change.
AfterFrame(w, s) ==
  LET all == Append(s.frames, [pc |-> s.regs.pc, sp |-> s.regs.sp, marks |-> Marks(w, s)])
      regs == RegsAfter(w, s.regs)
  IN IF Stepped(w, s.regs)
     THEN [frames |-> all, regs |-> regs, return_address_attempt |-> 0,
           loop |-> IF w.step[s.regs.pc].finished THEN "over" ELSE "on"]
     ELSE AfterFailure(w, s, all, regs)
Turn(w, s) ==
  IF s.loop = "over" THEN s
  ELSE IF AfterFrame(w, s).regs = s.regs THEN [AfterFrame(w, s) EXCEPT !.loop = "over"]
  ELSE AfterFrame(w, s)

FirstTurn(w) == [frames |-> <<>>, regs |-> w.regs, return_address_attempt |-> 0, loop |-> "on"]

Backtrace(w) ==
  LET turn[k \in 0..FramesMax] == IF k = 0 THEN FirstTurn(w) ELSE Turn(w, turn[k - 1])
  IN turn[FramesMax].frames

\* The loop of xcd_frames_load ends, makes progress from frame to frame, never builds on two
\* guesses in a row, and shows a guess that no step confirmed only if nothing better is
\* known than a pc outside of every mapping.
GuessesAreChecked(w) ==
  LET f == Backtrace(w) IN
  /\ Len(f) \in 1..FramesMax
  /\ \A i \in 1..Len(f) - 1 : /\ <<f[i].pc, f[i].sp>> # <<f[i+1].pc, f[i+1].sp>>
                              /\ "guessed" \in f[i].marks => "guessed" \notin f[i+1].marks
  /\ \A i \in DOMAIN f : "guessed" \in f[i].marks /\ "stepped" \notin f[i].marks =>
       Len(f) = 2 /\ "mapped" \notin f[1].marks

-----------------------------------------------------------------------------
(* The build ids: the file of the fault address, then the file of each frame *)

Repeated(names, i) == \E j \in 1..i-1 : names[j] = names[i]

NoFile == ""  \* no mapping, or one without a name

\* xcd_frames_record_buildid; a name outside of `files` is not a path, such as [vdso].
Listed(fault, names, files, i) == names[i] \in files /\ names[i] # fault /\ ~Repeated(names, i)

BuildIds(fault, names, files) ==
  LET ids[i \in 0..Len(names)] ==
        IF i = 0 THEN IF fault = NoFile THEN <<>> ELSE <<fault>>
        ELSE IF Listed(fault, names, files, i) THEN Append(ids[i - 1], names[i]) ELSE ids[i - 1]
  IN ids[Len(names)]

\* The section lists the file of every frame and of the fault address, each exactly once.
BuildIdsOnce(c) ==
  LET ids == BuildIds(c.fault, c.names, c.files)
  IN IsInjective(ids) /\ ToSet(ids) = ((ToSet(c.names) \cap c.files) \cup {c.fault}) \ {NoFile}

-----------------------------------------------------------------------------
(* The stack.  An address counts words; a line is a word, with the number of the frame whose *)
(* stack starts there or -1, or the dots that stand for a jump.                              *)

Dots == [at |-> -1, label |-> -1]

\* xcd_frames_record_stack_segment shows the words up to the first that is unreadable.
Segment(sp, words, label, ok) ==
  LET n == Min({k \in 0..words : k = words \/ sp + k \notin ok})
  IN [lines |-> [i \in 1..n |-> [at |-> sp + i - 1, label |-> IF i = 1 THEN label ELSE -1]], sp |-> sp + n]

WordsToNext(sps, i) ==
  IF i = Len(sps) \/ sps[i+1] = 0 \/ sps[i+1] < sps[i] THEN StackWords
  ELSE Max({1, Min({StackWords, sps[i+1] - sps[i]})})

\* A turn of the loop of xcd_frames_record_stack; t.segments is "recorded" for segment_recorded,
\* and "over" once a frame has lost its sp.
AfterStackOf(sps, i, t, ok) ==
  LET before == IF t.segments = "recorded" THEN [lines |-> t.lines, sp |-> t.sp]
                ELSE Segment(sps[i] - StackWords, StackWords, -1, ok)
      dots == IF before.sp = sps[i] THEN <<>> ELSE <<Dots>>
      own == Segment(sps[i], WordsToNext(sps, i), i - 1, ok)
  IN IF t.segments = "over" THEN t
     ELSE IF sps[i] = 0
     THEN [t EXCEPT !.segments = IF t.segments = "none" THEN "none" ELSE "over"]
     ELSE [lines |-> before.lines \o dots \o own.lines, sp |-> own.sp, segments |-> "recorded"]

Stack(sps, ok) ==
  LET turn[i \in 0..Len(sps)] ==
        IF i = 0 THEN [lines |-> <<>>, sp |-> 0, segments |-> "none"]
        ELSE AfterStackOf(sps, i, turn[i - 1], ok)
  IN turn[Len(sps)].lines

\* Read from top to bottom the section is true: a line that follows no dots is the next word
\* of memory, a label stands at the stack pointer of its frame, and of the frames before the
\* first that lost its sp each has its label, unless its word cannot be read.
StackInOrder(c) ==
  LET t == Stack(c.sps, c.ok)
      Known(i) == /\ c.sps[i] \in c.ok
                  /\ \A j \in 1..i-1 : c.sps[j] = 0 => \A k \in 1..j : c.sps[k] = 0
  IN /\ \A i \in 1..Len(t) - 1 : Dots \in {t[i], t[i+1]} \/ t[i+1].at = t[i].at + 1
     /\ \A i \in DOMAIN t : t[i].label >= 0 => t[i].at = c.sps[t[i].label + 1]
     /\ \A i \in DOMAIN c.sps : Known(i) /\ c.sps[i] # 0 =>
          Cardinality({k \in DOMAIN t : t[k].label = i - 1}) = 1

-----------------------------------------------------------------------------
(* The registers of each architecture (xcd_regs_*.c): where a signal handler that returns      *)
(* finds the interrupted registers, and by how much a return address is moved back into its    *)
(* call.                                                                                       *)

\* The forms of a signal frame: the old and the new frame of arm, without and with siginfo;
\* arm64; x86 without and with siginfo; x86_64.
SignalForms == {"arm_old", "arm", "arm_rt_old", "arm_rt", "arm64", "x86", "x86_rt", "x86_64"}

Magic == 1522779994   \* 0x5ac3c35a: the flags of the new frame of arm

\* The kernel: the words it leaves on the stack at the return of a handler, and the address
\* of the first register saved.  A ucontext starts with flags, link and the three words of a
\* stack_t; on arm64 the mask and its padding, 128 bytes, follow and align to 16.
SignalFrame(form, sp, uc) ==
  LET context(w) == 2 * w + 3 * w
  IN CASE form = "arm_old"    -> [word |-> [a \in {sp} |-> 14], regs |-> sp + 3 * 4]
       [] form = "arm"        -> [word |-> [a \in {sp} |-> Magic], regs |-> sp + context(4) + 3 * 4]
       [] form = "arm_rt_old" -> [word |-> [a \in {sp} |-> sp + 2 * 4], regs |-> sp + 2 * 4 + 128 + context(4) + 3 * 4]
       [] form = "arm_rt"     -> [word |-> [a \in {sp} |-> 11], regs |-> sp + 128 + context(4) + 3 * 4]
       [] form = "arm64"      -> [word |-> <<>>, regs |-> sp + 128 + (((context(8) + 128 + 15) \div 16) * 16) + 8]
       [] form = "x86"        -> [word |-> <<>>, regs |-> sp + 4]
       [] form = "x86_rt"     -> [word |-> [a \in {sp + 2 * 4} |-> uc], regs |-> uc + context(4)]
       [] form = "x86_64"     -> [word |-> <<>>, regs |-> sp + context(8)]

\* xcd_regs_try_step_sigreturn of arm; the code at pc tells which system call it is (`rt`).
ArmSigreturn(rt, sp, word) ==
  IF ~rt THEN (IF word = Magic THEN sp + 20 + 12 ELSE sp + 12)
  ELSE IF word = sp + 8 THEN sp + 8 + 128 + 20 + 12 ELSE sp + 128 + 20 + 12

\* xcd_regs_try_step_sigreturn of arm64, x86 (where a word is followed to the context) and
\* x86_64.
Arm64Sigreturn(sp) == sp + 128 + 176 + 8
X86Sigreturn(rt, sp, word) == IF rt THEN word[sp + 8] + 20 ELSE sp + 4
X8664Sigreturn(sp) == sp + 40

SigreturnReads(form, sp, word) ==
  CASE form \in {"arm_old", "arm"} -> ArmSigreturn(FALSE, sp, word[sp])
    [] form \in {"arm_rt_old", "arm_rt"} -> ArmSigreturn(TRUE, sp, word[sp])
    [] form = "arm64" -> Arm64Sigreturn(sp)
    [] form \in {"x86", "x86_rt"} -> X86Sigreturn(form = "x86_rt", sp, word)
    [] form = "x86_64" -> X8664Sigreturn(sp)

\* Behind the return of a signal handler the unwinder goes on with the registers the signal
\* interrupted, in every form of frame a kernel builds.
InterruptedRegsFound(c) ==
  LET k == SignalFrame(c.form, c.sp, c.uc) IN SigreturnReads(c.form, c.sp, k.word) = k.regs

-----------------------------------------------------------------------------
\* xcd_regs_get_adjust_pc of arm: `known` if the memory of the ELF is there, `wide` if the
\* four bytes before the pc can be read and look like one Thumb instruction.
ArmAdjust(pc, bias, known, wide) ==
  IF ~known THEN 2
  ELSE IF pc < bias THEN (IF pc < 2 THEN 0 ELSE 2)
  ELSE IF pc - bias < 5 THEN (IF pc - bias < 2 THEN 0 ELSE 2)
  ELSE IF (pc - bias) % 2 = 1 /\ ~wide THEN 2 ELSE 4
Arm64Adjust(pc) == IF pc < 4 THEN 0 ELSE 4
X86Adjust(pc) == IF pc = 0 THEN 0 ELSE 1

\* The bytes of a call: a branch with link is an ARM or a wide Thumb instruction, a branch to
\* a register may be narrow.  A wide call looks like one or not, by a bit of its target.
CallSizes(arch, pc) == CASE arch = "arm" -> IF pc % 2 = 1 THEN {2, 4} ELSE {4}
                         [] arch = "arm64" -> {4}
                         [] arch = "x86" -> {2, 5}

\* Moved back, a return address lies in the call it returns from, whatever the call and
\* wherever it is in the ELF: function names and unwind rules are those of the caller.
AdjustedPcInCall(c) ==
  LET adjust == CASE c.arch = "arm" -> ArmAdjust(c.pc, c.bias, c.known, c.wide)
                  [] c.arch = "arm64" -> Arm64Adjust(c.pc)
                  [] c.arch = "x86" -> X86Adjust(c.pc)
      thumb == IF c.arch = "arm" THEN c.pc % 2 ELSE 0
  IN \A size \in CallSizes(c.arch, c.pc) :
       c.pc - thumb >= c.bias + size /\ (c.wide => size = 4) => adjust - thumb \in 1..size
=============================================================================
