---------------------------- MODULE RemoteMemory ----------------------------
(* How the dumper reads the memory of the crashed process (xcd_util.c), and  *)
(* the dump of the memory near the addresses in the registers (xcd_thread.c).*)
(* A byte of the process is its address: what a read returns is the sequence *)
(* of addresses whose bytes it put into the buffer.                          *)
EXTENDS Integers, Sequences, SequencesExt, FiniteSetsExt

CONSTANTS Page,        \* bytes of a page: 4096
          IovMax,      \* pieces of one call of process_vm_readv: 64
          Long,        \* bytes of a long
          AddrSpace,   \* 2^w, w the width of an address
          Near, Back,  \* bytes dumped near an address, and bytes of them before it: 256, 32
          TooHigh      \* addresses that are not dumped: 2^62, or 0xffff0000

\* The words of an address divide a page, a call spans less than half of the addresses, and what
\* is shown near an address fits into a page.
ASSUME MemoryAssumption ==
  /\ Page \in Nat \ {0} /\ Long \in Nat \ {0} /\ Page % Long = 0
  /\ IovMax \in Nat /\ IovMax >= 2
  /\ AddrSpace \in Nat /\ IovMax * Page < AddrSpace \div 2
  /\ Near \in 1..Page /\ Near % Long = 0 /\ Back \in Nat /\ Back % Long = 0
  /\ TooHigh \in 0..AddrSpace

Run(at, n) == [i \in 1..n |-> at + i - 1]
Minus(x, y) == (x - y) % AddrSpace

\* process_vm_readv(2) into a buffer of `room` bytes: in order up to the first byte of a page
\* not in `ok`; it refuses a size that is negative as an ssize_t.
KernelReads(pieces, room, ok) ==
  LET copied[k \in 0..Len(pieces)] ==
        IF k = 0 THEN <<>> ELSE copied[k - 1] \o Run(pieces[k].at, pieces[k].len)
      bytes == copied[Len(pieces)]
      bad == {i \in DOMAIN bytes : bytes[i] \div Page \notin ok}
      good == IF bad = {} THEN bytes ELSE SubSeq(bytes, 1, Min(bad) - 1)
  IN IF room >= AddrSpace \div 2 THEN <<>> ELSE SubSeq(good, 1, Min({room, Len(good)}))

\* A turn of the inner loop: the piece ends with its page.  The length left is unsigned, and
\* goes below zero with the last page.
ToEnd(at) == Page - (at % Page)
AfterPage(s) == [at |-> s.at + ToEnd(s.at), left |-> Minus(s.left, ToEnd(s.at))]

Pieces(at, left) ==
  LET turn[k \in 0..IovMax] ==
        IF k = 0 THEN [at |-> at, left |-> left] ELSE AfterPage(turn[k - 1])
      n == Min({k \in 1..IovMax : k = IovMax \/ turn[k].left = 0 \/ turn[k].at >= AddrSpace})
  IN [pieces |-> [k \in 1..n |-> [at |-> turn[k - 1].at,
                                 len |-> Min({ToEnd(turn[k - 1].at), turn[k - 1].left})]],
      next |-> turn[n].at, left |-> turn[n].left]

\* A turn of the outer loop: one call of process_vm_readv.  If an address overflowed, or the
\* call fails, the read is over.
AfterCall(s, ok) ==
  LET p == Pieces(s.at, s.left)
      bytes == KernelReads(p.pieces, s.left, ok)
  IN IF s.left = 0 \/ p.next >= AddrSpace \/ bytes = <<>> THEN [s EXCEPT !.left = 0]
     ELSE [at |-> p.next, left |-> p.left, got |-> s.got \o bytes]

\* A call that goes on has read a byte or more: `len` of them are enough.
VmReadv(at, len, ok) ==
  LET turn[j \in 0..len] ==
        IF j = 0 THEN [at |-> at, left |-> len, got |-> <<>>] ELSE AfterCall(turn[j - 1], ok)
  IN turn[len].got

\* PTRACE_PEEKTEXT word by word; the first and the last may be needed in part only.
AfterWord(s, ok) ==
  LET part == Min({Long - (s.at % Long), s.left})
  IN IF s.left = 0 \/ s.at \div Page \notin ok THEN [s EXCEPT !.left = 0]
     ELSE [at |-> s.at + part, left |-> s.left - part, got |-> s.got \o Run(s.at, part)]
OriginalPtrace(at, len, ok) ==
  LET turn[j \in 0..len] ==
        IF j = 0 THEN [at |-> at, left |-> len, got |-> <<>>] ELSE AfterWord(turn[j - 1], ok)
  IN IF at + len >= AddrSpace THEN <<>> ELSE turn[len].got

\* The way that gave bytes first is kept for all reads to come.  PTRACE_PEEKTEXT also reads
\* pages without read permission (`peek`).
FirstThatReads(method, vm, word) ==
  CASE method = "vm" -> [bytes |-> vm, method |-> "vm"]
    [] method = "peek" -> [bytes |-> word, method |-> "peek"]
    [] method = "none" /\ vm # <<>> -> [bytes |-> vm, method |-> "vm"]
    [] method = "none" /\ vm = <<>> /\ word # <<>> -> [bytes |-> word, method |-> "peek"]
    [] OTHER -> [bytes |-> <<>>, method |-> "none"]
PtraceRead(method, at, len, ok, peek) ==
  FirstThatReads(method, VmReadv(at, len, ok), OriginalPtrace(at, len, ok \cup peek))

-----------------------------------------------------------------------------
(* Memory near an address *)

WordDown(n) == n - (n % Long)
NearStart(at) == LET a == WordDown(at) IN IF a >= Page + Back THEN a - Back ELSE a
NearShown(a) == a >= Page /\ a <= TooHigh - Near

\* The second read goes behind the bytes of the first in the buffer.
SecondReadTo(start, bytes) == bytes

\* What is in the buffer after both reads: a buffer position -> an address, 0 is empty.
AfterSecond(first, second, start, bytes, to) ==
  [data |-> [i \in 0..Near-1 |-> IF i - to + 1 \in DOMAIN second THEN second[i - to + 1]
                                 ELSE IF i + 1 \in DOMAIN first THEN first[i + 1] ELSE 0],
   start |-> start,
   bytes |-> IF second = <<>> THEN bytes ELSE WordDown(bytes + Len(second))]
ReadSecond(a, ok, first, bytes, start) ==
  LET skip == bytes = Near \/ (bytes = 0 /\ (start = 0 \/ start >= Near))
  IN AfterSecond(first,
                 IF skip THEN <<>> ELSE VmReadv(a + start + bytes, Near - bytes - start, ok),
                 start, bytes, SecondReadTo(start, bytes))
ReadFirst(a, ok, first) ==
  LET bytes == WordDown(Len(first))
  IN ReadSecond(a, ok, first, bytes, IF bytes = 0 THEN (-a) % Page ELSE 0)
Buffered(a, ok) == ReadFirst(a, ok, VmReadv(a, Near, ok))

\* The words as shown: the address whose bytes the word was read from, -1 for dashes.
Words(b) ==
  [k \in 0..(Near \div Long) - 1 |->
     IF k * Long >= b.start /\ (k + 1) * Long <= b.start + b.bytes
     THEN b.data[k * Long - b.start] ELSE -1]

\* The two branches of an address above or below the limits print nothing.
RecordMemory(at, ok) ==
  LET a == NearStart(at)
  IN [at |-> a, words |-> IF NearShown(a) THEN Words(Buffered(a, ok)) ELSE <<>>]

-----------------------------------------------------------------------------
(* Properties, of the arguments of one call *)

Readable(at, len, ok) ==
  LET bad == {i \in 0..len-1 : at + i >= AddrSpace \/ (at + i) \div Page \notin ok}
  IN IF bad = {} THEN len ELSE Min(bad)

\* Whichever way memory is read, byte i of the buffer is byte i of the memory asked for, and all
\* that is readable is there, for a read that fits into one call: a longer one goes on with the
\* next pages after a hole and puts their bytes where those of the hole belong.
ReadsInPlace(c) ==
  \A r \in {PtraceRead(c.method, c.at, c.len, c.ok, c.peek)} :
  \A whole \in {Readable(c.at, c.len, IF r.method = "peek" THEN c.ok \cup c.peek ELSE c.ok)} :
     /\ (c.at % Page) + c.len <= IovMax * Page \/ whole = c.len =>
          r.bytes = Run(c.at, Len(r.bytes))
     /\ c.at + c.len + IovMax * Page < AddrSpace /\ (c.at % Page) + c.len <= IovMax * Page =>
          Len(r.bytes) = whole

\* Each word shown beside an address was read from that address.
MemoryShownInPlace(c) ==
  \A shown \in {RecordMemory(c.at, c.ok)} : \A k \in DOMAIN shown.words :
    shown.words[k] \in {-1, shown.at + k * Long}
=============================================================================
