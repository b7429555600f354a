----------------------------- MODULE DumperCalls -----------------------------
(* Calls of the algorithms by which the dumper reads the memory of the       *)
(* crashed process, shows the stacks of its threads and takes names and      *)
(* tables from ELF images, with any input the program can give them.         *)
(* MCAlgorithms makes such calls on a bounded set of inputs.                 *)
EXTENDS RemoteMemory, MemoryMaps, Frames, ElfImage, Tombstone

VARIABLE call  \* the algorithm called, and its input

-----------------------------------------------------------------------------
(* The inputs *)

\* A file of at most SizeMax bytes, with ELFs at some of its bytes.
FileOf(file) ==
  /\ file.size \in 0..SizeMax
  /\ DOMAIN file.elfs \subseteq Nat /\ \A at \in DOMAIN file.elfs : file.elfs[at] \in Nat

MapOf(map) == map.start \in Nat /\ map.stop \in Nat /\ map.offset \in Nat

\* A read by any way; what is near an address; the pc in a mapping, with what mmap gives at most;
\* the mappings of a process, none of which has the name the log uses for a repeated one; the
\* abort message of any length.
MemoryCall(c) ==
  \/ /\ c.alg = "read"
     /\ c.in.at \in 0..AddrSpace - 1 /\ c.in.len \in 0..AddrSpace - 1
     /\ c.in.method \in {"none", "vm", "peek"}
  \/ c.alg = "near" /\ c.in.at \in 0..AddrSpace - 1
  \/ /\ c.alg = "relpc"
     /\ MapOf(c.in.map) /\ MapOf(c.in.prev) /\ FileOf(c.in.file) /\ c.in.most \in Int
  \/ /\ c.alg = "names"
     /\ c.in.maps \in Seq([start : Nat, stop : Nat, offset : Nat, flags : SUBSET STRING,
                           name : STRING \ {">"}])
  \/ c.alg = "abort" /\ c.in.len \in Nat /\ c.in.header \in Nat /\ c.in.room \in Nat

\* A thread and what the unwinders make of each pc; the names of the mappings of its frames, of which
\* those of files are paths; the stack pointers of its frames; a signal frame on an aligned stack; a
\* return address in an ELF, whose bias is a number of pages.
FrameCall(c) ==
  \/ /\ c.alg = "frames"
     /\ LET pcs == DOMAIN c.in.map IN
        /\ c.in.regs \in [pc : pcs, sp : Int] /\ c.in.lr \in pcs
        /\ \A pc \in pcs : c.in.map[pc] = "elf" => c.in.step[pc].pc \in pcs /\ c.in.step[pc].up \in Int
  \/ c.alg = "ids" /\ c.in.names \in Seq(STRING) /\ c.in.fault \in STRING /\ NoFile \notin c.in.files
  \/ c.alg = "stack" /\ c.in.sps \in Seq(Nat)
  \/ /\ c.alg = "sigreturn"
     /\ c.in.form \in SignalForms /\ c.in.sp \in Nat /\ c.in.sp % 4 = 0 /\ c.in.uc \in Nat
  \/ /\ c.alg = "adjust"
     /\ c.in.arch \in {"arm", "arm64", "x86"} /\ c.in.pc \in Nat
     /\ c.in.bias \in Nat /\ c.in.bias % 2 = 0

HeadersOf(hs) ==
  /\ Len(hs) \in Nat /\ DOMAIN hs = 1..Len(hs)
  /\ \A i \in DOMAIN hs : hs[i].addr \in Nat /\ hs[i].offset \in Nat /\ hs[i].size \in Nat

SymbolsOf(tables) ==
  /\ Len(tables) \in Nat /\ DOMAIN tables = 1..Len(tables)
  /\ \A t \in ToSet(tables) :
       /\ t.readable \in Nat /\ Len(t.syms) \in Nat
       /\ \A i \in 1..Len(t.syms) : t.syms[i].start \in Nat /\ t.syms[i].size \in Nat

\* The tag is there once, before the end of the tags.
TagOnce(order, tag) ==
  \E i \in DOMAIN order :
    \A j \in DOMAIN order : (order[j] = tag <=> j = i) /\ (order[j] = "NULL" => i < j)

\* Any headers, of which the first can be read, with an .eh_frame that is not empty; any symbols; any
\* note; the dynamic tags in any order; a compressed image that is not empty.
ElfCall(c) ==
  \/ /\ c.alg = "elf"
     /\ HeadersOf(c.in.ph) /\ HeadersOf(c.in.sh) /\ c.in.readable \in 0..Len(c.in.sh)
     /\ \A i \in DOMAIN c.in.sh : c.in.names[i] = ".eh_frame" => c.in.sh[i].offset # 0 /\ c.in.sh[i].size # 0
  \/ c.alg = "sym" /\ SymbolsOf(c.in.tables) /\ SymbolsOf(c.in.gnu) /\ c.in.addr \in Nat
  \/ /\ c.alg = "id"
     /\ c.in.note \in Nat /\ c.in.size \in Nat /\ c.in.namesz \in Nat /\ c.in.descsz \in Nat
     /\ c.in.readable \in Nat
  \/ /\ c.alg = "so"
     /\ Len(c.in.order) \in Nat /\ DOMAIN c.in.order = 1..Len(c.in.order)
     /\ DOMAIN c.in.strtabs = 1..Len(c.in.strtabs)
     /\ \A tag \in {"STRTAB", "STRSZ", "SONAME"} : TagOnce(c.in.order, tag) /\ c.in.val[tag] \in Nat
  \/ c.alg = "xz" /\ c.in.src \in Nat \ {0} /\ c.in.total \in Nat /\ c.in.given \in 0..c.in.total

\* One call after the other.
FrameCalls == FrameCall(call) /\ [][FrameCall(call)']_call
ElfCalls == ElfCall(call) /\ [][ElfCall(call)']_call
MemoryCalls == MemoryCall(call) /\ [][MemoryCall(call)']_call

-----------------------------------------------------------------------------
(* Properties *)

(* What the dumper shows of the memory of the process is what was there:
   - A read of another process that fits into one call, by either
     system call, puts every byte at its place in the buffer and stops at the first
     hole only (xcd_util.c).
   - Every word of memory shown around a register was read from the address beside it
     (xcd_thread_record_memory).
   - The relative pc in a mapping of a part of a file is the position of the pc in
     its ELF, wherever in the file the ELF begins (xcd_memory_file.c, xcd_map.c).
   - The map list can be read back although it prints a repeated name as ">"
     (xcd_maps_record).
   - The abort message in the log is the message of libc up to the room for it, and
     nothing behind it (xcd_process_record_abort_message). *)
MemoryTrue ==
  /\ call.alg = "read" => ReadsInPlace(call.in)
  /\ call.alg = "near" => MemoryShownInPlace(call.in)
  /\ call.alg = "relpc" => RelPcIsElfPosition(call.in)
  /\ call.alg = "names" => NamesRecoverable(call.in)
  /\ call.alg = "abort" => AbortMessageWhole(call.in)

(* What the dumper shows of the stack of a thread:
   - The frame loop ends, never repeats a frame and never follows a guess from the
     link register with another guess (xcd_frames_load).
   - The build id list names the file of each frame and of the fault once
     (xcd_frames_record_buildid).
   - The stack section shows consecutive words between its gaps, and labels each
     frame at its own stack pointer (xcd_frames_record_stack).
   - From a signal trampoline the registers are loaded from the place where the
     kernel saved them, for both kinds of frame (xcd_regs_*_try_step_sigreturn).
   - The pc of a caller is moved back into the call instruction (xcd_regs_adjust_pc). *)
FramesTrue ==
  /\ call.alg = "frames" => GuessesAreChecked(call.in)
  /\ call.alg = "ids" => BuildIdsOnce(call.in)
  /\ call.alg = "stack" => StackInOrder(call.in)
  /\ call.alg = "sigreturn" => InterruptedRegsFound(call.in)
  /\ call.alg = "adjust" => AdjustedPcInCall(call.in)

(* What is read from the ELF file of a frame:
   - Address and position of an unwind table come from the same header
     (xcd_elf_interface_read_section_headers).
   - The function named for a pc is one that covers it
     (xcd_elf_interface_get_function_info).
   - A build id is shown whole or not at all (xcd_elf_interface_gnu_build_id).
   - The library name is found in whatever order the linker wrote the dynamic tags
     (xcd_elf_interface_get_so_name).
   - The symbol table of .gnu_debugdata is unpacked whole, whatever its size, without
     writing behind the buffer (xcd_util_xz_decompress). *)
ElfTrue ==
  /\ call.alg = "elf" => TablesOfOneHeader(call.in)
  /\ call.alg = "sym" => FunctionAroundPc(call.in)
  /\ call.alg = "id" => BuildIdWhole(call.in)
  /\ call.alg = "so" => SoNameAnyOrder(call.in)
  /\ call.alg = "xz" => DecompressedWhole(call.in)
=============================================================================
