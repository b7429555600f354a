----------------------------- MODULE MemoryMaps -----------------------------
(* The memory map of the crashed process (xcd_maps.c, xcd_map.c), where the *)
(* dumper finds the ELF of a mapping (xcd_memory.c, xcd_memory_file.c), and *)
(* the abort message (xcd_process.c).  A mapping is a record [start, stop,  *)
(* offset, flags, name], "" being no name; a file is a record [size, elfs], *)
(* elfs giving the size of the ELF at each offset where one starts.         *)
EXTENDS Integers, Sequences, SequencesExt, FiniteSetsExt

CONSTANTS PageSize, SizeMax

ASSUME MapsAssumption == PageSize \in Nat \ {0} /\ SizeMax \in Nat

SizeOf(map) == map.stop - map.start

-----------------------------------------------------------------------------
(* The ELF of a mapping *)

None == [kind |-> "none", at |-> 0, size |-> 0, elf_offset |-> 0, elf_start_offset |-> 0]
InFile(w, offset, start) ==
  [kind |-> "file", at |-> w.at, size |-> w.size, elf_offset |-> offset, elf_start_offset |-> start]

\* The part of the file from `offset` on is mapped; mmap fails for more than `most` bytes.
FileInit(file, size, offset, most) ==
  LET inPage == offset % PageSize
      toEnd == file.size - (offset - inPage)
      mapped == IF size + inPage > SizeMax THEN toEnd ELSE Min({size + inPage, toEnd})
  IN IF offset >= file.size \/ mapped > most THEN None
     ELSE [None EXCEPT !.kind = "file", !.at = offset, !.size = mapped - inPage]

\* A mutant: the offsets of the mapping stay as they are.
PartOfEmbeddedElfUnshifted(w, map, prev) == InFile(w, 0, prev.offset)

\* The position of the mapping in the ELF that starts in the one before.
PartOfEmbeddedElf(w, map, prev) == InFile(w, map.offset - prev.offset, prev.offset)

IsElf(w, file) == w.kind = "file" /\ w.at \in DOMAIN file.elfs
\* The whole ELF of which w is a part, if it is longer than that.
AllOf(w, size, file, most) ==
  IF IsElf(w, file) /\ file.elfs[w.at] > size THEN FileInit(file, file.elfs[w.at], w.at, most) ELSE None
MayBePart(map, prev) == prev.flags = {"r"} /\ map.offset > prev.offset /\ prev.name = map.name

\* whole: the file; here: the mapping; all: the ELF that begins in it; before: the one that begins
\* in the mapping before.
FoundElf(map, prev, file, whole, here, all, before) ==
  CASE map.offset = 0 -> IF IsElf(whole, file) THEN InFile(whole, 0, 0) ELSE None
    [] map.offset > 0 /\ here.kind = "none" -> None
    [] map.offset > 0 /\ IsElf(here, file) -> InFile(IF all.kind = "none" THEN here ELSE all, 0, map.offset)
    [] OTHER ->
         CASE IsElf(whole, file) -> InFile(whole, map.offset, 0)
           [] whole.kind = "file" /\ ~IsElf(whole, file) /\ MayBePart(map, prev) /\ before.kind = "file" ->
                PartOfEmbeddedElf(before, map, prev)
           [] OTHER -> None
MemoryFileCreate(map, prev, file, most) ==
  LET Init(size, offset) == FileInit(file, size, offset, most)
      here == Init(SizeOf(map), map.offset)
  IN FoundElf(map, prev, file, Init(SizeMax, 0), here, AllOf(here, SizeOf(map), file, most),
              AllOf(Init(SizeOf(prev), prev.offset), SizeOf(prev), file, most))

\* First the file, then the process, if the mapping can be read.
InFileOrProcess(map, inFile) ==
  IF map.stop <= map.start \/ "device" \in map.flags THEN None
  ELSE IF inFile.kind = "file" THEN inFile
  ELSE IF "r" \in map.flags THEN [None EXCEPT !.kind = "remote", !.size = SizeOf(map)]
  ELSE None
MemoryCreate(map, prev, file, most) ==
  InFileOrProcess(map, IF map.name = "" THEN None ELSE MemoryFileCreate(map, prev, file, most))

RelPc(map, memory, bias, pc) == pc - (map.start - memory.elf_offset - bias)
AbsPc(map, memory, bias, pc) == (map.start - memory.elf_offset - bias) + pc

\* The pages of the ELF a mapping shows are those of the memory chosen for it.
ElfOf(c) == MemoryCreate(c.map, c.prev, c.file, c.most)

-----------------------------------------------------------------------------
(* The section "memory map" of the log *)

NameAbove(maps, i) == IF i = 1 THEN "" ELSE maps[i - 1].name

\* ">" stands for the name of the line before.  A load bias is written behind the full name.
RecordMaps(maps, biased) ==
  [i \in DOMAIN maps |->
     IF maps[i].name # "" /\ NameAbove(maps, i) = maps[i].name /\ i \notin biased THEN ">"
     ELSE maps[i].name]

-----------------------------------------------------------------------------
(* The abort message: `size` and the characters behind it.                  *)

\* The size is that of the whole record: header, message and the zero behind it.
MessageSize(size, header) == size - (header + 1)

\* What is read of a message of `len` characters into a buffer of `room`; <<>> if there is none.
AbortMessage(len, header, room) ==
  LET size == header + len + 1
  IN IF size < header + 2 THEN <<>> ELSE [i \in 1..Min({MessageSize(size, header), room}) |-> i]

-----------------------------------------------------------------------------
(* Properties, of the arguments of one call *)

\* m: the memory chosen for the mapping.
ElfPosition(c, m) ==
  /\ m.kind = "file" =>
       \A pc \in c.map.start..c.map.stop-1 :
         /\ RelPc(c.map, m, 0, pc) = c.map.offset + (pc - c.map.start) - m.at
         /\ AbsPc(c.map, m, 0, RelPc(c.map, m, 0, pc)) = pc
  /\ m.kind = "file" => m.at = m.elf_start_offset /\ m.at \in DOMAIN c.file.elfs
  /\ m.kind = "file" /\ c.most >= c.file.size =>
       m.size >= Min({c.file.elfs[m.at], c.file.size - m.at})

\* Whatever case finds the ELF of a mapping, a pc in the mapping becomes the position in that ELF of
\* the byte of the file it is mapped from, and back; and the ELF is there to its end, unless mmap
\* gave less.
RelPcIsElfPosition(c) == ElfPosition(c, ElfOf(c))

\* A reader who takes the name of the line above for ">" has the name of every mapping.
NamesRecoverable(c) ==
  LET lines == RecordMaps(c.maps, c.biased)
      named[i \in DOMAIN c.maps] == IF lines[i] = ">" THEN named[i - 1] ELSE lines[i]
  IN \A i \in DOMAIN c.maps : named[i] = c.maps[i].name

\* The abort message is read to its end or to the end of the buffer, and nothing behind it.
AbortMessageWhole(c) == Len(AbortMessage(c.len, c.header, c.room)) = Min({c.len, c.room})
=============================================================================
