------------------------------ MODULE ElfImage ------------------------------
(* What the dumper takes from the ELF image of a mapping (xcd_elf_interface.c*)
(* and xcd_elf.c): the tables to unwind with, symbols, the build id, the     *)
(* name, the compressed image inside (xz, xcd_util.c).  Offsets and names are*)
(* small numbers; 0 is what the code takes as absent.                        *)
EXTENDS Integers, Sequences, SequencesExt, FiniteSetsExt

CONSTANTS BuildIdRoom,  \* bytes for a build id: 64
          NoteHeader    \* bytes of the header of a note: 12

ASSUME ElfAssumption == BuildIdRoom \in Nat /\ NoteHeader \in Nat /\ NoteHeader % 4 = 0

NoName == ""  \* a name that cannot be read or is not there
NoTable == [offset |-> 0, size |-> 0, bias |-> 0]
TableOf(h) == [offset |-> h.offset, size |-> h.size, bias |-> h.addr - h.offset]

\* xcd_elf_interface_read_program_headers: the load bias is that of the first executable
\* segment, and zero if that one is not above its place in the file.
ProgramHeaders(ph) ==
  LET exec == {i \in DOMAIN ph : ph[i].type = "LOAD" /\ ph[i].exec}
      last(t) == LET s == {i \in DOMAIN ph : ph[i].type = t} IN IF s = {} THEN NoTable ELSE TableOf(ph[Max(s)])
  IN [bias |-> IF exec = {} THEN 0 ELSE Max({0, ph[Min(exec)].addr - ph[Min(exec)].offset}),
      hdr |-> last("EH_FRAME"), exidx |-> last("EXIDX"), dynamic |-> last("DYNAMIC")]

\* One section header.  A note falls through to the symbol tables, which need a linked string
\* table; a name that cannot be read ("?") ends the reading for a PROGBITS section, not for a
\* note; one outside of the section of names is NoName.
ReadSection(e, sh, names, i) ==
  LET h == sh[i]
      named == names[i]
      linked == h.link \in DOMAIN sh /\ sh[h.link].type = "STRTAB"
      syms == IF h.link \in DOMAIN sh /\ h.link > e.readable THEN [e EXCEPT !.status = "error"]
              ELSE IF linked THEN [e EXCEPT !.symbols = Append(@, [table |-> i, strings |-> h.link])] ELSE e
  IN CASE h.type \in {"SYMTAB", "DYNSYM"} -> syms
       [] h.type = "NOTE" /\ named = ".note.gnu.build-id" ->
            [syms EXCEPT !.note = [offset |-> h.offset, size |-> h.size]]
       [] h.type = "NOTE" /\ named \in {NoName, "?"} -> e
       [] h.type = "STRTAB" -> [e EXCEPT !.strtabs = Append(@, i)]
       [] h.type = "PROGBITS" /\ named = "?" -> [e EXCEPT !.status = "error"]
       [] h.type = "PROGBITS" /\ named = ".debug_frame" -> [e EXCEPT !.debug = [TableOf(h) EXCEPT !.bias = e.bias]]
       [] h.type = "PROGBITS" /\ named = ".eh_frame" -> [e EXCEPT !.eh = TableOf(h)]
       [] h.type = "PROGBITS" /\ named = ".eh_frame_hdr" /\ e.hdr.offset = 0 -> [e EXCEPT !.hdr = TableOf(h)]
       [] h.type = "PROGBITS" /\ named = ".gnu_debugdata" -> [e EXCEPT !.gnu = TableOf(h)]
       [] h.type = "NOTE" /\ named \notin {".note.gnu.build-id", NoName, "?"} -> syms
       [] OTHER -> e

AfterSection(e, sh, names, i) ==
  IF e.status = "error" THEN e
  ELSE IF i > e.readable THEN [e EXCEPT !.status = "error"]
  ELSE ReadSection(e, sh, names, i)

NoSections(p, readable) ==
  [bias |-> p.bias, hdr |-> p.hdr, eh |-> NoTable, debug |-> NoTable, gnu |-> NoTable,
   note |-> [offset |-> 0, size |-> 0], symbols |-> <<>>, strtabs |-> <<>>,
   readable |-> readable, status |-> "ok"]

\* xcd_elf_interface_read_section_headers, where `readable` headers can be read.  An error
\* drops the symbol and string tables and keeps what else was found.
SectionHeaders(p, sh, names, readable) ==
  LET after[i \in 0..Len(sh)] ==
        IF i = 0 THEN NoSections(p, readable) ELSE AfterSection(after[i - 1], sh, names, i)
      end == after[Len(sh)]
  IN IF end.status = "error" THEN [end EXCEPT !.symbols = <<>>, !.strtabs = <<>>] ELSE end

\* xcd_elf_interface_create: the tables the two DWARF unwinders get; `good` says which of them
\* xcd_dwarf_create accepts.
Unwinders(e, good) ==
  LET there(t) == t.offset # 0 /\ t.size # 0
      hdr == there(e.hdr) /\ "hdr" \in good
      eh == there(e.eh) /\ "eh" \in good
  IN [eh |-> IF hdr THEN [type |-> "hdr", table |-> e.hdr, bias |-> e.eh.bias]
             ELSE IF eh THEN [type |-> "eh", table |-> e.eh, bias |-> e.eh.bias]
             ELSE [type |-> "none", table |-> NoTable, bias |-> 0],
      debug |-> there(e.debug) /\ "debug" \in good]

\* The unwinder of exceptions gets a table as one header describes it, never the place of one
\* and the size or the bias of another, whatever the order of the headers; it gets one if a
\* good one is there; and an error among the sections leaves no symbol table half known.
TablesOfOneHeader(c) ==
  LET p == ProgramHeaders(c.ph)
      e == SectionHeaders(p, c.sh, c.names, c.readable)
      u == Unwinders(e, c.good)
      all == {TableOf(c.ph[i]) : i \in DOMAIN c.ph} \cup {TableOf(c.sh[i]) : i \in DOMAIN c.sh}
  IN /\ u.eh.type # "none" => u.eh.table \in all
     /\ e.status = "ok" /\ "eh" \in c.good
        /\ (\E i \in 1..c.readable : c.names[i] = ".eh_frame" /\ c.sh[i].type = "PROGBITS")
          => u.eh.type # "none"
     /\ \A k \in DOMAIN e.symbols : e.status = "ok" /\ c.sh[e.symbols[k].strings].type = "STRTAB"

-----------------------------------------------------------------------------
(* Symbols: a table is a sequence of [start, size, kind, name], of which the first `readable` *)
(* can be read.                                                                              *)

ReadableSyms(t) == 1..Min({t.readable, Len(t.syms)})
Around(s, addr) == s.kind = "func" /\ s.start <= addr /\ addr < s.start + s.size

\* Nothing remains of the symbols without a name around the address, the last of which left
\* its offset.
NotFound(offset) == [name |-> NoName, offset |-> 0]

\* xcd_elf_interface_get_function_info: the first symbol around the address that has a name.
FunctionInfo(tables, addr) ==
  LET over(t) == {i \in ReadableSyms(t) : Around(t.syms[i], addr)}
      hits(t) == {i \in over(t) : t.syms[i].name # NoName}
      seen == {k \in DOMAIN tables : over(tables[k]) # {}}
      found == {k \in DOMAIN tables : hits(tables[k]) # {}}
      first == tables[Min(found)]
      last == tables[Max(seen)]
      hit == first.syms[Min(hits(first))]
  IN IF found # {} THEN [name |-> hit.name, offset |-> addr - hit.start]
     ELSE NotFound(IF seen = {} THEN 0 ELSE addr - last.syms[Max(over(last))].start)

\* xcd_elf_get_function_info: the image inside is asked if the image itself does not know.
ElfFunctionInfo(tables, gnu, addr) ==
  LET own == FunctionInfo(tables, addr) IN IF own.name # NoName THEN own ELSE FunctionInfo(gnu, addr)

\* A frame gets the name and the offset of one function around its pc, and neither if no
\* readable table knows one.
FunctionAroundPc(c) ==
  LET f == ElfFunctionInfo(c.tables, c.gnu, c.addr)
      known == {s \in UNION {{t.syms[i] : i \in ReadableSyms(t)} : t \in ToSet(c.tables) \cup ToSet(c.gnu)} :
                  s.kind = "func" /\ s.name # NoName /\ c.addr \in s.start..(s.start + s.size - 1)}
  IN IF known = {} THEN f = [name |-> NoName, offset |-> 0]
     ELSE \E s \in known : f = [name |-> s.name, offset |-> c.addr - s.start]
-----------------------------------------------------------------------------
(* The build id, the name and the compressed image *)

\* The description of a note follows the header and the name, padded to four bytes.
NoteDesc(note, namesz) == note + NoteHeader + (((namesz + 3) \div 4) * 4)

\* xcd_elf_interface_get_build_id: where the id is read, or nothing.
BuildId(note, size, namesz, descsz, readable) ==
  LET at == NoteDesc(note, namesz) IN
  IF note = 0 \/ size < NoteHeader \/ descsz \notin 1..BuildIdRoom \/ at + descsz > readable THEN <<>>
  ELSE [i \in 1..descsz |-> at + i - 1]

\* The build id shown is the whole description of the note, as the linker wrote it (header,
\* name and description each on a multiple of four), or unknown.
BuildIdWhole(c) ==
  LET id == BuildId(c.note, c.size, c.namesz, c.descsz, c.readable)
      name == c.note + NoteHeader
      desc == CHOOSE a \in name + c.namesz..name + c.namesz + 3 : a % 4 = c.note % 4
  IN /\ id # <<>> => id = [i \in 1..c.descsz |-> desc + i - 1]
     /\ id = <<>> => c.note = 0 \/ c.descsz = 0 \/ c.size < NoteHeader \/ c.descsz > BuildIdRoom \/ desc + c.descsz > c.readable

\* A mutant: the name is looked up when its tag comes.
SoNameInOrder(dyn, strtabs) ==
  LET at(t) == LET s == {i \in DOMAIN dyn : dyn[i].tag = t} IN IF s = {} THEN 0 ELSE Max(s)
      of(t) == IF at(t) = 0 \/ at(t) > at("SONAME") THEN 0 ELSE dyn[at(t)].val
      tabs == {k \in DOMAIN strtabs : strtabs[k].addr = of("STRTAB")}
  IN IF dyn = <<>> \/ tabs = {} \/ of("SONAME") >= of("STRSZ") THEN -1
     ELSE strtabs[Min(tabs)].offset + of("SONAME")

\* xcd_elf_interface_get_so_name: where the name is, by the tags up to the first DT_NULL and
\* the string table loaded at the address given; -1 is no name.
SoName(dyn, strtabs) ==
  LET nulls == {i \in DOMAIN dyn : dyn[i].tag = "NULL"}
      tags == IF nulls = {} THEN DOMAIN dyn ELSE 1..Min(nulls) - 1
      of(t) == LET s == {i \in tags : dyn[i].tag = t} IN IF s = {} THEN 0 ELSE dyn[Max(s)].val
      tabs == {k \in DOMAIN strtabs : strtabs[k].addr = of("STRTAB")}
  IN IF dyn = <<>> \/ tabs = {} \/ of("SONAME") >= of("STRSZ") THEN -1
     ELSE strtabs[Min(tabs)].offset + of("SONAME")

\* The name of an image is found whatever the order of its dynamic tags and of its string
\* tables, and only inside of its table.
SoNameAnyOrder(c) ==
  LET name == SoName([i \in DOMAIN c.order |-> [tag |-> c.order[i], val |-> c.val[c.order[i]]]], c.strtabs)
      tabs == {k \in DOMAIN c.strtabs : c.strtabs[k].addr = c.val["STRTAB"]}
  IN IF tabs = {} \/ c.val["SONAME"] >= c.val["STRSZ"] THEN name = -1
     ELSE \E k \in tabs : name = c.strtabs[k].offset + c.val["SONAME"]

\* The xz decoder (lzma/): from a stream of `total` bytes of which `given` can be produced from
\* the input, it fills the room it gets; it stays unfinished as long as the room was full.
XzCode(done, room, given, total) ==
  LET n == Min({room, given - done})
  IN [n |-> n, status |-> IF n = room /\ done + n < total THEN "not_finished"
                          ELSE IF done + n = total THEN "finished" ELSE "needs_input"]

\* The room left in the buffer.
RoomLeft(size, done) == size - done

\* A turn of xcd_util_xz_decompress: the buffer doubles as long as the decoder is unfinished;
\* t.over is how far the decoder was let to write behind it.
AfterCode(t, given, total) ==
  LET size == 2 * t.size
      code == XzCode(t.done, RoomLeft(size, t.done), given, total)
  IN IF t.status # "not_finished" THEN t
     ELSE [size |-> size, done |-> t.done + code.n, over |-> Max({t.over, t.done + code.n - size}),
           status |-> code.status]

\* Each turn but the last fills some room, so that total + 1 of them are enough.
XzDecompress(src, given, total) ==
  LET turn[k \in 0..total + 1] ==
        IF k = 0 THEN [size |-> 2 * src, done |-> 0, over |-> 0, status |-> "not_finished"]
        ELSE AfterCode(turn[k - 1], given, total)
  IN turn[total + 1]

\* The image inside is decompressed whole, within the buffer, or not used: no image that is
\* cut off counts as one.
DecompressedWhole(c) ==
  LET r == XzDecompress(c.src, c.given, c.total)
  IN r.over = 0 /\ (r.status = "finished" <=> c.given = c.total) /\ (r.status = "finished" => r.done = c.total)
=============================================================================
