---------------------------- MODULE MCAlgorithms ----------------------------
(***************************************************************************)
(* The pure algorithms of the code, called once each on every input of a   *)
(* bounded set.  A state of this module is one call: the algorithm and its *)
(* input; every property says what the algorithm owes on that input.       *)
(***************************************************************************)
EXTENDS DumperCalls, DwarfUnwind, ArmExidx, TextUtil, SystemInfo,
        Encodings, CompatSearch, LogClustering, XzDec, TLC

SeqsOf(S, a, b) == UNION {[1..n -> S] : n \in a..b}

Called(alg, in) == call' = [alg |-> alg, in |-> in]

-----------------------------------------------------------------------------
(* Memory of the process read from another process *)

ReadMemory ==
  \E at \in {16, 17, 20, 31, 46}, len \in {0, 1, 2, 14, 15, 16, 17, 18, 30, 33, 36},
     ok \in SUBSET (1..3), method \in {"none", "vm", "peek"}, peek \in {{}, {2}} :
    Called("read", [at |-> at, len |-> len, ok |-> ok, method |-> method, peek |-> peek])

ShowMemory ==
  \E at \in 0..127, ok \in SUBSET (1..4) : Called("near", [at |-> at, ok |-> ok])

MapsOfPc ==
  [start : {16, 24}, stop : {24, 32}, offset : {0, 4, 8, 12},
   flags : {{"r"}, {"r", "x"}, {"x"}, {"r", "device"}}, name : {"", "f"}]
MapsBefore ==
  [start : {8}, stop : {12, 16}, offset : {0, 4, 8}, flags : {{"r"}, {"r", "x"}},
   name : {"f", "g"}]
MappedFiles ==
  [size : {12, 20},
   elfs : {<<>>, 0 :> 20, 0 :> 6, 4 :> 3, 4 :> 8, 4 :> 16, 8 :> 8, 12 :> 20}]

FindRelPc ==
  \E map \in MapsOfPc, prev \in MapsBefore, file \in MappedFiles, most \in {6, 100} :
    Called("relpc", [map |-> map, prev |-> prev, file |-> file, most |-> most])

NameMaps ==
  \E maps \in SeqsOf([name : {"", "a", "b"}, start : {0}, stop : {1}, flags : {{"r"}},
                      offset : {0}], 0, 4), biased \in SUBSET (1..4) :
    Called("names", [maps |-> maps, biased |-> biased])

ReadAbortMessage ==
  \E len \in 0..20, header \in {4, 8}, room \in 1..16 :
    Called("abort", [len |-> len, header |-> header, room |-> room])

-----------------------------------------------------------------------------
(* Frames and registers *)

StepResults ==
  [ok : BOOLEAN, pc : {1, 2}, up : {0, 1}, finished : {FALSE}, sigreturn : {FALSE}]
    \cup {[ok |-> TRUE, pc |-> 2, up |-> 1, finished |-> FALSE, sigreturn |-> TRUE],
          [ok |-> TRUE, pc |-> 0, up |-> 1, finished |-> TRUE, sigreturn |-> FALSE]}

LoadFrames ==
  \E map \in [1..2 -> {"none", "device", "noelf", "elf"}], device \in {{}, {2}},
     step \in [1..2 -> StepResults], lr \in 0..2, pc \in 0..1 :
    Called("frames", [map |-> (0 :> "none") @@ map, spDevice |-> device, step |-> step,
                      lr |-> lr, regs |-> [pc |-> pc, sp |-> 1]])

RecordBuildIds ==
  \E fault \in {"", "a", "v"}, names \in SeqsOf({"", "a", "b", "v"}, 0, 4) :
    Called("ids", [fault |-> fault, names |-> names, files |-> {"a", "b"}])

RecordStack ==
  \E sps \in SeqsOf({0, 3, 4, 6, 9}, 1, 3), bad \in {{}} \cup {{a} : a \in 1..12} :
    Called("stack", [sps |-> sps, ok |-> (1..14) \ bad])

StepSigreturn ==
  \E form \in SignalForms, sp \in {64, 160}, uc \in {96, 512} :
    Called("sigreturn", [form |-> form, sp |-> sp, uc |-> uc])

AdjustPc ==
  \E arch \in {"arm", "arm64", "x86"}, pc \in 0..40, bias \in {0, 4, 8, 12},
     known, wide \in BOOLEAN :
    Called("adjust", [arch |-> arch, pc |-> pc, bias |-> bias, known |-> known,
                      wide |-> wide])

-----------------------------------------------------------------------------
(* ELF images *)

ProgramHeaderSet ==
  [type : {"LOAD"}, exec : BOOLEAN, addr : {0, 8}, offset : {0}, size : {8}]
    \cup {[type |-> "EH_FRAME", exec |-> FALSE, addr |-> 24, offset |-> 16, size |-> 4]}
SectionSet ==
  [type : {"PROGBITS"}, name : {".eh_frame", ".eh_frame_hdr", "?"}, addr : {40},
   offset : {20}, size : {6}, link : {0}]
    \cup [type : {"SYMTAB"}, name : {""}, addr : {0}, offset : {30}, size : {6},
          link : {1, 3}]
    \cup {[type |-> "STRTAB", name |-> "", addr |-> 0, offset |-> 33, size |-> 6, link |-> 0],
          [type |-> "NOTE", name |-> ".note.gnu.build-id", addr |-> 0, offset |-> 33,
           size |-> 6, link |-> 0]}

LoadElf ==
  \E ph \in SeqsOf(ProgramHeaderSet, 0, 2), sh \in SeqsOf(SectionSet, 0, 3),
     readable \in {2, 3}, good \in {{"eh"}, {"hdr", "eh"}} :
    /\ Len(ph) + Len(sh) < 5
    /\ Called("elf", [ph |-> ph, sh |-> sh, names |-> [i \in DOMAIN sh |-> sh[i].name],
                      readable |-> IF readable < Len(sh) THEN readable ELSE Len(sh),
                      good |-> good])

SymbolSet == [start : {2, 4}, size : {0, 4}, kind : {"func", "data"}, name : {"", "f"}]

FindSymbol ==
  \E own \in SeqsOf(SymbolSet, 0, 2), gnu \in SeqsOf(SymbolSet, 0, 1), addr \in 1..6,
     readable \in 1..2 :
    Called("sym", [tables |-> <<[syms |-> own, readable |-> readable]>>,
                   gnu |-> <<[syms |-> gnu, readable |-> 1]>>, addr |-> addr])

ReadBuildId ==
  \E note \in {0, 4, 8}, size \in {0, 8, 16, 32}, namesz, descsz \in 0..6,
     readable \in {8, 12, 15, 16, 17, 20, 21, 24, 28, 40} :
    Called("id", [note |-> note, size |-> size, namesz |-> namesz, descsz |-> descsz,
                  readable |-> readable])

DynamicTags == {"STRTAB", "STRSZ", "SONAME"}

ReadSoName ==
  \E order \in {o \in [1..3 -> DynamicTags] : IsInjective(o)}, val \in [DynamicTags -> 0..3],
     tables \in SeqsOf([addr : 0..2, offset : {10, 20}], 0, 2) :
    Called("so", [order |-> order, val |-> val, strtabs |-> tables])

Decompress ==
  \E src \in 1..4, total, given \in 0..40 :
    /\ given <= total
    /\ Called("xz", [src |-> src, total |-> total, given |-> given])

-----------------------------------------------------------------------------
(* Unwinding by DWARF and by the ARM exception tables *)

EntrySet ==
  [kind : {"fde"}, start : {0, 2, 4}, size : {1, 2}, good : BOOLEAN]
    \cup {[kind |-> "cie", start |-> 0, size |-> 0, good |-> TRUE]}

SearchEntry ==
  \E entries \in SeqsOf(EntrySet, 0, 3), pc \in 0..6 :
    Called("search", [entries |-> entries, pc |-> pc])

Instr(op, reg, n) == [op |-> op, reg |-> reg, n |-> n, m |-> 3]

FdeInstructions ==
  {Instr("advance", 0, 1), Instr("set_loc", 0, 5), Instr("offset", 0, 2), Instr("offset_extended", 0, 2),
   Instr("offset", 3, 1), Instr("restore", 0, 0), Instr("register", 0, 1), Instr("remember", 0, 0),
   Instr("restore_state", 0, 0), Instr("cfa_off_sf", 0, 5), Instr("bad", 0, 0)}

\* The bytes behind an entry are the length of the next one.
BehindEntry == {Instr("nop", 0, 0), Instr("advance", 0, 1), Instr("val_offset", 0, 3), Instr("bad", 0, 0)}

RunRules ==
  \E cie \in {<<>>, <<Instr("cfa", 1, 2)>>, <<Instr("offset", 0, 1), Instr("cfa_sf", 1, 2)>>},
     fde \in SeqsOf(FdeInstructions, 0, 3), behind \in BehindEntry, pc \in 4..6,
     code \in {1, 2}, data \in {1, -2} :
    /\ fde = <<>> \/ behind.op = "nop"
    /\ code = 2 <=> data = -2
    /\ Called("cfa", [cie |-> cie, fde |-> fde, behind |-> behind, start |-> 4, pc |-> pc,
                      code |-> code, data |-> data])

Operation(op, n) == [op |-> op, n |-> n, m |-> 1]
CalleeMemory == [a \in 0..7 |-> IF a = 3 THEN -1 ELSE (a * 5) % 8]
ForwardCode ==
  SeqsOf({Operation("lit", 2), Operation("lit", 0), Operation("breg", 1),
          Operation("deref", 0), Operation("swap", 0), Operation("rot", 0),
          Operation("plus", 0), Operation("minus", 0), Operation("pick", 2)}, 0, 4)
JumpingCode ==
  SeqsOf({Operation("bra", 1), Operation("bra", -2), Operation("skip", -1),
          Operation("skip", -2), Operation("lit", 1), Operation("lit", 0),
          Operation("dup", 0)}, 0, 3)

EvaluateExpression ==
  \E code \in ForwardCode \cup JumpingCode :
    Called("expr", [code |-> code, regs |-> (0 :> 3 @@ 1 :> 6), mem |-> CalleeMemory,
                    jumps |-> code \in JumpingCode])

RuleSet ==
  [type : {"offset", "register"}, n : 0..2, m : {0, 1}]
    \cup [type : {"same", "undefined"}, n : {0}, m : {0}]

RulesOf(reg, off, rule0, rule1) ==
  [cfa |-> [type |-> "register", reg |-> reg, off |-> off], regs |-> (0 :> rule0 @@ 1 :> rule1),
   saved |-> <<>>]

StepByRules ==
  \E rule0, rule1 \in RuleSet, off \in 0..3, ra, reg, from \in {0, 1} :
    Called("regs", [rules |-> RulesOf(reg, off, rule0, rule1),
                    next |-> RulesOf(from, 1, [type |-> "register", n |-> 1, m |-> 1],
                                     [type |-> "offset", n |-> 0, m |-> 0]),
                    ra |-> ra, regs |-> (0 :> 3 @@ 1 :> 6), mem |-> CalleeMemory])

Prologues(op, n, set) == [op |-> op, n |-> n, set |-> set]
PrologueSteps ==
  {Prologues("push", 0, set) : set \in {{4, LR}, {4, 5, LR}, {4, 5}, {6, 11, LR}, {7},
                                        {0, 2}, {12, LR}}}
    \cup {Prologues("alloc", n, {}) : n \in {1, 64, 65, 129, 300}}
    \cup {Prologues("vpush", n, {}) : n \in {2, 9}}
    \cup {Prologues("vpushx", n, {}) : n \in {1, 9}}
    \cup {Prologues("fp", 7, {})}

UndoPrologue ==
  \E steps \in SeqsOf(PrologueSteps, 1, 3), generic, leaf \in BOOLEAN :
    Called("prologue", [steps |-> steps, generic |-> generic, leaf |-> leaf,
                        regs |-> [r \in 0..15 |-> IF r = SP THEN 4000 ELSE 10000 + r]])

FindRow ==
  \E rows \in 0..5, bad \in SUBSET (1..5), pc \in 0..50 :
    Called("row", [rows |-> rows, bad |-> bad \cap 1..rows, base |-> 2, gap |-> 2,
                   pc |-> pc])

EncodingSet ==
  [format : {"absptr", "uleb128", "sleb128", "udata1", "sdata1", "udata2", "sdata2"},
   rel : {"abs", "pcrel", "datarel", "textrel"}]
DecodedEncoding ==
  0 :> [format |-> "absptr", rel |-> "abs"] @@ 1 :> [format |-> "sdata1", rel |-> "pcrel"]
  @@ 2 :> [format |-> "udata2", rel |-> "datarel"] @@ 3 :> [format |-> "omit", rel |-> "abs"]
  @@ 255 :> [format |-> "unknown", rel |-> "abs"]

ReadLeb ==
  \E n \in (-300..300) \cup {8191, 8192, -8192, -8193, 16383, 16384, 65535, 2097151,
                              -1048576, -1048577},
     signed \in BOOLEAN, before \in {<<>>, <<200>>} :
    /\ signed \/ n >= 0
    /\ Called("leb", [n |-> n, signed |-> signed, before |-> before])

ReadAddress ==
  \E e \in EncodingSet, address \in {0, 1, 127, 128, 255, 256, 300, 40000, 65535},
     pcrel \in {-1, 0, 200, 300}, datarel \in {-1, 150} :
    Called("address", [e |-> e, address |-> address,
                       bases |-> [pcrel |-> pcrel, datarel |-> datarel]])

ReadCie ==
  \E letters \in SeqsOf({"L", "R", "P", "S"}, 0, 3), r \in 0..2, p, filler \in 0..3 :
    /\ IsInjective(letters)
    /\ Called("cie", [letters |-> letters, r |-> r, p |-> p, filler |-> filler,
                      default |-> [format |-> "sdata4", rel |-> "abs"],
                      decode |-> DecodedEncoding, bases |-> [pcrel |-> 5, datarel |-> 7]])

-----------------------------------------------------------------------------
(* Text, numbers, dates, files *)

FormatNumber ==
  \E arg \in 0..64 \cup {100, 127, 128, 255, 256, 4095, 32767, 32768, 65535},
     size \in {16, 256, 65536}, conv \in {"d", "u", "x"} :
    Called("number", [arg |-> arg, size |-> size, conv |-> conv])

FormatText ==
  \E items \in SeqsOf([data : {<<>>, <<1, 2>>, <<1, 2, 3, 4, 5>>}, width : {-1, 3, 11},
                       left : BOOLEAN, zero : BOOLEAN], 1, 2), size \in {0, 1, 2, 4, 9, 30} :
    Called("format", [items |-> items, size |-> size])

TellDate ==
  \E day \in (1..70) \cup (760..830) \cup (10950..11020) \cup (47475..47545),
     sec \in {0, 43199, 86399}, gmtoff \in {-43200, 0, 20700} :
    Called("date", [day |-> day, sec |-> sec, gmtoff |-> gmtoff])

WriteAllBytes ==
  \E len \in 0..5, outcomes \in SeqsOf({-2, -1, 0, 1, 2, 9}, 0, 4) :
    Called("write", [len |-> len, outcomes |-> outcomes])

EncodeText ==
  \E in \in SeqsOf({0, 1, 3, 64, 129, 255}, 1, 3) \cup SeqsOf({1, 255}, 4, 5),
     line \in {1, 2, 3, 4, 99} :
    Called("b64", [in |-> in, line |-> line])

KindSizes == {<<0, 0, 0, 0, 0, 0>>, <<4, 0, 0, 4, 0, 1>>, <<5, 2, 1, 1, 0, 0>>, <<7, 2, 2, 0, 3, 2>>}
MapOfKind(kind, size, start) ==
  [kind |-> kind, start |-> start, stop |-> start + 4, pss |-> size[1],
   shared_clean |-> size[2], shared_dirty |-> size[3], private_clean |-> size[4],
   private_dirty |-> size[5], swap_pss |-> size[6]]

AddUpMemory ==
  \E kinds \in SeqsOf(Kinds, 1, 2), sizes \in SeqsOf(KindSizes, 2, 2), skip \in BOOLEAN :
    Called("meminfo", [maps |-> [i \in DOMAIN kinds |-> MapOfKind(kinds[i], sizes[i], 4 * i)],
                       skip |-> skip])

MakeDirectory ==
  \E fs \in {{<<>>}, {<<>>, <<"a">>}, {<<>>, <<"a">>, <<"a", "b">>}, {<<>>, <<"b">>}},
     path \in SeqsOf({"a", "b"}, 1, 3),
     denied \in SUBSET {<<>>, <<"a">>, <<"a", "b">>, <<"b">>} :
    Called("mkdirs", [fs |-> fs, path |-> path, denied |-> denied])

-----------------------------------------------------------------------------
(* Log files read back *)

TextLine(v) == [kind |-> "text", val |-> v]
SectionsOf(titles) ==
  {[title |-> title, lines |-> [i \in 1..n |-> TextLine(i)]] : title \in titles, n \in {0, 2}}
HeadItems == {<<"Model", "m">>, <<"Build fingerprint", "f">>, <<"Model", "n">>, <<"pname", "p">>}
PathOf(type, named) ==
  [type |-> type, named |-> named, start |-> "s", version |-> "v", process |-> "q"]

ReadLog ==
  \E items \in {<<<<"Model", "m">>>>, <<<<"Model", "m">>, <<"pname", "p">>, <<"Model", "n">>>>},
     regs \in {<<>>, <<[kind |-> "reg", val |-> 1], TextLine(7)>>},
     sections \in SeqsOf(SectionsOf({"backtrace", "memory near", "xcrash error",
                                     "other threads", "mine"}), 1, 2), cut \in 0..15 :
    Called("log", [items |-> items, regs |-> regs, sections |-> sections, cut |-> cut,
                   emergency |-> <<>>, path |-> PathOf("", FALSE)])

ParseAll ==
  \E items \in SeqsOf(HeadItems, 1, 2), cut \in {0, 2, 3, 6, 8},
     sections \in SeqsOf(SectionsOf({"mine", "xcrash error"}), 1, 1),
     path \in {PathOf("", FALSE), PathOf("java", TRUE)}, head \in SeqsOf(HeadItems, 1, 1),
     more \in SeqsOf(SectionsOf({"mine", "xcrash error"}), 0, 1) :
    Called("parse", [items |-> items, regs |-> <<>>, sections |-> sections, cut |-> cut,
                     emergency |-> Log([items |-> head, regs |-> <<>>, sections |-> more]),
                     path |-> path])

-----------------------------------------------------------------------------
(* The other Java code and the scripts *)

GroupsOf(num) == {x \in SUBSET (1..num) : Cardinality(x) >= 2}
Antichain(sets) == \A a, b \in sets : a \subseteq b => a = b
ConflictSets(num) ==
  IF num = 5 THEN {s \in {{a, b} : a, b \in GroupsOf(num)} : Antichain(s)}
  ELSE {{}} \cup {s \in {{a, b, c} : a, b, c \in GroupsOf(num)} : Antichain(s)}

SearchConflicts ==
  \E num \in 2..5 : \E conflicts \in ConflictSets(num) :
    Called("compat", [num |-> num, conflicts |-> conflicts])

FilterStacks ==
  \E stacks \in SeqsOf(SeqsOf({"a", "b"}, 1, 3), 0, 3) : Called("filter", [stacks |-> stacks])

CompareStacks ==
  \E stack1, stack2 \in SeqsOf({"a", "b", "c"}, 1, 3),
     similar \in {{}, {<<"a", "b">>, <<"b", "a">>}} :
    Called("distance", [stack1 |-> stack1, stack2 |-> stack2, similar |-> similar])

DumpThreads ==
  \E names \in SeqsOf({"main", "a", "b"}, 0, 4), given \in BOOLEAN,
     whitelist \in SUBSET {"main", "a", "b"}, max \in 0..2 :
    Called("threads", [names |-> <<"main">> \o names, crashed |-> "main", given |-> given,
                       whitelist |-> whitelist, max |-> max])

AppendSections ==
  \E room \in 0..6, text \in SeqsOf({1}, 0, 3),
     sections \in SeqsOf({<<>>, <<2>>, <<3, 4>>, <<5, 6, 7>>}, 0, 3) :
    Called("append", [room |-> room, text |-> text, sections |-> sections])

-----------------------------------------------------------------------------
(* The decoder of compressed symbol tables *)

SomeBytes(n) == [i \in 1..n |-> (i * 89 + i * i * 5) % 256]

SumBytes ==
  \E wide \in BOOLEAN, n \in {0, 1, 3, 4, 5, 7, 8, 9, 12, 15, 16, 21}, at \in 0..8 :
    Called("crc", [wide |-> wide, data |-> SomeBytes(n), at |-> at])

HashPieces ==
  \E sizes \in SeqsOf({0, 1, 55, 56, 63, 64, 65, 130}, 1, 2) \cup SeqsOf({7, 57}, 3, 3),
     before \in {0, 64, 2^29 - 64} :
    Called("hash", [sizes |-> sizes, before |-> before])

\* The empty text and "abc", with the digests FIPS 180 and RFC 1321 state.
DigestTexts ==
  {[data |-> <<>>,
    sha256 |-> <<227, 176, 196, 66, 152, 252, 28, 20, 154, 251, 244, 200, 153, 111, 185,
                36, 39, 174, 65, 228, 100, 155, 147, 76, 164, 149, 153, 27, 120, 82, 184,
                85>>,
    md5 |-> <<212, 29, 140, 217, 143, 0, 178, 4, 233, 128, 9, 152, 236, 248, 66, 126>>],
   [data |-> <<97, 98, 99>>,
    sha256 |-> <<186, 120, 22, 191, 143, 1, 207, 234, 65, 65, 64, 222, 93, 174, 34, 35,
                176, 3, 97, 163, 150, 23, 122, 156, 180, 16, 255, 97, 242, 0, 21, 173>>,
    md5 |-> <<144, 1, 80, 152, 60, 210, 79, 176, 214, 150, 63, 125, 40, 225, 127, 114>>]}
DigestText == \E text \in DigestTexts : Called("digest", text)

CodeBytes ==
  {<<1, 2, 3, 235>>, <<72, 255, 2, 1>>, <<75, 0, 0, 5>>, <<64, 63, 255, 255>>, <<127, 192, 0, 0>>}
BundleByte(k, template, high, n) ==
  CASE k = 1 -> template [] k = 6 -> high [] k = 11 -> 2 * high [] k = 16 -> 4 * high
    [] k \in {2, 3, 7, 8, 12, 13} -> 0 [] OTHER -> (n * 37) % 256
Bundles(n, template, high) ==
  [i \in 1..n |-> BundleByte(((i - 1) % 16) + 1, template, high, i)]
CodeOf(id) ==
  CASE id = XzIds.X86 -> SeqsOf({232, 0, 255}, 5, 6)
    [] id = XzIds.ARMT -> SeqsOf({240, 255, 1}, 3, 5)
    [] id = XzIds.Delta -> SeqsOf({1, 255}, 0, 5)
    [] id = XzIds.IA64 -> {Bundles(n, t, h) : n \in {15, 33}, t \in {16, 18, 22, 2}, h \in {20, 21}}
    [] OTHER -> {s \o t \o u : s, t \in CodeBytes, u \in {<<>>, <<1, 2, 3>>}}
FilterProps(id) ==
  IF id = XzIds.Delta THEN {<<0>>, <<2>>} ELSE {<<>>, IF id = XzIds.X86 THEN <<1, 2, 3, 255>> ELSE <<16, 2, 255, 255>>}

FilterCode ==
  \E id \in XzIds.Delta..XzIds.SPARC, given \in {3, 99}, room \in {2, 99} :
    \E data \in CodeOf(id), props \in FilterProps(id) :
      Called("filter code", [id |-> id, props |-> props, data |-> data, given |-> given, room |-> room])

\* The choices of an encoder: a literal, a match, one of the last four distances again.
Lit == [len |-> 1, back |-> -1]
Match(distance, len) == [len |-> len, back |-> distance + 3]
Again(k, len) == [len |-> len, back |-> k]
Sevens(n) == [i \in 1..n |-> 7]
Waves == <<1, 2, 3, 1, 2, 3, 9, 1, 2, 3, 9, 1, 2, 3>> \o Sevens(12)
WavesChosen == <<Lit, Lit, Lit, Match(3, 3), Lit, Match(4, 7), Lit, Match(1, 11)>>
Props(lc, lp, pb) == [lc |-> lc, lp |-> lp, pb |-> pb, dicSize |-> 8]

SevenChoices ==
  {ops \in SeqsOf({Lit, Again(0, 1), Again(0, 2), Again(1, 2), Match(1, 3), Match(2, 5), Match(3, 2)}, 3, 4) :
     CoverText(Sevens(9), ops)}
CodedTexts ==
  {<<Waves, WavesChosen>>} \cup {<<Sevens(9), ops>> : ops \in SevenChoices}

DecodeLzma ==
  \/ \E tc \in CodedTexts, mark \in BOOLEAN :
       Called("lzma", [prop |-> Props(3, 0, 2), text |-> tc[1], ops |-> tc[2], mark |-> mark,
                       given |-> 3, room |-> 5, cut |-> 5])
  \/ \E given \in {1, 3, 30}, room \in {1, 5, 100}, cut \in {1, 4, 7}, mark \in BOOLEAN,
        prop \in {Props(3, 0, 2), Props(0, 2, 0)} :
       Called("lzma", [prop |-> prop, text |-> Waves, ops |-> WavesChosen, mark |-> mark,
                       given |-> given, room |-> room, cut |-> cut])

Thirty == [i \in 1..30 |-> 5]
Parts == <<1, 2, 3, 4>> \o [i \in 1..20 |-> 3 + ((i + 1) % 2)] \o <<9, 8, 7>> \o Sevens(24)
PartsChosen ==
  <<<<Lit, Lit>>, <<Lit, Lit, Match(2, 20)>>, <<Lit, Lit, Lit>>, <<Lit, Match(1, 11)>>, <<Match(1, 12)>>>>
ThirtyChosen == <<<<Lit, Match(1, 29)>>>>
Chunked ==
  {<<Parts, PartsChosen>>, <<Thirty, ThirtyChosen>>,
   <<Thirty, <<<<Lit, Match(1, 19)>>, <<Match(1, 10)>>>>>>, <<<<>>, <<>>>>}

DecodeChunks ==
  \E tc \in Chunked, given \in {1, 4, 30}, room \in {1, 5, 100}, cut \in {3, 7},
     prop \in {Props(3, 0, 2), Props(0, 2, 0)} :
    Called("lzma2", [prop |-> prop, text |-> tc[1], chunks |-> tc[2], given |-> given,
                     room |-> room, cut |-> cut])

Lzma2Filter == [id |-> XzIds.LZMA2, props |-> <<0>>]
DeltaFilter == [id |-> XzIds.Delta, props |-> <<0>>]
X86Filter == [id |-> XzIds.X86, props |-> <<>>]
Undone(f, t) ==
  IF f.id = XzIds.LZMA2 THEN t
  ELSE BraState_Filter(BraState_Init(BraState_SetProps(BraState(f.id, FALSE), f.props)), t).data
\* A block of which the filters make t; sizes: whether the header states them.
ToBlock(filters, t, chunks, sizes) == [filters |-> filters, t |-> t, chunks |-> chunks, sizes |-> sizes]
BlockOf(b) ==
  [filters |-> b.filters, packed |-> Lzma2Written(Props(3, 0, 2), b.t, b.chunks), sizes |-> b.sizes,
   text |-> FoldBytes(LAMBDA u, f : Undone(f, u), b.t, Reverse(b.filters))]
PlainBlock == ToBlock(<<Lzma2Filter>>, Parts, PartsChosen, TRUE)
ShortBlock == ToBlock(<<Lzma2Filter>>, Thirty, ThirtyChosen, TRUE)
DeltaBlock(sizes) == ToBlock(<<DeltaFilter, Lzma2Filter>>, Thirty, ThirtyChosen, sizes)
CodeBlocks == ToBlock(<<X86Filter, DeltaFilter, Lzma2Filter>>, Thirty, ThirtyChosen, FALSE)

\* What is done with a stream: it is unpacked, its block is, or it is damaged first.
Streams ==
  [alg : {"streams"}, flags : {0, 1}, streams : 1..2, padding : {0, 3, 4}, given : {3}, room : {5},
   blocks : {<<>>, <<PlainBlock>>, <<CodeBlocks, PlainBlock>>, <<DeltaBlock(FALSE), DeltaBlock(TRUE)>>}]
Blocks ==
  [alg : {"block"}, flags : {0, 1, 4, 10}, blocks : {<<PlainBlock>>, <<DeltaBlock(TRUE)>>, <<CodeBlocks>>}]
Damages ==
  [alg : {"damage"}, flags : {1}, at : 0..80, by : {1, 128}, blocks : {<<ShortBlock>>, <<DeltaBlock(FALSE)>>}]

UnpackStream ==
  \E in \in Streams \cup Blocks \cup Damages :
    \E blocks \in {Tuple([i \in DOMAIN in.blocks |-> BlockOf(in.blocks[i])])} :
      Called(in.alg, [stream |-> XzWritten(in.flags, blocks), blocks |-> blocks] @@ in)

-----------------------------------------------------------------------------
(* One call of one algorithm *)

Components == {"xz", "lzma", "unwind", "text", "memory", "frames", "elf", "logs", "study", "bytes"}

Init == \E component \in Components : call = [alg |-> "none", in |-> component]

Next ==
  /\ call.alg = "none"
  /\ \/ /\ call.in = "memory"
        /\ \/ ReadMemory
           \/ ShowMemory
           \/ FindRelPc
           \/ NameMaps
           \/ ReadAbortMessage
     \/ /\ call.in = "frames"
        /\ \/ LoadFrames
           \/ RecordBuildIds
           \/ RecordStack
           \/ StepSigreturn
           \/ AdjustPc
     \/ /\ call.in = "elf"
        /\ \/ LoadElf
           \/ FindSymbol
           \/ ReadBuildId
           \/ ReadSoName
           \/ Decompress
     \/ /\ call.in = "unwind"
        /\ \/ SearchEntry
           \/ RunRules
           \/ EvaluateExpression
           \/ StepByRules
           \/ UndoPrologue
           \/ FindRow
           \/ ReadLeb
           \/ ReadAddress
           \/ ReadCie
     \/ /\ call.in = "text"
        /\ \/ FormatNumber
           \/ FormatText
           \/ TellDate
           \/ WriteAllBytes
           \/ EncodeText
           \/ AddUpMemory
           \/ MakeDirectory
     \/ /\ call.in = "logs"
        /\ \/ ReadLog
           \/ ParseAll
           \/ DumpThreads
           \/ AppendSections
     \/ /\ call.in = "study"
        /\ \/ SearchConflicts
           \/ FilterStacks
           \/ CompareStacks
     \/ /\ call.in = "bytes"
        /\ \/ SumBytes
           \/ HashPieces
           \/ DigestText
           \/ FilterCode
     \/ /\ call.in = "lzma"
        /\ \/ DecodeLzma
           \/ DecodeChunks
     \/ /\ call.in = "xz"
        /\ UnpackStream

-----------------------------------------------------------------------------
(* Properties *)

(* What the unwinders compute of the caller of a frame:
   - The binary search of .eh_frame_hdr finds the entry the linear search finds
     (xcd_dwarf.c).
   - The rules in force at a pc are those of all rows that begin at or before it, and
     a remembered state comes back whole; an entry without instructions has the rules
     of its CIE, if what lies behind the entry sets none; an extended offset is taken
     for bytes, whatever the data alignment factor (xcd_dwarf_get_loc).
   - Every DWARF expression ends, loops included, with one value or an error, and
     computes what a stack machine computes (xcd_dwarf_eval_expression).
   - The registers of the caller are computed by their rules from those of the
     callee, whatever the order they are computed in; a step that fails leaves those
     computed before the failing one to the step by the next table (xcd_dwarf_eval).
   - The opcodes a compiler emits for a prologue give the caller its registers back
     (xcd_arm_exidx_decode).
   - The exception table row found for a pc is that of the function around it
     (xcd_arm_exidx.c).
   - A number written in LEB128 is read back as itself (xcd_memory_read_uleb128).
   - An encoded address is read back as itself when its base is known
     (xcd_dwarf_read_encoded).
   - The encoding of the addresses of an entry is the one its CIE states, in whatever
     order the augmentation lists it (xcd_dwarf_get_cie). *)
UnwindTrue ==
  /\ call.alg = "search" => SearchesAgree(call.in)
  /\ call.alg = "cfa" => RowOfPc(call.in) /\ ExtendedOffsets(call.in)
  /\ call.alg = "expr" => ExpressionsEnd(call.in)
  /\ call.alg = "regs" => CallerRegsByRules(call.in)
  /\ call.alg = "prologue" => PrologueUndone(call.in)
  /\ call.alg = "row" => RowOfFunction(call.in)
  /\ call.alg = "leb" => LebReadsBack(call.in)
  /\ call.alg = "address" => AddressReadsBack(call.in)
  /\ call.alg = "cie" => EncodingOfCie(call.in)

(* What the C utilities compute, write and make:
   - A number printed by the own printf reads back as the argument (xcc_fmt.c).
   - The own snprintf writes a prefix of the whole text, ends it, and returns the
     whole length (xcc_fmt_vsnprintf).
   - The date computed without the time zone database is that of the calendar
     (xcc_libc_support_localtime_r).
   - Whatever the outcomes of write, each byte is written once and in order
     (xcc_util_write).
   - What xcc_b64_encode writes, however it is broken into lines, xcc_b64_decode
     reads back.
   - The memory summary counts each mapping in one heap and its totals add up
     (xcc_meminfo.c).
   - xc_util_mkdirs returns success only with the directory there, and creates it
     whenever nothing denies it. *)
TextTrue ==
  /\ call.alg = "number" => NumberReadsBack(call.in)
  /\ call.alg = "format" => FormatCutAtBuffer(call.in)
  /\ call.alg = "date" => DateOfCalendar(call.in)
  /\ call.alg = "write" => WrittenOnce(call.in)
  /\ call.alg = "b64" => DecodedAsEncoded(call.in)
  /\ call.alg = "meminfo" => MemInfoAddsUp(call.in)
  /\ call.alg = "mkdirs" => DirectoryMade(call.in)

(* What the decoder of the compressed symbol table gives:
   - Whatever function the machine and the alignment of the data choose, the checksum
     is the remainder by the polynomial (7zCrc.c, 7zCrcOpt.c, XzCrc64.c, XzCrc64Opt.c).
   - Data that comes in pieces of whatever size is hashed as a whole, with its length
     (Sha256.c, xcd_md5.c), and its digest is that of the standard.
   - Machine code that was filtered comes back, in whatever pieces (Bra.c, Bra86.c,
     BraIA64.c, Delta.c, BraState of XzDec.c). *)
BytesTrue ==
  /\ call.alg = "crc" => CrcAgrees(call.in)
  /\ call.alg = "hash" => HashedWhole(call.in)
  /\ call.alg = "digest" => DigestsStandard(call.in)
  /\ call.alg = "filter code" => FiltersUndone(call.in)

(* What the decoder of LZMA gives, whatever the pieces in which it is asked:
   - What was coded by LZMA is decoded to the last byte although the input and the room
     come in small pieces and the dictionary is a small ring; of a part of the input
     come the first bytes of the text (LzmaDec.c).
   - The chunks of LZMA2 do so too, and their sizes are found without decoding them
     (Lzma2Dec.c). *)
LzmaTrue ==
  /\ call.alg = "lzma" => DecodedAsCoded(call.in)
  /\ call.alg = "lzma2" => ChunksDecoded(call.in)

(* Streams of xz, their blocks and their padding give the whole text back, and one with
   a missing end or a wrong byte is not taken for another text (XzDec.c, Xz.c). *)
XzTrue ==
  call.alg \in {"streams", "block", "damage"} => ArchiveRead(XzUnpacker_Code, call.alg, call.in)

(* What is appended to a log, and what is read back from it:
   - Parsing a log cut off at any line loses at most its last line
     (TombstoneParser.parseFromReader).
   - What the log states is not replaced by what its path or the system state later,
     but for the model in a log without a fingerprint, which OnlyMissingAdded is about
     (TombstoneParser.parse).
   - The counts below the other threads of a Java crash account for every thread
     (JavaCrashHandler.getOtherThreadsInfo).
   - Sections appended to a log made from a placeholder follow one another without a
     gap (FileManager.appendText). *)
LogsReadBack ==
  /\ call.alg = "log" => ReadAsWritten(call.in)
  /\ call.alg = "parse" => LogBeforeSystem(call.in)
  /\ call.alg = "threads" => ThreadsCounted(call.in)
  /\ call.alg = "append" => AppendedInOrder(call.in)

(* "add system info if there were missing" (TombstoneParser.java:397): what the log or its
   path states is not changed by the system information. *)
OnlyMissingAdded == call.alg = "parse" => AddsOnlyMissing(call.in)

(* What the programs of the study find:
   - The full compatibility test reports every group that conflicts, once
     (MainActivity.testAlg1, Utils.findallCinrange).
   - The heuristic search ends and finds all the conflicts if they have one size
     (MainActivity.testAlg2).
   - The filter of duplicates keeps each stack once (preprocess.py).
   - The distance of two stacks is symmetric, bounded, and 0 for equal ones
     (clustering.py). *)
StudyExact ==
  /\ call.alg = "compat" => FullTestComplete(call.in)
  /\ call.alg = "compat" => HeuristicFinds(call.in)
  /\ call.alg = "filter" => FilterKeepsOne(call.in)
  /\ call.alg = "distance" => DistanceOfStacks(call.in)

=============================================================================
