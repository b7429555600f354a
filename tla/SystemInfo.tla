----------------------------- MODULE SystemInfo -----------------------------
(* What the handlers ask of the system: the memory use of the process by     *)
(* kind of mapping (xcc_meminfo.c) and the directory of the logs (xc_util.c).*)
(* A mapping is a record [kind, start, stop, pss, shared_clean, shared_dirty,*)
(* private_clean, private_dirty, swap_pss], kind standing for the names that *)
(* are told apart.                                                           *)
EXTENDS Integers, Sequences, SequencesExt, FiniteSetsExt

\* The sub heap of a mapping of dalvik that has no name of its own.
OtherOfDalvik == ".GC"

\* The kinds of mappings whose pages a heap has no details of: kind |-> heap.
Plain == [heap |-> "native", libc_malloc |-> "native", stack |-> "stack", so |-> "so", jar |-> "jar", apk |-> "apk",
          ttf |-> "ttf", oat |-> "oat", kgsl |-> "gl dev", cursor |-> "cursor", ashmem |-> "ashmem", dev |-> "unknown dev",
          map |-> "map", anon |-> "unknown", unnamed |-> "unknown"]

\* The others: kind |-> <<heap, sub heap>>.
Detailed == [dex |-> <<"dex", ".App dex">>, boot_vdex |-> <<"dex", ".Boot vdex">>, vdex |-> <<"dex", ".App vdex">>,
             boot_art |-> <<"art", ".Boot art">>, art |-> <<"art", ".App art">>,
             main_space |-> <<"dalvik", ".Heap">>, large_object |-> <<"dalvik", ".LOS">>,
             non_moving |-> <<"dalvik", ".NonMoving">>, zygote |-> <<"dalvik", ".Zygote">>,
             linear |-> <<"dalvik other", ".LinearAlloc">>, indirect |-> <<"dalvik other", ".IndirectRef">>,
             code_cache |-> <<"dalvik other", ".JITCache">>, compiler |-> <<"dalvik other", ".CompilerMetadata">>,
             accounting |-> <<"dalvik other", OtherOfDalvik>>]

Kinds == DOMAIN Plain \cup DOMAIN Detailed
Heaps == {Plain[k] : k \in DOMAIN Plain} \cup {Detailed[k][1] : k \in DOMAIN Detailed}
SubHeaps == {".Heap", ".LOS", ".Zygote", ".NonMoving", ".LinearAlloc", ".GC", ".JITCache", ".CompilerMetadata",
             ".IndirectRef", ".Boot vdex", ".App dex", ".App vdex", ".App art", ".Boot art"}
WithSubHeaps == {"dalvik", "dalvik other", "dex", "art"}

\* The heap and the sub heap a name stands for; only mapped files of code and fonts can be swapped.
HeapOf(kind) ==
  IF kind \in DOMAIN Plain THEN [heap |-> Plain[kind], sub |-> "unknown"]
  ELSE [heap |-> Detailed[kind][1], sub |-> Detailed[kind][2]]
Swappable == {"so", "jar", "apk", "ttf", "dex", "boot_vdex", "vdex", "oat", "art", "boot_art"}

\* The heap of mapping i.  Of two mappings that adjoin, the second without a name, it would be
\* the bss of a library; but prev_end is taken after the header of mapping i is read, and is
\* the end of i itself.
HeapAt(maps, i) ==
  LET prev_end == IF i = 1 THEN 0 ELSE maps[i].stop
      bss == maps[i].kind = "unnamed" /\ i > 1 /\ maps[i].start = prev_end /\ maps[i-1].kind = "so"
  IN IF bss THEN [heap |-> "so", sub |-> "unknown"] ELSE HeapOf(maps[i].kind)

\* The share is an integer, and zero unless the pages shared are used by this process alone.
SwappablePss(m) ==
  LET shared == m.shared_clean + m.shared_dirty
      share == IF shared = 0 THEN 0 ELSE (m.pss - m.private_clean - m.private_dirty) \div shared
  IN IF m.kind \in Swappable /\ m.pss > 0 THEN share * m.shared_clean + m.private_clean ELSE 0

\* xcc_meminfo_load; `skip`: the file does not start with a mapping, the values up to the first
\* belong to none.
Stats(maps, skip) ==
  LET first == IF skip THEN 2 ELSE 1
      none == [pss |-> 0, swappable |-> 0, private |-> 0, swap |-> 0]
      add(s, m) == [pss |-> s.pss + m.pss, swappable |-> s.swappable + SwappablePss(m),
                    private |-> s.private + m.private_clean + m.private_dirty, swap |-> s.swap + m.swap_pss]
      one(stats, i) ==
        LET h == HeapAt(maps, i)
            own == [stats EXCEPT ![h.heap] = add(@, maps[i])]
        IN IF i < first THEN stats
           ELSE IF h.heap \in WithSubHeaps THEN [own EXCEPT ![h.sub] = add(@, maps[i])] ELSE own
  IN FoldLeft(one, [h \in Heaps \cup SubHeaps |-> none], [i \in DOMAIN maps |-> i])

\* xcc_meminfo_record: the lines of the table (a heap of zeros is left out, but for three) and
\* the line TOTAL.
MemInfo(maps, skip) ==
  LET s == Stats(maps, skip)
      total(F(_)) == MapThenSumSet(LAMBDA h : F(s[h]), Heaps)
      zero(h) == s[h].pss = 0 /\ s[h].swappable = 0 /\ s[h].private = 0 /\ s[h].swap = 0
      shown == {h \in Heaps : h \in {"native", "dalvik", "unknown"} \/ ~zero(h)}
  IN [lines |-> [h \in shown |-> s[h]],
      details |-> [h \in {h \in SubHeaps : ~zero(h)} |-> s[h]],
      total |-> [pss |-> total(LAMBDA x : x.pss + x.swap), swappable |-> total(LAMBDA x : x.swappable),
                 private |-> total(LAMBDA x : x.private), swap |-> total(LAMBDA x : x.swap)]]

\* Every page is counted in one line of the table, the details add up to the heaps they are of,
\* and no more can be swapped than there is.
MemInfoAddsUp(c) ==
  LET counted == {i \in DOMAIN c.maps : ~c.skip \/ i > 1}
      sum(t, F(_)) == MapThenSumSet(LAMBDA h : F(t[h]), DOMAIN t)
      details(m) == [h \in DOMAIN m.lines \cap WithSubHeaps |-> m.lines[h]]
  IN \A m \in {MemInfo(c.maps, c.skip)} :
     /\ m.total.pss = MapThenSumSet(LAMBDA i : c.maps[i].pss + c.maps[i].swap_pss, counted)
     /\ m.total.pss = sum(m.lines, LAMBDA x : x.pss + x.swap)
     /\ sum(details(m), LAMBDA x : x.pss) = sum(m.details, LAMBDA x : x.pss)
     /\ sum(details(m), LAMBDA x : x.private) = sum(m.details, LAMBDA x : x.private)
     /\ \A h \in DOMAIN m.lines : m.lines[h].swappable <= m.lines[h].pss

-----------------------------------------------------------------------------
(* Directories: a path is a sequence of names, fs the set of directories there are, and     *)
(* `denied` those in which none can be made.                                                *)

Mkdir(fs, path, denied) ==
  IF path \in fs THEN [r |-> "exists", fs |-> fs]
  ELSE IF Front(path) \notin fs \/ Front(path) \in denied THEN [r |-> "error", fs |-> fs]
  ELSE [r |-> "made", fs |-> fs \cup {path}]

\* The directories made one after the other, the path itself last.
PrefixesOf(path) == 1..Len(path)

\* xc_util_mkdirs
Mkdirs(fs, path, denied) ==
  LET direct == Mkdir(fs, path, denied)
      one(t, n) == IF t.r = "error" THEN t ELSE Mkdir(t.fs, SubSeq(path, 1, n), denied)
  IN IF direct.r # "error" THEN direct
     ELSE FoldLeft(one, [r |-> "made", fs |-> fs], [n \in PrefixesOf(path) |-> n])

\* Unless an error is reported the directory is there afterwards, with all its parents; and an
\* error is reported only if a directory on the way cannot be made.
DirectoryMade(c) ==
  LET m == Mkdirs(c.fs, c.path, c.denied)
      missing == {n \in 1..Len(c.path) : SubSeq(c.path, 1, n) \notin c.fs}
  IN /\ m.r # "error" => \A n \in 0..Len(c.path) : SubSeq(c.path, 1, n) \in m.fs
     /\ m.r = "error" <=> \E n \in missing : SubSeq(c.path, 1, n - 1) \in c.denied
     /\ c.fs \subseteq m.fs
=============================================================================
