----------------------------- MODULE Tombstone ------------------------------
(* How a log is read back (TombstoneParser.java).  A line is a record: [kind *)
(* |-> "sep"], "threads" or "threads end" for the separators, "blank",       *)
(* "title" with a key, "item" with the pairs a line of the head holds, "reg" *)
(* for the first line of the registers, "text" with its value.  What is read *)
(* is a map of keys to sequences of lines, <<>> the empty value; indentation *)
(* and line ends are left out.                                               *)
EXTENDS Integers, Sequences, SequencesExt, FiniteSetsExt

\* The sections that may come more than once.
Appended == {"memory info", "memory near", "xcrash error"}

Value(map, key) == IF key \in DOMAIN map THEN map[key] ELSE <<>>

\* putKeyValue: the first value that is not empty stays.
Put(map, key, v, append) ==
  IF append THEN (key :> (Value(map, key) \o v)) @@ map
  ELSE IF Value(map, key) = <<>> THEN (key :> v) @@ map ELSE map

Start(map) == [map |-> map, status |-> "unknown", title |-> "", content |-> <<>>, ending |-> "blank"]

\* Between sections: a head, the other threads or a title begins.
LineUnknown(s, line) ==
  CASE line.kind = "sep" -> [s EXCEPT !.status = "head"]
    [] line.kind = "threads" -> [s EXCEPT !.status = "section", !.title = "other threads", !.ending = "threads end",
                                          !.content = Append(@, line)]
    [] line.kind = "title" -> [s EXCEPT !.status = "section", !.title = line.key, !.ending = "blank",
                                        !.content = IF line.key = "memory near" THEN Append(@, line) ELSE @]
    [] OTHER -> s

\* In the head; it ends where the next line is blank, and turns into the registers.
LineHead(s, line, next) ==
  LET put(map, p) == Put(map, p[1], <<p[2]>>, FALSE)
      t == IF line.kind = "item" THEN [s EXCEPT !.map = FoldLeft(put, @, line.pairs)] ELSE s
  IN CASE next = "reg" -> [t EXCEPT !.status = "section", !.title = "registers", !.ending = "blank"]
       [] next \in {"none", "blank"} -> [t EXCEPT !.status = "unknown"]
       [] OTHER -> t

\* A mutant: a section ends where its end is written.
LineSectionToEnd(s, line, last) ==
  IF line.kind = s.ending
  THEN [s EXCEPT !.map = Put(@, s.title, s.content, s.title \in Appended), !.content = <<>>, !.status = "unknown"]
  ELSE [s EXCEPT !.content = Append(@, line)]

\* In a section.  The last line of the file ends it, and is not looked at.
LineSection(s, line, last) ==
  IF line.kind = s.ending \/ last
  THEN [s EXCEPT !.map = Put(@, s.title, s.content, s.title \in Appended), !.content = <<>>, !.status = "unknown"]
  ELSE [s EXCEPT !.content = Append(@, line)]

\* parseFromReader
ParseFromReader(map, lines) ==
  LET one(s, i) ==
        LET next == IF i = Len(lines) THEN "none" ELSE lines[i+1].kind
        IN CASE s.status = "unknown" -> LineUnknown(s, lines[i])
             [] s.status = "head" -> LineHead(s, lines[i], next)
             [] s.status = "section" -> LineSection(s, lines[i], i = Len(lines))
  IN FoldLeft(one, Start(map), [i \in DOMAIN lines |-> i]).map

\* parseFromLogPath: [type, named, start, version, process], type "" if the name is no log's.
ParseFromLogPath(map, path) ==
  LET fill(m, p) == IF Value(m, p[1]) = <<>> THEN (p[1] :> <<p[2]>>) @@ m ELSE m
      timed == fill(map, <<"Crash time", "modified">>)
  IN IF path.type = "" THEN timed
     ELSE FoldLeft(fill, timed, <<<<"Crash type", path.type>>>> \o
                    (IF path.named THEN <<<<"Start time", path.start>>, <<"App version", path.version>>, <<"pname", path.process>>>>
                     ELSE <<>>))

System == {"App ID", "Tombstone maker", "Rooted", "API level", "OS version", "Manufacturer", "Brand", "Model", "ABI list"}

\* addSystemInfo, behind the version of the application.  A fingerprint that is missing is put
\* where the model is.
AddSystemInfo(map) ==
  LET print == IF Value(map, "Build fingerprint") = <<>> THEN ("Model" :> <<"FINGERPRINT">>) @@ map ELSE map
      missing == {k \in System \cup {"App version"} : Value(print, k) = <<>>}
  IN [k \in missing |-> <<"system">>] @@ print

\* parse: the log, then the emergency buffer, then its path and the system.
Parse(lines, emergency, path) ==
  AddSystemInfo(ParseFromLogPath(ParseFromReader(ParseFromReader(<<>>, lines), emergency), path))

-----------------------------------------------------------------------------
(* What the recorders write, and properties of the arguments of one call                      *)

Line(kind) == [kind |-> kind]
HeadLines(items) == <<Line("sep")>> \o [i \in DOMAIN items |-> [kind |-> "item", pairs |-> <<items[i]>>]]
Section(x) ==
  IF x.title = "other threads" THEN <<Line("threads")>> \o x.lines \o <<Line("threads end")>>
  ELSE <<[kind |-> "title", key |-> x.title]>> \o x.lines \o <<Line("blank")>>
Log(c) == HeadLines(c.items) \o c.regs \o <<Line("blank")>> \o FlattenSeq([i \in DOMAIN c.sections |-> Section(c.sections[i])])

Cut(c) == SubSeq(Log(c), 1, Min({c.cut, Len(Log(c))}))

\* A log that is cut off at any line gives back every item and every line of every section it
\* holds, under the right title, but for at most the last line.
ReadAsWritten(c) ==
  LET map == ParseFromReader(<<>>, Cut(c))
      begin(i) == Len(HeadLines(c.items) \o c.regs) + 1 + Len(FlattenSeq([j \in 1..i-1 |-> Section(c.sections[j])]))
      body(i) ==
        LET own == Section(c.sections[i])
            there == SubSeq(own, 1, Min({Len(own), Max({0, c.cut - begin(i)})}))
            text == IF c.sections[i].title \in {"other threads", "memory near"} THEN there ELSE SubSeq(there, 2, Len(there))
        IN IF Len(there) = Len(own) THEN Front(text) ELSE text
      written(t) ==
        LET is == {i \in DOMAIN c.sections : c.sections[i].title = t}
            full == {i \in is : body(i) # <<>>}
        IN IF t \in Appended THEN FlattenSeq([i \in DOMAIN c.sections |-> IF i \in is THEN body(i) ELSE <<>>])
           ELSE IF full = {} THEN <<>> ELSE body(Min(full))
      items(t) == {i \in 1..Min({Len(c.items), c.cut - 1}) : c.items[i][1] = t}
  IN /\ \A t \in {c.sections[i].title : i \in DOMAIN c.sections} :
          /\ IsPrefix(Value(map, t), written(t))
          /\ Len(written(t)) - Len(Value(map, t)) \in {0, IF c.cut < Len(Log(c)) THEN 1 ELSE 0}
     /\ \A i \in DOMAIN c.items : i < c.cut => Value(map, c.items[i][1]) = <<c.items[Min(items(c.items[i][1]))][2]>>
     /\ IsPrefix(Value(map, "registers"), c.regs)

\* What is missing in a log comes from the emergency buffer, its path and the system; none of
\* them replaces what was read from the log, except for a model without a fingerprint.
LogBeforeSystem(c) ==
  LET log == ParseFromReader(<<>>, Cut(c))
      all == Parse(Cut(c), c.emergency, c.path)
  IN /\ \A k \in DOMAIN log : log[k] # <<>> =>
          IF k = "Model" /\ Value(all, "Build fingerprint") = <<>> THEN all[k] = <<"FINGERPRINT">>
          ELSE IsPrefix(log[k], all[k]) /\ (k \notin Appended => all[k] = log[k])
     /\ \A k \in System \cup {"Crash time", "App version"} : Value(all, k) # <<>>

\* "add system info if there were missing" (TombstoneParser.java:397): no value that was there is
\* changed.
AddsOnlyMissing(c) ==
  LET map == ParseFromLogPath(ParseFromReader(<<>>, Cut(c)), c.path)
  IN \A k \in DOMAIN map : map[k] # <<>> => AddSystemInfo(map)[k] = map[k]

-----------------------------------------------------------------------------
(* Two parts of a report that Java code writes: the other threads of a Java crash              *)
(* (JavaCrashHandler.java), and a section appended to a log that may have been made from a     *)
(* placeholder (FileManager.appendText).                                                       *)

-----------------------------------------------------------------------------
(* getOtherThreadsInfo.  `whitelist` holds the names that match a pattern,  *)
(* and `given` tells whether there is a list at all.                        *)

NoThreads == [dumped |-> <<>>, matched |-> 0, ignored |-> 0]

VisitThread(t, name, c) ==
  IF name = c.crashed \/ (c.given /\ name \notin c.whitelist) THEN t
  ELSE IF c.max > 0 /\ Len(t.dumped) >= c.max
    THEN [t EXCEPT !.matched = @ + 1, !.ignored = @ + 1]
  ELSE [t EXCEPT !.matched = @ + 1, !.dumped = Append(@, name)]

GetOtherThreadsInfo(c) ==
  [threads |-> FoldLeft(LAMBDA t, name : VisitThread(t, name, c), NoThreads, c.names),
   total |-> Len(c.names) - 1]

-----------------------------------------------------------------------------
(* appendText.  A file is the sequence of its bytes; 0 fills a placeholder. *)

ContentEnd(file) == Max({0} \cup {i \in DOMAIN file : file[i] # 0})

AppendText(file, text) ==
  LET pos == ContentEnd(file)
      size == Max({Len(file), pos + Len(text)})
  IN [i \in 1..size |-> IF i \in pos + 1..pos + Len(text) THEN text[i - pos] ELSE file[i]]

-----------------------------------------------------------------------------
(* Properties, of the arguments of one call *)

\* The numbers below the threads account for each of them: those dumped and those ignored are the
\* matched ones, and only threads named like the crashed one or left out by the whitelist are not.
ThreadsCounted(c) ==
  LET r == GetOtherThreadsInfo(c)
      out == Cardinality({i \in DOMAIN c.names :
                            c.names[i] = c.crashed \/ (c.given /\ c.names[i] \notin c.whitelist)})
  IN /\ r.threads.matched = Len(r.threads.dumped) + r.threads.ignored
     /\ r.threads.matched + out = r.total + 1
     /\ c.max > 0 => Len(r.threads.dumped) <= c.max
     /\ r.threads.ignored > 0 => Len(r.threads.dumped) = c.max

\* Sections appended one after another, to a placeholder or to an ordinary file, shorter or longer
\* than the room in it, follow the text and each other without a gap.
AppendedInOrder(c) ==
  LET placeholder == [i \in 1..c.room |-> IF i <= Len(c.text) THEN c.text[i] ELSE 0]
      start == IF c.room < Len(c.text) THEN c.text ELSE placeholder
      file == FoldLeft(AppendText, start, c.sections)
  IN SubSeq(file, 1, ContentEnd(file)) = c.text \o FlattenSeq(c.sections)
=============================================================================
