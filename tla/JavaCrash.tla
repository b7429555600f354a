------------------------------ MODULE JavaCrash ------------------------------
(***************************************************************************)
(* An exception nobody catches, in the application's threads: the handler  *)
(* of JavaCrashHandler.java and createLogFile of FileManager.java.  Any    *)
(* number of threads may throw.  All of them write to the same name, which *)
(* is made of the start time of the process, and each through a descriptor *)
(* of its own, which starts at offset 0: who writes to a file that another *)
(* thread has written to overwrites it.  A file is told by who wrote what  *)
(* is at each offset; one call of RandomAccessFile.write is one step.      *)
(***************************************************************************)
EXTENDS Integers

CONSTANTS
  Throwers,         \* the threads that may throw
  Nobody,           \* no thread
  MostPlaceholders, \* bound on the clean placeholders there are at first
  LogSize           \* bound on the offsets of a file

ASSUME JavaAssumption ==
  /\ Nobody \notin Throwers
  /\ MostPlaceholders \in Nat
  /\ LogSize \in Nat \ {0}

VARIABLES
  handler,         \* Thread.getDefaultUncaughtExceptionHandler(): "ours" or "system"
  defaultHandler,  \* the handler there was before ours: "system" or "none"
  rethrow,         \* the option of the application
  room,            \* clean placeholders at the start
  size,            \* where the emergency text of each thread ends
  clean,           \* clean placeholders left
  path,            \* whose file has the name of the log, Nobody if there is none
  content,         \* who wrote what is at each offset of the file each thread was given
  jpc,             \* place of each thread
  file,            \* the threads whose logFile is not null
  raf,             \* the file each thread has opened
  position,        \* the offset up to which it has written into that
  emergency,       \* the threads whose emergency text is not null
  unmade,          \* the threads whose emergency text could not be made
  escaped,         \* the threads that left the handler by a Throwable
  told,            \* what onCrash was called with in each thread
  killed           \* the process has ended

optionVars == <<defaultHandler, rethrow, room, size>>
javaVars == <<handler, optionVars, clean, path, content, jpc, file, raf, position, emergency,
              unmade, escaped, told, killed>>

JavaPlaces == {"runs", "handling", "create", "emergency", "open", "write", "rest", "callback",
               "finish", "ended"}
Offsets == 1..LogSize
Files == [Offsets -> Throwers \cup {Nobody}]
Untold == [log |-> FALSE, emergency |-> FALSE, called |-> FALSE]

JavaTypeOK ==
  /\ handler \in {"ours", "system"} /\ defaultHandler \in {"system", "none"}
  /\ rethrow \in BOOLEAN
  /\ room \in 0..MostPlaceholders /\ clean \in 0..room
  /\ path \in Throwers \cup {Nobody}
  /\ size \in [Throwers -> Offsets] /\ content \in [Throwers -> Files]
  /\ jpc \in [Throwers -> JavaPlaces]
  /\ file \subseteq Throwers
  /\ raf \in [Throwers -> Throwers \cup {Nobody}] /\ position \in [Throwers -> 0..LogSize]
  /\ emergency \subseteq Throwers /\ unmade \subseteq Throwers /\ escaped \subseteq Throwers
  /\ told \in [Throwers -> [log : BOOLEAN, emergency : BOOLEAN, called : BOOLEAN]]
  /\ killed \in BOOLEAN

\* initialize(): ours is the handler from here on.
InitJava ==
  /\ handler = "ours" /\ defaultHandler \in {"system", "none"} /\ rethrow \in BOOLEAN
  /\ room \in 0..MostPlaceholders /\ clean = room
  /\ size \in [Throwers -> Offsets]
  /\ path = Nobody /\ content = [t \in Throwers |-> [o \in Offsets |-> Nobody]]
  /\ jpc = [t \in Throwers |-> "runs"]
  /\ file = {} /\ raf = [t \in Throwers |-> Nobody] /\ position = [t \in Throwers |-> 0]
  /\ emergency = {} /\ unmade = {} /\ escaped = {}
  /\ told = [t \in Throwers |-> Untold]
  /\ killed = FALSE

At(t, place) == ~killed /\ jpc[t] = place
Goto(t, place) == jpc' = [jpc EXCEPT ![t] = place]

-----------------------------------------------------------------------------
(* The runtime *)

\* The handler of the system shows its dialog and kills the process.
SystemHandler(t) == Goto(t, "ended") /\ killed' = TRUE

\* Thread.dispatchUncaughtException looks the handler up, and then calls it.
Throw(t) ==
  /\ At(t, "runs")
  /\ \/ handler = "ours" /\ Goto(t, "handling") /\ UNCHANGED killed
     \/ handler = "system" /\ SystemHandler(t)
  /\ UNCHANGED <<handler, optionVars, clean, path, content, file, raf, position, emergency,
                 unmade, escaped, told>>

-----------------------------------------------------------------------------
(* uncaughtException *)

SetDefault(t) ==
  /\ At(t, "handling") /\ Goto(t, "create")
  /\ handler' = IF defaultHandler = "system" THEN "system" ELSE handler
  /\ UNCHANGED <<optionVars, clean, path, content, file, raf, position, emergency, unmade,
                 escaped, told, killed>>

\* createLogFile renames a clean placeholder to the name, over a file that has it already...
RenamePlaceholder(t) ==
  /\ \E tried \in 1..clean : clean' = clean - tried
  /\ path' = t /\ file' = file \cup {t}

\* ... or makes a new file, if all the renames failed and none has the name...
NewFile(t) == path = Nobody /\ clean' = 0 /\ path' = t /\ file' = file \cup {t}

\* ... or returns null: the name is taken, or the directory or the file cannot be made.
NoFile(t) == clean' \in {0, clean} /\ UNCHANGED <<path, file>>

CreateLogFile(t) ==
  /\ At(t, "create") /\ Goto(t, "emergency")
  /\ RenamePlaceholder(t) \/ NewFile(t) \/ NoFile(t)
  /\ UNCHANGED <<handler, optionVars, content, raf, position, emergency, unmade, escaped, told,
                 killed>>

GetEmergency(t) ==
  /\ At(t, "emergency") /\ Goto(t, IF t \in file THEN "open" ELSE "callback")
  /\ \/ emergency' = emergency \cup {t} /\ UNCHANGED unmade
     \/ unmade' = unmade \cup {t} /\ UNCHANGED emergency
  /\ UNCHANGED <<handler, optionVars, clean, path, content, file, raf, position, escaped, told,
                 killed>>

\* In place of AfterNoOpen: the log is needed for the callback.
AfterNoOpenFinish(t) == "finish"

AfterNoOpen(t) == "callback"

\* RandomAccessFile opens whatever file has the name now.
OpenLog(t) ==
  /\ At(t, "open")
  /\ \/ raf' = [raf EXCEPT ![t] = path] /\ Goto(t, "write")
     \/ Goto(t, AfterNoOpen(t)) /\ UNCHANGED raf
  /\ UNCHANGED <<handler, optionVars, clean, path, content, file, position, emergency, unmade,
                 escaped, told, killed>>

\* The offsets from the position of t up to this one are t's now, whoever wrote them before.
Wrote(t, to) ==
  /\ content' = [content EXCEPT ![raf[t]] =
                    [o \in Offsets |-> IF o \in position[t] + 1..to THEN t ELSE content[raf[t]][o]]]
  /\ position' = [position EXCEPT ![t] = to]

\* In place of WriteFails: the text is dropped before the write is known to have succeeded.
WriteFailsDropped(t) ==
  /\ Goto(t, "callback")
  /\ \E to \in 0..size[t] - 1 : Wrote(t, to)
  /\ emergency' = emergency \ {t}

WriteFails(t) ==
  /\ Goto(t, "callback")
  /\ \E to \in 0..size[t] - 1 : Wrote(t, to)
  /\ UNCHANGED emergency

WriteEmergency(t) ==
  /\ At(t, "write")
  /\ \/ /\ Goto(t, "rest") /\ emergency' = emergency \ {t}
        /\ IF t \in emergency THEN Wrote(t, size[t]) ELSE UNCHANGED <<content, position>>
     \/ t \in emergency /\ WriteFails(t)
  /\ UNCHANGED <<handler, optionVars, clean, path, file, raf, unmade, escaped, told, killed>>

\* The other sections, a write each; the exception of one that fails is caught.
WriteRest(t) ==
  /\ At(t, "rest")
  /\ \/ \E to \in position[t] + 1..LogSize : Wrote(t, to) /\ UNCHANGED jpc
     \/ Goto(t, "callback") /\ UNCHANGED <<content, position>>
  /\ UNCHANGED <<handler, optionVars, clean, path, file, raf, emergency, unmade, escaped, told,
                 killed>>

OnCrash(t) ==
  /\ At(t, "callback") /\ Goto(t, "finish")
  /\ told' = [told EXCEPT ![t] = [log |-> t \in file, emergency |-> t \in emergency,
                                  called |-> TRUE]]
  /\ UNCHANGED <<handler, optionVars, clean, path, content, file, raf, position, emergency,
                 unmade, escaped, killed>>

\* Only Exception is caught: an Error (no memory, no stack) ends the thread here.
ErrorEscapes(t) ==
  /\ \E place \in {"create", "emergency", "open", "write", "rest", "callback"} : At(t, place)
  /\ Goto(t, "ended") /\ escaped' = escaped \cup {t}
  /\ UNCHANGED <<handler, optionVars, clean, path, content, file, raf, position, emergency, unmade,
                 told, killed>>

Rethrow(t) ==
  /\ rethrow /\ At(t, "finish")
  /\ IF defaultHandler = "system" THEN SystemHandler(t) ELSE Goto(t, "ended") /\ UNCHANGED killed
  /\ UNCHANGED <<handler, optionVars, clean, path, content, file, raf, position, emergency,
                 unmade, escaped, told>>

\* In place of Kill: only the activities are finished.
KillLeftOut(t) ==
  /\ ~rethrow /\ At(t, "finish") /\ Goto(t, "ended")
  /\ UNCHANGED <<handler, optionVars, clean, path, content, file, raf, position, emergency,
                 unmade, escaped, told, killed>>

\* finishAllActivities walks over a list the main thread changes, and may throw before the kill.
Kill(t) ==
  /\ ~rethrow /\ At(t, "finish") /\ Goto(t, "ended")
  /\ \/ killed' = TRUE /\ UNCHANGED escaped
     \/ escaped' = escaped \cup {t} /\ UNCHANGED killed
  /\ UNCHANGED <<handler, optionVars, clean, path, content, file, raf, position, emergency, unmade,
                 told>>

Handles(t) ==
  \/ SetDefault(t) \/ CreateLogFile(t) \/ GetEmergency(t) \/ OpenLog(t) \/ WriteEmergency(t)
  \/ WriteRest(t) \/ OnCrash(t) \/ Rethrow(t) \/ Kill(t)

NextJava == \E t \in Throwers : Throw(t) \/ Handles(t) \/ ErrorEscapes(t)

JavaSpec == InitJava /\ [][NextJava]_javaVars

-----------------------------------------------------------------------------
(* Properties *)

Thrown == {t \in Throwers : jpc[t] # "runs"}
\* The emergency text of t is in f from its first to its last offset.
Whole(t, f) == \A o \in 1..size[t] : content[f][o] = t

\* "If we wrote the emergency info successfully, we don't need to return it from callback again"
\* (JavaCrashHandler.java:150): a text the callback gets was made, and is whole in no file,
\* wherever writing or opening failed and whoever else wrote.
EmergencyOnceJava ==
  \A t \in Throwers : told[t].emergency => t \notin unmade /\ \A f \in Throwers : ~Whole(t, f)

\* Another thread took the name of the log away from the file t was given, or has opened that.
Disturbed(t) == \E u \in Throwers \ {t} : path = u \/ raf[u] = t

\* A text that was made and that the callback does not get is whole in the log, with nothing of
\* another thread in it, unless another thread took the name or opened the file.  (One that does
\* overwrites the report from its start: then one report can be lost, and both can.  It takes a
\* clean placeholder: without one the second thread is given no file.)
JavaReportNotLost ==
  \A t \in Throwers :
    told[t].called /\ ~told[t].emergency /\ t \notin unmade /\ ~Disturbed(t) =>
      /\ told[t].log /\ path # Nobody /\ Whole(t, path)
      /\ \A o \in Offsets : content[path][o] \in {t, Nobody}

\* Without a placeholder no thread is disturbed in its report.
NoneWithoutPlaceholder ==
  room = 0 => \A t \in file : ~Disturbed(t)

\* A report no other thread disturbed is neither lost nor given twice: it is whole in the log or in
\* the callback, and not in both; without placeholders none is disturbed.
JavaReportOnce == EmergencyOnceJava /\ JavaReportNotLost /\ NoneWithoutPlaceholder

\* If a single thread throws, the process is killed only after the application was told.  (If a
\* second one does it goes to the system, which kills the process while the first is handled.)
FirstCrashReported == \A t \in Throwers : killed /\ Thrown = {t} => told[t].called

\* No handling gets stuck: it kills the process, or the thread ends because something escaped, or
\* the application asked to rethrow and nobody was there to rethrow to.
JavaCrashEnds ==
  \A t \in Throwers : jpc[t] = "handling" ~>
    killed \/ (jpc[t] = "ended" /\ (t \in escaped \/ (rethrow /\ defaultHandler = "none")))
=============================================================================
