------------------------------- MODULE LogFds -------------------------------
(***************************************************************************)
(* xc_common_open_log, the way the crash handler and the trace dumper get  *)
(* a descriptor for their log when the process has none left.  Each has    *)
(* one in reserve ("prepared", an open /dev/null) that it closes when an   *)
(* open fails, and takes back later.  The descriptor table is shared with  *)
(* the application, whose threads open and close between any two calls.    *)
(* An open fails only for want of a descriptor here.                       *)
(***************************************************************************)
EXTENDS Naturals

CONSTANTS
  Limit,           \* the descriptors the process may have
  MaxPlaceholders  \* bound on the clean placeholder files in the log directory

ASSUME LogFdsAssumption == Limit \in Nat /\ MaxPlaceholders \in Nat

Kinds == {"crash", "trace"}

VARIABLES
  fpc,           \* where each of the two is in open_log or close_log
  free,          \* descriptors left
  app,           \* descriptors the application holds
  prepared,      \* xc_common_crash_prepared_fd >= 0, xc_common_trace_prepared_fd >= 0
  dir,           \* the log directory is open
  log,           \* the log is open
  placeholders,  \* clean placeholder files in the log directory
  promised       \* nobody else has taken a descriptor since the call began, and there was
                 \* one at that time

fdsVars == <<fpc, free, app, prepared, dir, log, placeholders, promised>>

\* The points of xc_common_open_log.
Opening == {"opendir", "giveback", "opendir2", "scan", "closedir", "closerenamed", "openrenamed",
            "reserve", "create", "giveback2", "createagain"}

FdsTypeOK ==
  /\ fpc \in [Kinds -> {"idle", "opened", "failed", "takeback", "finished"} \cup Opening]
  /\ free \in Nat /\ app \in Nat /\ placeholders \in Nat
  /\ prepared \in [Kinds -> BOOLEAN]
  /\ dir \in [Kinds -> BOOLEAN]
  /\ log \in [Kinds -> BOOLEAN]
  /\ promised \in [Kinds -> BOOLEAN]

One(held) == IF held THEN 1 ELSE 0

HeldBy(k) == One(prepared[k]) + One(dir[k]) + One(log[k])

\* After xc_common_init, whose opens may have failed.
InitFds ==
  /\ fpc = [k \in Kinds |-> "idle"]
  /\ prepared \in [Kinds -> BOOLEAN]
  /\ promised = prepared
  /\ dir = [k \in Kinds |-> FALSE]
  /\ log = [k \in Kinds |-> FALSE]
  /\ app \in 0..Limit /\ free \in 0..Limit
  /\ free + app + HeldBy("crash") + HeldBy("trace") = Limit
  /\ placeholders \in 0..MaxPlaceholders

-----------------------------------------------------------------------------
Goto(k, from, to) == fpc[k] = from /\ fpc' = [fpc EXCEPT ![k] = to]

\* A descriptor less, or one more; a taker breaks the others' promise while they open or
\* close a log.
Taken(k) ==
  /\ free > 0
  /\ free' = free - 1
  /\ promised' = [j \in Kinds |-> promised[j] /\ (j = k \/ fpc[j] = "idle")]

Freed == free' = free + 1 /\ UNCHANGED promised

NoneLeft == free = 0 /\ UNCHANGED <<free, promised>>

\* open_log is called: by the crash handler once, by the trace dumper for each trace.
OpenLogCall(k) ==
  /\ Goto(k, "idle", "opendir")
  /\ promised' = [promised EXCEPT ![k] = prepared[k] \/ free > 0]
  /\ UNCHANGED <<free, app, prepared, dir, log, placeholders>>

OpenDir(k) ==
  /\ \/ Taken(k) /\ Goto(k, "opendir", "scan") /\ dir' = [dir EXCEPT ![k] = TRUE]
     \/ NoneLeft /\ Goto(k, "opendir", "giveback") /\ UNCHANGED dir
  /\ UNCHANGED <<app, prepared, log, placeholders>>

\* xc_common_close_prepared_fd, and "goto create_new_file" without one.
GiveBackForDir(k) ==
  /\ \/ /\ prepared[k] /\ Goto(k, "giveback", "opendir2")
        /\ Freed /\ prepared' = [prepared EXCEPT ![k] = FALSE]
     \/ ~prepared[k] /\ Goto(k, "giveback", "create") /\ UNCHANGED <<free, promised, prepared>>
  /\ UNCHANGED <<app, dir, log, placeholders>>

OpenDirAgain(k) ==
  /\ \/ Taken(k) /\ Goto(k, "opendir2", "scan") /\ dir' = [dir EXCEPT ![k] = TRUE]
     \/ NoneLeft /\ Goto(k, "opendir2", "create") /\ UNCHANGED dir
  /\ UNCHANGED <<app, prepared, log, placeholders>>

\* The first placeholder that can be renamed becomes the log.
RenamePlaceholder(k) ==
  /\ \/ /\ placeholders > 0 /\ Goto(k, "scan", "closerenamed")
        /\ placeholders' = placeholders - 1
     \/ Goto(k, "scan", "closedir") /\ UNCHANGED placeholders
  /\ UNCHANGED <<free, app, prepared, dir, log, promised>>

\* Mutant: the renamed log is opened while the directory still is.
CloseDirOnlyAtEnd(k) ==
  /\ \/ Goto(k, "closedir", "reserve") /\ Freed /\ dir' = [dir EXCEPT ![k] = FALSE]
     \/ Goto(k, "closerenamed", "openrenamed") /\ UNCHANGED <<free, promised, dir>>
  /\ UNCHANGED <<app, prepared, log, placeholders>>

CloseDir(k) ==
  /\ Goto(k, "closedir", "reserve") \/ Goto(k, "closerenamed", "openrenamed")
  /\ Freed
  /\ dir' = [dir EXCEPT ![k] = FALSE]
  /\ UNCHANGED <<app, prepared, log, placeholders>>

\* The renamed placeholder is opened, without another try.
OpenRenamed(k) ==
  /\ \/ Taken(k) /\ Goto(k, "openrenamed", "opened") /\ log' = [log EXCEPT ![k] = TRUE]
     \/ NoneLeft /\ Goto(k, "openrenamed", "failed") /\ UNCHANGED log
  /\ UNCHANGED <<app, prepared, dir, placeholders>>

\* xc_common_open_prepared_fd, in open_log and in close_log.
OpenPrepared(k) ==
  /\ Goto(k, "reserve", "create") \/ Goto(k, "takeback", "idle")
  /\ \/ prepared[k] /\ UNCHANGED <<free, promised, prepared>>
     \/ ~prepared[k] /\ Taken(k) /\ prepared' = [prepared EXCEPT ![k] = TRUE]
     \/ ~prepared[k] /\ NoneLeft /\ UNCHANGED prepared
  /\ UNCHANGED <<app, dir, log, placeholders>>

CreateLog(k) ==
  /\ \/ Taken(k) /\ Goto(k, "create", "opened") /\ log' = [log EXCEPT ![k] = TRUE]
     \/ NoneLeft /\ Goto(k, "create", "giveback2") /\ UNCHANGED log
  /\ UNCHANGED <<app, prepared, dir, placeholders>>

GiveBackForLog(k) ==
  /\ \/ /\ prepared[k] /\ Goto(k, "giveback2", "createagain")
        /\ Freed /\ prepared' = [prepared EXCEPT ![k] = FALSE]
     \/ ~prepared[k] /\ Goto(k, "giveback2", "failed") /\ UNCHANGED <<free, promised, prepared>>
  /\ UNCHANGED <<app, dir, log, placeholders>>

CreateLogAgain(k) ==
  /\ \/ Taken(k) /\ Goto(k, "createagain", "opened") /\ log' = [log EXCEPT ![k] = TRUE]
     \/ NoneLeft /\ Goto(k, "createagain", "failed") /\ UNCHANGED log
  /\ UNCHANGED <<app, prepared, dir, placeholders>>

\* Mutant: close_log without xc_common_open_prepared_fd.
CloseLogOnly(k) ==
  /\ Goto(k, "opened", IF k = "crash" THEN "finished" ELSE "idle")
  /\ log' = [log EXCEPT ![k] = FALSE]
  /\ free' = free + 1
  /\ promised' = [promised EXCEPT ![k] = TRUE]
  /\ UNCHANGED <<app, prepared, dir, placeholders>>

\* xc_common_close_trace_log, up to its xc_common_open_prepared_fd; the crash handler
\* closes its descriptor itself, and opens no other log.
CloseLogCall(k) ==
  /\ Goto(k, "opened", IF k = "crash" THEN "finished" ELSE "takeback")
  /\ log' = [log EXCEPT ![k] = FALSE]
  /\ free' = free + 1
  /\ promised' = [promised EXCEPT ![k] = TRUE]
  /\ UNCHANGED <<app, prepared, dir, placeholders>>

\* open_log returned -1.
GiveUpLog(k) ==
  /\ Goto(k, "failed", IF k = "crash" THEN "finished" ELSE "idle")
  /\ UNCHANGED <<free, app, prepared, dir, log, placeholders, promised>>

AppOpens ==
  /\ Taken("application")
  /\ app' = app + 1
  /\ UNCHANGED <<fpc, prepared, dir, log, placeholders>>

AppCloses ==
  /\ app > 0
  /\ app' = app - 1
  /\ Freed
  /\ UNCHANGED <<fpc, prepared, dir, log, placeholders>>

LogStep(k) ==
  \/ OpenLogCall(k) \/ OpenDir(k) \/ GiveBackForDir(k) \/ OpenDirAgain(k)
  \/ RenamePlaceholder(k) \/ CloseDir(k) \/ OpenRenamed(k) \/ OpenPrepared(k)
  \/ CreateLog(k) \/ GiveBackForLog(k) \/ CreateLogAgain(k) \/ CloseLogCall(k)
  \/ GiveUpLog(k)

NextFds == (\E k \in Kinds : LogStep(k)) \/ AppOpens \/ AppCloses

SpecFds == InitFds /\ [][NextFds]_fdsVars

-----------------------------------------------------------------------------
(* What the reserve promises.                                              *)

\* open_log and close_log leave no descriptor behind on any of their paths: each is free,
\* the application's, in reserve, or the log that was asked for.
NoFdLost ==
  /\ free + app + HeldBy("crash") + HeldBy("trace") = Limit
  /\ \A k \in Kinds : fpc[k] \in {"idle", "opened", "failed", "finished"} => ~dir[k]

\* "create prepared FD for FD exhausted case": a log is opened even when every descriptor is
\* in use, if the reserve is there and no other thread snatches the descriptor on the way.
LogOpened == \A k \in Kinds : fpc[k] = "failed" => ~promised[k]

\* The reserve comes back with the close of the log, for the next time.
ReserveBack == \A k \in Kinds : fpc[k] = "idle" /\ promised[k] => prepared[k]

\* The reserve does what it is for: a log is opened, the reserve comes back, nothing leaks.
ReserveServes == NoFdLost /\ LogOpened /\ ReserveBack
=============================================================================
