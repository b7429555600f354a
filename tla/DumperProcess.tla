---------------------------- MODULE DumperProcess ----------------------------
(***************************************************************************)
(* The dumper process: it lists the threads of the crashed process, stops  *)
(* each with ptrace, reads registers and frames, writes the log and lets   *)
(* the threads go.  Meanwhile the threads run on until they are stopped,   *)
(* start others, end, or are killed, and the dumper may crash.             *)
(***************************************************************************)
EXTENDS Integers, Sequences, FiniteSets, SequencesExt

CONSTANTS
  Tids,          \* numbers of threads
  CrashTid,      \* the crashed thread, which waits for the dumper in its handler
  Newcomers,     \* threads that do not exist yet when the crash happens
  Options,       \* what the application may ask for: dump_all_threads, its
                 \* count_max (0 for no limit), the threads on the whitelist ({} for none)
  CanFail        \* the calls that may fail

ASSUME DumperAssumption ==
  /\ Tids \subseteq Nat /\ IsFiniteSet(Tids)
  /\ CrashTid \in Tids \ Newcomers
  /\ Options \subseteq [all : BOOLEAN, max : Nat, whitelist : SUBSET Nat]

VARIABLES
  dpc,           \* place of the dumper in main
  exit,          \* NotYet, its exit code, or Signaled
  opt,           \* the options of this crash, from the spot
  alarm,         \* "set", or "pending" once the thirty seconds are over
  handled,       \* xcd_core_handled
  task,           \* each thread: "none", "running", "stopped" by ptrace, "gone"
  traced,        \* the threads the dumper has attached to
  stray,         \* threads with a SIGSTOP of the attach to come that nobody waits for
  halted,        \* the whole process is stopped, as by SIGSTOP
  thds, todo,    \* the list of threads, and the rest of it in the current loop
  status,        \* status of each listed thread
  whole, partial,\* threads with a complete and with an interrupted section in the log
  counts,        \* thd_matched_regex, thd_ignored_by_limit, thd_dumped
  footer,        \* the counters the log ends with, <<>> if it does not
  frames         \* threads whose frames were read, with the state they were in

appVars == <<task, traced, stray, halted>>
logVars == <<whole, partial, counts, footer, frames>>
mainVars == <<opt, dpc, exit, alarm, handled>>
listVars == <<thds, todo, status>>
dumperVars == <<mainVars, appVars, listVars, logVars>>

NotYet == -1
Signaled == -2

Places == {"args", "open", "register", "create", "suspend", "stopwait", "load", "sys", "crash",
           "others", "footer", "resume", "self", "ended"}

DumperTypeOK ==
  /\ dpc \in Places
  /\ exit \in {NotYet, Signaled, 0, 1, 2, 3, 5, 6, 10, 200}
  /\ alarm \in {"set", "pending"}
  /\ opt \in Options
  /\ handled \in BOOLEAN
  /\ task \in [Tids -> {"none", "running", "stopped", "gone"}]
  /\ traced \subseteq Tids /\ stray \subseteq Tids
  /\ halted \in BOOLEAN
  /\ thds \in Seq(Tids) /\ todo \in Seq(Tids)
  /\ status \in [Tids -> {"OK", "ATTACH", "ATTACH_WAIT", "REGS"}]
  /\ whole \subseteq Tids /\ partial \subseteq Tids
  /\ counts \in [matched : Nat, ignored : Nat, dumped : Nat]
  /\ footer \in Seq([matched : Nat, ignored : Nat, dumped : Nat])
  /\ frames \subseteq Tids \X {"none", "running", "stopped", "gone"}

\* The handler of the crash runs with all signals blocked, its child inherits the mask,
\* and execl keeps it.
Blocked == {"SIGALRM", "SIGSEGV", "SIGABRT"}

InitDumper ==
  /\ opt \in Options
  /\ dpc = "args" /\ exit = NotYet /\ alarm = "set" /\ handled = FALSE
  /\ task = [t \in Tids |-> IF t \in Newcomers THEN "none" ELSE "running"]
  /\ traced = {} /\ stray = {} /\ halted = FALSE
  /\ thds = <<>> /\ todo = <<>> /\ status = [t \in Tids |-> "OK"]
  /\ whole = {} /\ partial = {} /\ footer = <<>> /\ frames = {}
  /\ counts = [matched |-> 0, ignored |-> 0, dumped |-> 0]

-----------------------------------------------------------------------------
(* The crashed process.                                                    *)

\* A thread other than the crashed one starts a thread; it is not traced.
AppStarts(t) ==
  /\ ~halted /\ task[t] = "none"
  /\ \E u \in Tids \ {CrashTid} : task[u] = "running"
  /\ task' = [task EXCEPT ![t] = "running"]
  /\ UNCHANGED <<traced, stray, halted>>

AppExits(t) ==
  /\ ~halted /\ task[t] = "running" /\ t # CrashTid
  /\ task' = [task EXCEPT ![t] = "gone"]
  /\ UNCHANGED <<traced, stray, halted>>

\* The thread reports the SIGSTOP of the attach, or a signal that was dequeued before
\* it.  The crashed thread has blocked all signals that can be.
AppStops(t) ==
  /\ t \in traced /\ task[t] = "running"
  /\ task' = [task EXCEPT ![t] = "stopped"]
  /\ \/ UNCHANGED stray
     \/ "signal" \in CanFail /\ t # CrashTid /\ stray' = stray \cup {t}
  /\ UNCHANGED <<traced, halted>>

\* The system kills the process.
AppKilled ==
  /\ "kill" \in CanFail
  /\ \E t \in Tids : task[t] # "gone"
  /\ task' = [t \in Tids |-> "gone"]
  /\ UNCHANGED <<traced, stray, halted>>

-----------------------------------------------------------------------------
(* The dumper.                                                             *)

Fails(call) == call \in CanFail

Advance(place) == dpc' = place /\ UNCHANGED <<opt, exit, alarm, handled>>

\* The kernel detaches what an ended tracer has not: the signal a thread is stopped
\* with is delivered to it, be it the SIGSTOP of the attach or one that leaves the
\* SIGSTOP pending, and a SIGSTOP stops the whole process.
Ended(how) ==
  /\ dpc' = "ended" /\ exit' = how
  /\ task' = [t \in Tids |-> IF task[t] = "stopped" THEN "running" ELSE task[t]]
  /\ traced' = {} /\ UNCHANGED stray
  /\ halted' = (halted \/ \E t \in traced : task[t] = "stopped")
  /\ UNCHANGED <<opt, alarm, handled, listVars, logVars>>

ReadArgs ==
  /\ dpc = "args"
  /\ \/ Advance("open") /\ UNCHANGED <<appVars, listVars, logVars>>
     \/ Fails("args") /\ Ended(1)

OpenLog ==
  /\ dpc = "open"
  /\ \/ Advance("register") /\ UNCHANGED <<appVars, listVars, logVars>>
     \/ Fails("open") /\ Ended(2)

\* Its own crash handler; a failure is not looked at.
Register ==
  /\ dpc = "register"
  /\ Advance("create")
  /\ UNCHANGED <<appVars, listVars, logVars>>

Alive == {t \in Tids : task[t] \in {"running", "stopped"}}

\* The threads of a set in the order readdir returns them.
Listing(S) == CHOOSE list \in [1..Cardinality(S) -> S] : ToSet(list) = S

ProcessCreate ==
  /\ dpc = "create"
  /\ IF CrashTid \in Alive
       THEN /\ Advance("suspend")
            /\ thds' = Listing(Alive) /\ todo' = thds'
            /\ UNCHANGED <<status, appVars, logVars>>
       ELSE Ended(3)

Thread == Head(todo)

\* PTRACE_ATTACH fails if the thread is gone, or not allowed.
Attach ==
  /\ dpc = "suspend" /\ todo # <<>>
  /\ \/ /\ task[Thread] # "gone"
        /\ traced' = traced \cup {Thread}
        /\ Advance("stopwait")
        /\ UNCHANGED <<task, stray, halted, listVars>>
     \/ /\ task[Thread] = "gone" \/ Fails("attach")
        /\ status' = [status EXCEPT ![Thread] = "ATTACH"]
        /\ todo' = Tail(todo)
        /\ UNCHANGED <<mainVars, thds, appVars>>
  /\ UNCHANGED logVars

\* Mutant: it waits for a stop only.
StopWaitForStop ==
  /\ dpc = "stopwait" /\ task[Thread] = "stopped"
  /\ todo' = Tail(todo) /\ Advance("suspend")
  /\ UNCHANGED <<appVars, status, thds, logVars>>

\* waitpid blocks until the thread has stopped or ended, and its status is not looked
\* at.  After another error than EINTR the detach of a thread that runs has no effect.
StopWait ==
  /\ dpc = "stopwait"
  /\ \/ task[Thread] \in {"stopped", "gone"} /\ UNCHANGED <<appVars, status>>
     \/ /\ Fails("waitpid")
        /\ status' = [status EXCEPT ![Thread] = "ATTACH_WAIT"]
        /\ IF task[Thread] = "stopped"
             THEN /\ task' = [task EXCEPT ![Thread] = "running"]
                  /\ traced' = traced \ {Thread}
                  /\ halted' = (halted \/ Thread \in stray)
                  /\ UNCHANGED stray
             ELSE stray' = stray \cup {Thread} /\ UNCHANGED <<task, traced, halted>>
  /\ todo' = Tail(todo)
  /\ Advance("suspend")
  /\ UNCHANGED <<thds, logVars>>

SuspendDone ==
  /\ dpc = "suspend" /\ todo = <<>>
  /\ Advance("load")
  /\ UNCHANGED <<appVars, listVars, logVars>>

Unreadable(t) == t \notin traced \/ task[t] # "stopped"

\* The registers of the crashed thread come from its ucontext, those of the others from
\* ptrace; the status of an earlier failure is overwritten.
LoadInfo ==
  /\ dpc = "load"
  /\ \E unread \in SUBSET (IF Fails("regs") THEN ToSet(thds) \ {CrashTid} ELSE {}) :
       status' = [t \in Tids |->
                    IF t \in ToSet(thds) \ {CrashTid}
                       /\ (t \in unread \/ Unreadable(t))
                      THEN "REGS" ELSE status[t]]
  /\ Advance("sys")
  /\ UNCHANGED <<thds, todo, appVars, logVars>>

SysRecord ==
  /\ dpc = "sys"
  /\ \/ Advance("crash") /\ UNCHANGED <<appVars, listVars, logVars>>
     \/ Fails("write") /\ Ended(5)

LoadFrames(t) ==
  frames' = IF status[t] = "OK" THEN frames \cup {<<t, task[t]>>} ELSE frames

\* Everything about the crashed thread; the first write that fails ends the dumper.
RecordCrashThread ==
  /\ dpc = "crash"
  /\ \/ /\ LoadFrames(CrashTid)
        /\ whole' = whole \cup {CrashTid}
        /\ Advance(IF opt.all THEN "others" ELSE "resume")
        /\ todo' = thds
        /\ UNCHANGED <<partial, counts, footer, thds, status, appVars>>
     \/ Fails("write") /\ Ended(6)

NeedDump(t) == t # CrashTid /\ (opt.whitelist = {} \/ t \in opt.whitelist)

OverLimit == opt.max > 0 /\ counts.dumped >= opt.max

\* Mutant: a thread is counted before it is written.
CountedEarly ==
  /\ dpc = "others" /\ todo # <<>> /\ todo' = Tail(todo)
  /\ NeedDump(Thread) /\ ~OverLimit /\ LoadFrames(Thread)
  /\ counts' = [counts EXCEPT !.matched = @ + 1, !.dumped = @ + 1]
  /\ \/ whole' = whole \cup {Thread} /\ UNCHANGED <<mainVars, partial>>
     \/ Fails("write") /\ partial' = partial \cup {Thread} /\ Advance("footer") /\ UNCHANGED whole
  /\ UNCHANGED <<footer, thds, status, appVars>>

\* One of the other threads: skipped, counted as ignored, or recorded.  A write that
\* fails goes to the footer.
RecordThread ==
  /\ dpc = "others" /\ todo # <<>>
  /\ todo' = Tail(todo)
  /\ \/ ~NeedDump(Thread) /\ UNCHANGED <<mainVars, logVars>>
     \/ /\ NeedDump(Thread) /\ OverLimit
        /\ counts' = [counts EXCEPT !.matched = @ + 1, !.ignored = @ + 1]
        /\ UNCHANGED <<mainVars, whole, partial, footer, frames>>
     \/ /\ NeedDump(Thread) /\ ~OverLimit
        /\ LoadFrames(Thread)
        /\ \/ /\ counts' = [counts EXCEPT !.matched = @ + 1, !.dumped = @ + 1]
              /\ whole' = whole \cup {Thread}
              /\ UNCHANGED <<mainVars, partial>>
           \/ /\ Fails("write")
              /\ counts' = [counts EXCEPT !.matched = @ + 1]
              /\ partial' = partial \cup {Thread}
              /\ Advance("footer")
              /\ UNCHANGED whole
        /\ UNCHANGED footer
  /\ UNCHANGED <<thds, status, appVars>>

OthersDone ==
  /\ dpc = "others" /\ todo = <<>>
  /\ Advance("footer")
  /\ UNCHANGED <<appVars, listVars, logVars>>

\* What the footer returns takes the place of the error that led to it.
RecordFooter ==
  /\ dpc = "footer"
  /\ \/ /\ footer' = IF Len(thds) > 1 THEN <<counts>> ELSE <<>>
        /\ todo' = thds
        /\ Advance("resume")
        /\ UNCHANGED <<whole, partial, counts, frames, thds, status, appVars>>
     \/ Fails("write") /\ Ended(6)

\* Mutant: the crashed thread is left out.
ResumeOthers ==
  /\ dpc = "resume" /\ todo # <<>> /\ todo' = Tail(todo)
  /\ IF Thread \in traced \ {CrashTid} /\ task[Thread] = "stopped"
       THEN /\ task' = [task EXCEPT ![Thread] = "running"]
            /\ traced' = traced \ {Thread}
            /\ halted' = (halted \/ Thread \in stray)
       ELSE UNCHANGED <<task, traced, halted>>
  /\ UNCHANGED <<mainVars, stray, thds, status, logVars>>

\* PTRACE_DETACH: a thread that stopped for another signal has its SIGSTOP still to come.
Resume ==
  /\ dpc = "resume" /\ todo # <<>>
  /\ todo' = Tail(todo)
  /\ IF Thread \in traced /\ task[Thread] = "stopped"
       THEN /\ task' = [task EXCEPT ![Thread] = "running"]
            /\ traced' = traced \ {Thread}
            /\ halted' = (halted \/ Thread \in stray)
       ELSE UNCHANGED <<task, traced, halted>>
  /\ UNCHANGED <<mainVars, stray, thds, status, logVars>>

ReturnFromMain ==
  /\ dpc = "resume" /\ todo = <<>>
  /\ Ended(0)

Registered == dpc \notin {"args", "open", "register", "self", "ended"}

\* A fault in the dumper: the kernel kills a process that has its signal blocked.
Faults ==
  /\ Fails("crash") /\ dpc # "ended"
  /\ Ended(Signaled)

\* abort() unblocks SIGABRT, so that the handler runs, once.
Aborts ==
  /\ Fails("crash") /\ dpc # "ended"
  /\ IF Registered
       THEN dpc' = "self" /\ handled' = TRUE /\ UNCHANGED <<opt, exit, alarm, appVars, listVars, logVars>>
       ELSE Ended(IF dpc = "self" THEN 200 ELSE Signaled)

\* The dumper's own handler: the signal is queued again with the old handler in place.
SelfDump ==
  /\ dpc = "self"
  /\ \/ Ended(Signaled)
     \/ Fails("unregister") /\ Ended(10)

AlarmExpires ==
  /\ alarm = "set" /\ dpc # "ended"
  /\ IF "SIGALRM" \in Blocked
       THEN alarm' = "pending" /\ UNCHANGED <<opt, dpc, exit, handled, appVars, listVars, logVars>>
       ELSE Ended(Signaled)

DumperRuns ==
  \/ ReadArgs \/ OpenLog \/ Register \/ ProcessCreate \/ Attach \/ StopWait \/ SuspendDone
  \/ LoadInfo \/ SysRecord \/ RecordCrashThread \/ RecordThread \/ OthersDone \/ RecordFooter
  \/ Resume \/ ReturnFromMain \/ SelfDump

Stops(t) == AppStops(t) /\ UNCHANGED <<mainVars, listVars, logVars>>

AppRuns ==
  /\ (\E t \in Tids : AppStarts(t) \/ AppExits(t)) \/ AppKilled
  /\ UNCHANGED <<mainVars, listVars, logVars>>

DumperOver == dpc = "ended" /\ UNCHANGED dumperVars

NextDumper ==
  \/ DumperRuns \/ Faults \/ Aborts \/ AlarmExpires
  \/ AppRuns \/ (\E t \in Tids : Stops(t))
  \/ DumperOver

SpecDumper == InitDumper /\ [][NextDumper]_dumperVars

-----------------------------------------------------------------------------
(* What the log and the process may be relied on for.                      *)

\* Frames are never read of a thread that runs: registers and stack fit together.
FramesOfStopped == \A f \in frames : f[2] # "running"

\* The counters the log ends with are true of the sections in it, also after a write
\* that failed in the middle of one.
FooterTrue ==
  footer # <<>> =>
    /\ footer[1].dumped = Cardinality(whole \ {CrashTid})
    /\ footer[1].matched = footer[1].ignored + footer[1].dumped + Cardinality(partial)
    /\ opt.max > 0 => footer[1].dumped <= opt.max

\* A dumper that returns 0 has recorded every thread it was asked for, unless a write
\* failed in one: that error is lost when the footer is written (xcd_process.c:468).
CompleteIfNoneCut ==
  exit = 0 /\ partial = {} =>
    /\ CrashTid \in whole
    /\ opt.all => \A t \in ToSet(thds) \ whole : NeedDump(t) => footer # <<>> /\ footer[1].ignored > 0

\* The log tells the truth: about threads that stood still, with counters that are right, and
\* whole when the dumper says so.
LogTrue == FramesOfStopped /\ FooterTrue /\ CompleteIfNoneCut

\* The process runs on after the dumper, unless the dumper was cut short or a thread
\* had a signal of its own to report when it was attached to.
ResumedUnlessCut == halted => stray # {} \/ (dpc = "ended" /\ exit # 0)
=============================================================================
