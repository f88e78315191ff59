--------------------------- MODULE ProberProcess ----------------------------
(***************************************************************************)
(* The life of the caracal process: setupCaracalProcess and the rest of    *)
(* NewCaracalProber, the loops that hold its pipes, and Close, over the    *)
(* Runs that runWithReconnect makes one after the other.  CaracalProber    *)
(* models the prober between the constructor and Close; this module is     *)
(* about what is started, who may wait for whom while it starts, and what  *)
(* is left behind.                                                         *)
(***************************************************************************)
EXTENDS Integers, FiniteSets

CONSTANTS
  StartupLog,   \* the most lines caracal logs before it prints the CSV header
  StderrPipe,   \* lines the stderr pipe holds before a write blocks
  MaxRuns       \* bound: Runs that are followed

ASSUME ProcessAssumption ==
  StartupLog \in Nat /\ StderrPipe \in Nat \ {0} /\ MaxRuns \in Nat \ {0}

Pipes == {"stdin", "stdout", "stderr"}
Loops == {"writer", "reader", "stderr", "cleanup"}

VARIABLES
  stage,    \* "stdin", "stdout", "stderr", "start", "header", "open", "kill", "wait",
            \* "closed" or "failed" (the constructor returned an error)
  pipe,     \* pipe[p]: this side's end: "none", "open" or "closed"
  proc,     \* the process: "none", "running", or "zombie" (ended, nobody called Wait)
  header,   \* stdout holds the header: "none", "good" or "bad"
  toLog,    \* startup lines still to be logged
  unread,   \* lines in the stderr pipe
  loops,    \* the loops that run
  done,     \* the prober's context is done
  runs      \* Runs started

vars == <<stage, pipe, proc, header, toLog, unread, loops, done, runs>>

Fresh ==
  /\ stage = "stdin" /\ pipe = [p \in Pipes |-> "none"] /\ proc = "none"
  /\ header = "none" /\ toLog \in 0 .. StartupLog /\ unread = 0 /\ loops = {} /\ done = FALSE

Init == Fresh /\ runs = 1

-----------------------------------------------------------------------------
(* setupCaracalProcess *)

\* The order of the calls.
After(p) == CASE p = "stdin" -> "stdout" [] p = "stdout" -> "stderr" [] p = "stderr" -> "start"

GetPipe(p) ==
  /\ stage = p
  /\ pipe' = [pipe EXCEPT ![p] = "open"]
  /\ stage' = After(p)
  /\ UNCHANGED <<proc, header, toLog, unread, loops, done, runs>>

\* The return statement has set the named results to nil before the deferred
\* function looks at them, so it closes nothing.
GetPipeFails(p) ==
  /\ stage = p
  /\ stage' = "failed"
  /\ UNCHANGED <<pipe, proc, header, toLog, unread, loops, done, runs>>

StartCaracal ==
  /\ stage = "start"
  /\ proc' = "running" /\ stage' = "header"
  /\ UNCHANGED <<pipe, header, toLog, unread, loops, done, runs>>

\* exec.Cmd closes the pipes itself when Start fails.
StartFails ==
  /\ stage = "start"
  /\ pipe' = [p \in Pipes |-> "closed"] /\ stage' = "failed"
  /\ UNCHANGED <<proc, header, toLog, unread, loops, done, runs>>

-----------------------------------------------------------------------------
(* NewCaracalProber, from the header on *)

\* The header is there: the loops start.
ReadHeader ==
  /\ stage = "header" /\ header = "good"
  /\ loops' = Loops /\ stage' = "open"
  /\ UNCHANGED <<pipe, proc, header, toLog, unread, done, runs>>

HeaderFailed == header = "bad" \/ (header = "none" /\ proc = "zombie")

\* Faulty variant: the error path forgets the process.
ReadHeaderFailsNoKill ==
  /\ stage = "header" /\ HeaderFailed
  /\ done' = TRUE /\ stage' = "failed"
  /\ UNCHANGED <<pipe, proc, header, toLog, unread, loops, runs>>

\* End of file, or a line that is no CSV: kill the process and give up.
ReadHeaderFails ==
  /\ stage = "header" /\ HeaderFailed
  /\ proc' = "zombie" /\ done' = TRUE /\ stage' = "failed"
  /\ UNCHANGED <<pipe, header, toLog, unread, loops, runs>>

-----------------------------------------------------------------------------
(* caracal (external) *)

CaracalLogs ==
  /\ proc = "running" /\ toLog > 0 /\ unread < StderrPipe
  /\ toLog' = toLog - 1 /\ unread' = unread + 1
  /\ UNCHANGED <<stage, pipe, proc, header, loops, done, runs>>

CaracalPrintsHeader ==
  /\ proc = "running" /\ toLog = 0 /\ header = "none"
  /\ header' \in {"good", "bad"}
  /\ UNCHANGED <<stage, pipe, proc, toLog, unread, loops, done, runs>>

CaracalExits ==
  /\ proc = "running"
  /\ proc' = "zombie"
  /\ UNCHANGED <<stage, pipe, header, toLog, unread, loops, done, runs>>

-----------------------------------------------------------------------------
(* The loops: an error cancels the prober's context *)

\* writerLoop sees its context, or a write to a broken pipe; its deferred function closes stdin.
WriterEnds ==
  /\ "writer" \in loops /\ (done \/ proc = "zombie")
  /\ loops' = loops \ {"writer"} /\ done' = TRUE
  /\ pipe' = [pipe EXCEPT !["stdin"] = "closed"]
  /\ UNCHANGED <<stage, proc, header, toLog, unread, runs>>

\* Faulty variant: end of file is no error.
ReaderEndsQuietly ==
  /\ "reader" \in loops
  /\ loops' = loops \ {"reader"} /\ done' = (done \/ proc = "running")
  /\ UNCHANGED <<stage, pipe, proc, header, toLog, unread, runs>>

\* readerLoop ends with an error, at end of file or at a line it cannot parse.
ReaderEnds ==
  /\ "reader" \in loops
  /\ loops' = loops \ {"reader"} /\ done' = TRUE
  /\ UNCHANGED <<stage, pipe, proc, header, toLog, unread, runs>>

LogLine ==
  /\ "stderr" \in loops /\ unread > 0
  /\ unread' = unread - 1
  /\ UNCHANGED <<stage, pipe, proc, header, toLog, loops, done, runs>>

\* logStderr ends without error at end of file, with one at an over-long line.
StderrEnds ==
  /\ "stderr" \in loops
  /\ \/ proc = "zombie" /\ unread = 0 /\ UNCHANGED done
     \/ unread > 0 /\ done' = TRUE
  /\ loops' = loops \ {"stderr"}
  /\ UNCHANGED <<stage, pipe, proc, header, toLog, unread, runs>>

CleanupEnds ==
  /\ "cleanup" \in loops /\ done
  /\ loops' = loops \ {"cleanup"}
  /\ UNCHANGED <<stage, pipe, proc, header, toLog, unread, done, runs>>

-----------------------------------------------------------------------------
(* Close, and the next Run *)

CloseCancels ==
  /\ stage = "open"
  /\ done' = TRUE /\ stage' = "kill"
  /\ UNCHANGED <<pipe, proc, header, toLog, unread, loops, runs>>

\* Kill; that the process has already ended is only logged.
CloseKills ==
  /\ stage = "kill"
  /\ proc' = "zombie" /\ stage' = "wait"
  /\ UNCHANGED <<pipe, header, toLog, unread, loops, done, runs>>

\* g.Wait: the loops have ended.
CloseReturns ==
  /\ stage = "wait" /\ loops = {}
  /\ stage' = "closed"
  /\ UNCHANGED <<pipe, proc, header, toLog, unread, loops, done, runs>>

\* runWithReconnect calls Run again, which makes another prober.
NextRun ==
  /\ stage \in {"failed", "closed"} /\ runs < MaxRuns
  /\ runs' = runs + 1
  /\ stage' = "stdin" /\ pipe' = [p \in Pipes |-> "none"] /\ proc' = "none"
  /\ header' = "none" /\ toLog' \in 0 .. StartupLog /\ unread' = 0 /\ loops' = {} /\ done' = FALSE

Stopped == stage \in {"failed", "closed"} /\ UNCHANGED vars

SetupStep   == \E p \in Pipes : GetPipe(p) \/ GetPipeFails(p)
HeaderStep  == ReadHeader \/ ReadHeaderFails
CaracalStep == CaracalLogs \/ CaracalPrintsHeader
LoopStep    == WriterEnds \/ LogLine \/ StderrEnds \/ CleanupEnds
CloseStep   == CloseKills \/ CloseReturns

Next ==
  \/ SetupStep \/ StartCaracal \/ StartFails \/ HeaderStep
  \/ CaracalStep \/ CaracalExits
  \/ LoopStep \/ ReaderEnds
  \/ CloseCancels \/ CloseStep \/ NextRun \/ Stopped

Spec == Init /\ [][Next]_vars

\* Goroutines run, and a process that ended has closed its pipes.  caracal need
\* not print a header (a startup log that fills the stderr pipe blocks it, for
\* nobody reads stderr yet) and need not exit, writerLoop need not have anything to
\* write, and Close need not be called.
Fairness ==
  /\ WF_vars(HeaderStep) /\ WF_vars(CloseStep)
  /\ WF_vars(done /\ WriterEnds) /\ WF_vars(CleanupEnds) /\ WF_vars(LogLine)
  /\ WF_vars(proc = "zombie" /\ ReaderEnds) /\ WF_vars(proc = "zombie" /\ StderrEnds)

FairSpec == Spec /\ Fairness

-----------------------------------------------------------------------------
(* Properties *)

\* The types of the variables; there is a process once the constructor waits for it.
TypeOK ==
  /\ stage \in {"stdin", "stdout", "stderr", "start", "header", "open", "kill", "wait",
                "closed", "failed"}
  /\ pipe \in [Pipes -> {"none", "open", "closed"}]
  /\ proc \in {"none", "running", "zombie"}
  /\ stage \in {"header", "open", "kill", "wait", "closed"} => proc # "none"
  /\ header \in {"none", "good", "bad"}
  /\ toLog \in 0 .. StartupLog /\ unread \in 0 .. StderrPipe
  /\ loops \subseteq Loops /\ done \in BOOLEAN /\ runs \in 1 .. MaxRuns

\* No caracal keeps probing behind the agent's back: when the constructor has
\* failed or Close has returned, whatever failed before, no process and no loop is
\* running.  After Close its stdin is closed too; a failed constructor may leave
\* the pipes it made open.
NoOrphan ==
  stage \in {"failed", "closed"} =>
    /\ proc # "running" /\ loops = {}
    /\ stage = "closed" => pipe["stdin"] = "closed"

\* A caracal that died is noticed although nobody writes to it: readerLoop's end
\* of file cancels the context, and all loops end, also the ones without a pipe.
BreakdownSpreads == (proc = "zombie" /\ loops # {}) ~> (loops = {})

\* "Close releases resources" (Prober interface): the process is gone from the
\* process table, and the pipes to it are closed.
Released ==
  stage = "closed" => proc = "none" /\ \A p \in Pipes : pipe[p] # "open"
=============================================================================
