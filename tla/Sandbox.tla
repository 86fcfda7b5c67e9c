------------------------------- MODULE Sandbox -------------------------------
(***************************************************************************)
(* One process attempt: the controller of worker.py (_run_execution,       *)
(* _end_runner), its runner (ProcessExecution.run, SandboxProcess.spawn    *)
(* and run), the pidfd both of them wait on, the threads that walk /proc,  *)
(* and the processes themselves.                                           *)
(*                                                                         *)
(* The processes are the outer bwrap, the init it forks and the command    *)
(* (with its descendants).  "killed" is a process with SIGKILL pending: it *)
(* runs no user code again, and is dead when the kernel releases it, which *)
(* may take longer than any timeout.  Timeouts may fire at any moment.     *)
(***************************************************************************)
EXTENDS FiniteSets

CONSTANT Faults   \* what the environment does in this instance

ASSUME FaultsAssumption ==
    Faults \subseteq {"cancel",      \* the drain cancels the controller (once)
                      "crash",       \* the worker process dies
                      "recycle",     \* a dead process's pid goes to a foreign one
                      "broken",      \* the pipes of the command break
                      "detached",    \* the command closes its stdout and stderr
                      "exhausted"}   \* no descriptor is left when a pidfd is opened

VARIABLES st,       \* the processes
          armed,    \* the init has set its die-with-parent
          held,     \* the command holds its stdout and stderr
          pid,      \* who has the pid of each process, and of the worker, now
          up,       \* the worker runs
          runner,   \* the runner task: where it is, and a cancel() on its way
          stopped,  \* ProcessExecution._stopped
          sp,       \* the SandboxProcess: its flag and the pidfds it holds
          fd,       \* the Pidfd object of the init
          waits,    \* the wait_exit calls in flight on it
          ctl,      \* the controller task
          sweep,    \* the threads in signal_marked and scavenge_orphans
          outcome,  \* an outcome was written
          lost,     \* auxiliary: the init was alive and its pidfd was not opened
          foreign   \* foreign processes that were sent a signal

worker == <<up, runner, stopped, sp, fd, waits, ctl, outcome, lost>>
kernel == <<st, armed, held, pid>>
vars == <<kernel, worker, sweep, foreign>>

Procs == {"outer", "init", "cmd"}
Tasks == {"ctl", "run"}
Threads == {"term", "abort", "scavenge"}
Handle == {"none", "own", "foreign"}

Gone(p) == st[p] \in {"none", "dead"}
Empty == \A p \in Procs : Gone(p)
Signalled(S) == [p \in Procs |-> IF p \in S /\ st[p] = "alive" THEN "killed" ELSE st[p]]

-----------------------------------------------------------------------------
(* The kernel and bubblewrap.                                              *)

\* A dying outer takes an init with it that has set its die-with-parent.
Died(p) ==
    [q \in Procs |-> IF q = p THEN "dead"
                     ELSE IF p = "outer" /\ q = "init" /\ armed /\ st[q] = "alive" THEN "killed"
                     ELSE st[q]]
External == UNCHANGED <<held, pid, worker, sweep, foreign>>

BwrapForks ==
    /\ st["outer"] = "alive" /\ st["init"] = "none"
    /\ st' = [st EXCEPT !["init"] = "alive"]
    /\ UNCHANGED armed /\ External
BwrapGivesUp ==
    /\ st["outer"] = "alive" /\ st["init"] = "none"
    /\ st' = Died("outer")
    /\ UNCHANGED armed /\ External
InitArms ==
    /\ st["init"] = "alive" /\ ~armed
    /\ armed' = TRUE
    /\ UNCHANGED st /\ External
CommandStarts ==
    /\ st["init"] = "alive" /\ armed /\ st["cmd"] = "none"
    /\ st' = [st EXCEPT !["cmd"] = "alive"]
    /\ UNCHANGED armed /\ External
\* A command may close its stdout and stderr, or give them to a file.
CommandDetaches ==
    /\ "detached" \in Faults /\ st["cmd"] = "alive" /\ held
    /\ held' = FALSE
    /\ UNCHANGED <<st, armed, pid, worker, sweep, foreign>>
\* Each process outlives the ones below it.
Ends(p) ==
    /\ st[p] = "alive"
    /\ p = "init" => Gone("cmd")
    /\ p = "outer" => st["init"] = "dead"
    /\ st' = Died(p)
    /\ UNCHANGED armed /\ External
\* The end of a pid namespace's init kills the rest of it, and waits for it.
NamespaceEnds ==
    /\ st["init"] = "killed" /\ st["cmd"] = "alive"
    /\ st' = Signalled({"cmd"})
    /\ UNCHANGED armed /\ External
Released(p) ==
    /\ st[p] = "killed"
    /\ p = "init" => Gone("cmd")
    /\ st' = Died(p)
    /\ UNCHANGED armed /\ External
Recycled(p) ==
    /\ "recycle" \in Faults /\ pid[p] = "own"
    /\ IF p = "worker" THEN ~up ELSE st[p] = "dead"
    /\ pid' = [pid EXCEPT ![p] = "foreign"]
    /\ UNCHANGED <<st, armed, held, worker, sweep, foreign>>

-----------------------------------------------------------------------------
(* Finding and signalling processes by their marker.                       *)

\* _environ_has, read through the pid: a foreign or dead process has no marker.
EnvironHasAnything(p) == st[p] # "none"
EnvironHas(p) == pid[p] = "own" /\ st[p] \in {"alive", "killed"}
\* _open_marked: any OSError is None.
OpenMarked(p) ==
    {IF EnvironHas(p) THEN "own" ELSE "none"} \cup {"none" : f \in Faults \cap {"exhausted"}}

NoSweep == [pc |-> "idle", todo |-> {}, pin |-> "none"]
ListSweep == [NoSweep EXCEPT !.pc = "list"]
\* terminate() spares the outer bwrap and the init.
ExcludedNone(t) == {}
Excluded(t) == IF t = "term" THEN {"outer", "init"} ELSE {}
\* SIGTERM is for the command to heed or not; it tears down the other two.
Delivered(t, p) == IF t = "term" /\ p = "cmd" THEN st ELSE Signalled({p})

\* scavenge_orphans and is_worker_alive: the pid counts with its start time.
WorkerPidTaken == up \/ pid["worker"] = "foreign"
IsWorkerAlive == up
ScavengeStart ==
    /\ sweep["scavenge"].pc = "idle" /\ ~IsWorkerAlive /\ ~Empty
    /\ sweep' = [sweep EXCEPT !["scavenge"] = ListSweep]
    /\ UNCHANGED <<kernel, worker, foreign>>
\* find_marked.
SweepList(t) ==
    /\ sweep[t].pc = "list"
    /\ sweep' = [sweep EXCEPT ![t] = [pc |-> "open", todo |-> {p \in Procs : EnvironHas(p)} \ Excluded(t),
                                      pin |-> "none"]]
    /\ UNCHANGED <<kernel, worker, foreign>>
\* _kill_marked pins the process that has the pid now ...
SweepOpen(t) ==
    \E p \in sweep[t].todo :
      /\ sweep[t].pc = "open"
      /\ sweep' \in {[sweep EXCEPT ![t].pc = p, ![t].pin = pid[p]]}
                      \cup {[sweep EXCEPT ![t].todo = @ \ {p}] : f \in Faults \cap {"exhausted"}}
      /\ UNCHANGED <<kernel, worker, foreign>>
\* ... and signals it if the pid still shows the marker.
SweepSignal(t) ==
    LET p == sweep[t].pc
    IN  /\ p \in Procs
        /\ st' = IF EnvironHas(p) /\ sweep[t].pin = "own" THEN Delivered(t, p) ELSE st
        /\ foreign' = IF EnvironHas(p) /\ sweep[t].pin = "foreign" THEN foreign \cup {p} ELSE foreign
        /\ sweep' = [sweep EXCEPT ![t] = [pc |-> "open", todo |-> @.todo \ {p}, pin |-> "none"]]
        /\ UNCHANGED <<armed, held, pid, worker>>
SweepEnd(t) ==
    /\ sweep[t].pc = "open" /\ sweep[t].todo = {}
    /\ sweep' = [sweep EXCEPT ![t] = NoSweep]
    /\ UNCHANGED <<kernel, worker, foreign>>

-----------------------------------------------------------------------------
(* The Pidfd of the init, and SandboxProcess.kill.                         *)

NoHandles == [made |-> FALSE, dead |-> FALSE, outer |-> "none", init |-> "none"]
NoFd == [open |-> FALSE, waiting |-> FALSE, closing |-> FALSE, reader |-> "none"]

\* Pidfd.close: deferred while a wait is in flight.
ClosedAtOnce(f) == [f EXCEPT !.open = FALSE]
Closed(f) == IF f.waiting THEN [f EXCEPT !.closing = TRUE] ELSE [f EXCEPT !.open = FALSE]
\* SandboxProcess._close_fds.
CloseFds(s, f) ==
    /\ sp' = [s EXCEPT !.outer = "none", !.init = IF s.dead THEN "none" ELSE s.init]
    /\ fd' = IF s.dead /\ s.init # "none" THEN Closed(f) ELSE f
\* Pidfd.wait_exit: the reader it adds replaces the reader of an earlier call,
\* and its finally clause removes whichever is registered.
WaitExit(x) ==
    /\ fd' = [fd EXCEPT !.waiting = TRUE, !.reader = x]
    /\ waits' = [waits EXCEPT ![x] = "waiting"]
\* On a descriptor the other call closed, remove_reader(-1) is a ValueError.
WaitOver(f) ==
    LET g == [f EXCEPT !.waiting = FALSE, !.reader = "none"]
    IN  IF ~f.open THEN f ELSE IF f.closing THEN [g EXCEPT !.open = FALSE] ELSE g
ExitSeen(x) ==
    /\ up /\ fd.reader = x /\ st["init"] = "dead" /\ waits[x] = "waiting"
    /\ waits' = [waits EXCEPT ![x] = "exited"]
    /\ UNCHANGED <<kernel, up, runner, stopped, sp, fd, ctl, outcome, lost, sweep, foreign>>

\* A signal through a held pidfd reaches the process it was opened for.
KillHeld(S) ==
    /\ st' = Signalled({p \in S : sp[p] = "own"})
    /\ foreign' = foreign \cup {p \in S : sp[p] = "foreign"}
\* kill(): the part before the wait; over when nothing is left to wait for.
KillIsOver == sp.dead \/ sp.init = "none"
KillAtOnce ==
    /\ KillIsOver
    /\ IF sp.dead THEN UNCHANGED <<st, foreign>> ELSE KillHeld({"outer"})
KillBeginsOuter(x) ==
    /\ ~KillIsOver
    /\ KillHeld({"outer"})
    /\ WaitExit(x)
KillBegins(x) ==
    /\ ~KillIsOver
    /\ KillHeld({"outer", "init"})
    /\ WaitExit(x)
\* What kill() makes of its wait: seen exiting, timed out, or raised out of.
WaitedKept(x) == waits[x] # "none" /\ waits' = [waits EXCEPT ![x] = "over"]
Waited(x) == waits[x] # "none" /\ waits' = [waits EXCEPT ![x] = "none"]
VerdictHopeful(x) == [sp EXCEPT !.dead = TRUE]
Verdict(x) == [sp EXCEPT !.dead = IF fd.open THEN waits[x] = "exited" ELSE sp.dead]

-----------------------------------------------------------------------------
(* The runner: ProcessExecution.run.  A cancel() reaches it at its await.  *)

Spawning == runner.pc \in {"exec", "status", "sweep", "reap"}
Done == runner.pc = "done"
Steps(pc) == up /\ runner.pc = pc /\ ~runner.cancel
Runner(pc) == runner' = [pc |-> pc, cancel |-> FALSE]
SpawnRest == UNCHANGED <<armed, held, pid, up, stopped, ctl, outcome>>
RunnerRest == SpawnRest /\ UNCHANGED lost
NoKill == UNCHANGED <<sp, fd, waits, foreign>>

\* The first step of run() comes before any of the controller's: validate_input
\* rejects the input or create_subprocess_exec fails, or the outer bwrap runs.
SpawnFails ==
    /\ up /\ runner.pc = "exec"
    /\ Runner("done")
    /\ UNCHANGED <<st, sweep>> /\ NoKill /\ RunnerRest
SpawnOuter ==
    /\ up /\ runner.pc = "exec"
    /\ st' = [st EXCEPT !["outer"] = "alive"]
    /\ sp' \in {[sp EXCEPT !.outer = "own"]}
                \cup {sp : f \in Faults \cap {"exhausted"}}
    /\ runner' = [runner EXCEPT !.pc = "status"]
    /\ UNCHANGED <<sweep, fd, waits, foreign>> /\ RunnerRest
\* The status line names the init: the sandbox is recorded.  A stop() that came
\* meanwhile is sent now.
SpawnReady ==
    /\ Steps("status") /\ st["init"] # "none"
    /\ \E h \in OpenMarked("init") :
         /\ sp' = [sp EXCEPT !.made = TRUE, !.init = h]
         /\ fd' = [fd EXCEPT !.open = h # "none"]
         /\ lost' = (lost \/ (h = "none" /\ EnvironHas("init")))
    /\ Runner(IF stopped THEN "stop" ELSE "run")
    /\ sweep' = IF stopped THEN [sweep EXCEPT !["term"] = ListSweep] ELSE sweep
    /\ UNCHANGED <<st, waits, foreign>> /\ SpawnRest
\* _abort: no status line, or a cancellation.  SIGKILL to the outer, then to
\* everything marked, from a thread.
Abort ==
    /\ up /\ runner.pc = "status"
    /\ st' = Signalled({"outer"})
    /\ Runner("sweep")
    /\ sweep' = [sweep EXCEPT !["abort"] = ListSweep]
    /\ NoKill /\ RunnerRest
AbortSwept ==
    /\ Steps("sweep") /\ sweep["abort"].pc = "idle"
    /\ Runner("reap")
    /\ UNCHANGED <<st, sweep>> /\ NoKill /\ RunnerRest
\* The outer is reaped, or that took too long, or a second cancellation came:
\* spawn() ends with the outer's pidfd closed.
AbortEnds ==
    /\ Steps("reap") \/ (up /\ runner.pc \in {"sweep", "reap"} /\ runner.cancel)
    /\ Runner("done")
    /\ sp' = [sp EXCEPT !.outer = "none"]
    /\ UNCHANGED <<st, sweep, fd, waits, foreign>> /\ RunnerRest
\* The stop() of run(): the thread is done, is slow, or the runner is cancelled.
LateStopSent ==
    /\ up /\ runner.pc = "stop"
    /\ Runner(IF runner.cancel THEN "done" ELSE "run")
    /\ UNCHANGED <<st, sweep>> /\ NoKill /\ RunnerRest

\* The pipes end when every holder is gone; a killed init has closed its own.
Eof == /\ st["outer"] = "dead" /\ st["init"] \in {"killed", "dead"}
       /\ Gone("cmd") \/ ~held
\* SandboxProcess.run: the outer has exited ...
RunEnds ==
    /\ Steps("run") /\ Eof
    /\ CloseFds([sp EXCEPT !.dead = TRUE], fd)
    /\ Runner("done")
    /\ UNCHANGED <<st, sweep, waits, foreign>> /\ RunnerRest
\* ... or it was cancelled or broke: kill(), whatever comes of it.
RunBreaks ==
    /\ up /\ runner.pc = "run" /\ (runner.cancel \/ "broken" \in Faults)
    /\ \/ /\ KillAtOnce
          /\ CloseFds([sp EXCEPT !.dead = TRUE], fd)
          /\ Runner("done")
          /\ UNCHANGED waits
       \/ KillBegins("run") /\ Runner("kill") /\ UNCHANGED sp
    /\ UNCHANGED sweep /\ RunnerRest
RunKilled ==
    /\ up /\ runner.pc = "kill"
    /\ Waited("run")
    /\ CloseFds(IF runner.cancel THEN sp ELSE Verdict("run"), WaitOver(fd))
    /\ Runner("done")
    /\ UNCHANGED <<st, sweep, foreign>> /\ RunnerRest

-----------------------------------------------------------------------------
(* The controller: Attempt._run_execution and _end_runner.                 *)

At(pc) == up /\ ctl.pc = pc
Goto(pc) == ctl' = [ctl EXCEPT !.pc = pc, !.call = "none"]
CtlRest == UNCHANGED <<armed, held, pid, up, lost>>
NoCall == UNCHANGED <<st, sp, fd, waits, foreign, sweep, stopped, outcome>>
CancelRunner == runner' = IF Done THEN runner ELSE [runner EXCEPT !.cancel = TRUE]

\* The runner is done, or the stop event or the attempt timeout comes first:
\* stop() notes it, and has a thread signal a sandbox that is recorded.
RunnerFirst ==
    /\ At("wait") /\ Done
    /\ Goto("verify")
    /\ UNCHANGED runner /\ NoCall /\ CtlRest
StopFirst ==
    /\ At("wait") /\ ~Done
    /\ Goto("grace")
    /\ stopped' = TRUE
    /\ sweep' = IF sp.made THEN [sweep EXCEPT !["term"] = ListSweep] ELSE sweep
    /\ UNCHANGED <<st, sp, fd, waits, foreign, outcome, runner>> /\ CtlRest
\* The bounded waits: for stop()'s thread and the grace period, after the kill,
\* and after the cancellation of the runner.
GraceOver ==
    /\ At("grace")
    /\ Goto(IF Done THEN "verify" ELSE "kill")
    /\ UNCHANGED runner /\ NoCall /\ CtlRest
KillWaitOver ==
    /\ At("killwait")
    /\ Goto(IF Done THEN "verify" ELSE "cancelwait")
    /\ CancelRunner
    /\ NoCall /\ CtlRest
CancelWaitOver ==
    /\ At("cancelwait")
    /\ Goto("verify")
    /\ UNCHANGED runner /\ NoCall /\ CtlRest

\* Where the controller is after a kill() that returned r, and what it does.
KillReturned(r) ==
    CASE ctl.pc = "kill"    -> Goto("killwait") /\ UNCHANGED runner
      [] ctl.pc = "verify"  -> Goto(IF r THEN "finish" ELSE "verify") /\ UNCHANGED runner
      [] ctl.pc = "endkill" -> Goto("endwait") /\ CancelRunner
Killing == up /\ ctl.pc \in {"kill", "verify", "endkill"}
\* ProcessExecution.kill: waits for a spawn in flight, within its timeout.
KillWaitsForSpawn ==
    /\ Killing /\ ctl.call = "none" /\ Spawning
    /\ ctl' = [ctl EXCEPT !.call = "spawned"]
    /\ UNCHANGED runner /\ NoCall /\ CtlRest
KillSpawnTimeout ==
    /\ Killing /\ ctl.call = "spawned" /\ Spawning /\ runner.pc # "exec"
    /\ KillReturned(FALSE)
    /\ NoCall /\ CtlRest
KillNow ==
    /\ Killing /\ ctl.call \in {"none", "spawned"} /\ ~Spawning
    /\ \/ /\ ~sp.made
          /\ KillReturned(TRUE)
          /\ UNCHANGED <<st, sp, fd, waits, foreign>>
       \/ /\ sp.made /\ KillAtOnce
          /\ sp' = [sp EXCEPT !.dead = TRUE]
          /\ KillReturned(TRUE)
          /\ UNCHANGED <<fd, waits>>
       \/ /\ sp.made /\ KillBegins("ctl")
          /\ ctl' = [ctl EXCEPT !.call = "exit"]
          /\ UNCHANGED <<sp, runner>>
    /\ UNCHANGED <<sweep, stopped, outcome>> /\ CtlRest
\* A ValueError is not caught: the controller ends without an outcome.
KillEnds ==
    /\ Killing /\ ctl.call = "exit"
    /\ Waited("ctl")
    /\ IF waits["ctl"] = "exited" /\ fd.open THEN CloseFds(Verdict("ctl"), WaitOver(fd))
       ELSE sp' = Verdict("ctl") /\ fd' = WaitOver(fd)
    /\ IF fd.open THEN KillReturned(waits["ctl"] = "exited")
       ELSE Goto(IF ctl.pc = "endkill" THEN "settled" ELSE "endkill") /\ UNCHANGED runner
    /\ UNCHANGED <<st, foreign, sweep, stopped, outcome>> /\ CtlRest

\* _finish_stopped or _finish_completed.
WriteOutcome ==
    /\ At("finish")
    /\ outcome' = TRUE
    /\ Goto("endkill")
    /\ UNCHANGED <<st, sp, fd, waits, foreign, sweep, stopped, runner>> /\ CtlRest
EndWaitOver ==
    /\ At("endwait") /\ Done
    /\ Goto("settled")
    /\ UNCHANGED runner /\ NoCall /\ CtlRest
\* _abandon_leftovers cancels a controller past its budget.
CtlCancelled ==
    /\ up /\ "cancel" \in Faults /\ ~ctl.cancelled
    /\ ctl.pc \notin {"endkill", "endwait", "settled"}
    /\ ctl' = [pc |-> "endkill", call |-> "none", cancelled |-> TRUE]
    /\ IF ctl.call = "exit" THEN Waited("ctl") /\ fd' = WaitOver(fd) ELSE UNCHANGED <<fd, waits>>
    /\ UNCHANGED <<st, sp, foreign, sweep, stopped, outcome, runner>> /\ CtlRest

\* The worker process dies: its threads with it, and the outer bwrap.
Crash ==
    /\ up /\ "crash" \in Faults
    /\ up' = FALSE
    /\ st' = Signalled({"outer"})
    /\ sweep' = [t \in Threads |-> NoSweep]
    /\ runner' = [pc |-> "done", cancel |-> FALSE]
    /\ sp' = NoHandles
    /\ fd' = NoFd
    /\ waits' = [x \in Tasks |-> "none"]
    /\ ctl' = [pc |-> "settled", call |-> "none", cancelled |-> FALSE]
    /\ stopped' = FALSE
    /\ UNCHANGED <<armed, held, pid, outcome, lost, foreign>>

-----------------------------------------------------------------------------
Init ==
    /\ st = [p \in Procs |-> "none"]
    /\ armed = FALSE
    /\ held = TRUE
    /\ pid = [p \in Procs \cup {"worker"} |-> "own"]
    /\ up = TRUE
    /\ runner = [pc |-> "exec", cancel |-> FALSE]
    /\ stopped = FALSE
    /\ sp = NoHandles
    /\ fd = NoFd
    /\ waits = [x \in Tasks |-> "none"]
    /\ ctl = [pc |-> "wait", call |-> "none", cancelled |-> FALSE]
    /\ sweep = [t \in Threads |-> NoSweep]
    /\ outcome = FALSE
    /\ lost = FALSE
    /\ foreign = {}

Environment ==
    \/ BwrapForks \/ BwrapGivesUp \/ InitArms \/ CommandStarts \/ CommandDetaches
    \/ NamespaceEnds \/ Crash
    \/ \E p \in Procs : Ends(p) \/ Released(p)
    \/ \E p \in Procs \cup {"worker"} : Recycled(p)
Sweeping(t) == SweepList(t) \/ SweepOpen(t) \/ SweepSignal(t) \/ SweepEnd(t)
Spawn == SpawnFails \/ SpawnOuter \/ SpawnReady \/ Abort \/ AbortSwept \/ AbortEnds
Run == LateStopSent \/ RunEnds \/ RunBreaks \/ RunKilled
ControllerMoves ==
    \/ RunnerFirst \/ GraceOver \/ KillWaitOver \/ CancelWaitOver \/ KillWaitsForSpawn
    \/ KillSpawnTimeout \/ KillNow \/ KillEnds \/ WriteOutcome \/ EndWaitOver
Next ==
    \/ Environment
    \/ ScavengeStart \/ \E t \in Threads : Sweeping(t)
    \/ Spawn \/ Run \/ \E x \in Tasks : ExitSeen(x)
    \/ ControllerMoves \/ StopFirst \/ CtlCancelled
Spec == Init /\ [][Next]_vars

\* The event loop and the threads run, bounded waits end, and the kernel
\* releases a killed process in the end.  A readable pidfd is level-triggered
\* and is seen long before the kill timeout, if its reader is registered again
\* and again.  Nobody has to ask for a stop, and a command may run for ever.
Fairness ==
    /\ \A p \in Procs : WF_vars(Released(p))
    /\ WF_vars(NamespaceEnds)
    /\ WF_vars(ScavengeStart) /\ \A t \in Threads : WF_vars(Sweeping(t))
    /\ WF_vars(Spawn) /\ WF_vars(Run /\ (Eof \/ runner.pc # "run" \/ runner.cancel))
    /\ \A x \in Tasks : SF_vars(ExitSeen(x))
    /\ WF_vars(ControllerMoves)
FairSpec == Spec /\ Fairness

-----------------------------------------------------------------------------
(* Properties.                                                             *)

RunnerRow == [pc: {"exec", "status", "sweep", "reap", "stop", "run", "kill", "done"},
              cancel: BOOLEAN]
SpRow == [made: BOOLEAN, dead: BOOLEAN, outer: Handle, init: Handle]
FdRow == [open: BOOLEAN, waiting: BOOLEAN, closing: BOOLEAN, reader: Tasks \cup {"none"}]
CtlRow == [pc: {"wait", "grace", "kill", "killwait", "cancelwait", "verify", "finish",
                "endkill", "endwait", "settled"},
           call: {"none", "spawned", "exit"}, cancelled: BOOLEAN]
SweepRow == [pc: {"idle", "list", "open"} \cup Procs, todo: SUBSET Procs, pin: Handle]

\* Every variable holds a value of its kind.
TypeOK ==
    /\ st \in [Procs -> {"none", "alive", "killed", "dead"}] /\ armed \in BOOLEAN
    /\ held \in BOOLEAN /\ lost \in BOOLEAN
    /\ pid \in [Procs \cup {"worker"} -> {"own", "foreign"}] /\ up \in BOOLEAN
    /\ stopped \in BOOLEAN /\ outcome \in BOOLEAN /\ foreign \subseteq Procs
    /\ waits \in [Tasks -> {"none", "waiting", "exited"}]
    /\ runner \in RunnerRow /\ sp \in SpRow /\ fd \in FdRow /\ ctl \in CtlRow
    /\ sweep \in [Threads -> SweepRow]

\* What worker.py says of every outcome: the sandbox is verified dead before it
\* is written, and nothing may run meanwhile.
Dead == Gone("cmd") /\ st["init"] # "alive"
Outcome == ctl.pc = "finish" \/ outcome
VerifiedDead == Outcome => Dead

\* The same of a sandbox whose spawn() returned, which kill() is said to verify
\* and run() to have seen the end of.
RecordedDead == Outcome /\ sp.made => Dead

\* What the code does ensure of such a sandbox, however its stop, its spawn, both
\* kills and the end of the command interleave: its init had its SIGKILL or is
\* dead, so that nothing new starts in it, and no command that holds its pipes
\* runs any more; unless the spawn got no pidfd of a living init.
Killed == st["init"] # "alive" /\ (held => Gone("cmd"))
OutcomeKilled == Outcome /\ sp.made /\ ~lost => Killed

\* A recycled pid never receives a signal, from a graceful stop whose thread is
\* late, from an abort, from the scavenger or through a pidfd that is kept.
NoForeignSignal == foreign = {}

\* Two wait_exit calls on one Pidfd take each other's reader, but the descriptor
\* is open whenever a reader is registered for it.
ReaderOpen == fd.reader # "none" => fd.open

\* The graceful stop is graceful: nothing tears the sandbox down before the
\* grace period is over, unless its spawn failed or got no pidfd of the init, its
\* runner broke or the worker is ending.
GraceStep ==
    st["init"] = "alive" /\ st'["init"] = "killed" =>
      \/ ctl.pc \notin {"wait", "grace"} \/ ~up'
      \/ Done /\ (~sp.made \/ lost)
      \/ runner.pc \in {"sweep", "reap"}
      \/ runner'.pc = "kill"
GraceRespected == [][GraceStep]_vars

\* A process attempt always ends: a controller that was asked to stop, or whose
\* runner is done, settles, although its kill and the runner's take the reader
\* from each other and a killed init may be stuck for long.
AttemptEnds == ctl.pc # "wait" \/ Done ~> ctl.pc = "settled"

\* Nothing outlives a settled attempt or a dead worker for ever: whatever was
\* started, in the arming window too, is killed and dies.
NothingOutlives == ctl.pc = "settled" ~> Empty
=============================================================================
