---------------------------- MODULE SandboxProofs ----------------------------
(***************************************************************************)
(* The sandbox under any set of faults.                                    *)
(*                                                                         *)
(* Three invariants.  SafeInv: a pin may be foreign only where the pid is, *)
(* and the descriptor is open while anybody reads it.  KillInv: what       *)
(* kill() takes for dead had its SIGKILL, unless the spawn got no pidfd,   *)
(* and whoever signals the outer bwrap early has given the spawn up.       *)
(* DeadInv: a command that holds its pipes is gone by then too.            *)
(***************************************************************************)
EXTENDS Sandbox, TLAPS

Before == {"exec", "status", "sweep", "reap"}

\* A process that was pinned under a pid that is not the sandbox's any more
\* stays recognisable: the pid does not come back.
PinsKnown ==
    /\ sp.outer # "foreign" /\ sp.init # "foreign"
    /\ \A t \in Threads : sweep[t].pc \in Procs /\ sweep[t].pin = "foreign" =>
                            pid[sweep[t].pc] = "foreign"

\* The descriptor is open while it is held or read, and not held before the
\* spawn returned.
FdKept ==
    /\ sp.init # "none" => fd.open /\ ~fd.closing
    /\ fd.reader # "none" => fd.open /\ fd.waiting
    /\ ~sp.made => sp.init = "none" /\ fd = NoFd
    /\ runner.pc \in Before => ~sp.made /\ ~sp.dead /\ \A x \in Tasks : waits[x] = "none"

SafeInv == TypeOK /\ PinsKnown /\ NoForeignSignal /\ FdKept

\* What makes kill() believe that the sandbox is dead.
Believed == sp.dead \/ sp.init = "none" \/ \E x \in Tasks : waits[x] = "exited"
GivenUp == runner.pc \in {"sweep", "reap"} \/ (Done /\ (~sp.made \/ lost))
Early == up /\ ctl.pc \in {"wait", "grace"}
KillInv ==
    /\ pid["init"] = "foreign" => st["init"] = "dead"
    /\ sp.made => st["init"] # "none"
    /\ sp.made /\ ~lost /\ Believed => st["init"] # "alive"
    /\ \A t \in Threads : sweep[t].pc \in Procs => sweep[t].pc \in sweep[t].todo
    /\ sweep["term"].todo \subseteq {"cmd"}
    /\ sweep["abort"].pc # "idle" => GivenUp \/ ~up
    /\ sweep["scavenge"].pc # "idle" => ~up
    /\ Early /\ st["outer"] = "killed" /\ st["init"] = "alive" => GivenUp
    /\ runner.pc \in {"stop", "run", "kill"} => sp.made

\* An outcome is for a spawn that is over.
DeadInv ==
    /\ st["init"] = "dead" => Gone("cmd")
    /\ sp.made /\ ~lost /\ Believed => Killed
    /\ Outcome => runner.pc \notin Before
    /\ OutcomeKilled

-----------------------------------------------------------------------------
(* The values that are written.                                            *)

Strings == {"none", "alive", "killed", "dead"}

LEMMA SignalledFacts ==
    ASSUME TypeOK, NEW S
    PROVE  /\ Signalled(S) \in [Procs -> Strings]
           /\ \A p \in Procs : Signalled(S)[p] = IF p \in S /\ st[p] = "alive" THEN "killed" ELSE st[p]
BY DEF TypeOK, Signalled, Strings

LEMMA DiedFacts ==
    ASSUME TypeOK, NEW p \in Procs
    PROVE  /\ Died(p) \in [Procs -> Strings] /\ Died(p)[p] = "dead"
           /\ \A q \in Procs : q # p => \/ Died(p)[q] = st[q]
                                        \/ /\ p = "outer" /\ q = "init" /\ armed
                                           /\ st[q] = "alive" /\ Died(p)[q] = "killed"
BY DEF TypeOK, Died, Strings

LEMMA SweepRows ==
    /\ NoSweep \in SweepRow /\ ListSweep \in SweepRow
    /\ NoSweep.pc = "idle" /\ NoSweep.todo = {} /\ ListSweep.pc = "list" /\ ListSweep.todo = {}
BY DEF NoSweep, ListSweep, SweepRow, Handle

LEMMA RunnerRows ==
    ASSUME TypeOK
    PROVE  /\ \A pc \in {"exec", "status", "sweep", "reap", "stop", "run", "kill", "done"} :
                [pc |-> pc, cancel |-> FALSE] \in RunnerRow
           /\ [runner EXCEPT !.cancel = TRUE] \in RunnerRow
           /\ [runner EXCEPT !.cancel = TRUE].pc = runner.pc
BY DEF TypeOK, RunnerRow

LEMMA GotoFacts ==
    ASSUME TypeOK,
           NEW pc \in {"wait", "grace", "kill", "killwait", "cancelwait", "verify", "finish",
                       "endkill", "endwait", "settled"},
           Goto(pc)
    PROVE  ctl' \in CtlRow /\ ctl'.pc = pc
<1>1. ctl \in CtlRow /\ ctl' = [ctl EXCEPT !.pc = pc, !.call = "none"]
  BY DEF TypeOK, Goto
<1> QED
  BY <1>1 DEF CtlRow

LEMMA CancelRunnerFacts ==
    ASSUME TypeOK, CancelRunner \/ UNCHANGED runner PROVE runner' \in RunnerRow /\ runner'.pc = runner.pc
BY RunnerRows DEF TypeOK, CancelRunner

\* The descriptor is closed only when nobody reads it.
FdSound(f) == f.reader # "none" => f.open /\ f.waiting

LEMMA WaitOverFacts ==
    ASSUME NEW f \in FdRow, FdSound(f)
    PROVE  /\ WaitOver(f) \in FdRow /\ WaitOver(f).reader = "none"
           /\ WaitOver(f).closing = f.closing
           /\ f.open /\ ~f.closing => WaitOver(f).open /\ ~WaitOver(f).waiting
           /\ ~f.open => WaitOver(f) = f
<1> DEFINE g == [f EXCEPT !.waiting = FALSE, !.reader = "none"]
           h == [g EXCEPT !.open = FALSE]
<1>1. /\ g \in FdRow /\ g.reader = "none" /\ g.closing = f.closing /\ g.open = f.open
      /\ g.waiting = FALSE
  BY DEF FdRow
<1>2. h \in FdRow /\ h.reader = "none" /\ h.closing = f.closing
  BY <1>1 DEF FdRow
<1>3. WaitOver(f) = IF ~f.open THEN f ELSE IF f.closing THEN h ELSE g
  BY DEF WaitOver
<1> HIDE DEF g, h
<1>4. CASE ~f.open
  BY <1>3, <1>4 DEF FdSound
<1>5. CASE f.open /\ f.closing
  BY <1>2, <1>3, <1>5
<1>6. CASE f.open /\ ~f.closing
  BY <1>1, <1>3, <1>6
<1> QED
  BY <1>4, <1>5, <1>6

LEMMA CloseFdsFacts ==
    ASSUME NEW s \in SpRow, NEW f \in FdRow, FdSound(f), s.init # "none" => f.open /\ ~f.closing,
           CloseFds(s, f)
    PROVE  /\ sp' \in SpRow /\ sp'.made = s.made /\ sp'.dead = s.dead /\ sp'.outer = "none"
           /\ sp'.init = IF s.dead THEN "none" ELSE s.init
           /\ fd' \in FdRow /\ FdSound(fd')
           /\ s.init = "none" \/ ~s.dead => fd' = f
<1>1. /\ sp' \in SpRow /\ sp'.made = s.made /\ sp'.dead = s.dead /\ sp'.outer = "none"
      /\ sp'.init = IF s.dead THEN "none" ELSE s.init
  BY DEF CloseFds, SpRow, Handle
<1>2. Closed(f) \in FdRow /\ FdSound(Closed(f))
  BY DEF FdRow, FdSound, Closed
<1>3. fd' = IF s.dead /\ s.init # "none" THEN Closed(f) ELSE f
  BY DEF CloseFds
<1> QED
  BY <1>1, <1>2, <1>3

-----------------------------------------------------------------------------
(* SafeInv is inductive, whatever the faults.                              *)

LEMMA SafeFacts ==
    ASSUME SafeInv
    PROVE  /\ TypeOK /\ FdSound(fd) /\ foreign = {} /\ sp.outer # "foreign" /\ sp.init # "foreign"
           /\ st \in [Procs -> Strings]
BY DEF SafeInv, PinsKnown, FdKept, FdSound, NoForeignSignal, TypeOK, Strings

\* The processes move on their own.
LEMMA KernelSafe ==
    ASSUME SafeInv, External, st' \in [Procs -> Strings], armed' \in BOOLEAN
    PROVE  SafeInv'
<1>1. TypeOK'
  BY DEF SafeInv, TypeOK, External, worker, Strings
<1>2. PinsKnown' /\ NoForeignSignal' /\ FdKept'
  BY DEF SafeInv, PinsKnown, NoForeignSignal, FdKept, External, worker
<1> QED
  BY <1>1, <1>2 DEF SafeInv

LEMMA EnvironmentSafe ==
    ASSUME SafeInv, Environment
    PROVE  SafeInv'
<1> USE SafeFacts
<1>1. CASE BwrapForks
  <2>1. st' \in [Procs -> Strings]
    BY <1>1 DEF BwrapForks, Strings
  <2> QED
    BY <1>1, <2>1, KernelSafe DEF BwrapForks, TypeOK
<1>2. CASE BwrapGivesUp
  <2>1. "outer" \in Procs
    BY DEF Procs
  <2> QED
    BY <1>2, <2>1, DiedFacts, KernelSafe DEF BwrapGivesUp, TypeOK
<1>3. CASE InitArms
  BY <1>3, KernelSafe DEF InitArms
<1>4. CASE CommandStarts
  <2>1. st' \in [Procs -> Strings]
    BY <1>4 DEF CommandStarts, Strings
  <2> QED
    BY <1>4, <2>1, KernelSafe DEF CommandStarts, TypeOK
<1>5. CASE NamespaceEnds
  BY <1>5, SignalledFacts, KernelSafe DEF NamespaceEnds, TypeOK
<1>6. ASSUME NEW p \in Procs, Ends(p) \/ Released(p) PROVE SafeInv'
  BY <1>6, DiedFacts, KernelSafe DEF Ends, Released, TypeOK
<1>7. ASSUME NEW p \in Procs \cup {"worker"}, Recycled(p) PROVE SafeInv'
  <2>1. TypeOK'
    BY <1>7 DEF TypeOK, Recycled, worker
  <2>2. PinsKnown'
    BY <1>7 DEF SafeInv, PinsKnown, Recycled, worker, TypeOK, Procs, Threads
  <2> QED
    BY <1>7, <2>1, <2>2 DEF SafeInv, NoForeignSignal, FdKept, Recycled, worker
<1>8. CASE Crash
  <2>1. /\ NoSweep \in SweepRow /\ [pc |-> "done", cancel |-> FALSE] \in RunnerRow
        /\ NoHandles \in SpRow /\ NoFd \in FdRow /\ NoHandles.outer = "none" /\ NoHandles.init = "none"
        /\ [pc |-> "settled", call |-> "none", cancelled |-> FALSE] \in CtlRow
        /\ NoFd.reader = "none" /\ NoSweep.pc = "idle"
    BY DEF NoSweep, SweepRow, Handle, RunnerRow, SpRow, FdRow, CtlRow, NoHandles, NoFd
  <2>2. TypeOK'
    BY <1>8, <2>1, SignalledFacts DEF Crash, TypeOK, Strings
  <2>3. PinsKnown'
    BY <1>8, <2>1 DEF PinsKnown, Crash, Procs
  <2>4. FdKept'
    BY <1>8, <2>1 DEF FdKept, Crash, Before
  <2> QED
    BY <1>8, <2>2, <2>3, <2>4 DEF SafeInv, NoForeignSignal, Crash
<1>9. CASE CommandDetaches
  <2>1. TypeOK' /\ PinsKnown'
    BY <1>9 DEF SafeInv, TypeOK, PinsKnown, CommandDetaches, worker
  <2> QED
    BY <1>9, <2>1 DEF SafeInv, NoForeignSignal, FdKept, CommandDetaches, worker
<1> QED
  BY <1>1, <1>2, <1>3, <1>4, <1>5, <1>6, <1>7, <1>8, <1>9 DEF Environment

LEMMA SweepsSafe ==
    ASSUME SafeInv, ScavengeStart \/ \E t \in Threads : Sweeping(t)
    PROVE  SafeInv'
<1> USE SafeFacts
<1>0. ASSUME NEW t \in Threads, NEW r \in SweepRow, sweep' = [sweep EXCEPT ![t] = r],
             st' \in [Procs -> Strings], foreign' = {}, UNCHANGED <<armed, held, pid, worker>>,
             r.pc \in Procs => r.pin = pid[r.pc]
      PROVE  SafeInv'
  <2>1. TypeOK'
    BY <1>0 DEF TypeOK, worker, Strings
  <2>2. PinsKnown'
    BY <1>0 DEF SafeInv, PinsKnown, worker, TypeOK
  <2> QED
    BY <1>0, <2>1, <2>2 DEF SafeInv, NoForeignSignal, FdKept, worker
<1>1. CASE ScavengeStart
  <2>1. "scavenge" \in Threads /\ ListSweep.pc \notin Procs
    BY SweepRows DEF Threads, Procs
  <2> QED
    BY <1>1, <2>1, <1>0, SweepRows DEF ScavengeStart, kernel, TypeOK
<1>2. ASSUME NEW t \in Threads, SweepList(t) PROVE SafeInv'
  <2> DEFINE r == [pc |-> "open", todo |-> {p \in Procs : EnvironHas(p)} \ Excluded(t), pin |-> "none"]
  <2>1. r \in SweepRow /\ r.pc \notin Procs
    BY DEF SweepRow, Handle, Procs
  <2>2. sweep' = [sweep EXCEPT ![t] = r]
    BY <1>2 DEF SweepList
  <2> HIDE DEF r
  <2> QED
    BY <1>2, <2>1, <2>2, <1>0 DEF SweepList, kernel
<1>3. ASSUME NEW t \in Threads, SweepOpen(t) PROVE SafeInv'
  <2>1. PICK p \in sweep[t].todo :
          /\ sweep[t].pc = "open"
          /\ \/ sweep' = [sweep EXCEPT ![t] = [sweep[t] EXCEPT !.pc = p, !.pin = pid[p]]]
             \/ sweep' = [sweep EXCEPT ![t] = [sweep[t] EXCEPT !.todo = sweep[t].todo \ {p}]]
          /\ UNCHANGED <<kernel, worker, foreign>>
    BY <1>3 DEF SweepOpen
  <2> DEFINE r == [sweep[t] EXCEPT !.pc = p, !.pin = pid[p]]
             s == [sweep[t] EXCEPT !.todo = sweep[t].todo \ {p}]
  <2>2. sweep[t] \in SweepRow
    BY DEF TypeOK
  <2>3. p \in Procs /\ pid[p] \in {"own", "foreign"}
    BY <2>2 DEF SweepRow, TypeOK, Procs
  <2>4. r \in SweepRow /\ r.pin = pid[r.pc]
    BY <2>2, <2>3 DEF SweepRow, Handle, Procs
  <2>5. s \in SweepRow /\ s.pc \notin Procs
    BY <2>1, <2>2 DEF SweepRow, Procs
  <2>6. sweep' = [sweep EXCEPT ![t] = r] \/ sweep' = [sweep EXCEPT ![t] = s]
    BY <2>1
  <2> HIDE DEF r, s
  <2> QED
    BY <2>1, <2>4, <2>5, <2>6, <1>0 DEF kernel
<1>4. ASSUME NEW t \in Threads, SweepSignal(t) PROVE SafeInv'
  <2> DEFINE p == sweep[t].pc
             r == [pc |-> "open", todo |-> sweep[t].todo \ {p}, pin |-> "none"]
  <2>1. p \in Procs /\ sweep' = [sweep EXCEPT ![t] = r]
    BY <1>4 DEF SweepSignal
  <2>2. r \in SweepRow /\ r.pc \notin Procs
    BY DEF TypeOK, SweepRow, Handle, Procs
  <2>3. ~(EnvironHas(p) /\ sweep[t].pin = "foreign")
    BY <2>1 DEF SafeInv, PinsKnown, EnvironHas
  <2>4. foreign' = {}
    BY <1>4, <2>3 DEF SweepSignal
  <2>5. st' = st \/ st' = Signalled({p})
    BY <1>4 DEF SweepSignal, Delivered
  <2>6. st' \in [Procs -> Strings]
    BY <2>5, SignalledFacts
  <2> HIDE DEF r
  <2> QED
    BY <1>4, <2>1, <2>2, <2>4, <2>6, <1>0 DEF SweepSignal
<1>5. ASSUME NEW t \in Threads, SweepEnd(t) PROVE SafeInv'
  <2>1. NoSweep.pc \notin Procs
    BY SweepRows DEF Procs
  <2> QED
    BY <1>5, <2>1, <1>0, SweepRows DEF SweepEnd, kernel
<1> QED
  BY <1>1, <1>2, <1>3, <1>4, <1>5 DEF Sweeping

\* What a step of the runner or of the controller leaves to show.
Lists(t) == sweep' = [sweep EXCEPT ![t] = ListSweep] \/ sweep' = sweep
Waiting == {"none", "waiting", "exited"}
LEMMA TaskSafe ==
    ASSUME SafeInv, UNCHANGED <<armed, held, pid, up>>, lost' \in BOOLEAN, st' \in [Procs -> Strings],
           stopped' \in BOOLEAN, outcome' \in BOOLEAN, foreign' = {},
           NEW t \in Threads, Lists(t), waits' \in [Tasks -> Waiting],
           runner' \in RunnerRow, ctl' \in CtlRow, fd' \in FdRow, sp' \in SpRow,
           sp'.outer # "foreign", sp'.init # "foreign", FdKept'
    PROVE  SafeInv'
<1>1. sweep \in [Threads -> SweepRow] /\ ListSweep \in SweepRow /\ ListSweep.pc \notin Procs
  BY SweepRows DEF SafeInv, TypeOK, Procs
<1>2. /\ sweep' \in [Threads -> SweepRow]
      /\ \A u \in Threads : sweep'[u].pc \in Procs => sweep'[u] = sweep[u]
  BY <1>1 DEF Lists
<1>3. TypeOK'
  BY <1>2 DEF SafeInv, TypeOK, Strings, Waiting
<1>4. PinsKnown'
  BY <1>2 DEF SafeInv, PinsKnown
<1> QED
  BY <1>3, <1>4 DEF SafeInv, NoForeignSignal

\* Handles before and after: the signals sent through them are for their own.
LEMMA KillHeldFacts ==
    ASSUME SafeInv, NEW S \in SUBSET {"outer", "init"}, KillHeld(S)
    PROVE  /\ foreign' = {} /\ st' \in [Procs -> Strings]
           /\ \A p \in Procs : st'[p] = IF p \in S /\ sp[p] = "own" /\ st[p] = "alive"
                                        THEN "killed" ELSE st[p]
<1>1. {p \in S : sp[p] = "foreign"} = {}
  BY SafeFacts
<1>2. foreign' = {}
  BY <1>1, SafeFacts DEF KillHeld
<1> DEFINE T == {p \in S : sp[p] = "own"}
<1>3. st' = Signalled(T) /\ \A p \in Procs : p \in T <=> p \in S /\ sp[p] = "own"
  BY DEF KillHeld
<1> HIDE DEF T
<1> QED
  BY <1>2, <1>3, SafeFacts, SignalledFacts

LEMMA WaitsFacts ==
    ASSUME TypeOK, NEW x \in Tasks, NEW v \in Waiting, waits' = [waits EXCEPT ![x] = v]
    PROVE  /\ waits' \in [Tasks -> Waiting]
           /\ \A y \in Tasks : waits'[y] = IF y = x THEN v ELSE waits[y]
BY DEF TypeOK, Waiting

LEMMA KillAtOnceFacts ==
    ASSUME SafeInv, KillAtOnce
    PROVE  /\ KillIsOver /\ foreign' = {} /\ st' \in [Procs -> Strings]
           /\ \A p \in Procs : \/ st'[p] = st[p]
                               \/ p = "outer" /\ st[p] = "alive" /\ st'[p] = "killed"
BY SafeFacts, KillHeldFacts DEF KillAtOnce

LEMMA KillBeginsFacts ==
    ASSUME SafeInv, NEW x \in Tasks, KillBegins(x)
    PROVE  /\ sp.init = "own" /\ foreign' = {} /\ st' \in [Procs -> Strings]
           /\ st'["init"] # "alive"
           /\ \A p \in Procs : st'[p] = st[p] \/ (st[p] = "alive" /\ st'[p] = "killed")
           /\ waits' \in [Tasks -> Waiting] /\ waits'[x] = "waiting"
           /\ \A y \in Tasks : y # x => waits'[y] = waits[y]
           /\ fd' \in FdRow /\ fd'.open = fd.open /\ fd'.closing = fd.closing /\ fd'.waiting
<1> USE SafeFacts
<1>1. sp.init = "own"
  BY DEF KillBegins, KillIsOver, TypeOK, SpRow, Handle
<1>2. /\ foreign' = {} /\ st' \in [Procs -> Strings]
      /\ \A p \in Procs : st'[p] = IF p \in {"outer", "init"} /\ sp[p] = "own" /\ st[p] = "alive"
                                   THEN "killed" ELSE st[p]
  BY KillHeldFacts DEF KillBegins
<1>3. waits' = [waits EXCEPT ![x] = "waiting"] /\ fd' = [fd EXCEPT !.waiting = TRUE, !.reader = x]
  BY DEF KillBegins, WaitExit
<1>4. fd' \in FdRow /\ fd'.open = fd.open /\ fd'.closing = fd.closing /\ fd'.waiting
  BY <1>3 DEF TypeOK, FdRow
<1>5. waits' \in [Tasks -> Waiting] /\ \A y \in Tasks : waits'[y] = IF y = x THEN "waiting" ELSE waits[y]
  BY <1>3, WaitsFacts DEF Waiting
<1>6. sp["init"] = sp.init /\ "init" \in Procs
  BY DEF Procs
<1> QED
  BY <1>1, <1>2, <1>4, <1>5, <1>6

LEMMA VerdictFacts ==
    ASSUME SafeInv, NEW x \in Tasks
    PROVE  /\ Verdict(x) \in SpRow /\ Verdict(x).made = sp.made
           /\ Verdict(x).outer = sp.outer /\ Verdict(x).init = sp.init
           /\ Verdict(x).dead => sp.dead \/ (fd.open /\ waits[x] = "exited")
<1>1. sp \in SpRow
  BY DEF SafeInv, TypeOK
<1>2. (IF fd.open THEN waits[x] = "exited" ELSE sp.dead) \in BOOLEAN
  BY <1>1 DEF SpRow
<1> QED
  BY <1>1, <1>2 DEF SpRow, Verdict

LEMMA KillReturnedFacts ==
    ASSUME TypeOK, Killing, NEW r \in BOOLEAN, KillReturned(r)
    PROVE  /\ ctl' \in CtlRow /\ runner' \in RunnerRow /\ runner'.pc = runner.pc
           /\ ctl'.pc \notin {"wait", "grace"}
           /\ ctl'.pc = "finish" => r
<1>1. CASE ctl.pc = "kill"
  BY <1>1, GotoFacts, CancelRunnerFacts DEF KillReturned
<1>2. CASE ctl.pc = "verify"
  BY <1>2, GotoFacts, CancelRunnerFacts DEF KillReturned
<1>3. CASE ctl.pc = "endkill"
  BY <1>3, GotoFacts, CancelRunnerFacts DEF KillReturned
<1> QED
  BY <1>1, <1>2, <1>3 DEF Killing

LEMMA SpawnTypes == ASSUME SafeInv, SpawnRest PROVE
    /\ UNCHANGED <<armed, held, pid, up>> /\ stopped' \in BOOLEAN /\ outcome' \in BOOLEAN
    /\ ctl' \in CtlRow /\ ctl' = ctl
BY DEF SpawnRest, SafeInv, TypeOK

LEMMA RunnerTypes == ASSUME SafeInv, RunnerRest PROVE
    /\ UNCHANGED <<armed, held, pid, up>> /\ stopped' \in BOOLEAN /\ outcome' \in BOOLEAN
    /\ ctl' \in CtlRow /\ ctl' = ctl /\ lost' \in BOOLEAN
BY SpawnTypes DEF RunnerRest, SafeInv, TypeOK

LEMMA SpawnSafe ==
    ASSUME SafeInv, Spawn
    PROVE  SafeInv'
<1> USE SafeFacts
<1>0. /\ "abort" \in Threads /\ "term" \in Threads
      /\ \A x \in SpRow : [x EXCEPT !.outer = "none"] \in SpRow /\ [x EXCEPT !.outer = "own"] \in SpRow
      /\ sp \in SpRow /\ fd \in FdRow /\ waits \in [Tasks -> Waiting]
  BY DEF Threads, TypeOK, SpRow, Handle, Waiting
<1>1. CASE SpawnFails \/ AbortSwept
  <2>1. /\ runner.pc \in Before /\ runner' \in RunnerRow /\ runner'.pc \in {"done", "reap"}
        /\ UNCHANGED <<st, sweep, sp, fd, waits, foreign>> /\ RunnerRest
    <3>1. CASE SpawnFails
      BY <3>1, RunnerRows DEF SpawnFails, Runner, NoKill, Before
    <3>2. CASE AbortSwept
      BY <3>2, RunnerRows DEF AbortSwept, Steps, Runner, NoKill, Before
    <3> QED
      BY <1>1, <3>1, <3>2
  <2>2. FdKept'
    BY <2>1 DEF SafeInv, FdKept
  <2> QED
    BY <2>1, <2>2, <1>0, RunnerTypes, TaskSafe DEF Lists
<1>2. CASE SpawnOuter
  <2>1. st' \in [Procs -> Strings]
    BY <1>2 DEF SpawnOuter, Strings
  <2>2. /\ runner.pc \in Before /\ runner' \in RunnerRow /\ runner'.pc = "status"
        /\ UNCHANGED <<sweep, fd, waits, foreign>> /\ RunnerRest
    BY <1>2 DEF SpawnOuter, Before, TypeOK, RunnerRow
  <2>3. sp' = [sp EXCEPT !.outer = "own"] \/ sp' = sp
    BY <1>2 DEF SpawnOuter
  <2>4. sp' \in SpRow /\ sp'.made = sp.made /\ sp'.dead = sp.dead /\ sp'.init = sp.init /\ sp'.outer # "foreign"
    BY <1>0, <2>3 DEF SpRow
  <2>5. FdKept'
    BY <2>2, <2>4 DEF SafeInv, FdKept
  <2> QED
    BY <2>1, <2>2, <2>4, <2>5, <1>0, RunnerTypes, TaskSafe DEF Lists
<1>3. CASE SpawnReady
  <2>1. PICK h \in OpenMarked("init") :
          /\ sp' = [sp EXCEPT !.made = TRUE, !.init = h]
          /\ fd' = [fd EXCEPT !.open = h # "none"]
          /\ lost' = (lost \/ (h = "none" /\ EnvironHas("init")))
    BY <1>3, Zenon DEF SpawnReady
  <2>2. h \in {"own", "none"}
    BY DEF OpenMarked
  <2>3. /\ runner.pc = "status" /\ runner' \in RunnerRow /\ runner'.pc \in {"stop", "run"}
        /\ UNCHANGED <<st, waits, foreign>> /\ SpawnRest /\ Lists("term")
    BY <1>3, RunnerRows DEF SpawnReady, Steps, Runner, Lists
  <2>4. ~sp.made /\ sp.init = "none" /\ fd = NoFd
    BY <2>3 DEF SafeInv, FdKept, Before
  <2>5. sp' \in SpRow /\ sp'.made /\ sp'.init = h /\ sp'.outer = sp.outer
    BY <1>0, <2>1, <2>2 DEF SpRow, Handle
  <2>6. /\ fd' \in FdRow /\ fd'.reader = "none" /\ ~fd'.closing
        /\ h # "none" => fd'.open
    BY <1>0, <2>1, <2>2, <2>4 DEF FdRow, NoFd
  <2>7. FdKept'
    BY <2>2, <2>3, <2>5, <2>6 DEF FdKept, Before
  <2> QED
    BY <2>1, <2>2, <2>3, <2>5, <2>6, <2>7, <1>0, SpawnTypes, TaskSafe
<1>4. CASE Abort
  <2>1. /\ runner.pc \in Before /\ runner' \in RunnerRow /\ runner'.pc = "sweep" /\ Lists("abort")
        /\ st' = Signalled({"outer"}) /\ UNCHANGED <<sp, fd, waits, foreign>> /\ RunnerRest
    BY <1>4, RunnerRows DEF Abort, Runner, NoKill, Before, Lists
  <2>2. FdKept'
    BY <2>1 DEF SafeInv, FdKept
  <2> QED
    BY <2>1, <2>2, <1>0, SignalledFacts, RunnerTypes, TaskSafe
<1>5. CASE AbortEnds
  <2>1. /\ runner.pc \in Before /\ runner' \in RunnerRow /\ runner'.pc = "done"
        /\ UNCHANGED <<st, sweep, fd, waits, foreign>> /\ RunnerRest
        /\ sp' = [sp EXCEPT !.outer = "none"]
    BY <1>5, RunnerRows DEF AbortEnds, Steps, Runner, Before
  <2>2. sp' \in SpRow /\ sp'.made = sp.made /\ sp'.dead = sp.dead /\ sp'.init = sp.init /\ sp'.outer = "none"
    BY <1>0, <2>1 DEF SpRow
  <2>3. FdKept'
    BY <2>1, <2>2 DEF SafeInv, FdKept
  <2> QED
    BY <2>1, <2>2, <2>3, <1>0, RunnerTypes, TaskSafe DEF Lists
<1> QED
  BY <1>1, <1>2, <1>3, <1>4, <1>5 DEF Spawn

\* The flag of a sandbox that is taken for dead.
LEMMA FlagFacts ==
    ASSUME SafeInv
    PROVE  LET d == [sp EXCEPT !.dead = TRUE]
           IN  d \in SpRow /\ d.dead /\ d.made = sp.made /\ d.init = sp.init /\ d.outer = sp.outer
BY DEF SafeInv, TypeOK, SpRow

\* The wait of task x is over, and _close_fds follows on the flags s.
LEMMA ClosedSafe ==
    ASSUME SafeInv, NEW s \in SpRow, s.made = sp.made, s.init = sp.init,
           NEW f \in {fd, WaitOver(fd)}, CloseFds(s, f)
    PROVE  /\ sp' \in SpRow /\ sp'.made = sp.made /\ sp'.dead = s.dead /\ sp'.outer = "none"
           /\ sp'.init = IF s.dead THEN "none" ELSE sp.init
           /\ fd' \in FdRow
           /\ runner'.pc \notin Before => FdKept'
<1> USE SafeFacts
<1>1. fd \in FdRow /\ FdSound(fd)
  BY DEF TypeOK
<1>2. f \in FdRow /\ FdSound(f) /\ (sp.init # "none" => f.open /\ ~f.closing)
  BY <1>1, WaitOverFacts DEF FdSound, SafeInv, FdKept
<1>3. ~sp.made => sp.init = "none" /\ f = NoFd
  BY <1>1, WaitOverFacts DEF SafeInv, FdKept, NoFd
<1>4. /\ sp' \in SpRow /\ sp'.made = sp.made /\ sp'.dead = s.dead /\ sp'.outer = "none"
      /\ sp'.init = IF s.dead THEN "none" ELSE sp.init
      /\ fd' \in FdRow /\ FdSound(fd')
      /\ s.init = "none" \/ ~s.dead => fd' = f
  BY <1>2, CloseFdsFacts
<1>5. ASSUME runner'.pc \notin Before PROVE FdKept'
  BY <1>2, <1>3, <1>4, <1>5 DEF FdKept, FdSound
<1> QED
  BY <1>4, <1>5

LEMMA RunSafe ==
    ASSUME SafeInv, Run \/ \E x \in Tasks : ExitSeen(x)
    PROVE  SafeInv'
<1> USE SafeFacts
<1>0. /\ "term" \in Threads /\ "run" \in Tasks /\ sp \in SpRow /\ fd \in FdRow
      /\ waits \in [Tasks -> Waiting]
  BY DEF Threads, Tasks, TypeOK, Waiting
<1>1. CASE LateStopSent
  <2>1. /\ runner.pc = "stop" /\ runner' \in RunnerRow /\ runner'.pc \in {"done", "run"}
        /\ UNCHANGED <<st, sweep, sp, fd, waits, foreign>> /\ RunnerRest
    BY <1>1, RunnerRows DEF LateStopSent, Runner, NoKill
  <2>2. FdKept'
    BY <2>1 DEF SafeInv, FdKept, Before
  <2> QED
    BY <2>1, <2>2, <1>0, RunnerTypes, TaskSafe DEF Lists
<1>2. CASE RunEnds
  <2>1. /\ runner' \in RunnerRow /\ runner'.pc = "done"
        /\ UNCHANGED <<st, sweep, waits, foreign>> /\ RunnerRest
        /\ CloseFds([sp EXCEPT !.dead = TRUE], fd)
    BY <1>2, RunnerRows DEF RunEnds, Runner
  <2>2. sp' \in SpRow /\ fd' \in FdRow /\ sp'.outer = "none" /\ sp'.init = "none" /\ FdKept'
    BY <2>1, FlagFacts, ClosedSafe DEF Before
  <2> QED
    BY <2>1, <2>2, <1>0, RunnerTypes, TaskSafe DEF Lists
<1>3. CASE RunBreaks
  <2>1. CASE KillAtOnce /\ CloseFds([sp EXCEPT !.dead = TRUE], fd) /\ Runner("done") /\ UNCHANGED waits
    <3>1. runner' \in RunnerRow /\ runner'.pc = "done" /\ UNCHANGED sweep /\ RunnerRest
      BY <1>3, <2>1, RunnerRows DEF RunBreaks, Runner
    <3>2. sp' \in SpRow /\ fd' \in FdRow /\ sp'.outer = "none" /\ sp'.init = "none" /\ FdKept'
      BY <2>1, <3>1, FlagFacts, ClosedSafe DEF Before
    <3> QED
      BY <2>1, <3>1, <3>2, <1>0, KillAtOnceFacts, RunnerTypes, TaskSafe DEF Lists
  <2>2. CASE KillBegins("run") /\ Runner("kill") /\ UNCHANGED sp
    <3>1. runner' \in RunnerRow /\ runner'.pc = "kill" /\ UNCHANGED sweep /\ RunnerRest
      BY <1>3, <2>2, RunnerRows DEF RunBreaks, Runner
    <3>2. FdKept'
      BY <2>2, <3>1, <1>0, KillBeginsFacts DEF SafeInv, FdKept, Before
    <3> QED
      BY <2>2, <3>1, <3>2, <1>0, KillBeginsFacts, RunnerTypes, TaskSafe DEF Lists
  <2> QED
    BY <1>3, <2>1, <2>2 DEF RunBreaks
<1>4. CASE RunKilled
  <2> DEFINE s == IF runner.cancel THEN sp ELSE Verdict("run")
  <2>1. /\ runner' \in RunnerRow /\ runner'.pc = "done"
        /\ UNCHANGED <<st, sweep, foreign>> /\ RunnerRest
        /\ CloseFds(s, WaitOver(fd)) /\ waits' = [waits EXCEPT !["run"] = "none"]
    BY <1>4, RunnerRows DEF RunKilled, Runner, Waited
  <2>2. s \in SpRow /\ s.made = sp.made /\ s.init = sp.init
    BY <1>0, VerdictFacts
  <2> HIDE DEF s
  <2>3. /\ sp' \in SpRow /\ fd' \in FdRow /\ sp'.outer = "none" /\ sp'.init \in {"none", sp.init}
        /\ FdKept'
    BY <2>1, <2>2, ClosedSafe DEF Before
  <2>4. waits' \in [Tasks -> Waiting]
    BY <2>1, <1>0, WaitsFacts DEF Waiting
  <2> QED
    BY <2>1, <2>3, <2>4, <1>0, RunnerTypes, TaskSafe DEF Lists
<1>5. ASSUME NEW x \in Tasks, ExitSeen(x) PROVE SafeInv'
  <2>1. /\ waits' = [waits EXCEPT ![x] = "exited"] /\ waits[x] # "none"
        /\ UNCHANGED <<kernel, up, runner, stopped, sp, fd, ctl, outcome, lost, sweep, foreign>>
    BY <1>5 DEF ExitSeen
  <2>2. waits' \in [Tasks -> Waiting]
    BY <2>1, WaitsFacts DEF Waiting
  <2>3. FdKept'
    BY <2>1 DEF SafeInv, FdKept
  <2>4. /\ UNCHANGED <<armed, held, pid, up>> /\ lost' \in BOOLEAN /\ stopped' \in BOOLEAN /\ outcome' \in BOOLEAN
        /\ ctl' \in CtlRow /\ runner' \in RunnerRow /\ sp' = sp /\ fd' = fd /\ st' = st
        /\ foreign' = {} /\ Lists("term")
    BY <2>1 DEF kernel, TypeOK, Lists
  <2> QED
    BY <2>2, <2>3, <2>4, <1>0, TaskSafe
<1> QED
  BY <1>1, <1>2, <1>3, <1>4, <1>5 DEF Run

\* The steps of the controller that only move it on, and may cancel the runner.
Quiet == \/ RunnerFirst \/ GraceOver \/ KillWaitOver \/ CancelWaitOver
         \/ KillWaitsForSpawn \/ KillSpawnTimeout \/ EndWaitOver
LEMMA QuietFacts ==
    ASSUME SafeInv, Quiet
    PROVE  /\ NoCall /\ CtlRest /\ ctl' \in CtlRow /\ ctl'.pc \notin {"wait", "grace", "finish"}
           /\ runner' \in RunnerRow /\ runner'.pc = runner.pc
<1> USE SafeFacts
<1>1. CASE RunnerFirst \/ CancelWaitOver \/ EndWaitOver
  <2>1. (Goto("verify") \/ Goto("settled")) /\ UNCHANGED runner /\ NoCall /\ CtlRest
    BY <1>1 DEF RunnerFirst, CancelWaitOver, EndWaitOver
  <2> QED
    BY <2>1, GotoFacts, CancelRunnerFacts
<1>2. CASE GraceOver
  BY <1>2, GotoFacts, CancelRunnerFacts DEF GraceOver
<1>3. CASE KillWaitOver
  BY <1>3, GotoFacts, CancelRunnerFacts DEF KillWaitOver
<1>4. CASE KillWaitsForSpawn
  <2>1. ctl' \in CtlRow /\ ctl'.pc = ctl.pc
    BY <1>4 DEF KillWaitsForSpawn, TypeOK, CtlRow
  <2> QED
    BY <1>4, <2>1, CancelRunnerFacts DEF KillWaitsForSpawn, Killing
<1>5. CASE KillSpawnTimeout
  BY <1>5, KillReturnedFacts DEF KillSpawnTimeout
<1> QED
  BY <1>1, <1>2, <1>3, <1>4, <1>5 DEF Quiet

\* The three ways on for kill() once no spawn is in flight.
LEMMA KillNowFacts ==
    ASSUME SafeInv, KillNow
    PROVE  /\ ctl' \in CtlRow /\ runner' \in RunnerRow /\ runner'.pc = runner.pc /\ ~Spawning
           /\ UNCHANGED <<sweep, stopped, outcome>> /\ CtlRest
           /\ ctl'.pc \notin {"wait", "grace"}
           /\ \/ ~sp.made /\ UNCHANGED <<st, sp, fd, waits, foreign>>
              \/ /\ sp.made /\ KillAtOnce /\ sp' = [sp EXCEPT !.dead = TRUE] /\ UNCHANGED <<fd, waits>>
              \/ /\ sp.made /\ KillBegins("ctl") /\ UNCHANGED sp /\ ctl'.pc # "finish"
<1> USE SafeFacts
<1>0. Killing /\ ~Spawning /\ UNCHANGED <<sweep, stopped, outcome>> /\ CtlRest
  BY DEF KillNow
<1>1. CASE ~sp.made /\ KillReturned(TRUE) /\ UNCHANGED <<st, sp, fd, waits, foreign>>
  BY <1>0, <1>1, KillReturnedFacts
<1>2. CASE /\ sp.made /\ KillAtOnce /\ sp' = [sp EXCEPT !.dead = TRUE]
           /\ KillReturned(TRUE) /\ UNCHANGED <<fd, waits>>
  BY <1>0, <1>2, KillReturnedFacts
<1>3. CASE /\ sp.made /\ KillBegins("ctl") /\ ctl' = [ctl EXCEPT !.call = "exit"]
           /\ UNCHANGED <<sp, runner>>
  <2>1. ctl' \in CtlRow /\ ctl'.pc = ctl.pc /\ runner' \in RunnerRow /\ runner'.pc = runner.pc
    BY <1>3 DEF TypeOK, CtlRow
  <2> QED
    BY <1>0, <1>3, <2>1 DEF Killing
<1> QED
  BY <1>1, <1>2, <1>3 DEF KillNow

\* The end of kill()'s wait: the flags follow what was seen.
LEMMA KillEndsFacts ==
    ASSUME SafeInv, KillEnds
    PROVE  /\ ctl' \in CtlRow /\ runner' \in RunnerRow /\ runner'.pc = runner.pc
           /\ UNCHANGED <<st, foreign, sweep, stopped, outcome>> /\ CtlRest
           /\ ctl'.pc \notin {"wait", "grace"}
           /\ ctl'.pc = "finish" => waits["ctl"] = "exited"
           /\ waits["ctl"] # "none" /\ waits' = [waits EXCEPT !["ctl"] = "none"]
           /\ \/ CloseFds(Verdict("ctl"), WaitOver(fd))
              \/ sp' = Verdict("ctl") /\ fd' = WaitOver(fd)
<1> USE SafeFacts
<1>0. /\ Killing /\ UNCHANGED <<st, foreign, sweep, stopped, outcome>> /\ CtlRest
      /\ waits["ctl"] # "none" /\ waits' = [waits EXCEPT !["ctl"] = "none"]
      /\ \/ CloseFds(Verdict("ctl"), WaitOver(fd))
         \/ sp' = Verdict("ctl") /\ fd' = WaitOver(fd)
  BY Zenon DEF KillEnds, Waited
<1>1. CASE fd.open
  <2>1. KillReturned(waits["ctl"] = "exited")
    BY <1>1 DEF KillEnds
  <2>2. CASE waits["ctl"] = "exited"
    <3>1. KillReturned(TRUE)
      BY <2>1, <2>2
    <3> QED
      BY <1>0, <2>2, <3>1, KillReturnedFacts
  <2>3. CASE waits["ctl"] # "exited"
    <3>1. KillReturned(FALSE)
      BY <2>1, <2>3
    <3> QED
      BY <1>0, <2>3, <3>1, KillReturnedFacts
  <2> QED
    BY <2>2, <2>3
<1>2. CASE ~fd.open
  <2>1. Goto(IF ctl.pc = "endkill" THEN "settled" ELSE "endkill") /\ UNCHANGED runner
    BY <1>2 DEF KillEnds
  <2>2. Goto("settled") \/ Goto("endkill")
    BY <2>1
  <2> QED
    BY <1>0, <2>1, <2>2, GotoFacts, CancelRunnerFacts
<1> QED
  BY <1>1, <1>2

LEMMA StopFirstFacts ==
    ASSUME SafeInv, StopFirst
    PROVE  /\ ctl' \in CtlRow /\ ctl.pc = "wait" /\ ctl'.pc = "grace" /\ stopped' = TRUE /\ Lists("term")
           /\ UNCHANGED <<st, sp, fd, waits, foreign, outcome, runner>> /\ CtlRest
BY SafeFacts, GotoFacts DEF StopFirst, At, Lists

LEMMA CtlCancelledFacts ==
    ASSUME SafeInv, CtlCancelled
    PROVE  /\ ctl' \in CtlRow /\ ctl'.pc = "endkill"
           /\ UNCHANGED <<st, sp, foreign, sweep, stopped, outcome, runner>> /\ CtlRest
           /\ \/ /\ waits["ctl"] # "none" /\ waits' = [waits EXCEPT !["ctl"] = "none"]
                 /\ fd' = WaitOver(fd)
              \/ UNCHANGED <<fd, waits>>
BY DEF CtlCancelled, Waited, CtlRow

LEMMA ControllerSafe ==
    ASSUME SafeInv, ControllerMoves \/ StopFirst \/ CtlCancelled
    PROVE  SafeInv'
<1> USE SafeFacts
<1>0. /\ "term" \in Threads /\ "ctl" \in Tasks /\ sp \in SpRow /\ fd \in FdRow
      /\ waits \in [Tasks -> Waiting] /\ stopped \in BOOLEAN /\ outcome \in BOOLEAN /\ lost \in BOOLEAN
      /\ runner \in RunnerRow
  BY DEF Threads, Tasks, TypeOK, Waiting
<1>1. CASE Quiet
  <2>1. FdKept'
    BY <1>1, QuietFacts DEF NoCall, SafeInv, FdKept
  <2> QED
    BY <1>1, <2>1, <1>0, QuietFacts, TaskSafe DEF NoCall, CtlRest, Lists
<1>2. CASE KillNow
  <2>0. CtlRest /\ UNCHANGED <<sweep, stopped, outcome>> /\ ctl' \in CtlRow /\ runner' \in RunnerRow
    BY <1>2, KillNowFacts
  <2>1. CASE UNCHANGED <<st, sp, fd, waits, foreign>>
    <3>1. FdKept'
      BY <1>2, <2>1, KillNowFacts DEF SafeInv, FdKept
    <3> QED
      BY <2>0, <2>1, <3>1, <1>0, TaskSafe DEF CtlRest, Lists
  <2>2. CASE sp.made /\ KillAtOnce /\ sp' = [sp EXCEPT !.dead = TRUE] /\ UNCHANGED <<fd, waits>>
    <3>1. sp' \in SpRow /\ sp'.made = sp.made /\ sp'.outer = sp.outer /\ sp'.init = sp.init
      BY <2>2, FlagFacts
    <3>2. FdKept'
      BY <1>2, <2>2, <3>1, KillNowFacts DEF SafeInv, FdKept, Spawning, Before
    <3> QED
      BY <2>0, <2>2, <3>1, <3>2, <1>0, KillAtOnceFacts, TaskSafe DEF CtlRest, Lists
  <2>3. CASE sp.made /\ KillBegins("ctl") /\ UNCHANGED sp
    <3>1. FdKept'
      BY <1>2, <2>3, <1>0, KillNowFacts, KillBeginsFacts DEF SafeInv, FdKept, Spawning, Before
    <3> QED
      BY <2>0, <2>3, <3>1, <1>0, KillBeginsFacts, TaskSafe DEF CtlRest, Lists
  <2> QED
    BY <1>2, <2>1, <2>2, <2>3, KillNowFacts
<1>3. CASE KillEnds
  <2>0. /\ CtlRest /\ UNCHANGED <<st, foreign, sweep, stopped, outcome>> /\ ctl' \in CtlRow
        /\ runner' \in RunnerRow /\ runner'.pc = runner.pc /\ waits["ctl"] # "none"
        /\ waits' = [waits EXCEPT !["ctl"] = "none"]
    BY <1>3, KillEndsFacts
  <2>1. waits' \in [Tasks -> Waiting] /\ runner'.pc \notin Before
    BY <2>0, <1>0, WaitsFacts DEF Waiting, SafeInv, FdKept
  <2>2. Verdict("ctl") \in SpRow /\ Verdict("ctl").made = sp.made /\ Verdict("ctl").init = sp.init
        /\ Verdict("ctl").outer = sp.outer
    BY <1>0, VerdictFacts
  <2>3. sp' \in SpRow /\ fd' \in FdRow /\ sp'.outer # "foreign" /\ sp'.init # "foreign" /\ FdKept'
    <3>1. CASE CloseFds(Verdict("ctl"), WaitOver(fd))
      BY <2>1, <2>2, <3>1, ClosedSafe
    <3>2. CASE sp' = Verdict("ctl") /\ fd' = WaitOver(fd)
      BY <1>0, <2>1, <2>2, <3>2, WaitOverFacts DEF SafeInv, FdKept, NoFd
    <3> QED
      BY <1>3, <3>1, <3>2, KillEndsFacts
  <2> QED
    BY <2>0, <2>1, <2>3, <1>0, TaskSafe DEF CtlRest, Lists
<1>4. CASE WriteOutcome
  <2>1. ctl' \in CtlRow
    BY <1>4, GotoFacts DEF WriteOutcome
  <2>2. FdKept'
    BY <1>4 DEF WriteOutcome, SafeInv, FdKept
  <2> QED
    BY <1>4, <2>1, <2>2, <1>0, TaskSafe DEF WriteOutcome, CtlRest, Lists
<1>5. CASE StopFirst
  <2>1. FdKept'
    BY <1>5, StopFirstFacts DEF SafeInv, FdKept
  <2> QED
    BY <1>5, <2>1, <1>0, StopFirstFacts, TaskSafe DEF CtlRest
<1>6. CASE CtlCancelled
  <2>1. CASE waits["ctl"] # "none" /\ waits' = [waits EXCEPT !["ctl"] = "none"] /\ fd' = WaitOver(fd)
    <3>1. waits' \in [Tasks -> Waiting] /\ runner.pc \notin Before
      BY <2>1, <1>0, WaitsFacts DEF Waiting, SafeInv, FdKept
    <3>2. fd' \in FdRow
      BY <2>1, <1>0, WaitOverFacts
    <3>3. FdKept'
      BY <1>6, <2>1, <3>1, <1>0, CtlCancelledFacts, WaitOverFacts DEF SafeInv, FdKept, NoFd
    <3> QED
      BY <1>6, <3>1, <3>2, <3>3, <1>0, CtlCancelledFacts, TaskSafe DEF CtlRest, Lists
  <2>2. CASE UNCHANGED <<fd, waits>>
    <3>1. FdKept'
      BY <1>6, <2>2, CtlCancelledFacts DEF SafeInv, FdKept
    <3> QED
      BY <1>6, <2>2, <3>1, <1>0, CtlCancelledFacts, TaskSafe DEF CtlRest, Lists
  <2> QED
    BY <1>6, <2>1, <2>2, CtlCancelledFacts
<1> QED
  BY <1>1, <1>2, <1>3, <1>4, <1>5, <1>6 DEF ControllerMoves, Quiet

LEMMA SafeInit == Init => SafeInv
<1> SUFFICES ASSUME Init PROVE SafeInv
  OBVIOUS
<1>1. TypeOK
  BY DEF Init, TypeOK, NoSweep, SweepRow, Handle, RunnerRow, SpRow, FdRow, CtlRow, NoHandles, NoFd
<1>2. PinsKnown /\ NoForeignSignal /\ FdKept
  BY DEF Init, PinsKnown, NoForeignSignal, FdKept, NoSweep, NoHandles, NoFd, Procs
<1> QED
  BY <1>1, <1>2 DEF SafeInv

LEMMA SafeNext == SafeInv /\ [Next]_vars => SafeInv'
<1> SUFFICES ASSUME SafeInv, [Next]_vars PROVE SafeInv'
  OBVIOUS
<1>1. CASE Next
  BY <1>1, EnvironmentSafe, SweepsSafe, SpawnSafe, RunSafe, ControllerSafe DEF Next
<1>2. CASE UNCHANGED vars
  BY <1>2 DEF vars, kernel, worker, SafeInv, TypeOK, PinsKnown, NoForeignSignal, FdKept
<1> QED
  BY <1>1, <1>2

LEMMA SafeAlways == Spec => []SafeInv
BY SafeInit, SafeNext, PTL DEF Spec

\* Every variable of the sandbox holds a value of its kind, whatever fails.
THEOREM SandboxTypes == Spec => []TypeOK
<1>1. SafeInv => TypeOK
  BY DEF SafeInv
<1> QED
  BY <1>1, SafeAlways, PTL

\* No recycled pid is ever signalled, by _kill_marked, by scavenge_orphans or
\* through a pidfd: not even when descriptors run out between the steps.
THEOREM SignalsOwn == Spec => []NoForeignSignal
<1>1. SafeInv => NoForeignSignal
  BY DEF SafeInv
<1> QED
  BY <1>1, SafeAlways, PTL

\* Two wait_exit calls on one Pidfd never leave a reader on a closed descriptor.
THEOREM ReadersOpen == Spec => []ReaderOpen
<1>1. SafeInv => ReaderOpen
  BY DEF SafeInv, FdKept, ReaderOpen
<1> QED
  BY <1>1, SafeAlways, PTL

-----------------------------------------------------------------------------
(* KillInv is inductive, whatever the faults.                              *)

LEMMA GivenUpStays ==
    ASSUME SafeInv, GivenUp, runner'.pc = runner.pc, sp'.made = sp.made, lost => lost'
    PROVE  GivenUp'
BY DEF GivenUp, Done

\* A step of the runner or of the controller.
LEMMA TaskKill ==
    ASSUME SafeInv, KillInv, UNCHANGED <<pid, up>>,
           st'["init"] = st["init"] \/ (st["init"] = "alive" /\ st'["init"] = "killed"),
           lost => lost',
           sp'.made => st'["init"] # "none",
           sp'.made /\ ~lost' /\ Believed' => st'["init"] # "alive",
           Lists("term") \/ (Lists("abort") /\ GivenUp'),
           GivenUp => GivenUp',
           ctl'.pc \in {"wait", "grace"} => ctl.pc \in {"wait", "grace"},
           st'["outer"] = "killed" =>
             \/ st["outer"] = "killed" \/ GivenUp' \/ ctl'.pc \notin {"wait", "grace"}
             \/ st'["init"] # "alive",
           runner'.pc \in {"stop", "run", "kill"} => sp'.made
    PROVE  KillInv'
<1>1. /\ sweep \in [Threads -> SweepRow] /\ "term" \in Threads /\ "abort" \in Threads
      /\ "scavenge" \in Threads /\ ListSweep.pc \notin Procs /\ ListSweep.todo = {}
  BY SweepRows DEF SafeInv, TypeOK, Threads, Procs
<1>2. /\ \A t \in Threads : sweep'[t] = sweep[t] \/ (t \in {"term", "abort"} /\ sweep'[t] = ListSweep)
      /\ sweep'["abort"] = sweep["abort"] \/ GivenUp'
      /\ sweep'["scavenge"] = sweep["scavenge"]
  BY <1>1 DEF Lists
<1>3. /\ \A t \in Threads : sweep'[t].pc \in Procs => sweep'[t].pc \in sweep'[t].todo
      /\ sweep'["term"].todo \subseteq {"cmd"}
      /\ sweep'["abort"].pc # "idle" => GivenUp' \/ ~up'
      /\ sweep'["scavenge"].pc # "idle" => ~up'
  BY <1>1, <1>2 DEF KillInv
<1>4. (pid["init"] = "foreign" => st["init"] = "dead")'
  BY DEF KillInv
<1>5. (Early /\ st["outer"] = "killed" /\ st["init"] = "alive" => GivenUp)'
  BY DEF KillInv, Early
<1> QED
  BY <1>3, <1>4, <1>5 DEF KillInv

LEMMA KernelKill ==
    ASSUME SafeInv, KillInv, External,
           st["init"] = "dead" => st'["init"] = "dead",
           st["init"] # "none" => st'["init"] # "none",
           st'["init"] = "alive" => \/ st["init"] = "alive"
                                    \/ st["init"] = "none" /\ st'["outer"] # "killed",
           st'["outer"] = "killed" => st["outer"] = "killed"
    PROVE  KillInv'
<1>1. UNCHANGED <<pid, up, runner, sp, fd, waits, ctl, lost, sweep>>
  BY DEF External, worker
<1>2. GivenUp' <=> GivenUp
  BY <1>1 DEF GivenUp, Done
<1>3. Early' <=> Early
  BY <1>1 DEF Early
<1>4. Believed' <=> Believed
  BY <1>1 DEF Believed
<1> QED
  BY <1>1, <1>2, <1>3, <1>4 DEF KillInv

LEMMA EnvironmentKill ==
    ASSUME SafeInv, KillInv, Environment
    PROVE  KillInv'
<1> USE SafeFacts
<1>0. "outer" \in Procs /\ "init" \in Procs /\ "cmd" \in Procs /\ st \in [Procs -> Strings]
  BY DEF Procs
<1>1. CASE BwrapForks
  <2>1. st'["init"] = "alive" /\ st'["outer"] = st["outer"]
    BY <1>0, <1>1 DEF BwrapForks
  <2> QED
    BY <1>1, <2>1, KernelKill DEF BwrapForks
<1>2. CASE BwrapGivesUp
  BY <1>0, <1>2, DiedFacts, KernelKill DEF BwrapGivesUp
<1>3. CASE InitArms
  BY <1>3, KernelKill DEF InitArms
<1>4. CASE CommandStarts
  <2>1. st'["init"] = st["init"] /\ st'["outer"] = st["outer"]
    BY <1>0, <1>4 DEF CommandStarts
  <2> QED
    BY <1>4, <2>1, KernelKill DEF CommandStarts
<1>5. CASE NamespaceEnds
  <2>1. st'["init"] = st["init"] /\ st'["outer"] = st["outer"]
    BY <1>0, <1>5, SignalledFacts DEF NamespaceEnds
  <2> QED
    BY <1>5, <2>1, KernelKill DEF NamespaceEnds
<1>6. ASSUME NEW p \in Procs, Ends(p) \/ Released(p) PROVE KillInv'
  <2>1. st' = Died(p) /\ External
    BY <1>6 DEF Ends, Released
  <2>2. /\ st["init"] = "dead" => st'["init"] = "dead"
        /\ st["init"] # "none" => st'["init"] # "none"
        /\ st'["init"] = "alive" => st["init"] = "alive"
        /\ st'["outer"] = "killed" => st["outer"] = "killed"
    BY <1>0, <2>1, DiedFacts
  <2> QED
    BY <2>1, <2>2, KernelKill
<1>7. ASSUME NEW p \in Procs \cup {"worker"}, Recycled(p) PROVE KillInv'
  <2>1. UNCHANGED <<st, up, runner, sp, fd, waits, ctl, lost, sweep>>
    BY <1>7 DEF Recycled, worker
  <2>2. (GivenUp' <=> GivenUp) /\ (Early' <=> Early) /\ (Believed' <=> Believed)
    BY <2>1 DEF GivenUp, Done, Early, Believed
  <2>3. (pid["init"] = "foreign" => st["init"] = "dead")'
    BY <1>7, <1>0 DEF Recycled, TypeOK, KillInv, worker
  <2> QED
    BY <2>1, <2>2, <2>3 DEF KillInv
<1>8. CASE Crash
  <2>1. /\ ~up' /\ ~sp'.made /\ runner'.pc = "done" /\ pid' = pid /\ lost' = lost
        /\ st' = Signalled({"outer"}) /\ sweep' = [t \in Threads |-> NoSweep]
    BY <1>8 DEF Crash, NoHandles
  <2>2. st'["init"] = st["init"]
    BY <1>0, <2>1, SignalledFacts
  <2> QED
    BY <2>1, <2>2, SweepRows DEF KillInv, Early, Threads, Procs
<1>9. CASE CommandDetaches
  <2>1. UNCHANGED <<st, pid, up, runner, sp, fd, waits, ctl, lost, sweep>>
    BY <1>9 DEF CommandDetaches, worker
  <2>2. (GivenUp' <=> GivenUp) /\ (Early' <=> Early) /\ (Believed' <=> Believed)
    BY <2>1 DEF GivenUp, Done, Early, Believed
  <2> QED
    BY <2>1, <2>2 DEF KillInv
<1> QED
  BY <1>1, <1>2, <1>3, <1>4, <1>5, <1>6, <1>7, <1>8, <1>9 DEF Environment

\* A step of a thread: the row r is the next of thread t.
LEMMA SweepKill ==
    ASSUME SafeInv, KillInv, NEW t \in Threads, NEW r,
           sweep' = [sweep EXCEPT ![t] = r], UNCHANGED <<pid, worker>>,
           r.pc \in Procs => r.pc \in r.todo,
           t = "term" => r.todo \subseteq {"cmd"},
           r.pc # "idle" => sweep[t].pc # "idle" \/ (t = "scavenge" /\ ~up),
           \/ st' = st
           \/ \E p \in Procs : /\ sweep[t].pc = p /\ st' = Signalled({p})
                               /\ t = "term" => p \notin {"outer", "init"}
    PROVE  KillInv'
<1>0. /\ "outer" \in Procs /\ "init" \in Procs /\ sweep \in [Threads -> SweepRow]
      /\ "term" \in Threads /\ "abort" \in Threads /\ "scavenge" \in Threads /\ TypeOK
  BY DEF Procs, Threads, SafeInv, TypeOK
<1>1. UNCHANGED <<pid, up, runner, sp, fd, waits, ctl, lost>>
  BY DEF worker
<1>2. (GivenUp' <=> GivenUp) /\ (Early' <=> Early) /\ (Believed' <=> Believed)
  BY <1>1 DEF GivenUp, Done, Early, Believed
<1>3. \A u \in Threads : sweep'[u] = IF u = t THEN r ELSE sweep[u]
  BY <1>0
<1>4. /\ st'["init"] = st["init"] \/ (st["init"] = "alive" /\ st'["init"] = "killed")
      /\ st'["outer"] = st["outer"] \/ (t # "term" /\ sweep[t].pc = "outer")
  <2>1. ASSUME NEW p \in Procs, sweep[t].pc = p, st' = Signalled({p}),
               t = "term" => p \notin {"outer", "init"}
        PROVE  <1>4!1 /\ <1>4!2
    <3>1. \A q \in Procs : st'[q] = IF q \in {p} /\ st[q] = "alive" THEN "killed" ELSE st[q]
      BY <1>0, <2>1, SignalledFacts
    <3> QED
      BY <1>0, <2>1, <3>1
  <2> QED
    BY <2>1
<1>5. t # "term" /\ sweep[t].pc # "idle" => GivenUp \/ ~up
  BY DEF KillInv, Threads
<1>6. (Early /\ st["outer"] = "killed" /\ st["init"] = "alive" => GivenUp)'
  BY <1>1, <1>2, <1>4, <1>5 DEF KillInv, Early
<1>7. /\ (\A u \in Threads : sweep[u].pc \in Procs => sweep[u].pc \in sweep[u].todo)'
      /\ (sweep["term"].todo \subseteq {"cmd"})'
      /\ (sweep["abort"].pc # "idle" => GivenUp \/ ~up)'
      /\ (sweep["scavenge"].pc # "idle" => ~up)'
  BY <1>0, <1>1, <1>2, <1>3 DEF KillInv
<1> QED
  BY <1>1, <1>2, <1>4, <1>6, <1>7 DEF KillInv

LEMMA SweepsKill ==
    ASSUME SafeInv, KillInv, ScavengeStart \/ \E t \in Threads : Sweeping(t)
    PROVE  KillInv'
<1> USE SafeFacts
<1>1. CASE ScavengeStart
  <2>1. "scavenge" \in Threads /\ ListSweep.pc \notin Procs
    BY SweepRows DEF Threads, Procs
  <2> QED
    BY <1>1, <2>1, SweepKill, SweepRows DEF ScavengeStart, kernel, IsWorkerAlive
<1>2. ASSUME NEW t \in Threads, SweepList(t) PROVE KillInv'
  <2> DEFINE r == [pc |-> "open", todo |-> {p \in Procs : EnvironHas(p)} \ Excluded(t), pin |-> "none"]
  <2>1. r.pc \notin Procs /\ (t = "term" => r.todo \subseteq {"cmd"})
    BY DEF Procs, Excluded
  <2>2. sweep' = [sweep EXCEPT ![t] = r] /\ sweep[t].pc # "idle"
    BY <1>2 DEF SweepList
  <2> HIDE DEF r
  <2> QED
    BY <1>2, <2>1, <2>2, SweepKill DEF SweepList, kernel
<1>3. ASSUME NEW t \in Threads, SweepOpen(t) PROVE KillInv'
  <2>1. PICK p \in sweep[t].todo :
          /\ sweep[t].pc = "open"
          /\ \/ sweep' = [sweep EXCEPT ![t] = [sweep[t] EXCEPT !.pc = p, !.pin = pid[p]]]
             \/ sweep' = [sweep EXCEPT ![t] = [sweep[t] EXCEPT !.todo = sweep[t].todo \ {p}]]
          /\ UNCHANGED <<kernel, worker, foreign>>
    BY <1>3 DEF SweepOpen
  <2> DEFINE r == [sweep[t] EXCEPT !.pc = p, !.pin = pid[p]]
             s == [sweep[t] EXCEPT !.todo = sweep[t].todo \ {p}]
  <2>2. sweep[t] \in SweepRow
    BY DEF TypeOK
  <2>3. r.pc = p /\ r.todo = sweep[t].todo /\ s.pc = "open" /\ s.todo \subseteq sweep[t].todo
    BY <2>1, <2>2 DEF SweepRow
  <2>4. sweep' = [sweep EXCEPT ![t] = r] \/ sweep' = [sweep EXCEPT ![t] = s]
    BY <2>1
  <2>5. "open" \notin Procs
    BY DEF Procs
  <2>6. t = "term" => sweep[t].todo \subseteq {"cmd"}
    BY DEF KillInv
  <2> HIDE DEF r, s
  <2> QED
    BY <2>1, <2>3, <2>4, <2>5, <2>6, SweepKill DEF kernel
<1>4. ASSUME NEW t \in Threads, SweepSignal(t) PROVE KillInv'
  <2> DEFINE p == sweep[t].pc
             r == [pc |-> "open", todo |-> sweep[t].todo \ {p}, pin |-> "none"]
  <2>1. p \in Procs /\ sweep' = [sweep EXCEPT ![t] = r] /\ p # "idle"
    BY <1>4 DEF SweepSignal, Procs
  <2>2. r.pc \notin Procs /\ r.todo \subseteq sweep[t].todo
    BY DEF Procs
  <2>3. t = "term" => sweep[t].todo \subseteq {"cmd"} /\ p = "cmd"
    BY <2>1 DEF KillInv
  <2>4. st' = st \/ st' = Signalled({p})
    BY <1>4 DEF SweepSignal, Delivered
  <2> HIDE DEF r
  <2> QED
    BY <1>4, <2>1, <2>2, <2>3, <2>4, SweepKill DEF SweepSignal
<1>5. ASSUME NEW t \in Threads, SweepEnd(t) PROVE KillInv'
  <2>1. NoSweep.pc \notin Procs
    BY SweepRows DEF Procs
  <2> QED
    BY <1>5, <2>1, SweepKill, SweepRows DEF SweepEnd, kernel
<1> QED
  BY <1>1, <1>2, <1>3, <1>4, <1>5 DEF Sweeping

LEMMA SpawnKill ==
    ASSUME SafeInv, SafeInv', KillInv, Spawn
    PROVE  KillInv'
<1> USE SafeFacts
<1>0. /\ "outer" \in Procs /\ "init" \in Procs /\ st \in [Procs -> Strings] /\ sp \in SpRow
      /\ (Spawning <=> runner.pc \in Before)
  BY DEF Procs, TypeOK, Spawning, Before
<1>1. CASE SpawnFails \/ AbortSwept \/ AbortEnds
  <2>1. /\ UNCHANGED <<st, pid, up, lost, sweep, ctl>> /\ runner'.pc \in {"done", "reap"}
        /\ runner.pc \in Before /\ sp'.made = sp.made
    <3>1. CASE SpawnFails
      BY <3>1 DEF SpawnFails, Runner, NoKill, RunnerRest, SpawnRest, Before
    <3>2. CASE AbortSwept
      BY <3>2 DEF AbortSwept, Steps, Runner, NoKill, RunnerRest, SpawnRest, Before
    <3>3. CASE AbortEnds
      BY <1>0, <3>3 DEF AbortEnds, Steps, Runner, RunnerRest, SpawnRest, Before, SpRow
    <3> QED
      BY <1>1, <3>1, <3>2, <3>3
  <2>2. ~sp.made /\ ~sp'.made
    BY <2>1 DEF SafeInv, FdKept
  <2>3. GivenUp'
    BY <2>1, <2>2 DEF GivenUp, Done
  <2> QED
    BY <2>1, <2>2, <2>3, TaskKill DEF Lists
<1>2. CASE SpawnOuter
  <2>1. /\ UNCHANGED <<pid, up, lost, sweep, ctl>> /\ runner'.pc = "status" /\ runner.pc = "exec"
        /\ sp'.made = sp.made
    BY <1>0, <1>2 DEF SpawnOuter, RunnerRest, SpawnRest, SpRow, TypeOK, RunnerRow
  <2>2. st'["init"] = st["init"] /\ st'["outer"] = "alive"
    BY <1>0, <1>2 DEF SpawnOuter
  <2>3. ~sp.made /\ ~GivenUp
    BY <2>1 DEF SafeInv, FdKept, Before, GivenUp, Done
  <2> QED
    BY <2>1, <2>2, <2>3, TaskKill DEF Lists
<1>3. CASE SpawnReady
  <2>1. PICK h \in OpenMarked("init") :
          /\ sp' = [sp EXCEPT !.made = TRUE, !.init = h]
          /\ lost' = (lost \/ (h = "none" /\ EnvironHas("init")))
    BY <1>3, Zenon DEF SpawnReady
  <2>2. sp'.made /\ sp'.dead = sp.dead /\ sp'.init = h
    BY <1>0, <2>1 DEF SpRow
  <2>3. /\ UNCHANGED <<st, pid, up, ctl, waits>> /\ runner'.pc \in {"stop", "run"} /\ Lists("term")
        /\ runner.pc = "status" /\ st["init"] # "none"
    BY <1>3 DEF SpawnReady, Steps, Runner, RunnerRest, SpawnRest, Lists
  <2>4. ~sp.dead /\ (\A x \in Tasks : waits[x] = "none") /\ ~GivenUp
    BY <2>3 DEF SafeInv, FdKept, Before, GivenUp, Done
  <2>5. h = "none" => st["init"] # "alive" \/ EnvironHas("init")
    BY <1>0, <2>3 DEF EnvironHas, KillInv, TypeOK, Strings
  <2>6. (lost => lost') /\ (h = "none" /\ EnvironHas("init") => lost')
    BY <2>1, Zenon
  <2>7. ~lost' /\ Believed' => st'["init"] # "alive"
    BY <2>2, <2>3, <2>4, <2>5, <2>6 DEF Believed
  <2> QED
    BY <2>2, <2>3, <2>4, <2>6, <2>7, TaskKill
<1>4. CASE Abort
  <2>1. /\ UNCHANGED <<sp, pid, up, lost, ctl>> /\ runner'.pc = "sweep" /\ Lists("abort")
        /\ runner.pc = "status" /\ st' = Signalled({"outer"})
    BY <1>4 DEF Abort, Runner, NoKill, RunnerRest, SpawnRest, Lists
  <2>2. st'["init"] = st["init"] /\ ~sp.made /\ GivenUp'
    BY <1>0, <2>1, SignalledFacts DEF SafeInv, FdKept, Before, GivenUp
  <2> QED
    BY <2>1, <2>2, TaskKill
<1> QED
  BY <1>1, <1>2, <1>3, <1>4 DEF Spawn

\* After a kill, or the close that follows it.
LEMMA BelievedStays ==
    ASSUME SafeInv, KillInv, sp.made,
           NEW x \in Tasks, NEW v \in {"none", "waiting"},
           sp'.dead => Believed, sp'.init = sp.init \/ sp'.dead,
           waits' = waits \/ waits' = [waits EXCEPT ![x] = v], Believed'
    PROVE  Believed
<1>1. waits \in [Tasks -> Waiting]
  BY DEF SafeInv, TypeOK, Waiting
<1>2. \A y \in Tasks : waits'[y] = "exited" => waits[y] = "exited"
  BY <1>1
<1> QED
  BY <1>2 DEF Believed

LEMMA RunKill ==
    ASSUME SafeInv, SafeInv', KillInv, Run \/ \E x \in Tasks : ExitSeen(x)
    PROVE  KillInv'
<1> USE SafeFacts
<1>0. /\ "outer" \in Procs /\ "init" \in Procs /\ st \in [Procs -> Strings] /\ "run" \in Tasks
      /\ sp \in SpRow /\ waits \in [Tasks -> Waiting]
  BY DEF Procs, Tasks, TypeOK, Waiting
<1>1. CASE LateStopSent
  <2>1. /\ UNCHANGED <<st, pid, up, lost, sp, waits, sweep, ctl>> /\ runner.pc = "stop"
        /\ runner'.pc \in {"done", "run"} /\ (Believed' <=> Believed)
    BY <1>1 DEF LateStopSent, Runner, NoKill, RunnerRest, SpawnRest, Believed
  <2>2. sp.made /\ ~GivenUp
    BY <2>1 DEF KillInv, GivenUp, Done
  <2> QED
    BY <2>1, <2>2, TaskKill DEF Lists, KillInv
<1>2. CASE RunEnds
  <2>1. /\ UNCHANGED <<st, pid, up, lost, waits, sweep, ctl>> /\ runner.pc = "run" /\ runner'.pc = "done"
        /\ CloseFds([sp EXCEPT !.dead = TRUE], fd) /\ st["init"] \in {"killed", "dead"}
    BY <1>2 DEF RunEnds, Steps, Runner, RunnerRest, SpawnRest, Eof
  <2>2. sp.made /\ ~GivenUp
    BY <2>1 DEF KillInv, GivenUp, Done
  <2> QED
    BY <2>1, <2>2, TaskKill DEF Lists
<1>3. CASE RunBreaks
  <2>1. UNCHANGED <<pid, up, lost, sweep, ctl>> /\ runner.pc = "run"
    BY <1>3 DEF RunBreaks, RunnerRest, SpawnRest
  <2>2. sp.made /\ ~GivenUp /\ st["init"] # "none"
    BY <2>1 DEF KillInv, GivenUp, Done
  <2>3. CASE KillAtOnce /\ CloseFds([sp EXCEPT !.dead = TRUE], fd) /\ Runner("done") /\ UNCHANGED waits
    <3>1. Believed /\ runner'.pc = "done" /\ st'["init"] = st["init"]
      BY <1>0, <2>3, KillAtOnceFacts DEF KillIsOver, Believed, Runner
    <3>2. st["init"] # "alive" \/ lost
      BY <2>2, <3>1 DEF KillInv
    <3>3. lost => GivenUp'
      BY <2>1, <3>1 DEF GivenUp, Done
    <3> QED
      BY <2>1, <2>2, <3>1, <3>2, <3>3, TaskKill DEF Lists
  <2>4. CASE KillBegins("run") /\ Runner("kill") /\ UNCHANGED sp
    <3>1. runner'.pc = "kill" /\ st'["init"] # "alive"
      BY <1>0, <2>4, KillBeginsFacts DEF Runner
    <3>2. st'["init"] = st["init"] \/ (st["init"] = "alive" /\ st'["init"] = "killed")
      BY <1>0, <2>4, KillBeginsFacts
    <3> QED
      BY <2>1, <2>2, <2>4, <3>1, <3>2, TaskKill DEF Lists
  <2> QED
    BY <1>3, <2>3, <2>4 DEF RunBreaks
<1>4. CASE RunKilled
  <2> DEFINE s == IF runner.cancel THEN sp ELSE Verdict("run")
  <2>1. /\ UNCHANGED <<st, pid, up, lost, sweep, ctl>> /\ runner.pc = "kill" /\ runner'.pc = "done"
        /\ CloseFds(s, WaitOver(fd)) /\ waits' = [waits EXCEPT !["run"] = "none"]
    BY <1>4 DEF RunKilled, Runner, Waited, RunnerRest, SpawnRest
  <2>2. /\ s \in SpRow /\ s.made = sp.made /\ s.init = sp.init
        /\ s.dead => sp.dead \/ waits["run"] = "exited"
    BY <1>0, VerdictFacts
  <2> HIDE DEF s
  <2>3. sp'.made = sp.made /\ sp'.dead = s.dead /\ (sp'.init = sp.init \/ sp'.dead)
    BY <2>1, <2>2, ClosedSafe
  <2>4. sp.made /\ ~GivenUp
    BY <2>1 DEF KillInv, GivenUp, Done
  <2>5. sp'.dead => Believed
    BY <2>2, <2>3, <1>0 DEF Believed
  <2>6. Believed' => Believed
    BY <2>1, <2>3, <2>4, <2>5, <1>0, BelievedStays
  <2> QED
    BY <2>1, <2>3, <2>4, <2>6, TaskKill DEF Lists, KillInv
<1>5. ASSUME NEW x \in Tasks, ExitSeen(x) PROVE KillInv'
  <2>1. UNCHANGED <<st, pid, up, lost, sp, runner, sweep, ctl>> /\ st["init"] = "dead" /\ (GivenUp => GivenUp')
    BY <1>5 DEF ExitSeen, kernel, GivenUp, Done
  <2> QED
    BY <2>1, TaskKill DEF Lists, KillInv
<1> QED
  BY <1>1, <1>2, <1>3, <1>4, <1>5 DEF Run

LEMMA ControllerKill ==
    ASSUME SafeInv, SafeInv', KillInv, ControllerMoves \/ StopFirst \/ CtlCancelled
    PROVE  KillInv'
<1> USE SafeFacts
<1>0. /\ "outer" \in Procs /\ "init" \in Procs /\ st \in [Procs -> Strings] /\ "ctl" \in Tasks
      /\ sp \in SpRow /\ waits \in [Tasks -> Waiting]
  BY DEF Procs, Tasks, TypeOK, Waiting
<1>1. CASE Quiet \/ WriteOutcome \/ StopFirst
  <2>1. /\ UNCHANGED <<st, pid, up, lost, sp, waits>> /\ runner'.pc = runner.pc /\ Lists("term")
        /\ ctl'.pc \in {"wait", "grace"} => ctl.pc \in {"wait", "grace"}
    <3>1. CASE Quiet
      BY <3>1, QuietFacts DEF NoCall, CtlRest, Lists
    <3>2. CASE WriteOutcome
      BY <3>2, GotoFacts DEF WriteOutcome, CtlRest, Lists
    <3>3. CASE StopFirst
      BY <3>3, StopFirstFacts DEF CtlRest
    <3> QED
      BY <1>1, <3>1, <3>2, <3>3
  <2>2. (GivenUp => GivenUp') /\ (Believed' => Believed)
    BY <2>1 DEF GivenUp, Done, Believed
  <2> QED
    BY <2>1, <2>2, TaskKill DEF KillInv
<1>2. CASE KillNow
  <2>1. /\ UNCHANGED <<pid, up, lost, sweep>> /\ runner'.pc = runner.pc
        /\ ctl'.pc \notin {"wait", "grace"}
    BY <1>2, KillNowFacts DEF CtlRest
  <2>2. sp'.made = sp.made
    BY <1>0, <1>2, KillNowFacts, FlagFacts
  <2>3. GivenUp => GivenUp'
    BY <2>1, <2>2, GivenUpStays
  <2>4. CASE UNCHANGED <<st, sp, fd, waits, foreign>>
    <3>1. Believed' => Believed
      BY <2>4 DEF Believed
    <3> QED
      BY <2>1, <2>3, <2>4, <3>1, TaskKill DEF Lists, KillInv
  <2>5. CASE sp.made /\ KillAtOnce /\ sp' = [sp EXCEPT !.dead = TRUE] /\ UNCHANGED <<fd, waits>>
    <3>1. Believed /\ st'["init"] = st["init"]
      BY <1>0, <2>5, KillAtOnceFacts DEF KillIsOver, Believed
    <3> QED
      BY <2>1, <2>2, <2>3, <2>5, <3>1, TaskKill DEF Lists, KillInv
  <2>6. CASE sp.made /\ KillBegins("ctl") /\ UNCHANGED sp
    <3>1. /\ st'["init"] # "alive"
          /\ st'["init"] = st["init"] \/ (st["init"] = "alive" /\ st'["init"] = "killed")
      BY <1>0, <2>6, KillBeginsFacts
    <3> QED
      BY <2>1, <2>3, <2>6, <3>1, TaskKill DEF Lists, KillInv
  <2> QED
    BY <1>2, <2>4, <2>5, <2>6, KillNowFacts
<1>3. CASE KillEnds
  <2>1. /\ UNCHANGED <<st, pid, up, lost, sweep>> /\ runner'.pc = runner.pc
        /\ ctl'.pc \notin {"wait", "grace"} /\ waits' = [waits EXCEPT !["ctl"] = "none"]
    BY <1>3, KillEndsFacts DEF CtlRest
  <2>2. /\ Verdict("ctl") \in SpRow /\ Verdict("ctl").made = sp.made /\ Verdict("ctl").init = sp.init
        /\ Verdict("ctl").dead => sp.dead \/ waits["ctl"] = "exited"
    BY <1>0, VerdictFacts
  <2>3. sp'.made = sp.made /\ sp'.dead = Verdict("ctl").dead /\ (sp'.init = sp.init \/ sp'.dead)
    <3>1. CASE CloseFds(Verdict("ctl"), WaitOver(fd))
      BY <2>2, <3>1, ClosedSafe
    <3>2. CASE sp' = Verdict("ctl")
      BY <2>2, <3>2
    <3> QED
      BY <1>3, <3>1, <3>2, KillEndsFacts
  <2>4. sp'.dead => Believed
    BY <2>2, <2>3, <1>0 DEF Believed
  <2>5. sp'.made /\ Believed' => Believed
    BY <2>1, <2>3, <2>4, <1>0, BelievedStays
  <2>6. GivenUp => GivenUp'
    BY <2>1, <2>3, GivenUpStays
  <2> QED
    BY <2>1, <2>3, <2>5, <2>6, TaskKill DEF Lists, KillInv
<1>4. CASE CtlCancelled
  <2>1. /\ UNCHANGED <<st, pid, up, lost, sweep, sp, runner>> /\ ctl'.pc = "endkill"
        /\ waits' = waits \/ waits' = [waits EXCEPT !["ctl"] = "none"]
    BY <1>4, CtlCancelledFacts DEF CtlRest
  <2>2. (GivenUp => GivenUp') /\ (sp'.made /\ Believed' => Believed)
    BY <2>1, <1>0 DEF GivenUp, Done, Believed
  <2> QED
    BY <2>1, <2>2, TaskKill DEF Lists, KillInv
<1> QED
  BY <1>1, <1>2, <1>3, <1>4 DEF ControllerMoves, Quiet

LEMMA KillInit == Init => KillInv
BY DEF Init, KillInv, NoSweep, NoHandles, Procs, Threads, Early

LEMMA KillNext == SafeInv /\ SafeInv' /\ KillInv /\ [Next]_vars => KillInv'
<1> SUFFICES ASSUME SafeInv, SafeInv', KillInv, [Next]_vars PROVE KillInv'
  OBVIOUS
<1>1. CASE Next
  BY <1>1, EnvironmentKill, SweepsKill, SpawnKill, RunKill, ControllerKill DEF Next
<1>2. CASE UNCHANGED vars
  BY <1>2 DEF vars, kernel, worker, KillInv, GivenUp, Done, Early, Believed
<1> QED
  BY <1>1, <1>2

\* Who sends the init its SIGKILL, or leaves it to die with its parent.
LEMMA GraceNext ==
    ASSUME SafeInv, KillInv, [Next]_vars
    PROVE  GraceStep
<1> SUFFICES ASSUME Next, st["init"] = "alive", st'["init"] = "killed" PROVE GraceStep
  BY DEF vars, kernel, GraceStep
<1> USE SafeFacts
<1>0. /\ "outer" \in Procs /\ "init" \in Procs /\ "cmd" \in Procs /\ st \in [Procs -> Strings]
      /\ "ctl" \in Tasks /\ "run" \in Tasks
  BY DEF Procs, Tasks
<1>1. CASE Environment
  <2>1. ASSUME NEW p \in Procs, Ends(p) \/ Released(p) PROVE GraceStep
    <3>1. st' = Died(p) /\ up' = up
      BY <2>1 DEF Ends, Released, External, worker
    <3>2. p = "outer"
      BY <1>0, <3>1, DiedFacts
    <3>3. st["outer"] = "killed"
      BY <2>1, <3>2 DEF Ends, Released
    <3> QED
      BY <3>1, <3>3 DEF KillInv, Early, GivenUp, GraceStep
  <2>2. CASE Crash
    BY <2>2 DEF Crash, GraceStep
  <2>3. CASE BwrapForks \/ BwrapGivesUp \/ InitArms \/ NamespaceEnds
    BY <1>0, <2>3, SignalledFacts DEF BwrapForks, BwrapGivesUp, InitArms, NamespaceEnds
  <2>4. CASE CommandStarts
    BY <1>0, <2>4 DEF CommandStarts
  <2>5. ASSUME NEW p \in Procs \cup {"worker"}, Recycled(p) PROVE GraceStep
    BY <2>5 DEF Recycled
  <2>6. CASE CommandDetaches
    BY <2>6 DEF CommandDetaches
  <2> QED
    BY <1>1, <2>1, <2>2, <2>3, <2>4, <2>5, <2>6 DEF Environment
<1>2. CASE ScavengeStart \/ \E t \in Threads : Sweeping(t)
  <2>1. PICK t \in Threads : SweepSignal(t)
    BY <1>2 DEF Sweeping, ScavengeStart, SweepList, SweepOpen, SweepEnd, kernel
  <2> DEFINE p == sweep[t].pc
  <2>2. p \in Procs /\ up' = up /\ (st' = st \/ (st' = Signalled({p}) /\ ~(t = "term" /\ p = "cmd")))
    BY <2>1 DEF SweepSignal, Delivered, worker
  <2>3. p = "init"
    BY <1>0, <2>2, SignalledFacts
  <2>4. t # "term" /\ p # "idle"
    BY <2>3, <2>2 DEF KillInv
  <2>5. GivenUp \/ ~up
    BY <2>4 DEF KillInv, Threads
  <2> QED
    BY <2>2, <2>5 DEF GraceStep, GivenUp
<1>3. CASE Spawn
  <2>1. CASE SpawnOuter
    BY <1>0, <2>1 DEF SpawnOuter
  <2>2. CASE Abort
    BY <1>0, <2>2, SignalledFacts DEF Abort
  <2> QED
    BY <1>3, <2>1, <2>2 DEF Spawn, SpawnFails, SpawnReady, AbortSwept, AbortEnds
<1>4. CASE Run \/ \E x \in Tasks : ExitSeen(x)
  <2>1. CASE RunBreaks
    BY <1>0, <2>1, KillAtOnceFacts DEF RunBreaks, Runner, GraceStep
  <2> QED
    BY <1>4, <2>1 DEF Run, LateStopSent, RunEnds, RunKilled, ExitSeen, kernel
<1>5. CASE ControllerMoves \/ StopFirst \/ CtlCancelled
  <2>1. CASE Quiet
    BY <2>1, QuietFacts DEF NoCall
  <2>2. CASE KillNow
    BY <2>2 DEF KillNow, Killing, GraceStep
  <2> QED
    BY <1>5, <2>1, <2>2 DEF ControllerMoves, Quiet, KillEnds, WriteOutcome, StopFirst, CtlCancelled
<1> QED
  BY <1>1, <1>2, <1>3, <1>4, <1>5 DEF Next

\* A graceful stop is graceful, whatever the faults: nothing takes down a recorded
\* sandbox whose controller still waits, but a runner that breaks.
THEOREM GraceKept == Spec => GraceRespected
<1>1. SafeInv /\ KillInv /\ [Next]_vars => [GraceStep]_vars
  BY GraceNext
<1>2. Init => SafeInv /\ KillInv
  BY SafeInit, KillInit
<1>3. SafeInv /\ KillInv /\ [Next]_vars => (SafeInv /\ KillInv)'
  BY SafeNext, KillNext
<1> QED
  BY <1>1, <1>2, <1>3, PTL DEF Spec, GraceRespected

-----------------------------------------------------------------------------
(* DeadInv is inductive, whatever the faults.                              *)

LEMMA DeadStays ==
    ASSUME TypeOK, Killed, UNCHANGED held,
           \A p \in {"init", "cmd"} : st'[p] = st[p] \/ (st[p] = "alive" /\ st'[p] = "killed")
    PROVE  Killed'
BY DEF Killed, Gone

\* A step of the runner, of the controller or of a thread.
LEMMA TaskDead ==
    ASSUME SafeInv, KillInv, DeadInv, UNCHANGED held, lost => lost',
           \A p \in {"init", "cmd"} : st'[p] = st[p] \/ (st[p] = "alive" /\ st'[p] = "killed"),
           sp'.made /\ ~lost' /\ Believed' => Killed \/ Killed',
           Outcome' => Outcome \/ (runner'.pc \notin Before /\ (sp'.made /\ ~lost' => Killed \/ Killed')),
           runner.pc \notin Before => runner'.pc \notin Before /\ sp'.made = sp.made
    PROVE  DeadInv'
<1>1. Killed => Killed'
  BY SafeFacts, DeadStays
<1>2. (st["init"] = "dead" => Gone("cmd"))'
  BY DEF DeadInv, Gone
<1>3. OutcomeKilled' /\ (Outcome => runner.pc \notin Before)'
  BY <1>1 DEF DeadInv, OutcomeKilled
<1> QED
  BY <1>1, <1>2, <1>3 DEF DeadInv

LEMMA EnvironmentDead ==
    ASSUME SafeInv, KillInv, DeadInv, Environment
    PROVE  DeadInv'
<1> USE SafeFacts
<1>0. "outer" \in Procs /\ "init" \in Procs /\ "cmd" \in Procs /\ st \in [Procs -> Strings]
  BY DEF Procs
<1>1. ASSUME External, (st["init"] = "dead" => Gone("cmd"))',
             st["init"] # "none" /\ Killed => Killed'
      PROVE  DeadInv'
  <2>1. UNCHANGED <<held, runner, sp, waits, ctl, outcome, lost>>
    BY <1>1 DEF External, worker
  <2>2. (Believed' <=> Believed) /\ (Outcome' <=> Outcome)
    BY <2>1 DEF Believed, Outcome
  <2> QED
    BY <1>1, <2>1, <2>2 DEF DeadInv, OutcomeKilled, KillInv
<1>2. CASE BwrapForks
  <2>1. st["init"] = "none" /\ st'["init"] = "alive"
    BY <1>0, <1>2 DEF BwrapForks
  <2> QED
    BY <1>1, <1>2, <2>1 DEF BwrapForks
<1>3. CASE BwrapGivesUp
  <2>1. st["init"] = "none" /\ st'["init"] = "none"
    BY <1>0, <1>3, DiedFacts DEF BwrapGivesUp
  <2> QED
    BY <1>1, <1>3, <2>1 DEF BwrapGivesUp
<1>4. CASE InitArms
  BY <1>1, <1>4 DEF InitArms, DeadInv, Gone, Killed
<1>5. CASE CommandStarts
  <2>1. st["init"] = "alive" /\ st'["init"] = "alive"
    BY <1>0, <1>5 DEF CommandStarts
  <2> QED
    BY <1>1, <1>5, <2>1 DEF CommandStarts, Killed
<1>6. CASE NamespaceEnds
  <2>1. st["cmd"] = "alive" /\ st["init"] = "killed" /\ st'["init"] = "killed"
    BY <1>0, <1>6, SignalledFacts DEF NamespaceEnds
  <2> QED
    BY <1>1, <1>6, <2>1 DEF NamespaceEnds, External, Killed, Gone
<1>7. ASSUME NEW p \in Procs, Ends(p) \/ Released(p) PROVE DeadInv'
  <2>1. st' = Died(p) /\ External /\ (p = "init" => Gone("cmd"))
    BY <1>7 DEF Ends, Released
  <2>2. /\ st'["init"] = "dead" => st["init"] = "dead" \/ p = "init"
        /\ st'["init"] = "alive" => st["init"] = "alive"
        /\ st'["cmd"] \in {st["cmd"], "dead"}
    BY <1>0, <2>1, DiedFacts
  <2>3. Gone("cmd") => Gone("cmd")'
    BY <2>2 DEF Gone
  <2> QED
    BY <1>1, <2>1, <2>2, <2>3 DEF External, Killed, DeadInv
<1>8. ASSUME NEW p \in Procs \cup {"worker"}, Recycled(p) PROVE DeadInv'
  <2>1. UNCHANGED <<st, held, runner, sp, waits, ctl, outcome, lost>>
    BY <1>8 DEF Recycled, worker
  <2> QED
    BY <2>1 DEF DeadInv, OutcomeKilled, Believed, Outcome, Killed, Gone
<1>9. CASE Crash
  <2>1. /\ ~sp'.made /\ runner'.pc = "done" /\ st' = Signalled({"outer"})
    BY <1>9 DEF Crash, NoHandles
  <2>2. st'["init"] = st["init"] /\ st'["cmd"] = st["cmd"]
    BY <1>0, <2>1, SignalledFacts
  <2> QED
    BY <2>1, <2>2 DEF DeadInv, OutcomeKilled, Gone, Before
<1>10. CASE CommandDetaches
  <2>1. UNCHANGED <<st, runner, sp, waits, ctl, outcome, lost>> /\ held' = FALSE
    BY <1>10 DEF CommandDetaches, worker
  <2> QED
    BY <2>1 DEF DeadInv, OutcomeKilled, Believed, Outcome, Killed, Gone
<1> QED
  BY <1>2, <1>3, <1>4, <1>5, <1>6, <1>7, <1>8, <1>9, <1>10 DEF Environment

LEMMA SweepsDead ==
    ASSUME SafeInv, KillInv, DeadInv, ScavengeStart \/ \E t \in Threads : Sweeping(t)
    PROVE  DeadInv'
<1> USE SafeFacts
<1>0. "init" \in Procs /\ "cmd" \in Procs /\ st \in [Procs -> Strings]
  BY DEF Procs
<1>1. UNCHANGED <<held, worker>> /\ (st' = st \/ \E p \in Procs : st' = Signalled({p}))
  BY DEF Sweeping, ScavengeStart, SweepList, SweepOpen, SweepEnd, SweepSignal, Delivered, kernel
<1>2. \A p \in {"init", "cmd"} : st'[p] = st[p] \/ (st[p] = "alive" /\ st'[p] = "killed")
  <2>1. ASSUME NEW q \in Procs, st' = Signalled({q}) PROVE <1>2
    BY <1>0, <2>1, SignalledFacts
  <2> QED
    BY <1>1, <2>1
<1>3. UNCHANGED <<held, runner, sp, waits, ctl, outcome, lost>>
  BY <1>1 DEF worker
<1>4. (Believed' <=> Believed) /\ (Outcome' <=> Outcome)
  BY <1>3 DEF Believed, Outcome
<1> QED
  BY <1>2, <1>3, <1>4, TaskDead DEF DeadInv

LEMMA SpawnDead ==
    ASSUME SafeInv, SafeInv', KillInv, KillInv', DeadInv, Spawn
    PROVE  DeadInv'
<1> USE SafeFacts
<1>0. /\ "init" \in Procs /\ "cmd" \in Procs /\ st \in [Procs -> Strings] /\ sp \in SpRow
  BY DEF Procs, TypeOK
<1>1. /\ runner.pc \in Before /\ (Outcome' <=> Outcome) /\ UNCHANGED held
      /\ \A p \in {"init", "cmd"} : st'[p] = st[p] \/ (st[p] = "alive" /\ st'[p] = "killed")
  <2>1. CASE SpawnFails \/ AbortSwept \/ AbortEnds \/ SpawnReady
    <3>1. st' = st /\ SpawnRest
      BY <2>1 DEF SpawnFails, AbortSwept, AbortEnds, SpawnReady, RunnerRest
    <3>2. runner.pc \in {"exec", "status", "sweep", "reap"}
      BY <2>1 DEF SpawnFails, AbortSwept, AbortEnds, SpawnReady, Steps
    <3> QED
      BY <3>1, <3>2 DEF SpawnRest, Before, Outcome
  <2>2. CASE SpawnOuter
    BY <1>0, <2>2 DEF SpawnOuter, RunnerRest, SpawnRest, Before, Outcome
  <2>3. CASE Abort
    BY <1>0, <2>3, SignalledFacts DEF Abort, RunnerRest, SpawnRest, Before, Outcome
  <2> QED
    BY <2>1, <2>2, <2>3 DEF Spawn
<1>2. CASE SpawnReady
  <2>1. PICK h \in OpenMarked("init") :
          /\ sp' = [sp EXCEPT !.made = TRUE, !.init = h]
          /\ lost' = (lost \/ (h = "none" /\ EnvironHas("init")))
    BY <1>2, Zenon DEF SpawnReady
  <2>2. sp'.made /\ sp'.dead = sp.dead /\ sp'.init = h
    BY <1>0, <2>1 DEF SpRow
  <2>3. UNCHANGED <<st, waits>> /\ st["init"] # "none"
    BY <1>2 DEF SpawnReady
  <2>4. ~sp.dead /\ (\A x \in Tasks : waits[x] = "none")
    BY <1>1 DEF SafeInv, FdKept
  <2>5. h = "none" => st["init"] = "dead" \/ EnvironHas("init")
    BY <1>0, <2>3 DEF EnvironHas, KillInv, TypeOK, Strings
  <2>6. (lost => lost') /\ (h = "none" /\ EnvironHas("init") => lost')
    BY <2>1, Zenon
  <2>7. ~lost' /\ Believed' => Killed
    BY <2>2, <2>3, <2>4, <2>5, <2>6 DEF Believed, DeadInv, Killed
  <2> QED
    BY <1>1, <2>6, <2>7, TaskDead
<1>3. CASE SpawnFails \/ AbortSwept \/ AbortEnds \/ SpawnOuter \/ Abort
  <2>0. lost' = lost
    BY <1>3 DEF SpawnFails, AbortSwept, AbortEnds, SpawnOuter, Abort, RunnerRest
  <2>1. sp'.made = sp.made
    <3>1. CASE AbortEnds \/ SpawnOuter
      BY <1>0, <3>1 DEF AbortEnds, SpawnOuter, SpRow
    <3> QED
      BY <1>3, <3>1 DEF SpawnFails, AbortSwept, Abort, NoKill
  <2>2. ~sp.made
    BY <1>1 DEF SafeInv, FdKept
  <2> QED
    BY <1>1, <2>0, <2>1, <2>2, TaskDead
<1> QED
  BY <1>2, <1>3 DEF Spawn

LEMMA RunDead ==
    ASSUME SafeInv, SafeInv', KillInv, DeadInv,
           Run \/ \E x \in Tasks : ExitSeen(x)
    PROVE  DeadInv'
<1> USE SafeFacts
<1>0. /\ "init" \in Procs /\ "cmd" \in Procs /\ st \in [Procs -> Strings] /\ "run" \in Tasks
      /\ sp \in SpRow /\ waits \in [Tasks -> Waiting]
  BY DEF Procs, Tasks, TypeOK, Waiting
<1>1. CASE LateStopSent
  <2>1. UNCHANGED <<st, held, sp, waits, ctl, outcome, lost>> /\ runner'.pc \in {"done", "run"}
    BY <1>1 DEF LateStopSent, Runner, NoKill, RunnerRest, SpawnRest
  <2>2. (Believed' => Believed) /\ (Outcome' => Outcome)
    BY <2>1 DEF Believed, Outcome
  <2> QED
    BY <2>1, <2>2, TaskDead DEF DeadInv, Before
<1>2. CASE RunEnds
  <2>1. /\ UNCHANGED <<st, held, ctl, outcome, lost>> /\ runner'.pc = "done" /\ Killed
        /\ CloseFds([sp EXCEPT !.dead = TRUE], fd)
    BY <1>2 DEF RunEnds, Steps, Runner, RunnerRest, SpawnRest, Eof, Killed
  <2>2. (Outcome' => Outcome) /\ sp'.made = sp.made
    BY <2>1, FlagFacts, ClosedSafe DEF Outcome
  <2> QED
    BY <2>1, <2>2, TaskDead DEF Before
<1>3. CASE RunBreaks
  <2>1. UNCHANGED <<held, ctl, outcome, lost>> /\ runner.pc = "run" /\ sp.made
    BY <1>3 DEF RunBreaks, RunnerRest, SpawnRest, KillInv
  <2>2. Outcome' => Outcome
    BY <2>1 DEF Outcome
  <2>3. CASE KillAtOnce /\ CloseFds([sp EXCEPT !.dead = TRUE], fd) /\ Runner("done") /\ UNCHANGED waits
    <3>1. /\ Believed /\ runner'.pc = "done" /\ sp'.made = sp.made
          /\ \A p \in {"init", "cmd"} : st'[p] = st[p]
      BY <1>0, <2>3, KillAtOnceFacts, FlagFacts, ClosedSafe DEF KillIsOver, Believed, Runner
    <3>2. ~lost => Killed
      BY <2>1, <3>1 DEF DeadInv
    <3> QED
      BY <2>1, <2>2, <3>1, <3>2, TaskDead DEF Before
  <2>4. CASE KillBegins("run") /\ Runner("kill") /\ UNCHANGED sp
    <3>1. /\ runner'.pc = "kill"
          /\ \A p \in {"init", "cmd"} : st'[p] = st[p] \/ (st[p] = "alive" /\ st'[p] = "killed")
          /\ \A x \in Tasks : waits'[x] = "exited" => waits[x] = "exited"
      BY <1>0, <2>4, KillBeginsFacts DEF Runner
    <3>2. Believed' => Believed
      BY <2>4, <3>1 DEF Believed
    <3> QED
      BY <2>1, <2>2, <2>4, <3>1, <3>2, TaskDead DEF Before, DeadInv
  <2> QED
    BY <1>3, <2>3, <2>4 DEF RunBreaks
<1>4. CASE RunKilled
  <2> DEFINE s == IF runner.cancel THEN sp ELSE Verdict("run")
  <2>1. /\ UNCHANGED <<st, held, ctl, outcome, lost>> /\ runner.pc = "kill" /\ runner'.pc = "done"
        /\ CloseFds(s, WaitOver(fd)) /\ waits' = [waits EXCEPT !["run"] = "none"]
    BY <1>4 DEF RunKilled, Runner, Waited, RunnerRest, SpawnRest
  <2>2. /\ s \in SpRow /\ s.made = sp.made /\ s.init = sp.init
        /\ s.dead => sp.dead \/ waits["run"] = "exited"
    BY <1>0, VerdictFacts
  <2> HIDE DEF s
  <2>3. sp'.made = sp.made /\ sp'.dead = s.dead /\ (sp'.init = sp.init \/ sp'.dead)
    BY <2>1, <2>2, ClosedSafe
  <2>4. sp.made /\ (Outcome' => Outcome)
    BY <2>1 DEF KillInv, Outcome
  <2>5. sp'.dead => Believed
    BY <2>2, <2>3, <1>0 DEF Believed
  <2>6. Believed' => Believed
    BY <2>1, <2>3, <2>4, <2>5, <1>0, BelievedStays
  <2> QED
    BY <2>1, <2>3, <2>4, <2>6, TaskDead DEF Before, DeadInv
<1>5. ASSUME NEW x \in Tasks, ExitSeen(x) PROVE DeadInv'
  <2>1. UNCHANGED <<st, held, sp, runner, ctl, outcome, lost>> /\ st["init"] = "dead"
    BY <1>5 DEF ExitSeen, kernel
  <2>2. Killed /\ (Outcome' => Outcome)
    BY <2>1 DEF Killed, DeadInv, Outcome
  <2> QED
    BY <2>1, <2>2, TaskDead
<1> QED
  BY <1>1, <1>2, <1>3, <1>4, <1>5 DEF Run

LEMMA ControllerDead ==
    ASSUME SafeInv, SafeInv', KillInv, DeadInv, ControllerMoves \/ StopFirst \/ CtlCancelled
    PROVE  DeadInv'
<1> USE SafeFacts
<1>0. /\ "init" \in Procs /\ "cmd" \in Procs /\ st \in [Procs -> Strings] /\ "ctl" \in Tasks
      /\ sp \in SpRow /\ waits \in [Tasks -> Waiting]
  BY DEF Procs, Tasks, TypeOK, Waiting
<1>1. CASE Quiet \/ WriteOutcome \/ StopFirst
  <2>1. UNCHANGED <<st, held, sp, waits, lost>> /\ runner'.pc = runner.pc /\ (Outcome' => Outcome)
    <3>1. CASE Quiet
      BY <3>1, QuietFacts DEF NoCall, CtlRest, Outcome
    <3>2. CASE WriteOutcome
      BY <3>2 DEF WriteOutcome, CtlRest, Outcome, At
    <3>3. CASE StopFirst
      BY <3>3, StopFirstFacts DEF CtlRest, Outcome
    <3> QED
      BY <1>1, <3>1, <3>2, <3>3
  <2>2. Believed' => Believed
    BY <2>1 DEF Believed
  <2> QED
    BY <2>1, <2>2, TaskDead DEF DeadInv
<1>2. CASE KillNow
  <2>1. UNCHANGED <<held, outcome, lost>> /\ runner'.pc = runner.pc /\ runner.pc \notin Before
    BY <1>2, KillNowFacts DEF CtlRest, Spawning, Before
  <2>2. CASE ~sp.made /\ UNCHANGED <<st, sp, fd, waits, foreign>>
    BY <2>1, <2>2, TaskDead
  <2>3. CASE sp.made /\ KillAtOnce /\ sp' = [sp EXCEPT !.dead = TRUE] /\ UNCHANGED <<fd, waits>>
    <3>1. Believed /\ sp'.made = sp.made /\ \A p \in {"init", "cmd"} : st'[p] = st[p]
      BY <1>0, <2>3, KillAtOnceFacts, FlagFacts DEF KillIsOver, Believed
    <3>2. ~lost => Killed
      BY <2>3, <3>1 DEF DeadInv
    <3> QED
      BY <2>1, <3>1, <3>2, TaskDead
  <2>4. CASE sp.made /\ KillBegins("ctl") /\ UNCHANGED sp /\ ctl'.pc # "finish"
    <3>1. /\ \A p \in {"init", "cmd"} : st'[p] = st[p] \/ (st[p] = "alive" /\ st'[p] = "killed")
          /\ \A x \in Tasks : waits'[x] = "exited" => waits[x] = "exited"
      BY <1>0, <2>4, KillBeginsFacts
    <3>2. (Believed' => Believed) /\ (Outcome' => Outcome)
      BY <2>1, <2>4, <3>1 DEF Believed, Outcome
    <3> QED
      BY <2>1, <2>4, <3>1, <3>2, TaskDead DEF DeadInv
  <2> QED
    BY <1>2, <2>2, <2>3, <2>4, KillNowFacts
<1>3. CASE KillEnds
  <2>1. /\ UNCHANGED <<st, held, outcome, lost>> /\ runner'.pc = runner.pc /\ waits["ctl"] # "none"
        /\ waits' = [waits EXCEPT !["ctl"] = "none"]
        /\ ctl'.pc = "finish" => waits["ctl"] = "exited"
    BY <1>3, KillEndsFacts DEF CtlRest
  <2>2. /\ Verdict("ctl") \in SpRow /\ Verdict("ctl").made = sp.made /\ Verdict("ctl").init = sp.init
        /\ Verdict("ctl").dead => sp.dead \/ waits["ctl"] = "exited"
    BY <1>0, VerdictFacts
  <2>3. sp'.made = sp.made /\ sp'.dead = Verdict("ctl").dead /\ (sp'.init = sp.init \/ sp'.dead)
    <3>1. CASE CloseFds(Verdict("ctl"), WaitOver(fd))
      BY <2>2, <3>1, ClosedSafe
    <3>2. CASE sp' = Verdict("ctl")
      BY <2>2, <3>2
    <3> QED
      BY <1>3, <3>1, <3>2, KillEndsFacts
  <2>4. sp'.dead => Believed
    BY <2>2, <2>3, <1>0 DEF Believed
  <2>5. sp'.made /\ Believed' => Believed
    BY <2>1, <2>3, <2>4, <1>0, BelievedStays
  <2>6. runner.pc \notin Before
    BY <1>0, <2>1 DEF SafeInv, FdKept
  <2>7. Outcome' => Outcome \/ waits["ctl"] = "exited"
    BY <2>1 DEF Outcome
  <2>8. sp'.made /\ ~lost /\ waits["ctl"] = "exited" => Killed
    BY <1>0, <2>3 DEF DeadInv, Believed
  <2> QED
    BY <2>1, <2>3, <2>5, <2>6, <2>7, <2>8, TaskDead DEF DeadInv
<1>4. CASE CtlCancelled
  <2>1. /\ UNCHANGED <<st, held, sp, runner, outcome, lost>> /\ ctl'.pc = "endkill"
        /\ waits' = waits \/ waits' = [waits EXCEPT !["ctl"] = "none"]
    BY <1>4, CtlCancelledFacts DEF CtlRest
  <2>2. (Outcome' => Outcome) /\ (Believed' => Believed)
    BY <2>1, <1>0 DEF Outcome, Believed
  <2> QED
    BY <2>1, <2>2, TaskDead DEF DeadInv
<1> QED
  BY <1>1, <1>2, <1>3, <1>4 DEF ControllerMoves, Quiet

LEMMA DeadInit == Init => DeadInv
BY DEF Init, DeadInv, OutcomeKilled, Outcome, Gone, Procs, NoHandles

LEMMA DeadNext ==
    SafeInv /\ KillInv /\ DeadInv /\ [Next]_vars => DeadInv'
<1> SUFFICES ASSUME SafeInv, KillInv, DeadInv, [Next]_vars PROVE DeadInv'
  OBVIOUS
<1>0. SafeInv' /\ KillInv'
  BY SafeNext, KillNext
<1>1. CASE Next
  BY <1>0, <1>1, EnvironmentDead, SweepsDead, SpawnDead, RunDead, ControllerDead DEF Next
<1>2. CASE UNCHANGED vars
  BY <1>2 DEF vars, kernel, worker, DeadInv, OutcomeKilled, Outcome, Believed, Killed, Gone
<1> QED
  BY <1>1, <1>2

\* Whatever the faults: when the outcome of a recorded sandbox is written, its
\* init had its SIGKILL, if its pidfd could be opened, and its command is gone or
\* has let go of its pipes.  Both halves of kill() and the end of run() agree on
\* that; that the command is gone is what they do not ensure.
THEOREM OutcomesKilled == Spec => []OutcomeKilled
<1> DEFINE Inv == SafeInv /\ KillInv /\ DeadInv
<1>1. Init => Inv
  BY SafeInit, KillInit, DeadInit
<1>2. Inv /\ [Next]_vars => Inv'
  BY SafeNext, KillNext, DeadNext
<1>3. Inv => OutcomeKilled
  BY DEF DeadInv
<1> QED
  BY <1>1, <1>2, <1>3, PTL DEF Spec
=============================================================================
