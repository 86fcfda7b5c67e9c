# Fronta in TLA+

Fronta is a task queue on PostgreSQL. Everything durable lives in a few tables;
worker processes claim rows, run handlers and write outcomes under leases; a
control plane enqueues, cancels, pauses and requeues; feed consumers read an
outbox of state changes. This directory models the parts of it where a test can
hardly reach the bad interleavings, checks them with TLC on small instances, and
proves their safety properties with TLAPS for instances of any size.

## Inventory

Paths are below `src/src/fronta/`.

| Component | State | Operations | Hard because |
|---|---|---|---|
| Task table (`store.py`, `schema.sql`, `complete.sql`) | one row per task: state, attempt, failures, token, lease, cancellation, outcome | enqueue, claim, heartbeat, progress, complete (batch), release orphans, request cancel, reap, requeue, purge | every write may be stale: any client may hold an old token, replies get lost and writes are repeated |
| Claim function (`claim.sql`, `claim_candidate.sql`) | none of its own; row and type locks | admission of a batch under limits per type and per concurrency key | batches, limits that change, SKIP LOCKED, lock upgrades |
| Task types | published limits, pause flag | publish, pause, resume | limits change under running tasks |
| Outbox (`_PUBLISHED`) | subscriptions, events | register, unsubscribe; appended by every transition | must be atomic with the transition |
| Feed (`feed.py`) | generation, backfill marker, delivery transaction | barrier, backfill chunk, next batch, ack | transactions in flight at registration, resumption, replacement |
| Worker (`worker.py`) | `attempts`, one `Attempt` per claimed row, signals | claim loop, renewals, reaper, purger, listener, drain | one event loop, many awaits; lost replies; leases against wall clocks; two signals |
| Completion batcher (`worker.py`) | pending queue, one write in flight | complete, close | distinct ids, cancelled futures |
| Hints (`hints.py`) | coalesced notifications | wake, cancel, feed | may be lost; never authoritative |
| Enqueue (`store.enqueue`) | none of its own | insert, look the duplicate up, insert again | the duplicate may end between the two |
| Executors and sandbox (`executors.py`, `sandbox.py`) | a process tree, two pidfds, flags of the spawn | spawn, abort, stop, kill, verify, scavenge | stop during spawn, two kills at once, timeouts, unkillable processes, reused pids |
| Control plane (`server/`), CLI, codec, definitions, runtime | none, or request-local | validation and calls into the store | sequential |

Interactions: workers and the control plane share only the database. A worker's
claim loop, renewal loop, reaper and controllers share its `attempts` dictionary
on one event loop, so they interleave at awaits; database calls are where others
act in between. Hints travel by NOTIFY and only shorten waits.

What makes each component correct: a task is run while its budget lasts and ends
once; a cancellation is honoured; outcomes belong to the attempt that produced
them; at most one active task per key; limits bound what is started; the outbox
matches the transitions; a worker never trusts a lease the database has given
up; every attempt is accounted for until settled; shutdown ends and leaves
nothing behind; a sandbox is dead before its outcome is recorded, and no process
but its own is ever signalled.

## Modules

| Module | Models |
|---|---|
| `TaskStore` | the tables and every statement that changes a task, one action each |
| `TaskLifecycle` | the abstract life cycle of a task (REFERENCE.md, "Lifecycle"), without leases, tokens or time |
| `ClaimTx` | the claim function, the publication of definitions and the enqueue loop over `TaskStore`, statement by statement and with row locks |
| `Worker` | `worker.py` over `TaskStore`: claim loop, controllers, renewals, shutdown, crash |
| `Feed` | `feed.py` and the feed half of `store.py`: publishing transactions, registration, barrier, backfill, delivery |
| `Completions` | `_Completions` of `worker.py` with `fenced_write`: batches of outcomes and the futures that wait for them |
| `Hints` | `hints.py`: the coalescing sender of NOTIFYs and its close |
| `Settlement` | the two together: what the batcher's answers give the sender, and the order in which `Worker._close` closes them |
| `Sandbox` | one process attempt: its controller, its runner, the pidfds, the threads that walk `/proc`, and the processes |
| `TaskStoreProofs` | type correctness, row safety, key uniqueness and limits of `TaskStore` |
| `TaskRefinementProofs` | `TaskStore` implements `TaskLifecycle`; the outbox theorem |
| `ClaimTxProofs` | `ClaimTx` implements `TaskStore`; limits and uniqueness carry over |
| `WorkerProofs`, `OwnershipProofs` | the workers use the store as it is meant to be used; what they may believe of a lease; who owns a row |
| `SettlementProofs` | the batcher's and the sender's invariants |
| `FeedProofs` | whose events are where; no gap between snapshot and live events |
| `SandboxProofs` | signals, descriptors, grace and what an outcome may rely on, under every set of faults |
| `MCTaskStore`, `MCClaimTx`, `MCWorker`, `MCFeed`, `MCSettlement` | instances for TLC (`Sandbox` needs none) |

### TaskStore

`task` is `fronta.tasks`, `types` is `fronta.task_types`, `subs` and `events` are
the outbox, `now` the database clock. A statement runs in one transaction under
the row locks it takes, so it is one action; `Claim` picks any admissible set of
due rows because SKIP LOCKED, the byte cap and the deadline may leave any row
out. The row operators (`Claimed`, `Completed`, `Reaped`, `CancelRequested`,
`Requeued`) are the SET lists of the statements, column by column. Documents
(progress, result, error) are abstracted to the attempt that wrote them. An
execution token is a fresh uuid per claim, only compared within its row: here it
is the row's claim number, which is as unique. Random backoff is a choice from
the interval `[bound/2, bound]`.

`AttemptWrite` lets any client present any token at any time. That is more than
the workers do, and it is what makes the row properties independent of them.

### ClaimTx

What `TaskStore` does in one step takes several statements in three places, each
with its own snapshot: `claim.sql`, the publication in `_start_checks` and
`store.enqueue`. `ClaimTx` extends `TaskStore` with those transactions in
progress. `tx[w]` holds the local variables of the claim function and its locks:
`rows` are locked task rows, `share` and `update` locked type rows, `known` what
it has read of a type (its limits and its running count). `ClaimChoose` is the
candidate statement; `ClaimShare` and `ClaimUpdate` are the two reads of a type
row, both SKIP LOCKED, so that a type somebody else has locked is skipped and
nothing waits; `ClaimAdmit` takes one candidate; `ClaimCommit` is the final
UPDATE. The order of candidates, the byte cap and the deadline only decide which
rows are left out, which is a choice here.

`RefinesStore` is `TaskStore`'s own specification, with the same variables: a
claim that commits must be one that `Claim` allows in the state in which it
commits, although pause flags, limits and counts were read earlier. That is what
the locks are for: `ClaimUpdate` without its lock violates it.

A publication locks one type row after the other in the order of the worker's own
list, so two of them may wait crosswise. PostgreSQL's deadlock detector ends that
by a rollback (`PublishRollback`); it is external, and what the model shows is
that a rolled back publication leaves nothing behind. Completions, cancellations
and requeues stay one step each and wait for rows a claim has locked. Their effect
on limits is that a task stops running, which a reap does as well, so reaps and the
clock are left to `TaskStore`.

### Worker

One action per stretch of code between two awaits. A claim and a renewal are a
request, an effect in the database and a reply, each able to be lost; a
completion is repeated until a reply arrives (`fenced_write`). A controller
(`Attempt`) is named by its row and token and goes through `fresh` (task
created), `renewing` (`_fresh_lease`), `running`, `ended` or `stopping`,
`settling` (the outcome is being written), `settled` (`run` returned, the done
callback not yet run). `attempts[w]` is `self.attempts`: the token tracked per
id. `renewed_at` is `_renewed_at`. `MayRunLate`/`LateClaim` is PostgreSQL running
a claim whose client is gone.

Two constants choose what an instance explores. `Disturbances` names the things the
environment may do (late claims, refused writes, crashes, signals, operator requests
to cancel and requeue, handlers that ignore their cancellation). Such a handler is
`fatal` in its controller while its outcome is written; `_attempt_done` then sets
`fatal[w]` and requests the shutdown. `Reclaims` says whether a worker may claim a
task whose earlier attempt it still tracks. The code allows it; see the finding below.
The runs that need `Reclaims = FALSE` say so, and show what holds apart from that
case.

A heartbeat whose client timed out is taken not to run later (the renewal
connection has a statement timeout); if it did, it would only extend the lease of
a token that still holds. Worker and database clocks are used for durations only
and share `now`, so clock drift is outside the model.

### Feed

One subscription name. Where `TaskStore` makes a transition and its events one
step, `Feed` takes a publishing transaction apart: `Begin` (its virtual xid
exists), `Snapshot` (which subscriptions it sees), `Write` (the row change, the
key-share lock on the registration, a sequence number), `Commit` or `Abort`.
`sub` is the registration with its generation, filter and backfill marker
(`since`, and `pending` with a cursor per state); `events` are the committed
rows; `feed[c]` is what a consumer does: `capturing` and `waiting`
(`_wait_for_transactions`), `filling` (`backfill_chunk`), `open`, `closed`
(the iterator stopped). A consumer's batch is a transaction like any other: it
holds rows, may write a reaction, and ends with `Ack`, the next `Pull` or
`Leave`, which is also its crash. `waits` is the captured set of virtual xids; an
entry goes when its transaction ends, since a virtual xid is never reused.

A chunk and `unsubscribe` are one action each: the registration lock they hold
keeps out everything that could see them half done. `history` is auxiliary. `gen`
and `from` in an event are too: the table has the name only, which is what makes
`BacklogOwned` and `OwnGeneration` worth checking.

`finished_at` is `now()`, the start of the transaction, while the window of a
backfill counts from the clock at registration. A transaction older than the
window that commits a terminal state after the registration is therefore in
neither the backfill nor the live events. `NoGap` says what the code does:
it covers tasks whose `finished_at` is in the window.

### Completions, Hints and Settlement

Both are small asyncio actors: callers add to a collection and start a task if
none runs, and the task takes what is there, awaits the database and goes round
again. One action is the code between two awaits. In `Completions` a controller
stands for its completion; the model lets two of them share a row, which the
worker allows (see the finding). `WriteApplies` and `AnswerLost` make a
completion take effect and be sent again, after which its controller is told it
was rejected: `AnswerOwn` therefore says nothing of `rejected`. In `Hints` the
three sets are one, since they are treated alike; `owed` remembers what was given
and not delivered since, and `again` which hints were given once more while a send
that carries them was in flight: that send may be too early for them, so they stay
owed when it succeeds. An exception other than a database or socket error would
end the sender with its batch; that is not modelled.

`Settlement` instantiates `Hints` beside `Completions`: the hints of an applied
batch are given in the same step as its answers, since no await lies between, and
the sender is closed after the batcher. Other parts of the process give hints too,
until `close_hints` forgets the object.

### Sandbox

One attempt of a process task. `st` is the state of the outer bwrap, the init it forks
and the command with its descendants; `killed` is a process with SIGKILL pending,
which runs no code again and is dead when the kernel releases it. `armed` says that
the init has set its die-with-parent: until then the death of the outer leaves it
alive. `held` says that the command still holds its stdout and stderr; it may close
them at any time (`CommandDetaches`). `runner` is the task in `ProcessExecution.run`
(`exec`, `status`: waiting for the status line, `sweep` and `reap`: in `_abort`,
`stop`, `run`, `kill`, `done`) with a `cancel()` that has not reached it yet. `ctl` is
the controller in `_run_execution` and `_end_runner`, `ctl.call` how far its `kill()`
is. `sp` is the `SandboxProcess`, `fd` the `Pidfd` of the init and `waits` the
`wait_exit` calls in flight on it: there may be two, the controller's and the one of a
broken or cancelled runner, and each replaces the other's reader. `sweep` are the
threads in `signal_marked` and `scavenge_orphans`, which list `/proc`, open a pid and
check its marker in separate steps, while `pid` may pass to a foreign process.

Assumed: a worker's cancellation reaches a controller once and not in
`_end_runner`; `create_subprocess_exec` is not interrupted; the outer bwrap carries
`PR_SET_PDEATHSIG` from the start, so a dying worker takes it along.

`VerifiedDead` and `RecordedDead` are what `worker.py` says of an outcome, of every
attempt and of those whose spawn returned; both are violated (findings 2 and 3).
`OutcomeKilled` is what the code ensures instead: the init had its SIGKILL or is dead,
and a command that holds its pipes is gone. One fault is off in run `sandbox`:
`exhausted`, in which `pidfd_open` fails for want of descriptors. `_open_marked`
returns None on any OSError, and `kill()` takes a missing pidfd for an init that is
gone; TLC then finds `RecordedDead` and `NothingOutlives` violated. The auxiliary `lost`
is set by exactly that, a spawn that got no pidfd of a living init; `OutcomeKilled` and
`GraceRespected` except that case, and are proved under all faults.

`Pidfd`'s docstring says that
`close()` is deferred while a wait is in flight; with two waits the end of the
second clears the flag, and the first then ends with an exception. `ReaderOpen`
states the part that is safe: no reader is left on a closed descriptor.

## Runs

| Run | Bounds | Checks |
|---|---|---|
| `store` | 1 task, 1 worker, budgets 1 and 2, 2 claims, 4 instants, 1 subscription with two filters | `LeaseFence`, `RetryBudget`, `CancelHonoured`, `OutcomeOwned`, that the store refines `TaskLifecycle`, and `Outbox` |
| `claims` | 2 tasks that may share a key and a concurrency key, 2 workers with batches of 2, 1 publisher, 1 client, limits 0 (none) and 1 | `UniqueActiveKey`, `LimitsRespected`, and that `ClaimTx` refines `TaskStore` |
| `worker_leases` | 1 worker with 2 slots, 1 task, 2 claims, lease 3 of 5 instants, renewals that take an instant; lost and late claims, refused writes; `Reclaims = FALSE` | `LeaseConservative`, `StartsLeased`, and `LeaseTrusted`, also while claims are lost beside a running attempt |
| `worker_shutdown` | 1 worker, 1 task, 2 claims; signals, crashes, cancellations and requeues, handlers that ignore their cancellation; `Reclaims = FALSE`, fairness | `GracefulExitClean`, `CancelAcked`, `ShutdownCompletes` |
| `feed_gap` | 1 task, 1 writer, 2 consumers, any mix of live-only, full and windowed registrations, 2 generations, chunks of 1 | `NoGap`, `NoReprojection` |
| `feed_delivery` | 2 tasks, 2 writers, 2 consumers, 2 generations, batches of 1, a changing type filter | `BacklogOwned`, `OwnGeneration`, `NoEventLost` |
| `feed_startup` | 2 writers, 2 consumers, fairness | `StartupEnds` |
| `settlement` | 2 completions, of one row or of two, 2 hints, fairness | `AnswerOwn`, `EveryoneAnswered`, `HintKept`, `CloseFlushes`, `HintDelivered`, `FlushEnds` |
| `sandbox` | 1 attempt; cancellation, crash, pid reuse, broken pipes, a command that closes its pipes; timeouts at any moment; fairness | `OutcomeKilled`, `NoForeignSignal`, `ReaderOpen`, `GraceRespected`, `AttemptEnds`, `NothingOutlives` |
| `sandbox_verified` | 1 attempt, no fault but timeouts | `VerifiedDead`, violated: the second finding |
| `sandbox_detached` | 1 attempt, a command that closes its pipes, timeouts | `RecordedDead`, violated: the third finding |
| `worker_reclaim` | 1 worker with 2 slots, `Reclaims = TRUE` | `EveryAttemptTracked`, violated: the first finding |

Rows of the task table are independent except for keys and limits, so one task
shows every row property, with enough claims to exhaust each budget, retry after
a reap and be requeued; two tasks are the least that conflict on a key, exceed a
limit of one or fill a batch, and two claims with a publication the least in which a
limit is enabled between two reads. `claims` stops the clock because none of its
properties depends on it. Sandboxes share nothing but the pid space, of which
`pid` is what matters, so one attempt is enough, and it has no bound. `claims` has one
publisher and one type, so TLC does not meet two publications that lock types
crosswise; the theorem `StoreRefinement` covers any number of publishers, types and
orders. In `worker_leases` the reaper and the worker's own orphan release are what may
take a row from a running attempt; a second slot is the least in which a claim is lost
beside one, and a second claim follows a reap. The lease is at least twice the
heartbeat, as `config.py` demands, and the clock runs past its expiry. Any number of
workers is covered by the theorems `LeasesConservative`, `LeasesTrusted` and
`StartsAreLeased`.
`MaxAttempt`, `MaxNow` and `MaxEvents` only bound the search, as do `MaxVersion`,
`MaxSeq` and `MaxGen`. One task and chunks of one row are enough for the cursor to
stop after every row and for each state to need two chunks; two generations are
the least that reuse a name; two writers make sequence numbers commit out of order.
`feed_gap` keeps the filter fixed, as the documented guarantee does. Consumers and
writers are interchangeable, so the safety runs use symmetry.

In `worker_reclaim` the backoff is one instant, so that the second claim is not
an artefact of immediate retries.

Fairness in `worker_shutdown`: the event loop runs whatever is ready, so the
steps of the claim loop, the drain and the controllers are weakly fair; a handler
that was told to stop ends or is given up as fatal, after grace and kill; a database
call gets an answer in the end, which is REFERENCE.md's own condition for a graceful
exit ("an unreachable database delays the exit"): for the orphan release, which is
repeated, that is strong fairness of the reply. Nothing makes a handler end by
itself, time pass, or a client ask for anything. A crashed worker counts as ended.

Fairness in `sandbox`: the event loop runs the runner and the controller, threads
come to an end, bounded waits end, another worker's scavenger runs, and the kernel
releases a killed process in the end, however late. `ExitSeen` is strongly fair: a
readable pidfd is reported whenever its reader is registered, and the kill loop
registers it again and again. A command may run for ever, nobody has to ask for a
stop, and no timeout has to be long enough. `sandbox` may stop when the attempt is
settled.

Fairness in `feed_startup`: open transactions end and open batches are acknowledged
or left, which the barrier needs (REFERENCE.md: "The wait has no overall timeout");
a starting consumer takes its next step. Writers may open new transactions for ever.

Fairness in `settlement`: the event loop runs the task, and a database
that is asked again and again gives an answer in the end (strong fairness of the
answer, since `fenced_write` and the sender retry for ever). The flush timeout of
`Hints.close` gets none, so that `FlushEnds` shows the flush ends by itself. The
system may stop, when everything is answered or closed.

`GracefulExitClean` is stated for instants before the first lease can run out: a
worker that lost its lease leaves the row to the reaper, as documented.

## Findings

1. `Worker._start_attempt` stores the new attempt under the task's id and
`Worker._attempt_done` removes whatever is stored under that id. A worker with a
free slot may claim a task again between the commit that requeued it (a release,
a retry, or another worker's reap) and the done callback of its previous attempt.
The callback then removes the new attempt. That attempt goes on running, but the
renewal loop no longer sees it, it does not count against the concurrency, a
later orphan release hands its row to others, and the drain neither stops it nor
waits for it. `worker.py` promises the opposite ("Every attempt belongs to the
worker until it is settled"). Run `worker_reclaim` prints the steps. Removing the
entry only if it still is the same attempt would not be enough for the older
attempt, but would restore the property checked here.

2. A spawn whose status line is late enters `_abort`, which kills the outer bwrap
and awaits a thread that kills everything marked. If stop, grace period and the
controller's kill (which waits for the spawn) time out before the thread is done,
the controller cancels the runner. That interrupts `_abort`; `spawn` raises, so
there is no `SandboxProcess`, and `ProcessExecution.kill` takes its absence for a
dead sandbox. The outcome is written while the init, if it had not armed its
die-with-parent when the outer died, may still be alive and start its command.
`worker.py` says "The sandbox is verified dead before any outcome is written". Run
`sandbox_verified` prints the steps; no fault is needed but a slow start. The thread
goes on and ends the init later, as `NothingOutlives` of run `sandbox` shows.

3. A sandbox whose spawn returned is not always dead before its outcome either. A
command may close its stdout and stderr and run on. When it is killed, `kill()`
signals the outer bwrap and the init and waits for the init; the wait times out if the
namespace is slow to end (a process in uninterruptible I/O). By then the outer is dead
and the exiting init has closed its files, so the pipes are at their end: `gather` and
`proc.wait` in `SandboxProcess.run` return, and `dead` is set, because "the outer
bwrap only exits after its init did", which is not so after SIGKILL. The next `kill()`
returns True and the outcome is written while the init is not released and the command
not gone. `worker.py` says that an init stuck "with SIGKILL pending keeps the attempt
(and its slot) open until the kernel releases it", and REFERENCE.md that the sandbox
is "verified dead before its slot is freed". Run `sandbox_detached` prints the steps.
Setting `dead` only when the init's pidfd has reported its exit would restore the
property here.

## Proofs

All theorems hold for every value of the constants that satisfies the assumptions of
the modules: positive budgets and lease, a backoff base below its cap, `None` outside
the data sets (`CauseAssumption` for the worker), heartbeat and renewal times as
`config.py` demands, and finitely many task ids (`IdAssumption`, which counting needs;
a table is finite). `MaxAttempt`, `MaxNow` and the like are arbitrary numbers, so no
bound on tasks, workers, consumers, batches or time is used.

`TaskStoreProofs` and `TaskRefinementProofs`:

1. `RowStep` lists what can happen to one row. `Rowwise` shows that every action
   does one of these things to every row, which reduces all row properties to a
   case analysis on one record.
2. `TypeCorrect`: `Spec => []TypeOK`.
3. `RowSafety`, and `LeaseFencing`, `BudgetKept` and `CancellationKept` from it:
   the four row invariants are inductive only together (for example, a reap leaves
   `error = attempt` and charges at most the budget only if the running row had an
   uncharged attempt left), so `RowSafe` is their conjunction per row, strengthened
   with what an absent or purged row looks like.
4. `KeyUniqueness`: a step makes at most one row active (`Quiet` for all others),
   and the guards of enqueue and requeue exclude a second one with the same key.
5. `LimitsKept`: only `Claim` starts tasks, and its guard counts what runs together
   with what it adds; every other step only shrinks the running sets.
6. `Refinement`: from `RowSafe`, each `RowStep` is a step of `TaskLifecycle`.
7. `OutboxComplete`: each action publishes exactly the set of rows it moves.

`ClaimTxProofs`: `StoreRefinement` needs that whatever a claim has read is still so
when it commits. `TxInv` says which lock keeps which fact: a row it locked stays due
(`RowsHeld`); what it knows of a type is what the type's row says, and a type with a
limit is locked FOR UPDATE (`TypesHeld`); the count it keeps covers what runs and what
it has admitted (`Counted`); conflicting locks are never held together (`Exclusive`).
With it the final UPDATE satisfies the guard of `Claim`, all other steps are steps of
the store or change nothing of it, and the store's theorems follow (`TxLimits`,
`TxUniqueness`).

`WorkerProofs`: `WorkersUseStore` shows that every step of the workers is one of the
store, so its invariants may be used. `WorkerInv` generalises `LeaseConservative` to
everything that may become a belief about a lease: `Covers(r, k, t)` says that, if
token `k` holds row `r`, the lease lasts until `t + LeaseS`; it is kept for the
`renewed_at` of a controller, for the time its own renewal or its claim was sent, and
for the answers of a renewal pass in flight. It also keeps for every such answer that
a `cancel` was asked for, which gives `CancelsAcknowledged`.

`OwnershipProofs` is the converse: until `renewed_at + LeaseS` the row is held
(`Kept`). Others may take a row by a reap (not before its lease is over), an orphan
release (which spares what the worker tracks, `Shielded`), a release of unstarted rows
or a completion (which name a token that no living controller has: `ClaimsApart`,
`RenewalsApart`, `PendingKept`). These theorems assume `~Reclaims`: the first finding
is that without it `EveryAttemptTracked` fails, and with it the shield.
`EveryAttemptTracked` itself is no theorem: the case that could break it is the one it
fails in.

`ExitsClean`, in the same module, proves `GracefulExitClean` from `ExitInv`: before
`now = LeaseS`, every row that runs on a worker which neither crashed nor was told
twice to stop is named by its attempts, with a controller that is not over, or has no
controller and is in the claim in flight or among the orphans a release is due to give
back (`Located`); and the claim loop has returned before a drain starts (`LoopEnded`).
A controller gives its row up without a write only if it was told that the row is not
its own or believes its lease has run out, and then the row is not held or
`now >= LeaseS` (`LostExcused`, `RepliesExcused`); an orphan release that answers with
less than a full batch left no orphan behind (`ReleasedAll`). It assumes `~Reclaims`
and two disturbances away: a claim that the server runs after its connection was lost
(`late_claim`) may come after the release of orphans, and an outcome whose write fails
for good (`write_error`) is given up; in both cases the code leaves the row to the
reaper.

`SettlementProofs`: an answer is looked up by row, so it is the controller's own
because a batch never holds two completions of one row (`BatchSound`, with the lemma
that a batch of distinct rows can always be cut); what is owed is pending or in the
batch being sent, what was given again during a send is pending, and nothing is given
after `close` began, because the batcher is settled by then (`SenderSound`).

`FeedProofs`: `FeedInv` says whose events are where. The key-share lock of a publisher
or of an open batch keeps the registration in place, generations are not reused, and
what was projected lies behind the cursors. `GapInv` is why no transition is missed: a
transaction that read the old subscriptions is among those the consumer waits for, or
the scan has not begun (`Barrier`, `Cutover`); an up-to-date transaction tells what it
writes (`InFlight`); and every wanted row was told of or lies before its cursor
(`Covered`). `NoGaps` assumes `OneFilter`, that the consumers of the name agree on its
states and types: a consumer that widens the filter of a registration gets no backfill
of what it adds, nor does the code promise one.

`SandboxProofs` has three layers, each inductive under every subset of `Faults`.
`SafeInv`: a pin can only be foreign where the pid is (so the marker check after
pinning refuses it), and the init's descriptor is open while it is held or read.
`KillInv`: whatever makes `kill()` believe in a death (`Believed`: the flag, a missing
pidfd, an exit that was seen) implies that the init had its SIGKILL, unless it was
`lost`, and whoever signals the outer bwrap while the controller still waits has given
the spawn up; hence `GraceKept`. `DeadInv`: a sandbox believed dead has no command left
that holds its pipes, and an outcome is never written while a spawn could still return;
hence `OutcomesKilled`. That is as much as holds: `RecordedDead` is false, see the third
finding.

Each inductive invariant was checked with TLC on the instances of its runs before it
was proved. Only model-checked: liveness (`ShutdownCompletes`, `StartupEnds`,
`EveryoneAnswered`, `HintDelivered`, `FlushEnds`, `AttemptEnds`, `NothingOutlives`),
which is out of the prover's reach.

## Not modelled

The loop of the purger (its statement is an action of `TaskStore`), dying background
loops (they act as a first signal) and exit codes; the sandbox probe, the
construction of bwrap's arguments and environments, the capping of output; pools,
codec, definitions, HTTP and MCP, which keep no state that outlives a call.
PostgreSQL's locks, snapshots and deadlock detector, bubblewrap and the kernel are
external and appear as the code relies on them. `PROJECT.json` gives the reason for
each component, and lists the hazards with the properties that cover them or why
none does.

## Plan

Modelling is complete as far as the code has behaviour worth it, and every safety
property the passing runs check is proved. What is left is shorter proofs: the
per-action facts of `WorkerProofs` and `OwnershipProofs` share structure that a few
more lemmas could carry.
