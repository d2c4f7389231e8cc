# Verification of ming-agents

The repository holds three programs that work side by side:

* a **Go daemon** (`server/`) that takes tasks over HTTP, keeps them in the
  PostgreSQL table `agent_task_queue`, runs each one as a child process
  (`claude -p ...`) and reports over a WebSocket to a web console (`web/`);
* a **Python workflow graph** (`orchestrator/scripts/graph.py`, LangGraph)
  that leads one piece of work through product, planning, development and
  review phases, each closed by a gate at which the user answers;
* a **document subagent** (`subagent/doc_output/`) that fetches, merges and
  publishes documents and charts.

This directory models the daemon's scheduler and queue, its runner of child
processes, the event bus with the browsers that follow it, the workflow graph
and the document subagent in TLA+, checks them with TLC on small instances and
proves their main safety properties with TLAPS for instances of any size. Paths
below are relative to `src/`.

1. [Inventory](#1-inventory) 2. [Modules, and how they correspond to the
code](#2-modules-and-how-they-correspond-to-the-code) 3. [Runs: what is checked
and what it shows](#3-runs-what-is-checked-and-what-it-shows) 4.
[Fairness](#4-fairness) 5. [Proofs](#5-proofs) 6. [Where code and documentation
disagree](#6-where-code-and-documentation-disagree) 7.
[Abstractions](#7-abstractions) 8. [Not modelled, and the
plan](#8-not-modelled-and-the-plan)

## 1. Inventory

| component | state | operations | interacts with |
|---|---|---|---|
| **task queue** `server/task/queue.go`, `db/migrations/0001_init.sql` | rows of `agent_task_queue` | Enqueue, Claim (`FOR UPDATE SKIP LOCKED`), MarkRunning, Heartbeat, Complete, Fail, Canceled, RequestCancel, RecoverOrphanedTasks | every daemon and every API handler, through SQL |
| **daemon scheduler** `server/daemon.go` | `inflight` per agent, `wg`, one goroutine per execution and one per heartbeat | Run (recover, tick loop, drain), tick, execute, heartbeat | queue, Manager, runner, event bus |
| **cancel registry** `server/task/context.go` | `cancels`: task id to cancel function | Start, Cancel, `done()` | API handler, heartbeat goroutine, execute |
| **runner** `server/task/runner.go` | child process, two pipes | Run: start, scan, wait, SIGTERM then SIGKILL | the child; `execute` waits for it |
| **HTTP API, lifecycle** `server/server.go`, `server/main.go` | HTTP server, root context, error channels | create, cancel, list, get; run, shutdown | queue, Manager, bus |
| **set-up** `server/agent`, `config.go`, `db/db.go` | agents, limits, connection pool | load, upsert, migrate | sequential, before the daemon |
| **event bus, WebSocket** `server/events.go`, `server/server.go` | subscriber channels of bounded size | Publish, Subscribe, unsubscribe | scheduler, console |
| **web console** `web/` | task list, connection state | initial GET, WebSocket messages, reconnect | API, WebSocket |
| **control CLI** `server/cmd/daemon.go` | pid file | start, stop, status | the daemon process |
| **workflow graph** `orchestrator/scripts/graph.py` | one checkpointed state per workflow | nine automatic nodes, four gates, their conditional edges | subagents and user, through interrupts |
| **doc_output pipeline** `subagent/doc_output/` | request, fetched sources, merged text | refine, confirm, fetch in parallel, merge, render | publishers |
| **publishers** `chart_publisher.py`, `feishu_publisher.py` | remote document and charts | create, write, verify with retries | external CLI |
| **prompts and design data** `subagent/*/SKILL.md`, `shrimp-graph/` | - | prose read by language models | - |

What is hard, component by component, and what makes it correct:

* **Queue and scheduler.** Several daemons, their ticks, their executions, the
  heartbeat goroutines and the API all write the same rows, each statement on
  its own. Terminal writes and `MarkRunning` say `WHERE id = $1` and look at
  neither status nor owner. Calls may fail before or after they took effect;
  processes crash, and are stopped and started again; recovery happens only
  at boot. Correct means: a task is executed by one goroutine at a time; the
  row belongs to that goroutine until it has written its status; terminal
  statuses are final; a task is `canceled` only for a cause; the claim order
  is by priority, then age; every task ends; a cancel ends an execution; a
  shutdown drains.
* **In-memory bookkeeping.** `inflight` is incremented in `tick` and
  decremented by a deferred call in another goroutine, and `tick` computes the
  free slots once. The registry is keyed by task id, although a task may be
  executed several times. Correct means: counters and registry agree with the
  goroutines at every step.
* **Workflow graph.** A node sees what the nodes before it left in the
  checkpoint, on whichever path the workflow came: guard retries re-enter a
  node, consultations go back and forth between planner and dev_agent, hints
  restart the planning, rollbacks restart earlier phases. State
  of a rejected attempt can survive (`gate_results`, `subtask_results`,
  `planning_consultation_round`, `pending_guard_retry`). Correct means: a
  retry reaches the subagent it is meant for; a consultation answers a
  question and stays within the quota; the subtask loop works on the results
  of its own plan; gates show complete and current claims; no gate is
  skipped; the user is asked again after finitely many steps.
* **Runner.** A line longer than `MaxLineBytes`, or a grandchild that keeps the
  pipe open, can block `wg.Wait` before `cmd.Wait` is reached; a child may
  ignore SIGTERM, or catch it and exit with 0. Correct means: no output is
  lost, a cancelled child ends and is not recorded as completed, Run returns.
* **Lifecycle.** `run()` selects over three channels and receives from one of
  them again. Correct means: the process ends after a signal or an error.
* **Bus and console.** Events are dropped when a subscriber is slow, the
  initial load races the WebSocket, a reconnect does not reload, and an event
  carries a pointer to a task that `execute` goes on to write while a WebSocket
  goroutine encodes it. Correct means: the scheduler never waits for a browser,
  and a page to which
  everything was sent shows what the table says, or has one of the known
  reasons not to.
* **doc_output.** The sources are fetched by threads that end in any order; a
  rough idea goes back to the user, any number of times; a template may hold
  fences of its own, and need not have a slot for what was merged. Correct means:
  the document does not depend on timing, the merge loses nothing that was
  fetched, the template is used whole. The code does not give two more things
  that one would expect: that a rough idea is published only after the user has
  confirmed it, and that what was merged is in the document (section 6).
* **Publishers.** Creating a document, inserting, locating, filling and
  verifying each of its charts are separate remote calls, each of which may fail
  before or after its effect. Correct means: the result accounts for every
  chart once; a chart reported as verified is still on its board and charts
  stand where their position says, except where the code had to guess a board
  (section 6); the URL of a document that exists is never
  lost; the loops end.

`PROJECT.json` lists every hazard with the line where it bites and the
properties that cover it.

## 2. Modules, and how they correspond to the code

```
TaskQueue ---- Daemon --+-- DaemonSafety ---+-- MCDaemon            (TLC)
                        |      | INSTANCE   |
                        |      TaskLease    +-- DaemonProofs --+-- DaemonSlotProofs
                        |                                      +-- DaemonCauseProofs
                        +-- DaemonLiveness ---- MCDaemonLiveness    (TLC)

Console -- ConsoleProperties --+-- Console.cfg                      (TLC)
                               +-- ConsoleProofs                    (TLAPS)

Runner -- RunnerProperties --+-- Runner_*.cfg                       (TLC)
                             +-- RunnerProofs                       (TLAPS)

Orchestrator -- OrchestratorProperties --+-- Orchestrator_*.cfg     (TLC)
                   | INSTANCE            +-- OrchestratorProofs     (TLAPS)
                   PhaseLadder

ContentMerger ------------------------------------+
TemplateEngine -- ChartPublisher -- FeishuPublisher +-- DocOutput
DocOutput -- DocOutputProperties --+-- MCDocOutput                  (TLC)
                                   +-- DocContentProofs             (TLAPS)
                                            +-- DocOutputProofs     (TLAPS)
```

**TaskQueue** is the table: one variable per column that some statement reads
(`status`, `agent`, `priority`, `created`, `worker`, `attempts`,
`cancelRequested`, `heartbeat`), and one operator per statement of `queue.go`.
`heartbeat` is NULL, fresh or stale: younger or older than the orphan timeout.
`locked` holds the rows a RequestCancel has locked and not committed, because
Claim skips those (`SKIP LOCKED`) while other statements wait. `Claim` is told in
`held` which rows the Claims of other processes have locked and may yet roll back:
`Daemon!HeldElsewhere` says that each process that is in the turn of the same agent
may hold one claimable row, or none. A Claim therefore takes the first row that is
not held, or finds nothing although there is one.

**Daemon** adds the processes. The state of one process is `mode`, the two
locals of `tick` (`turn`, `free`), `inflight`, and `cancels`. An execution is
a goroutine name with a program counter that follows `execute()`:

| `pc` | next in the code | action |
|---|---|---|
| `spawned` | `manager.Start` | `Start` |
| `marking` | `queue.MarkRunning`, child and heartbeat started | `ExecuteMarks` |
| `run` | `runner.Run` returns, the `switch` takes a branch | `RunnerReturns` |
| `write` | Complete, Fail or Canceled | `WriteTerminal` |
| `done` | the deferred `done()` | `Done` |
| `release` | the deferred `removeInflight`, `wg.Done` | `Release` |

`HeartbeatTick` is one round of the heartbeat goroutine; when the answer is
"cancel" the call of `Manager.Cancel` is a step of its own (`HeartbeatKills`),
because the execution may have ended, and the task may have been claimed
again, in between. `CancelTask`, `CancelTaskLock`, `CancelTaskEnd` and
`CancelTaskFail` are the HTTP handler. `Boot`, `RunRecovers`, `Stop`,
`RunReturns` and `Crash` are the life of a process.

**TaskLease** is what queue and daemons promise together: a task has at most
one holder, only its holder moves it forward, holders may vanish, a task
without a holder may be taken back, a terminal status is final.
`DaemonSafety!ImplementsLease` maps the holders to the goroutines between
claim and terminal write.

**Runner** is `Runner.Run` with everything that runs beside it: the child, a
helper the child may leave behind with some of its pipes, the two `drain`
goroutines (`Scan`, `ScanTooLong`, `ScanEnds`), and the goroutine of `os/exec`
that calls `cmd.Cancel` and kills after `WaitDelay` (`WatchSignals`,
`WatchKills`). `pc` follows Run: start, `wg.Wait` (`Drained`), `cmd.Wait`
(`CmdWait`), the branches behind it (`Decide`). A pipe is the sequence of the
lines ever written to it and the number of those read; a write waits while
`Capacity` lines are unread. `outcome` is the branch of the `switch` in
`execute` that the returned error leads to. Daemon uses one step,
`RunnerReturns`, for all of this; `CancelReturns` and `RunReturns` are the
grounds for that step's fairness, `TruthfulOutcome` for its guard.

**Console** is what a browser sees of the daemon: `Publish` and the channels of
`events.go`, `handleWS` with its reader goroutine (`Connect`, `WriteJSON`,
`Disconnect`, `HandleWSReturns`) and the effects of `page.tsx` (`ListTasks`,
`InitialLoad`, `InitialLoadFails`, `OnMessage`). The publishers are the API
handler and the execution of Daemon, cut down to the order in which they write
the row, write `t.Status` and publish: `row` is the table, `memory` the `Task`
that an execution points to, `pc` its place in `execute()`. An event either has
a row of its own (the tasks that `Enqueue` and `refresh` return) or shares
`memory`, and is read only when the handler encodes it. A Go string is two
words, so that a reader may see one that is being assigned as `Torn`.
`told`, `dropped`, `missed`, `replaced`, `unread` and `overtaken` are history:
nothing in the model reads them but the property that names them.

**TemplateEngine** and **ContentMerger** are the pure parts of doc_output, as
operators: a document is a sequence of elements (a mermaid block with its
annotation, or a stretch of prose, each with where it came from), a template
the sequence of its slots, `references/TEMPLATES.md` a sequence of headings,
fences and slots. `MergeDetails` is a fold because later items replace
earlier ones of the same key. **ChartPublisher** is the life of one chart
(insert, locate the board, push, verify with at most three queries), one action
per remote call and outcome; the external document is `boards`. An insert may leave
a board behind or not, whether it is answered with success or not, and a
success may name the board's token or not; without a token `Locate` takes the last
board that a fetch shows, which may not show the newest. `blind` is history: the
charts for which that fetch could not show the right board at the end of the
document. **FeishuPublisher**
is the creation of the document by SDK or CLI, the pairing of blocks with
existing boards, and the loop over the charts. **DocOutput** composes them into
one run of `doc_output.py`: the question about a rough idea, the threads of
the fetch, merge, render, save, publish, answer.

**Orchestrator** has one action per node of `graph.py`. The checkpoint changes
only when a node returns, so an action is the whole handler together with the
conditional edge behind it. The variables are the fields of the state that
decide a branch or are shown at a gate. `claims` is the set of gates whose
`gate_results` entry was written for the attempt under way: entries stay in
the code's dictionary after a rollback, and the model calls those of the
phases sent back outdated.

**PhaseLadder** is what the graph promises its user: four phases, each closed
by a gate; up only by approval, down only from a gate, out by the last
approval or by a block.

Definitions called `X...` with a comment `Mutant:` stand before `X` and are
plausible bugs; each is paired with a property in `PROJECT.json` and TLC finds
that property violated when the mutant replaces the definition.

## 3. Runs: what is checked and what it shows

| run | instance | shows |
|---|---|---|
| `daemon` | 1 daemon, 2 agents of 1 slot, 2 tasks, 2 boots, priorities 0 (out of range, stored as 2) and 3, lost and unacknowledged statements, a cancel of 1 task | `TypeOK`, `SlotAccounting`, `ManagerAgrees`, `NeverOvertaken`, `CancelHasCause`, `TerminalIsFinal`: counters, registry and rows agree with the goroutines through crashes, shutdowns, failing statements and cancels |
| `daemon_fleet` | 2 daemons, 1 task, 2 slots, lost and unacknowledged statements, 3 boots | `OneExecutionPerTask`, `HolderOwnsRow`, `ImplementsLease` |
| `daemon_recovery` | 1 daemon, 1 task, 3 boots, lost and unacknowledged statements, fairness | `EveryTaskEnds`, `CancelEndsExecution`, `ShutdownCompletes`, each under the premises of section 4 |
| `orchestrator_graph` | every plan over 2 subtasks, 3 consultations, 2 guard retries, 2 rollbacks | all properties of `OrchestratorProperties` but the last |
| `runner` | child and helper with every program of up to 2 lines each, overlong lines included; pipes of 1 line | `TypeOK`, `NothingLost`, `TruthfulOutcome`, `CancelEndsChild`, `RunReturns`, `CancelReturns` |
| `console` | 1 task, 1 page, 2 connections, channel and network of 1 message each, 1 chunk, fairness | `TypeOK`, `StaleHasCause`, `DaemonNeverWaits` |
| `doc_output` | 20 requests: three documents with up to 3 charts and every position; all source types at once, malformed and unknown ones included; rough ideas; command lines; every remote call may fail, or leave out its board or its token | all properties of `DocOutputProperties` |
| `daemon_quick_restart` | as `daemon_recovery`, but a boot may come before the rows expire | **violates** `EveryTaskEnds` |
| `daemon_stale_fleet` | 2 daemons, heartbeats that expire under a live execution | **violates** `TerminalIsFinal` |
| `daemon_pending_cancel` | 2 tasks, 1 slot, a child that never ends | **violates** `EveryCancelEndsTask` |
| `runner_full_pipe` | as `runner` | **violates** `DrainingPreventsBlocking` |
| `orchestrator_guard_budget` | no rollbacks, 1 subtask, 2 guard retries | **violates** `BlockedOnlyAfterRetry` |

**Bounds.** `MaxBoots` bounds the processes ever started; two boots are the
least at which a recovered row is claimed again by a later instance, three
let two daemons run and one of them come back. Two tasks are
the least at which order, overtaking and a waiting task exist. In `daemon` each
agent has one slot: two tasks of one agent are one more than it may run, with a
second goroutine there to exceed the limit, and two tasks of two agents run side
by side. One cancelled task at a time, and equal priorities for rows that never meet
in a claim (constraint `Bound`), keep it small. An instance with one agent of two
slots, three tasks, three goroutines and one boot, in which the free slots that a tick
computed race goroutines that end, has 1.87 million states and no violation of
`SlotAccounting` either. `daemon` has
timely heartbeats: with one daemon rows are recovered at its own boot only, when
no goroutine of it is left, so that a heartbeat that expires earlier changes
nothing; rows left by a crash do expire. In `daemon_recovery` and
`daemon_stale_fleet` rows under live executions expire too. One task is
enough for mutual exclusion: it is a property of one row, and rows only meet
in the order of claims. Two goroutine names for one task let a second
execution exist if the code allowed one. Names of goroutines are used again
once idle. `MaxRollbacks = 2` allows a rollback out of a pass that was itself
a redo; `MaxGuardRetries = 2` is more than one subagent's limit; the quota of
three consultations is the code's; two subtasks give empty, one-element and
two-element plans in both orders. Rollbacks and the sum of
guard retries have no limit in the code; the proofs hold for every value of
these bounds. A pipe of one line and processes of two lines are the least
at which a writer blocks and at which the two pipes can block each other's
reader; the child and its helper can also compete for one place.

In `console` a channel of one event is full while the handler has not read the
event before it, the second connection gives a reconnect, and one chunk a live
buffer to clear. Tasks and pages meet only in full channels and on no other
state, so that one of each is enough to see every cause of staleness; the proofs
have any number of them. The same instance with a channel of two events has
1,165,548 states and no error. In `doc_output` two charts are the least at
which a later one can overwrite an earlier one, and three leave one of them
between two that fail; they also leave an earlier chart whose board the guess of
a later one may hit. A request with the five source types has them end in
all 120 orders. `OverviewLimit = 4` elements cuts one item and spares the
others. Its `TEMPLATES.md` has a template with no fence of its own, one that holds
a fence, and a type without a fence, as the file in the repository has.

**Deadlock** is not checked: a daemon that has used up its boots stays down, a
workflow that is DONE or BLOCKED stays there, a Run that has returned or a
pipeline that has answered does nothing more, a browser may never connect again,
and a fleet nobody starts again is a behaviour of the system. That executions,
shutdowns and workflows do not get stuck is what the liveness properties say.

Task, goroutine and agent names are symmetric in the safety runs; the liveness runs
use no symmetry.

## 4. Fairness

*Daemon* (`DaemonLiveness`). Every goroutine of a process is scheduled and tickers
fire. Strong fairness is given to the statements that wait for a row lock (recovery,
`MarkRunning`, terminal writes), since the API may lock the row again and again: they
return in the end, with whatever result. It is also given to two statements that are
tried again at every tick, the claim that returns a row and the heartbeat that reports
a cancel: they may fail, but not always.
`TickAgent` is strongly fair because one `tick` visits all agents of
the registry. An API request that has taken a row lock commits or rolls back.
A supervisor starts a process that is down. No fairness is given to users, crashes,
shutdown signals, or to children, cancelled or not. What the code does not
guarantee is a premise of the property that needs it:

* `StaysUp`: crashes and shutdowns of one daemon stop at some point
  (`EveryTaskEnds`, `CancelEndsExecution`).
* `KeepsTrack` (`EveryTaskEnds`): that daemon loses track of no row. It does so when a
  terminal write fails, whose error is ignored (`daemon.go:135-147`), and
  when a claim takes effect and its answer is lost (`daemon.go:77`): the row then
  stays active for as long as the daemon is up, since rows are recovered at boot
  only. `forsaken` is the history of these rows. Such losses do happen in the
  run `daemon_recovery`; those of a daemon that goes down are made good at the next boot,
  and the property shows that.
* `ChildrenExit` (`EveryTaskEnds`): the code sets no limit on the time a child runs.
* `CancelledRunsReturn` (`CancelEndsExecution`, `ShutdownCompletes`,
  `EveryCancelEndsTask`): a run whose context is cancelled returns. The code sends
  SIGTERM and, after `WaitDelay`, SIGKILL, but it waits for the scanners first
  (`runner.go:115`), and so for a grandchild that keeps a pipe open: this is
  `CancelReturns` of the runner's model with its premise `HelperEnds`. Without it one
  such grandchild holds up the shutdown of the whole daemon.

`PatientRestart` says that the supervisor boots a daemon only after the rows of
its predecessor have expired. The code does not wait; without this assumption
`EveryTaskEnds` fails (run `daemon_quick_restart`).

*Runner.* The goroutines of the daemon run, `WaitDelay` passes, and the child
gets on with its program whenever its writes go through (strong fairness: two
writers compete for the place in a pipe) and exits in the end. A helper need not
end and nobody has to cancel. `RunReturns` and `CancelReturns` assume
explicitly that helpers end (`HelperEnds`), because `wg.Wait` waits for
whoever holds the pipes; `CancelEndsChild` needs no such assumption.

*Console.* The server's goroutines run, and a child ends (`WF` on each task's
publisher). Nothing is assumed of browsers, of the network, of the writes to them
or of the handlers: `DaemonNeverWaits` holds against a page that stops reading.

*doc_output.* Python goes on with what it can do. Only the publication has
loops, and only for it is fairness stated: weak fairness of its next step.
That every remote call ends at some time is assumed; `lark-cli` is run without a
timeout.

*Graph.* The automatic nodes are weakly fair: whoever resumes the graph brings
back the result of every dispatched subagent. Gates get no fairness: no user
has to answer.

## 5. Proofs

All proofs are for arbitrary sets and limits and are checked by `tlapm` to the
last leaf.

| theorem | says | module |
|---|---|---|
| `TypeCorrect` | `Spec => []TypeOK`, in every regime | DaemonProofs |
| `MutualExclusion` | `SafeRegime`: `[]OneExecutionPerTask` | DaemonProofs |
| `WritersOwnTheirRow` | `SafeRegime`: `[]HolderOwnsRow` | DaemonProofs |
| `TerminalFinality` | `SafeRegime`: `TerminalIsFinal` | DaemonProofs |
| `SlotsAccounted` | `[]SlotAccounting`, in every regime | DaemonSlotProofs |
| `RegistryAgrees` | `SafeRegime`: `[]ManagerAgrees` | DaemonCauseProofs |
| `CancelsHaveCauses` | `SafeRegime`: `[]CancelHasCause` | DaemonCauseProofs |
| `ClaimsInOrder` | `OneDaemon`: `[]NeverOvertaken` | DaemonCauseProofs |
| `DaemonImplementsLease` | `SafeRegime`: `ImplementsLease` | DaemonProofs |
| `ConsoleTypeCorrect` | `[]TypeOK` of Console | ConsoleProofs |
| `StaleHasCauseHolds` | `[]StaleHasCause` | ConsoleProofs |
| `NothingDroppedHolds` | `[]NothingDropped` | DocContentProofs |
| `MergeIgnoresTimingHolds` | `[]MergeIgnoresTiming` | DocContentProofs |
| `TemplateKeptHolds` | `[]TemplateKept` | DocContentProofs |
| `DocumentTypeCorrect` | `[]TypeOK` of DocOutput | DocOutputProofs |
| `ReportCompleteHolds` | `[]ReportComplete` | DocOutputProofs |
| `VerifiedBoardsHolds` | `[]VerifiedBoards` | DocOutputProofs |
| `ChartsInPlaceHolds` | `[]ChartsInPlace` | DocOutputProofs |
| `ChartsInOrderHolds` | `[]ChartsInOrder` | DocOutputProofs |
| `UrlSurvivesHolds` | `[]UrlSurvives` | DocOutputProofs |
| `RunTypeCorrect` | `[]TypeOK` of Runner | RunnerProofs |
| `OutputComplete` | `[]NothingLost` | RunnerProofs |
| `OutcomeTruthful` | `[]TruthfulOutcome` | RunnerProofs |
| `GraphTypeCorrect` | `[]TypeOK` | OrchestratorProofs |
| `RetriesDelivered` | `[]RetryReachesItsSubagent` | OrchestratorProofs |
| `ConsultationsAsked` | `[]ConsultationHasQuestion` | OrchestratorProofs |
| `LoopIsolated` | `[]LoopSeesItsOwnResults` | OrchestratorProofs |
| `GatesSeeAllReviews` | `[]ReviewsComplete` | OrchestratorProofs |
| `GatesShowCurrentClaims` | `[]ShownClaimIsCurrent` | OrchestratorProofs |
| `GraphImplementsLadder` | `ImplementsLadder` | OrchestratorProofs |

**Daemon.** `SafeRegime` is "heartbeats are timely, or there is a single
worker id". It is an assumption of the theorems and not of the code: run
`daemon_stale_fleet` shows what happens without it. `Inv1` (types, claims left
only during an agent's turn, shape of the goroutine table) holds always.
`Inv2` strengthens mutual exclusion until it is inductive: a live goroutine's
row was claimed and never went back to pending (`LiveRow`), its row names its
process until the terminal write (`HolderOwnsRow`), no two *live* goroutines,
including those that have written and not yet left, have the same task
(`OneLive`), and with timely heartbeats rows under live goroutines are fresh
(`FreshRow`). The heart is `RecoverySparesLive`: recovery at boot takes no row
from a live goroutine, with one daemon because it has none at boot, with
timely heartbeats because their rows are fresh. Everything else follows since
a claim takes only pending rows. `TerminalFinality` adds that every statement
that could move a terminal row finds its own row active.

**Slots.** `SlotInv` adds to the accounting that during an agent's turn
`inflight + free` stays within the limit: the free slots computed once are an
underestimate, since only the tick itself takes slots.

**Registry, causes and order.** `ManagerAgrees` is inductive together with `Inv2`:
`Start` and `done()` of one task cannot interleave because `OneLive` leaves a task
a single goroutine between its claim and its release. For `CancelHasCause` the
history of causes is traced back from the row: a flag in the table was set by a
request (`AskedFirst`), and an execution whose context is cancelled, whose
heartbeat is about to cancel it, or which is about to write `canceled`, has its
reason (`Reasons`); the heartbeat's answer "no row" would be one without a
cause, and `HolderOwnsRow` excludes it. `NeverOvertaken` needs three facts: a row
with no attempt is absent or pending and nobody runs it (`Unclaimed`), later
rows are younger (`Ages`), and a row that Claim skips because it is locked has
been asked to be cancelled (`LocksAsked`). It is stated for one daemon (`OneDaemon`):
with two, a Claim may pass over a row that the other's Claim has locked and then
rolls back.

**Lease.** With `Inv1` and `Inv2` each row has the holder that the lease names or
none (`HoldersOfRow`), and each action is mapped to a step of TaskLease or to
a stutter: claim, terminal write, recovery and the loss of holders are steps,
the rest leaves statuses and holders alone (`Stutter`).

**Console.** `StaleHasCause` speaks of the moment at which nothing is under way.
`Delivery` says what holds before: for a task whose execution is over, and a
page without one of the five excuses, the final row is the last thing about the
task in the channel (`InChannel`), or the last on the wire with nothing in the
channel (`OnWire`), or was handled with nothing behind it (`Arrived`). It
rests on `Rows` (a terminal row never changes, nothing runs before the INSERT), `Links`
(a page has its connection for itself, a new connection is empty) and `Lists` (a
terminal row in the initial reply is the final row). There is one lemma per way
in which the event moves: `LastEventDelivered`, `OtherEventDelivered`,
`WriteDelivery`, `MessageDelivery`, `ConnectionDelivery`, `LoadDelivery`.

**doc_output, content.** A document is what loops over lists make of the fetched
results. The library's induction theorems take an operator, which the provers
here cannot instantiate; what a loop computes is therefore shown by induction
over a *set* of naturals (`Least`, `UpTo`): FlattenSeq and FoldLeft are taken
one element at a time, and the set is that of the lengths for which the claim
holds. On this rest the lemmas about the operators: each of them gives a finite
sequence of elements, and each says where the elements of its result come from.
`FetchInv` says that every result belongs to a source of the request, no two of
them to the same one, and what a result may hold; `DocInv` that the document is
`RenderOf(fetched)` from the rendering on and empty before the end of the fetch.
Together they give that it is a finite sequence (`DocumentIsSequence`) and leave
properties of operators. For `NothingDropped` an item is followed through
grouping, overview and cut to the merged overview (`MergeKeepsItems`, for every
request and every template), and through the slots into the document of a
template that has one for the overview (`RenderKeepsItems`); for
`MergeIgnoresTiming` the group of a type is shown to be the one result of its
source, wherever it stands (`OneResultOfEachType`, `SameResults`); for
`TemplateKept` the search for the end of the chapter and for the closing fence
is shown to stop at the two fences (`FencedEnd`, `FencedBody`).
`TemplatesAssumption` and `RequestsAssumption` say that `TEMPLATES.md` is a
finite sequence of lines and that a request is a record with finitely many
sources, items and elements.

**doc_output, publication.** `ReportInv` says during the loop that the blocks
reported, skipped, under way and to do are the charts of the document,
disjointly. `VerifiedBoards` is about indices: tokens are given out in
increasing order (`BoardsInv`), the token of a verified chart is older than the
one being filled unless the chart being filled is in `blind` (`TokenInv`), and
in "auto" the k-th block goes to the k-th board, which needs facts about the
rank of an element in a finite set (`RankIncreases`, `RankExists`, `FirstBlock`)
and gives `PairInv`. `TypeInv` adds to the types what the loop knows at each of
its places: which tokens name a board, and that a chart under way is a block of
the document. `PlaceInv` says of `ChartsInPlace` what holds before a chart is
reported: the board under way stands where the position promises or was guessed
blindly, and in "auto" the board of every chart does, since as many boards as
charts, in their order, are one at each of them (`PairedPlaces`). Nothing is
assumed of the answers of `lark-cli`; what the two theorems leave out is said by
the history variable `blind`, see section 6. `OrderInv` adds to the indices of
"auto" that boards stand in the order of their creation (`FreshOrder`), which
gives `ChartsInOrder`. TLC checked `FetchInv`, `DocInv`, `TypeInv` and
`PlaceInv` as invariants of an instance of `doc_output` before they were proved.

**Runner.** `NothingLost` speaks of the moment of `cmd.Wait` and follows from
what the scanners saw before it. `RunInv` therefore says when a pipe's end is
seen for good: a scanner at its end has read everything and no process holds
the pipe (`EndOfPipe`), so nothing can be written or inherited any more; both
scanners have stopped once Run is past `wg.Wait` (`ScannersDone`); the error of
`cmd.Wait` tells of the exit status and of the signal (`WaitTold`); and before
the child is started nothing has happened (`Fresh`).

**Graph.** None of the properties is inductive by itself: what a gate shows
depends on what each node on the way has written, the edges depend on a stage
and a pending retry that other nodes left. `GraphInv` therefore says for each
node what it finds when it runs next: the stage (`StageOfNode`), the claims
(`ClaimsOfNode`), the results (`QueueOfNode`), and the properties themselves.
There is one lemma per node; `SevereKeepsInv` does the guard's part for all
seven dispatch nodes at once, `Arrival` the common part of the gates.
`GraphImplementsLadder` then reads the rung of a node off `StageOfNode`
(`RungBefore`, `RungAfter`) and maps each node to a step of the ladder. TLC
also checked `GraphInv` as an invariant of the instance of `orchestrator_graph`
before it was proved.

**Only model-checked:** all liveness (`EveryTaskEnds`, `CancelEndsExecution`,
`ShutdownCompletes`, `UserIsAsked`, `CancelEndsChild`, `RunReturns`,
`CancelReturns`, `DaemonNeverWaits`, `PublicationEnds`),
because TLAPS proves neither liveness under fairness nor ENABLED here. Every
invariant and every action property of a passing run is also a theorem. That
the hypothesis `SafeRegime` is needed is shown by a counterexample (run
`daemon_stale_fleet`).

## 6. Where code and documentation disagree

* **Recovery after a quick restart** (`server/daemon.go:47`, run
  `daemon_quick_restart`). Rows of an instance that died less than the orphan
  timeout before the next boot are skipped and never looked at again, while
  `DESIGN.md:16-18` says the boot recovers them.
* **Unguarded writes** (`server/task/queue.go:110`, run `daemon_stale_fleet`).
  `queue.go:16-17` calls all operations safe for concurrent use. With two
  daemons and a heartbeat that expired under a live execution, the first
  owner's write replaces the terminal status of the second.
* **Cancel of a pending task** (`server/task/queue.go:138`, run
  `daemon_pending_cancel`). The request is accepted and sets a flag, which
  nobody reads before the row is claimed and its heartbeat fires.
* **An overlong line** (`server/task/runner.go:99`, run `runner_full_pipe`).
  The loop over `sc.Scan()` ends at a line longer than `MaxLineBytes` (1 MiB),
  `sc.Err()` is not looked at, and nobody reads the pipe any more. The line may be the
  child's own or that of a helper that inherited the pipe; a later write of the child
  that finds no room, of a long or of a short line, then blocks until the task is
  cancelled, while `DESIGN.md:123-124` says that
  the draining goroutines prevent just that. A child that ends soon enough is
  recorded as completed with the rest of its output missing.
* **The guard's budget** (`orchestrator/scripts/graph.py:514`, run
  `orchestrator_guard_budget`). The budget is per stage, subagent and
  `retry_count`; a second dispatch of the planner within one `retry_count`
  may find it used up and is blocked at its first severe result, while
  `shrimp-graph/SKILL.md:543` says that the first one leads to a retry.

More disagreements have no run. `server/task/runner.go:46` says that Run
blocks until the process exits; it blocks until everyone who inherited its
pipes has closed them, which `NothingLost` is about. `DESIGN.md` names a
buffered semaphore per agent; the code counts in `inflight`.
`shrimp-graph/SKILL.md:695` computes the subtask index from the results, which
differs from the code during the loop and after a block, and
`shrimp-graph/DESIGN.md:1363` counts a consultation before it is answered,
which the code does after.

In the console, a page that reconnects does not load the list again
(`page.tsx:52`), and the reply to its first request replaces what it has been
told meanwhile (`page.tsx:33`): it then shows an old status until it is
reloaded. `StaleHasCause` lists these causes and shows that there are no
others. A pending task that is cancelled causes no event.

In doc_output:

* The guess of a board (`chart_publisher.py:197`). When the answer to an insert names
  no token, the code "trusts that the *last* whiteboard tag is the new one"
  (`:187-189`). It is not when the insert made no board, when the fetch does not show
  it yet, or when it was inserted before others ("inline"): the board of an
  earlier, verified chart is then overwritten, and both charts are reported with its
  token, while the module promises each chart a new board (`:5`, `:151`).
  The code foresees a success without a new board (it raises if there is no board at
  all, `:192-196`). `VerifiedBoards` and `ChartsInPlace` make an exception of the charts
  in `blind`; without it TLC finds both violated.
* "auto" publication means to avoid "skewed pairing" by listing all annotated blocks
  (`feishu_publisher.py:298-301`) and says that it skips the pairing "to avoid
  mismatch" when the numbers of boards and charts differ (`:329`). By its own comment
  Feishu makes a board of every mermaid block, annotated or not, and the code compares
  with `<` (`:324`): one block without an annotation moves all later charts by one
  board. The diagram placeholders of the shipped templates are such blocks.
  `ChartsInPlace` has the condition `Aligned` for that reason; `ChartsInOrder` says
  what the pairing keeps without it.
* Four answers to a rough idea are documented (`doc_output.py:433`), and the rest of
  `continue_after_confirmation` is commented as being about `confirm_continue` (`:449`);
  the code sorts out the three adjustments only (`:435`), so that any other answer,
  a misspelt one too, fetches and publishes.
* Merged content goes to `{{overview}}`, `{{details}}` and `{{references}}`
  (`template_engine.py:540-545`). No chapter of `references/TEMPLATES.md` has any of
  them: for all document types that the file describes, what was fetched is
  dropped, while `template_engine.py:5` and `README.md:341` of the subagent say that
  the content is filled into the template. Only the built-in templates, for other types
  and where the file is missing, have these slots. The second half of `NothingDropped`
  is about them, the first about the merged overview in any case.
* `_unwrap_markdown_fence` ends a template at the first bare fence
  (`template_engine.py:206-208`), although the templates of `design_doc` and
  `idea_refine` in `references/TEMPLATES.md` contain fences of their own: what
  follows is lost. `TemplateKept` is therefore about the document types whose
  chapter has one pair of fences and no more.
* The guess of a board's token (`chart_publisher.py:185-197`, "trusts that the
  *last* whiteboard tag is the new one") is right for appended boards only.
* Two sources of one type: the order in which their threads end (`as_completed`,
  `parallel_fetch.py:82-99`) is the order of their items in the document, and for equal
  keys decides which details stay. `MergeIgnoresTiming` has one source of each type as
  its condition; for two the document does depend on timing.
* A second item with the key of a first one replaces its details
  (`content_merger.py:80-118`); its overview stays, so that `NothingDropped` is
  about the overview.
* `FeishuPublisher.update()` does nothing and returns True; `content_collected` is
  true even if every source failed; `_detect_conflicts` is called by nobody.

## 7. Abstractions

*Daemon.*
* One SQL statement is one atomic step, except RequestCancel, whose lock and
  commit are separate, and Claim, whose lock on a row that it takes or rolls back is
  what other Claims see as `held`. A Claim left behind by a process that was killed, or
  by a lost connection, is taken to have been settled by the database before the next
  Claim of that worker. `created_at` is the position of the insertion.
* A worker id stands for a daemon. With the default id (host name and process
  id) each instance has a new one; with a configured id the instances of one
  machine share it. The model's daemon keeps its id over boots; recovery does
  not look at the id, so the other case differs only in names.
* The order in which a tick visits the agents is arbitrary. An agent whose
  slots are all taken is passed over without a step.
* The runner is `RunnerReturns`: the child exits in some way, and with a
  cancelled context in an error, since `exec.Cmd.Wait` returns `ctx.Err()`
  then. A cancel that comes after the child's exit and before the `switch` is
  ordered after `RunnerReturns`.
* `Crash` covers a kill, a lost machine, and exits of `main` that do not drain
  (an error of the HTTP server ends in `log.Fatalf`). A signal during
  recovery ends the process before its first tick: a crash as well. A tick
  interrupted by a shutdown is `TickFails`, with or without a row claimed.
* Events are module Console's; logs and the columns that are only displayed are
  left out. Get, List and CountInflight only read.

*Runner.*
* A line is short or longer than `MaxLineBytes`, and a pipe holds `Capacity`
  lines. The scanner reads an overlong line only in part, and what is left of
  it keeps its place in the pipe.
* The callback for a line publishes an event and never blocks; the goroutine
  that feeds stdin is waited for by nobody. Both are left out, as are the
  checks and failures before `cmd.Start`, which are `StartFails`.
* `os/exec`, pipes and processes are modelled as `runner.go` uses them.
  SIGKILL goes to the child alone, and a process that ends closes its pipes.

*Console.*
* The scheduler is cut down to one execution per task: a crash of the daemon
  takes the bus and all connections with it, and a task that is claimed again
  by the next instance is, for a page that reconnects, one whose earlier events it
  missed. A cancel of a task publishes nothing of its own. The upgrade of a connection
  and the subscription (`server.go:152-158`) are one step: an event published between
  the two is `missed`.
* Of a row a page shows the status and whether there is a result. The text of
  live output, its order and its stream are left out; whether a live buffer
  stays behind is not.
* The list of a page is not cut at the 200 rows the API returns; a page that is
  closed is one that never connects again. Pings are the ways in which a
  connection is found dead.

*doc_output.*
* A document is a sequence of elements. A block's text is its source and its
  syntax; the cut at 2000 characters falls between elements; what stands around
  a template's slots is left out, as are the metadata header, the wording of
  answers, and `validate_chart_prose_interleaving`, which only warns.
* A source that is fetched answers, is missing, answers with nothing or, for a
  repository, with a message about its failure, which the code takes for
  content.
* `boards` is the published document as `lark-cli` changes it. A call may fail
  before or after its effect, an insert may succeed without a board or without a
  token, and a fetch may not show the newest board yet. When the SDK has created
  a document and its answer is lost, the CLI creates a second one; the model
  goes on with that.
* `blind` collects the charts whose answer had no token and whose board the
  fetch that replaces it could not show as the last one: none was made, it
  stands before others, or it was not visible yet. `VerifiedBoards` and
  `ChartsInPlace` make an exception of these charts and of no other.

*Graph.*
* Of the state only the fields that decide a branch or are shown at a gate are
  kept; logs, warnings, artifacts, messages, hint and consultation records
  and `rollback_counts` are written and read by no branch.
* Whether the guard finds something severe in a result is arbitrary, as is
  what a subagent answers within the forms its node accepts.
* A handler that raises and a process that dies leave the checkpoint as it
  was: a stuttering step.
* `state.py` and `graph_cli.py` are not in the repository's sources; how the
  graph uses them is taken from `graph.py`.

## 8. Not modelled, and the plan

* **Shutdown of the process** (`server/main.go`). `run()` and `StartHTTP` keep no
  state but three channels. After a signal `run` may take the scheduler's result
  in its `select` (both channels are ready when the scheduler has nothing to
  drain) and then receives from the same channel again, which nobody sends to:
  the process hangs until it is killed. Its executions are over by then, so
  that the table does not notice; `ShutdownCompletes` is about `Daemon.Run` and
  not about the process.
* **Control CLI** (`server/cmd/daemon.go`). One short sequential program per
  call. Two `start` at once can both find no live process; `stop` signals the
  `go run` process that it started, and whether the server behind it is told
  depends on that tool.
* **A child that survives its daemon** (`server/daemon.go:46`). Nothing in the
  code records a child; what the old one does is outside the system's state.
* **Set-up** of agents, configuration and database, sequential and over before
  the daemon starts; argument and YAML parsing; the forms and tables of the
  console.
* **Prompts, references and design data**, which are prose; of
  `references/TEMPLATES.md` the structure of headings, fences and slots is used.

Next, in this order: the shutdown of `main.go` composed with an abstract
scheduler that returns some time after its context is cancelled; the control
CLI with two controllers; the safety lemmas that the liveness properties rest on
(which steps can undo progress), since liveness itself stays with TLC.
