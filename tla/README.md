# A formal model of sonar-migration-tool

`sonar-migration-tool` moves projects from a SonarQube Server to SonarQube Cloud:
it *extracts* a server into files, derives a *structure* and *mappings* from them,
and *migrates* by creating the objects on Cloud, importing every branch of every
project as a scanner report, and replaying on Cloud what people had decided about issues.
This directory holds TLA+ models of the parts of it where order, concurrency, retries or
crashes decide whether the result is right, the TLC runs that check them on small
instances, and theorems that TLAPS checks for all values of the constants.

- [The system](#the-system)
- [What is modelled where](#what-is-modelled-where)
- [Runs](#runs)
- [Fairness](#fairness)
- [Proofs](#proofs)
- [Disagreements between the code and what is said of it](#disagreements-between-the-code-and-what-is-said-of-it)
- [Abstractions](#abstractions)
- [What is not modelled](#what-is-not-modelled)
- [Plan](#plan)

Run everything from this directory: `tlc -config X.cfg M.tla`, `tlapm M.tla`.
`PROJECT.json` lists components, runs, theorems, hazards, and for every definition the source
lines it stands for. Paths below are relative to the repository's `src`.

## The system

| Part (source) | State it keeps | Operations | Hard behaviour | Correct when |
|---|---|---|---|---|
| **Project data import** `go/internal/migrate/tasks_projectdata.go`, `history.go` | rows in `importProjectData` (JSONL, on disk), the set of completed branches, the target's branch list as a project read it | admit projects and branches, Phase 1 (main), rename, Phase 2 (others), history replay, build, submit, poll, record | two nested gates, cancellation at any point, resume after a crash, reports that outlive the process that sent them | a "success"/"up_to_date" row is true; no branch report before a main analysis; every selected branch is accounted for; a run ends |
| **Report submission, CE polling** `go/internal/scanreport/submit.go` | none (CE task id) | submit with one retry, poll until a terminal status | a submission whose answer is lost, a poll that times out | a report the CE refuses as too old costs nothing |
| **Concurrency limiter** `go/internal/migrate/concurrency.go` | latency window, figure | record a sample, recalculate | a figure that oscillates or jumps | in range, slow up, settles |
| **Dynamic admission gate** same file | an atomic counter, a channel of capacity 1 | Acquire, Release | lock-free, limit moves, signals are dropped | never above a limit it read, no lost release, no waiter stranded |
| **Sliding-window limiter** `lib/sq-api-go/ratelimiter.go` | log of grants, queue of waiters | Wait, tryAcquire, wakeHead, dequeue | timers, wake-ups and cancellation race | no window above the limit, FIFO, a free slot is taken |
| **Retrying transport** `lib/sq-api-go/retry.go` | a gate deadline shared by all requests | RoundTrip, waitIfBlocked, planRetry, extend | many requests meet a rate limit at once, bodies that cannot be replayed | the pause reported is real time, no spent body goes out, every request returns |
| **Adaptive pagination** `go/internal/common/rawclient.go` | table of learned page sizes, per fetch a walk | GetPaginatedResult | page size changes in mid-walk, hidden items, caps | no item twice or skipped, ceilings kept, ends |
| **Extract run** `go/internal/extract/{extract,helpers,failed_projects}.go` | phases, failed and skipped projects, failure streak; done markers, rows and `failed_projects.json` on disk | fan out, skip, declare an outage, take it back, resume | concurrent tasks share the streak; stop in the middle; resume | a complete extract never silently lacks a project |
| **Issue slicing** `go/internal/extract/slice*.go` | a walk over windows, what is on record | bisection by date, then by facet | a result ceiling, issues born and closed during the walk, servers that ignore dates | what is missing is on record; a busy server is not taken for a loss |
| **Structure and mappings** `go/internal/structure` | CSV files, several extracts of one server | merge extracts, drop what a later one replaced, derive CSVs | partial, resumed, stopped extracts | nothing read twice, what is hidden was read again |
| **Migrate task engine** `go/internal/migrate/{migrate,planner}.go` | output directories of tasks | plan, phases, item loops, resume | a directory is taken for a finished task, tasks run side by side | a task finds what it needs; a clean run is whole |
| **Rows on disk** `go/internal/common/{writer,store}.go` | chunk files, done markers | append, discard, mark | several writers and attempts on one directory | the newest row of an item is the last one read |
| **Settings** `go/internal/migrate/tasks_setglobalsettings.go`, `tasks_configure.go` | memo of refused keys, tallies, definitions | write to organizations, fan out to projects, propagate | two tasks write the same settings, projects not known everywhere yet | a project's own value wins, nothing lost without a word |
| **Quality gates** `tasks_configure.go`, `gate_*.go` | rows of gates | create, merge, resolve, replace conditions | call by call, with failures and people beside it | the strictest condition stays; a set is never wiped for nothing |
| **Issue and hotspot sync** `tasks_issuesync.go`, `tasks_hotspotsync.go` | rows | match and apply metadata | repeated application, partial failure, lagging index, people at work | nothing twice, people's decisions stay |
| **Synthetic history** `go/internal/scanreport/history*.go`, `migrate/history.go` | none | make up a report from measures | totals that must come out | measures come out as they were |
| **Short-lived branch guard** `slb_reference_branch.go` | Cloud setting, a deferred restore | alter and restore the pattern, drop branches | failure, cancellation or crash between the two | the pattern is put back |
| **Reset** `reset.go`, `tasks_delete.go` | rows | confirm, make built-ins the defaults, delete by phase | listing is old when used, partial failure | only confirmed organizations, built-ins stay |
| **Migration report** `go/internal/report/summary` | buckets of objects | a fixed order of passes, each moving rows | passes that undo or miss each other | no object vanishes, none is listed twice |
| **Wizard** `go/internal/wizard` | wizard state, CSV files | phases, Back, restart, resume | failure and kill at any prompt, steps back after work was done | what is migrated is what was extracted and mapped |
| **Browser interface** `go/internal/gui`, `go/cmd/gui.go` | one connection, one pending prompt, one wizard | prompts over a web socket, start, cancel | connection dropped with a prompt pending, page reloaded | an answer reaches its prompt; a wizard can be cancelled |
| Create and associate tasks `tasks_create.go`, `tasks_associate.go` | rows | one call per object | lookup of what exists | (shapes of task in the engine) |
| Extract tasks `go/internal/extract/tasks_*.go` | none | requests per project | 403/404 against failure | (outcomes in the extract run) |
| Branch selection, progress and ETA, report building, prediction and regression test, transfer and commands, pipelines by version, SDK types, generated protobuf code | none that matters | pure functions, display, encoding, wiring | - | see [What is not modelled](#what-is-not-modelled) |

How they meet. Every task of *extract* and *migrate* makes its calls through the SDK
client: a call waits in the sliding-window limiter, goes through the retrying transport
and its gate, and, when it lists something, is one page of an adaptive fetch. *migrate*
records the latency of calls in the concurrency limiter; the figure of the limiter is the
limit of the dynamic gate through which projects and branches of the import are admitted,
and build slots are a plain semaphore inside it. The import and the Compute Engine of
Cloud share the target project: reports wait in the engine's queue, also after the process
that sent them is gone. Runs communicate with later runs through files alone: rows, done
markers, lists of failed projects. The wizard chains the phases and may run behind a browser
page; the report is made afterwards, from rows and from the log of requests.

The hazards of this code (what a test would hardly reach, each at its line, with the
property that would catch it) are listed in `PROJECT.json` under `hazards`.

## What is modelled where

| Module | Models | Composed or proved in |
|---|---|---|
| `ConcurrencyLimiter` | latency window and figure | extended by `DynamicGate`, `TransportProofs` |
| `AdmissionGate` | *abstract*: what a gate with a moving limit promises | implemented by `DynamicGate` |
| `DynamicGate` | `Acquire`/`Release`, one step per atomic operation | `MCThrottle`, `TransportProofs` |
| `ImportProjectData` | the import task and what it needs of the Compute Engine | `MCImportProjectData`, `ImportProjectDataProofs` |
| `SlidingWindowLimiter` | `Wait` with its locked sections and timers | `MCConcurrent`, `TransportProofs` |
| `RetryTransport` | `RoundTrip` and the shared gate | `MCThrottle`, `TransportProofs` |
| `AdaptivePaging` | `GetPaginatedResult` | `MCAdaptivePaging`, `ExtractProofs` |
| `ExtractRun` | a run of extract and the runs that resume it | `MCExtractRun`, `ExtractRunProofs` |
| `IssueSlicing` | the walk over date windows and facets | `MCIssueSlicing`, `ExtractProofs` |
| `ExtractMerge` | several extracts of one server and what readers see of them | `MCExtractMerge`, `ExtractProofs` |
| `MigrateRun` | plan, phases, item loops, chunk files, resume | `MCMigrateRun`, `MigrationProofs` |
| `SettingsMigration` | both settings tasks | `MCSettingsMigration`, `SyncProofs` |
| `GateConditions` | gates and their conditions | `MCGateConditions`, `SyncProofs` |
| `IssueSync` | replay of triage on migrated issues | `MCIssueSync`, `SyncProofs` |
| `SyntheticHistory` | the report made up for a historical point | `MCSyntheticHistory`, `ExtractProofs` |
| `BranchGuard` | pattern altered and put back around an import | `MCOrgReset`, `MigrationProofs` |
| `OrgReset` | the reset of organizations | `MCOrgReset`, `MigrationProofs` |
| `MigrationReport` | the passes that sort objects into the report's lists | `MCMigrationReport`, `MigrationProofs` |
| `WizardPhases` | phases, files and sessions of the wizard | `MCResumption`, `WizardProofs` |
| `GuiSession` | hub, prompter, page | `MCConcurrent`, `WizardProofs` |
| `LoopFacts` | *lemmas*: what loops over finite data compute | four of the proof modules |

`MCConcurrent`, `MCResumption`, `MCLargeResults`, `MCSync`, `MCThrottle` and `MCMigration` put
components that share no state *side by side* in one run: a variable (`turn`, `side`) picks one of
them at the start, the others rest in one of their initial states, and the next-state relation
takes the steps of the one picked. Every behaviour is thus a behaviour of one component, the state
space is the sum and not the product of theirs, and a fairness condition holds of the component
whose turn it is.

An operator whose comment begins with *Variant* is not part of a specification: it is a
definition as a plausible bug would leave it (a guard dropped, a reset missing, an
off-by-one), and serves to show that the property listed with it under `mutants` does fail
when the code is wrong.

### ImportProjectData

The state of a process is `run`, `cancelled`, `completed` (what `loadCompletedBranches`
read), `projPc`/`brPc` (where the goroutine of a project, of a branch, stands), `snap` (the
branch list `importProjectDataOne` read once, at the start of a project), `hist`. What
survives a crash is `rows` on our side and `queue`, `tMain`, `tDate`, `tSrc` on Cloud's. Slots
of the gates are not variables: they are the goroutines at the places that hold one.

| Action | Code |
|---|---|
| `Resume`, `StartNew` | start of the task: `loadCompletedBranches` of the rows on disk; a new run re-reads the source, whose branches may have moved |
| `Crash`, `Cancel` | process killed; context done |
| `AdmitProject`, `StopAdmitting` | `runImportProjectData` fan-out through the gate, and its end on a done context |
| `ImportProjectDataOne` | up to the main branch: branch list, short cuts |
| `GatedImportMain`, `RecordPhase1Skips`, `EndPhase1` | Phase 1 and what happens to the other branches when it fails |
| `RenameSCMainBranchToSource` | rename, which may fail and be tolerated |
| `AdmitBranch`, `CancelledBeforeImport`, `ImportAndRecordBranch` | the branch gate, a done context, completed and up-to-date branches |
| `ReplayHistoryPoint`, `PollHistoryPoint`, `EndHistory` | `replayHistory` |
| `AcquireBuildSem`, `BuildAndSubmit`, `PollCETask` | build under `BuildSem`, submit, poll, record |
| `ProcessReport` | the Compute Engine (external) |

### DynamicGate, ConcurrencyLimiter, AdmissionGate

`DynamicGate` splits `Acquire` at each atomic operation: context check, read of the limit,
load of the counter, compare-and-swap, select on the channel, the context or the poll
timer. `Release` is the decrement and the non-blocking send. The limiter's tick runs in
between, so the limit read may be stale at the swap: the abstract gate therefore remembers
what limit was offered to each unit. `AdmissionGate` says only: a unit goes in if fewer are
inside than an offer it was made, and a unit comes out. `ImplementsGate` is the refinement
(`INSTANCE AdmissionGate WITH inside <- Inside, limit <- current, offer <- lim`).

### SlidingWindowLimiter

Each section under `l.mu` is one action: `Enqueue`, `Grant`/`Refuse` (`tryAcquire`),
`Dequeue`. `Notified` and `TimerFires` are the select, `GiveUp` the context. Grants are kept
by age, sleeps by what is left, so that runs of any length have finitely many states.
`recent` is a history variable: all grants of the trailing window, whatever the log was
purged of.

### RetryTransport

`Issue`/`Send` are `waitIfBlocked` and the attempt, `Outcome` is `shouldRetry` with
`planRetry` (one action, as it is one call with the gate locked inside) or the return,
`Retry`/`Abort` the two ends of the backoff. `held` (ticks the gate was closed) and
`throttled` are histories; `reported` is what the observers are told.

### AdaptivePaging

A fetch is a record; `ReadPage` is one good page, `FallBack` and `FailAtOnce` what a bad one
does, `Succeed` the end with its table update. `server` is chosen once: the number of items,
which of them are hidden from this caller, whether a total is told. Item numbers in units of
100 stand for items: page sizes 500, 200, 100 are 5, 2, 1.

### ExtractRun

A phase ends when all its tasks have; a task fans out over projects with `Slots` requests in
flight over the whole run (`Ask`), each ending in `Succeed`, `Refuse` (403/404: a project the
token may not see) or `Fail`. `Fail` skips the project and counts the streak; the failure that
reaches `MaxConsecutive` puts its request in `stopping`, and `EndOutage`, a later critical
section, takes back the failures of the streak and the done markers they spoiled. `FinishTask`
writes the done marker, `FailTask` ends a failed one, `EndRun` writes the list. `Start` is also
the resume: done tasks stay, the partial output of the others goes. `Crash` loses all but the
disk.

### IssueSlicing

The walk of one project: `stack`, the calls of the recursion still to make (windows to count, to
split or to fetch, seconds, cells), `collected` and `twice` what was absorbed, `lost` and `reasons`
what is on record. Each request is a step of its own (`ProbeRange`, `CountWindow`, `FetchWindow`,
`CountSecond`, `SplitByFacet`, `FetchCell`, ...); between two of them `Born` and `Close` change
what the server has. The edges of the range are open: a window at an edge that cannot be split
is widened once, to catch what lies beyond it (`WidenOrClose`). A server may honour the date
bounds, ignore them (`CheckDates`, and `Backstop` at `MaxDepth`) or reject them (`DatesRefused`);
in both cases the walk degrades to the unsliced fetch and says so. A facet lists no more than `MaxBuckets`
values, so that a second is split by one only when the issues listed account for those counted
(`Accounts`; kinds are so few that all are listed), and is given up with a record otherwise. `Conclude` is the
reconciliation of what was counted with what was fetched.

### ExtractMerge

An extract is the record of its directory: scope, done markers, what each task wrote, the failed
projects. `Begin`, `ResumeExtract` (with the scope the directory had), `FinishPhase`, `End`,
`Stop` and `KillExtract` make such directories, `Delete` takes a project from the server. What
readers see is operators: `MergedSet` (the newest full extract and the slices after it),
`Hides` (what a later extract replaces), `View` and `Csv`. `MergeInit` holds nothing; the
interleaving of interest is of extracts with and without scope, stopped and taken up again.

### MigrateRun

Three shapes of task stand for the registry: a *loader* makes rows of a mapping CSV, a *creator*
creates an entity per row, an *applier* works on the entities a creator recorded. `Needed`,
`Ready`, `Plan` and `FilterCompleted` are the planner; `BeginPhase`, `StartTask`, `EndTask`,
`EndPhase` the phases, no more than `Width` tasks at a time, each with its own writer;
`Admit`, `Create`, `CreateFails`, `PassOver`, `Apply`, `ApplyFails` the item loop, `Fanout` items
at a time; `TakeIndex` and `WriteRow` the two halves of a write, the index reserved under the lock
and the file written outside it. `StopAdmitting` is the loop on a done context, `GiveUp` its end. `Interrupt`,
`Crash` and a failed task end an attempt; `Resume` keeps the directory, `StartFresh` begins
another one.

### BranchGuard and OrgReset

`BranchGuard` is one project: `LeavePattern` or `SetPattern` on the way in,
`DropLongLivedBeforeShort`, `ImportBranch` and `SkipCompleted` per branch, `EndImports`, then
`Restore` or `RestoreFails` (deferred; it runs on a cancelled context too). A crash runs no deferred call.
`SetOrgPattern` is the other task that writes a pattern.

`OrgReset` is `RunReset` after the operator's answers (`Confirm`): phases by dependency, in each
a task reads a list (`List`, `ListFails`) and works it off organization by organization.
`Promote` is an administrator who makes something a default between the two; Cloud refuses to
delete a default. `CreateProjects` and `CreatePortfolios` are the migrations of before, which
leave the records reset reads.

### SettingsMigration and GateConditions

Two goroutines, one per task; `step` is the pass of each, `walk` and `outcome` where the task of
globals stands with a key and what it recorded, `job` the write the task of projects is at,
`covered` what projects set for themselves, `rejected` and `outcome` the memos of refusals,
`orgValue` and `ownValue` what Cloud holds. `FanOutCall`, `FreshOrgApply`, `PropagationCall` and the body of `BeginRecord` are one
write each, with the retry on a project that is not known yet (`Learn` makes it known).

`GateConditions` runs its three tasks one after the other. `MergedConditions`, `Expanded`
and `Resolved` are the pure part: conditions of all rows of one gate, metrics replaced by the
table, the most stringent of each metric. `ShowGate`, `DeleteCondition` and `CreateCondition` are
a call each, which may fail; `EditGate` are people, `MigrateAgain` is the next run.

### IssueSync

`world` holds the findings of the source, `cloud` the issues of the target, `todo` what the
goroutine of a finding still has to call. `Candidates` and `Calls` are pure: who the counterpart is and which calls follow from what the
lookup returned. `Visit` reads the counterpart, `Call` makes the next call of a plan with what
was read, which another finding or a person (`Edit`) may have overtaken. An issue is looked up
when its goroutine starts, the hotspots of a branch all before (`Fetched`). `Count` is the wait
for the index, which lags (`IndexCatchesUp`).

### SyntheticHistory

Pure: `LineCount`, `LineCoverage`, `Duplication`, `Severities`, `Efforts` and `SyntheticIssues` make a
report of the measures of a point, and the properties add it up again as the Compute Engine
would. The code's rounding and clamping are kept, since they are what could go wrong.

### MigrationReport

The state is the buckets of a section and the rows of `importProjectData`, written first by
`RecordBranch` in any order a run and its resumes may; `Pass` then applies the next pass of
`CollectSummary`, from `CollectSection` to the classifications of projects, portfolios, gates and
profiles. Evidence (which call failed, for what) is chosen at the start; `ReportAssumption` says
which events can befall one object together (`Fates`: a create ends in one way).

The log of requests gives names, and names are shared, so that `ReportIsWhole` has two exceptions.
An object may be `Eclipsed`: the failed create of a project is dropped from the report when another
project of its name has a record of its own conflict (`mergeExplicitProjectFailures`), and an
"already exists" that nobody recovered from when another object of that name and organization was
made (`dropFailuresAlreadySucceeded`: the log has no language, as its comment at
`collect.go:916-918` says, and two profiles may differ in nothing else). And an empty portfolio
whose create failed is listed as failed and as skipped (`applyEmptyPortfolioSkips`). TLC reaches all
three in the run.

### WizardPhases and GuiSession

`WizardPhases` has the saved state, the state in memory, and the files, each of which remembers
what it was made from: `newest`, `structured`, `orgsFile`, `mappings`. `said` is what the user last
said of each organization row. A
prompt and what follows from the answer is one step; any may fail (`FailPhase`,
`InterruptWizard`), after which the user may restart from an earlier phase (`RestartFrom`).
`GoBack` is Back among the organization rows or out of them. `KillWizard` loses what was not saved.

`GuiSession` has the hub's connection, the messages on their way in either direction, the
prompter's pending prompt, the page's controls and the wizard's goroutine. `Break` and `Reload` lose
what is under way; `Connect` and `Register` are the two ends of a new connection, between which
messages go nowhere; `Return` and `SayFinished` are apart, since a wizard that ended may still be shown
as running.

## Runs

| Run | Side by side, with bounds, and why they are enough |
|---|---|
| `Concurrent` | *Import:* two projects with 3 and 2 branches (one main must be renamed, one branch has nothing to submit), 2 project slots, 2 branch slots, 1 build slot, so that projects wait for each other at both inner gates; the run may be cancelled, reports refused, submissions, listings and renames fail. *Limiter:* ceiling 40, target 1500/min, latencies 20, 500, 2000 ms (the desired figure is 1, 13 and 50, above the ceiling), 3 changes of latency, 3 samples mixed in a window, initial figure 0, which is clamped. *Window:* 3 callers and 2 slots in a window of 3 ticks: a waiter refused behind another, a head that leaves while a slot is free, two grants of different age; callers come back for ever. *Browser:* 2 connections, 2 runs of the wizard, 2 prompts, a reload: an answer or a cancellation may come on an old connection, or from a page that forgot. |
| `Resumption` | *Import:* one project, main renamed, one more branch, one slot at each gate, one history date (before the last analysis of main, on that of the other branch), every fault (crash and lost answers too), 2 runs: one to leave a state and one to misread it; dates up to 3 let a new run see a branch that moved. *Extracts:* projects a and b, a portfolio, 2 extracts with and without scope, one resume, one failure, one project deleted. *Wizard:* 2 organization rows, 2 extracts and structures, a kill, 3 sessions, 2 steps back. |
| `LargeResults` | *Pages:* all three page sizes, requested sizes that are and are not among them, a window of 9 which 5 and 2 do not divide, limits of 0 (none) and 3 pages, a hidden item, totals told or not, empty or not; 2 fetches share the table; one retry at the smallest size. *Slices:* ceiling of 2 issues, 7 seconds (which bisection halves unevenly), several issues in one second with and without facets that tell them apart, answers of up to 3 values of a facet, 2 issues born or closed during the walk, one failing probe, all three treatments of dates. *History:* points with every rating, counts that do not divide, more lines to cover than lines, nothing measured. |
| `Sync` | *Triage:* 2 findings and 2 issues in worlds where they match exactly, nearly, crosswise or not at all, issues and hotspots; 2 runs, one lost or failed call, one edit by people, 2 counts of the index. *Settings:* 2 projects in 2 organizations, 2 keys, 3 tries while a project is not known, one outage; the scenarios have keys defined for organizations, for projects, for both, and refused. *Gates:* 3 rows that come to 2 gates, metrics replaced by the same other metric, 2 runs, 2 failing calls, one edit. |
| `Throttle` | *Gate:* 3 goroutines, one inside, one between load and swap, one releasing; the limit moves between 1 and 3, also with nobody releasing, the case the poll timer is for. *Transport:* 3 requests, one not replayable, one that hands slow statuses back; schedules of one and two waits (1, then 3 ticks), so that a later wait may be shorter or longer than the gate; Retry-After above the cap. |
| `ExtractResume` | 2 tasks that fan out in one phase, another in the next, 3 projects, outage after 2 failures, 2 requests in flight, 2 runs, a crash, one project a request may be refused for: an outage may strike with tasks done before and during its streak and with a project outside it. |
| `Migration` | *Engine:* 5 tasks (loader, creator, two appliers, one of them with a resume of its own, and one behind it) on 2 items, 2 tasks and 2 items at a time, 2 attempts, exclusions and two goals, an entity of another organization. *Report:* 3 objects of which two share a name in different organizations (profiles all share one, also within an organization; portfolios share none), each section in turn, up to 3 rows of the import. *Reset:* 2 organizations of which one is confirmed or both are, all kinds of entities, built-in and custom, a project and a portfolio, one step of an administrator. *Guard:* a reference and a plain branch, all patterns, 2 attempts. |
| `ImportStaleDates`, `DroppedWereCompleted`, `OnlyCreatedDeleted`, `ConflictIsSurfaced`, `PortfolioStays` | disagreements, see below; each of a single module |

What the passing runs show:

- `CompleteRowsAreMigrated`: a row "success" or "up_to_date" is true of the target, whatever
  crashed, was repeated, resumed or renamed (but for the case of `ImportStaleDates`).
- `BranchReportsAreAnchored`: Phase 1 is a barrier; no branch report goes out before main.
- `BranchesAreAccounted`: on each of the many paths a branch's import may end
  (gate refused, context done, main failed, imported) it gets one row, and only one, of this
  run, or is complete already (`NoBranchVanishes`, `OneRowPerRun`).
- `TooOldMeansHeld`: the engine refuses a report that is not newer than the branch's newest
  analysis. Neither the history of the branch nor a report repeated or left by a dead run can
  cause that for a snapshot the target does not hold.
- `EveryRunEnds`: gates nest (project, branch, build), and the run ends.
- `FigureIsSteady`: the limiter's figure grows by a bounded step (`SlowStart`) and settles when
  latency does (`Settles`).
- `WindowInv`, `NobodyStarves`: no trailing window holds more grants than the limit, no caller
  sleeps beside a free slot with nobody to wake it, everybody is served.
- `PageInv`, `OneWizard`, `CancelEnds`: answers reach the prompt they were given to, a prompt is
  not lost while its connection holds, a wizard that is under way can be cancelled, there is
  one, and a cancelled one ends.
- `ViewInv`, `EarlierWorkStands`: of merged extracts no record is read twice, what is hidden was
  read again, a project of `projects.csv` has its records; a resumed extract pushes no other out of
  what is read, and organizations exported by the wizard carry the user's last word.
- `WizardInv`: what is migrated was extracted, structured and mapped from the extract the state
  names; a session that resumes finds its inputs.
- `PagingInv`, `EveryFetchEnds`: pages are a whole prefix, ceilings kept, what is remembered is
  of use, a fetch ends.
- `WalkIsExact`, `RecordsAreHonest`: losses on record are those there are, windows do not overlap,
  a missing issue leaves a record, a busy server is no drift, ignored dates are found out, the
  depth backstop is only that.
- `SnapshotAddsUp`: coverage, duplication, counts, debt and ratings come out as measured.
- `SyncInv`, `PeoplesWorkStays`: no comment twice, tags survive, a marked issue is complete, an
  index that lags is not taken for empty; a marked issue keeps what people did since, and a
  hotspot acknowledged on a branch is not dismissed by another branch's record.
- `SettingsInv`: a project's own value wins, pinned only where the organization cannot hold
  the key, a refused key is not tried again, nothing is lost without a failure counted.
- `GatesAreMigrated`: a gate reported clean is as strict as all its sources; no gate is emptied
  without a failure counted.
- `ImplementsGate`, `PauseIsWallClock`, `BodiesAreWhole`, `EveryoneGetsThrough`: the lock-free gate
  implements the atomic one and strands nobody; the pause reported is real time, no spent body
  goes out, requests return and a recovery is announced only after one.
- `DoneTasksAreWhole`, `WrittenOnce`, `EveryExtractEnds`: the extract.
- `EngineInv`, `NeverTouchesForeign`, `NewestRowIsRead`, `CleanRunIsWhole`: a task runs after what it
  depends on and works on real rows of its own organization; the newest row of an item is read;
  an attempt that ends without a failure left nothing out.
- `ReportIsWhole`, `VerdictIsWorst`: no object vanishes from the report, but for one that a namesake
  eclipses, or is listed twice, and
  the verdict on a project does not depend on the order of passes and rows.
- `ResetInv`, `UnconfirmedUntouched`, `PatternComesBack`: the reset and the guard.

Deadlock is checked but in `Sync` and `Migration` and the violations that share their modules,
whose systems stop when the operator runs nothing more. Elsewhere an action says where the system
may stop: `Stopped` (no operator starts another run), `Quiet` (all fetches ended), `Leave` (the
directory is used no more), and stuttering steps of the browser, the merged extracts, the
wizard, a walk that is over and a report that is built.

Symmetry (of the two fetches) is used in `LargeResults` alone, which checks no liveness:
`EveryFetchEnds` is stated there as progress, an action property. A request that does not end its
fetch leaves it at a smaller size, or with one of few retries gone, or a bounded number of pages
further on; this order has no infinite descent.

## Fairness

- *Import:* goroutines are scheduled (`WF` per project and per branch: a
  goroutine that can run does, and the gates admit any waiter), and the Compute Engine
  processes what is queued. The poll has no deadline of its own: a run
  whose reports the engine never processes ends only when it is cancelled. Nobody has to
  cancel, and nobody has to start another run.
- *Gate:* every step of `Acquire` and the send of `Release` are scheduled; a unit inside may
  stay as long as it likes, so `Release` is not fair. The limiter is not fair either.
- *Limiter:* calls go on being made and the ticker ticks.
- *Sliding window, transport:* time passes and goroutines are scheduled; the network answers
  or times out. No context has to be cancelled.
- *Browser:* the goroutine of a wizard is scheduled; the user, the page and the network owe nothing.
- *Paging:* none; termination is shown by the order above.
- *Extract:* some goroutine that can run does, and each request is answered or times out. One
  condition for the whole process: no task is promised its turn, and yet the run ends.

Fairness is weak everywhere: Go schedules a goroutine that stays runnable. Nothing asks for
strong fairness of a gate, which would hide starvation. Where components are side by side,
the condition is `WF(turn = x /\ A)`, that of the component alone.

## Proofs

| Module | Theorem | Property of a run | Assumes |
|---|---|---|---|
| `ImportProjectDataProofs` | `ImportTypeCorrect` | | |
| | `BarrierIsInductive` | | `MainsBuildable` |
| | `BarrierHolds` | `BranchReportsAreAnchored` | `MainsBuildable` |
| | `RowsAddUp` | `BranchesAreAccounted` | |
| | `CompleteRowsAreTrue` | `CompleteRowsAreMigrated` | `NamesApart` |
| | `NoReportIsOvertaken` | `TooOldMeansHeld` | `NamesApart` |
| `TransportProofs` | `GateTypeCorrect`, `CounterCorrect`, `RetryTypeCorrect` | | |
| | `GateImplementsGate` | `ImplementsGate` | |
| | `PauseAccounted` | `PauseIsWallClock` | |
| | `BodiesKept` | `BodiesAreWhole` | |
| | `WindowIsKept` | `WindowInv` | |
| | `FigureClimbsSlowly` | `SlowStart`, half of `FigureIsSteady` | |
| `ExtractRunProofs` | `ExtractTypeCorrect` | | |
| | `RowsAreWrittenOnce` | `WrittenOnce` | |
| | `DoneTasksKeepTheirProjects` | `DoneTasksAreWhole` | |
| | `CompleteExtractIsWhole` | | |
| `MigrationProofs` | `RecordedEntitiesAreReal`, `WrittenChunksAreKept` | | |
| | `ForeignEntitiesAreSpared` | `NeverTouchesForeign` | |
| | `TheNewestRowIsRead` | `NewestRowIsRead` | |
| | `TasksFindWhatTheyNeed` | `EngineInv` | |
| | `CleanRunsAreWhole` | `CleanRunIsWhole` | |
| | `VerdictIsTheWorst` (of `MigrationReport`) | `VerdictIsWorst` | |
| | `TheReportIsWhole` | `ReportIsWhole` | |
| | `ThePatternComesBack` (of `BranchGuard`) | `PatternComesBack` | |
| | `CompletedBranchesStay`, `ReferenceBranchesAreShort` | | |
| | `TheUnconfirmedAreUntouched` | `UnconfirmedUntouched` | |
| | `ResetTakesWhatWasMade` | `ResetInv` | |
| `ExtractProofs` | `MergedExtractsAreOne` | `ViewInv` | |
| | `ResumedExtractsHideNone` | | |
| | `PagingIsExact`, `FetchesEnd` (of `AdaptivePaging`) | `PagingInv`, `EveryFetchEnds` | |
| | `SnapshotsAddUp` (of `SyntheticHistory`) | `SnapshotAddsUp` | |
| | `WalkStaysExact` (of `IssueSlicing`) | `WalkIsExact` | |
| | `ShrinkingSourceIsHonest` | `RecordsAreHonest`, in part | no issue is born |
| `SyncProofs` | `SettingsLandAtTheirLevel` | `SettingsInv` | |
| | `GatesKeepInv` (of `GateConditions`) | | |
| | `GatesMigrated` | `GatesAreMigrated` | |
| | `SyncKeepsInv` (of `IssueSync`) | `SyncInv` | |
| | `PeoplesWorkIsKept` | `PeoplesWorkStays` | |
| `WizardProofs` | `OneWizardAtMost` | `OneWizard` | |
| | `AnswersReachTheirPrompt` | | |
| | `PageStaysInStep` | `PageInv` | |
| | `WizardKeepsInStep` | `WizardInv` | |
| | `LastWordsAreExported` | | |

Each is stated of the specification of its module, for all values of the constants that satisfy
the module's named assumption (`ConstantsAssumption`, `ThreadAssumption`, `TaskAssumption`, ...).
These are what the configuration of the program makes true (limits are natural numbers, branches
have a main, a dependency is a task) and TLC evaluates them in the runs. Some of them say what
the code does on the way in, or what a server may answer:

- a plan of extract tasks holds the list task of each task in it (`WithRoots`, `buildPlan`), and
  settings go through the list of organizations in one order (`OrgSeq \in Seq(Orgs)`,
  `tasks_setglobalsettings.go:544`);
- page sizes fall (`PagingAssumption`), a measure is a natural number and a rating at most E
  (`HistoryAssumption`), a gate has one condition for a metric (`GateAssumption`);
- before the first sync nobody but the tool has set its marker, and what was not submitted is not
  on Cloud (`SyncAssumption`);
- dates of issues lie between 0 and `Today`; an issue has one kind, of so few that a facet returns them
  all (`KindAssumption`, `slice_facets.go:75-78`); and `MaxDepth` bisections are more than it takes from
  the whole range to one second (`DepthAssumption`, `slice.go:33-38`: 48 of them are enough for any
  range of less than 2^47 seconds).

Two families of theorems assume more, in their own statement, and each says where the code breaks
without it: `MainsBuildable`, that the report of a main branch can be built, and `NamesApart`,
that no branch but main has the name Cloud gives to new main branches; `ImportStaleDates` is the
run in which it does not hold.
The properties of the extract's completeness are conditional in themselves: they speak of
runs of which no process was killed so far (runs may fail, stop on an outage and be resumed).

The arguments:

- *Barrier.* "No branch report without an anchor" is not inductive: a run may submit a branch
  report because of a row, of a branch list read earlier, of a verdict, or of its own place in
  the code. `ReliesOnMain` names all of these, and `MainIsTheAnchor` (a project on whose main
  something relies is anchored) is inductive, given `TypeOK`. Its proof has a lemma per family
  of steps: those of the run (what a resumed run reads was true when it was written), of the
  project, of its main branch, of other branches, and of the Compute Engine. That an anchor is
  never lost (`AnchoredStable...`) is a lemma of its own: a rename carries the analyses
  with it, and dates only grow.
- *Rows.* `Books` relates the place of each goroutine to the rows of this run: a goroutine that is
  over has a row of this run or is complete (`RowsOfRuns`), one that is under way has none
  (`RowsEndImports`), a project that is over has told of all its branches (`OverIsTold`).
- *Truth of rows.* `Ledger` goes through everything that may lead to a row: the names the target's
  main may bear (`MainNames`), the reports in the queue and those polled (`ReportsFit`,
  `PolledFit`), history points (`HistoryFits`), the branch list a project read (`SnapFits`), the
  newest analysis of a branch (`NewestIsOwn`), and the rows themselves (`WordsAreTrue`). The
  part that does not hold without `NamesApart` is `SnapFits`: a list read before the rename names
  main's analysis as that of a branch.
- *Gate.* `GateInv` says that the counter is the number of goroutines inside. It is inductive
  because the compare-and-swap replaces the counter only when it is still what was loaded. For
  the refinement, `SwapBelowLimit` says that a goroutine about to swap has loaded a number below
  the limit it read; then a successful swap is an admission, `Release` a departure, the read of
  a limit an offer, and all other steps stutter.
- *Pause.* Each extension of the gate reports by how much it lengthens what is left of the
  pause, and a tick moves one unit from what is left to what was held: the sum is invariant.
- *Bodies.* A body spent by a failed attempt is rewound by `planRetry` before the sleep
  (`RewoundBeforeSleep`), so that none is spent when the next attempt goes out.
- *Window.* `LogIsRecent` says that the log, whatever was purged, is the grants of the trailing window,
  so that its length bounds them; `HeadIsTimed` that the head of the queue sleeps no longer
  than until its slot is free, unless a wake-up is on its way to it.
- *Extract.* `RowInv`: a project a task has yet to ask for has no rows, and a task about to
  start has none. `WholeInv` adds that a done task lacks only skipped projects, and one that an
  outage would take back lacks them only if the outage would take the task back too. `PhaseInv`
  links phases with markers: an announced outage has a failing task in the current phase, which
  is never marked, so that a run that completes saw no outage and every task is marked.
- *Engine.* `Owned`: rows, also those in flight, are of entities the task's organization has, since
  nothing takes an entity back. `Chunked`: an index reserved by a writer is above all files of its
  directory and of no other job, so that the newest row is the last by chunk. `InPlan`: what is
  still to run is what the exclusions left and is closed under dependencies, layer by layer; a
  task that runs has all it needs behind it. `Whole`: on a fresh directory an item is
  still to do, in flight, done, or its task is at fault. That planning puts every task into some
  phase needs that a finite plan with layers has a last one (`GreatestElement`, by well-founded
  inclusion of finite sets).
- *Report.* `ReportInv` holds after every pass: whose a row is (`RowsFit`), no object in two rows (`OneRow`),
  each object told of (`TellsAll`), losses kept partial (`LossKept`), and the bucket of a project
  after as many passes as are over (`Verdicts`). Every pass moves rows out of the succeeded and
  adds lines or fresh skipped rows (`Moved`), so that what a move keeps is shown once, and each
  pass only to be such a move. That the last row of each branch in the file is how the branches were
  left, in whatever order, is `EndedIsLeft`.
- *Merged extracts.* `MergeIInv` is about one directory at a time. A task that is done wrote what its
  list task holds, but for the projects that failed, and keeps it (`Sound`); what a later extract
  hides is what its list task asked for, and asking for all projects is what makes it hide all
  (`SlicesAsk`); an extract that ended has done what its scope named (`Over`). Nothing relates two
  directories: that what is hidden was read again follows from what one of them asked for.
- *Settings.* The two tasks share no memory, only values on Cloud and the definitions each fetched. What one
  has settled is therefore said in terms that the other cannot undo: `WalkFits`, of a
  key that `setGlobalSettings` walks through the organizations, and `JobFits`, of a project and a key
  of `setProjectSettings`, in each of its passes. `ValuesFit` says who may have written what is there.
- *Gates.* `GateInv` goes through the three tasks: what is there in each phase (`InPhases`), and that a
  record tells what was found and read of its row (`RecordsAreTrue`). As long as people keep out, and
  for a gate without a failure counted: one that this run made is empty until it gets its conditions
  (`NewIsEmpty`); once the old ones are deleted it holds part of the resolved set, and the rest is still
  to be created (`Replaces`); and a gate that had conditions has some or is about to get some
  (`HasSome`). That the resolved set is the strictest of what was asked for is an induction along the
  list of conditions.
- *Sync.* `SyncIInv` says of the calls still to make for a finding that they take nothing away
  (`CallsAreSafe`: tags come last and keep what was there, a marked issue gets comments only), which is
  also why people's work stays; of hotspots fetched beforehand that their tags and comments are there
  still, and that a finding that waits has written nothing since (`IndexIsOld`); of each comment of a
  finding that its copies on Cloud and those still ahead are no more than are to be replayed
  (`OncePerFinding`), whoever else has the same text; and of an issue that one finding alone writes to,
  and nothing went wrong with, that it holds what it was to get when it bears the marker, and will
  hold it when the marker is still ahead (`MarkerIsEarned`).
- *Paging.* `PagingIInv`: a fetch holds exactly what is shown up to its offset, and an aligned one has no
  gap before it, so that the largest smaller size that divides the offset resumes where the last
  page ended. The size others remember is the least some fetch came down to, and only falls. That
  a fetch ends is a comparison of each step with the one before.
- *History.* A report is computed in one step; `HistoryIInv` says from what. Each loop adds up its running
  sums, and explicit sums (`ShareEnds` of what `DistributeInt` shares out) satisfy the recursion
  that defines them. Lines covered, uncovered and duplicated are disjoint pieces of the file.
- *Slicing.* Each call of the recursion is about a region of issues: those with a second in its window
  and the values of its cell. The regions of the pending calls are disjoint and hold nothing
  fetched (`ApartInv`), so nothing comes twice. As long as no issue is born, what is lost so far is no
  more than the issues of the start neither fetched nor in a pending region (`CalmInv`); as long as no
  request failed either, it is no less than those of them that are still there (`SmoothInv`). Between
  the two the last step makes the sum exact, and what is missing is on record (`Recorded`). That the
  backstop drops no window takes `Span`: each bisection halves the range. A server that ignores dates
  counts everything in both halves, and is found out (`CaughtInv`).
- *Limiter.* The cap on growth is computed from the figure alone; a tick that grows the figure is at or
  below it.
- *Guard.* `GuardInv` = type, `PatternKept` (a goroutine behind the guard holds what to put back),
  `Guarded` (where the pattern may be altered) and `CompletedStays`.
- *Reset.* `Confined` (goroutines, lists and rows are of confirmed organizations), `Shaped` (what a list
  of each task may hold, and that defaults are alive) and `Swept` (what is left of an organization by
  the progress of each task and the failures counted).
- *Page.* `PageBase`: what messages on either way may be, given what was asked, and which wizards there are.
  `OneWizard` and `AnswersFit` are inductive on it. A prompt that was heard on a connection
  that holds is on its way, shown, on its way back or answered (`HeardInv`, by the order of the
  messages), and start, wizard and its end follow each other in the page's channel
  (`CycleInv`), so that the page that was told of a run still offers to cancel it.
- *Wizard.* `PhasesInv`: where the wizard stands, with which files (`InPlace`), the saved state finds its
  inputs unless a kill hit a wizard that went back (`~killedBack => Sound`), and rows in memory and
  in the file are what the user said (`WordsKept`).

Only model-checked, and why:

- liveness and what fairness is needed for (`EveryRunEnds`, `Settles`, `NobodyStarves`, `CancelEnds`,
  `RoomIsNoticed`, `EveryRequestEnds`, `EveryExtractEnds`): beyond the prover;
- `RecordsAreHonest` while issues are born: widening an open edge bisects again, so that
  `MaxDepth` has no margin that could be proved, and a drift that is only churn is a band around the sum
  of births and closings. While none is born it is proved (`ShrinkingSourceIsHonest`).

The library's induction theorems take an operator as a parameter, which the provers cannot instantiate.
`LoopFacts` makes do without them: the least counterexample of a finite set of integers (`LeastElement`),
induction for a *set* of indices (`Counting`), the function a loop computes and its recursion
(`Recursion`), and what concatenating and flattening sequences keeps. Folds over sets and sequences
are reduced to these.

`EarlierWorkStands` is two properties of two components side by side, each with its theorem:
`ResumedExtractsHideNone` and `LastWordsAreExported`.

## Disagreements between the code and what is said of it

Each is a run in which TLC finds a property violated; the property states what the quoted
line says.

1. `ImportStaleDates` (`CompleteRowsAreMigrated`). `importProjectDataOne` reads the target's
   branch list before main is renamed. A run that dies between the import of main and the
   rename leaves main's analysis under Cloud's default name; in the next run the source's own
   branch of that name is recorded `up_to_date` on the strength of main's date and never
   migrated.
2. `DroppedWereCompleted`. A resumed migrate drops every task whose directory exists, and the
   directory is made by the task's first write: a task cut off part-way is left out with its items
   undone, although `docs/MIGRATE.md:200` says that completed tasks are skipped.
3. `OnlyCreatedDeleted`. A project that was in the organization before is recorded like a
   created one, and reset deletes it; `tasks_read.go:238` says the scoping to created projects
   prevents that.
4. `ConflictIsSurfaced`. A gate that could not be shown is not cleared, and the refusals of
   conditions it still has count as successes: the old thresholds stay and nobody is told,
   although `tasks_configure.go:240` says the calls will surface a conflict.
5. `PortfolioStays`. A portfolio that is partial for its subportfolios and whose update failed is
   taken out of Partial and put nowhere (`portfolio_failures.go:207`).

More are in the models and have no run of their own. Those with a name are stated beside the
properties of their module.

- `FailedIsLeftOut` (`ExtractMerge`): a failed project is left out of `projects.csv`
  (`docs/TROUBLESHOOTING.md:155`), but no more once a later slice names it
  (`structure/projects.go:309`), even one that stopped before it read anything of the project.
- `NeverSilentlyIncomplete` (`ExtractRun`): done markers are written as tasks finish, the list of
  failed projects when the run ends; a run killed in between is resumed to an extract that silently
  lacks a project (`docs/MIGRATE.md:200`).
- `OutageListsNothing` (`ExtractRun`): a request that succeeds between the failure that makes an outage
  and the section that takes its failures back empties the streak, and the failed projects of the
  outage stay on the list (`docs/TROUBLESHOOTING.md:157`).
- `OnlyReExtractedIsDropped` (`ExtractMerge`): a record is dropped for a later extract that never asked for
  the project, because it was resumed with other scope flags (`structure/extract.go:157-158`,
  `docs/TROUBLESHOOTING.md:171`).
- `CompleteBranchGetsNoRow` (`ImportProjectData`): a cancelled resume writes "skipped" rows
  for branches an earlier run completed (`tasks_projectdata.go:396` against 1391-1393).
- `DroppedIsRecreated`, `AlteredTemporarily` (`BranchGuard`): a branch deleted to be made again is not made
  again when there is nothing to import of it, and nothing fails; a pattern altered when the
  process dies is what the next attempt puts back.
- `UnfoundIsSpared` (`OrgReset`): templates go also where the task that was to find the built-in one
  could not list any.
- `EveryHotspotIsTagged` (`tasks_hotspotsync.go:543-546`) and `TagSignalsCompletion` (697-699)
  (`IssueSync`): the calls before the tag may have failed when it is set, and a hotspot dropped as a
  duplicate of another branch's is never visited.
- `SkippedIsAppliedThere` (`SettingsMigration`): `tasks_setglobalsettings.go:1061-1066` skips a key because the
  other task applies it, which leaves out those it could not fetch definitions for.
- `RatingIsReproduced` (`SyntheticHistory`): with several issues, a rating of A comes out as B
  (`history.go:569-572`), and debt is lost where there are no code smells to carry it.
- `GateIsListedOnce`, `EveryFailureHasItsLine` (`MigrationReport`): a gate or profile with a failed call
  stays among the succeeded besides its row among the partial; a project that is partial for its new
  code period loses the lines of later failures.
- A near perfect portfolio with a failed update stays near perfect; an explicit failure drops the generic
  failure of another project of the same name; groups and templates are blamed by name across
  organizations; a project cancelled before its start has no row and reads succeeded.
- When the main branch has nothing to submit, `importBranch` returns no error and Phase 2
  submits the other branches without an anchor, although `tasks_projectdata.go:351-354` calls Phase
  1 a hard barrier; the theorems about the barrier assume `MainsBuildable`.
- A request parked on the transport's gate keeps the deadline it read, and goes out while the gate
  is closed by a later rate limit, although `retry.go:83-86` says that workers all park on the same
  deadline.
- Going back in the wizard is saved only when a phase ends: a kill before that resumes where the wizard
  was, with files of the phase run again. `WizardInv` says what holds then (`killedBack`).

## Abstractions

- *Import.* Branches, projects and dates are small sets; a report is a record of project, source
  branch, date, whether it is a current snapshot and whether a live goroutine polls it. The
  order in which gates admit is open. The branch filters have been applied (`Branches`) and
  kept main. No short-lived branch is migrated (the option is off by default), so the guard and
  the removal of long-lived branches do nothing; they are `BranchGuard`. A branch never analysed is stamped with *now*,
  later than any date of the source: `MaxDate + attempt`. The Compute Engine is external: it
  processes a project's reports in any order, refuses those not newer than what it holds and
  branch reports without an anchor, and may refuse any when faults allow it.
- *Sliding window, transport.* Time is relative and advances by ticks; schedules are shortened,
  their order kept; jitter is a choice. What classifies a 429 as Sonar's own is a set of outcomes.
- *Limiter.* Latencies come from a small set; a window holds at most `MaxSamples` samples.
- *Paging.* The server's data do not change during a run. Decoding and URLs are left out.
- *Extract.* A request per project has one outcome; what rows hold is left out, only how often a
  task has written a project's rows is counted. Scope options are `Plan` and `Projects`.
- *Slicing.* Seconds are numbers, an issue is a second and facet values; the pages of one fetch are a step.
  Types and severities are one facet, with one value per issue.
- *Merged extracts.* Tasks fall into those of projects, of portfolios and of the server; the
  contents of records are left out.
- *Engine.* Tasks that read the rows of an intermediate task (`getGateConditions`,
  `getProfileBackups`, `matchProjectRepos`) are outside the three shapes; gates are in `GateConditions`.
- *Guard.* The Go regular expression is a set of names it matches.
- *Settings.* Values are "default", "global" and "own"; properties with fields are one value.
- *Gates.* Thresholds are numbers. Notes for the report, the guess about refusals that cannot be read, and the
  default conditions of a new gate are left out. A condition the table drops is counted, but
  by design.
- *Sync.* The similarity of messages is a number; assignees, the fast path and the standalone
  report are left out.
- *History.* Measures are numbers, 0 for what is missing; the language of the placeholder and
  the encoding are left out.
- *Report.* Equal rows count once (lists are sets); markers, limitations, the section of global settings,
  objects not used and rendering are left out. The log of requests is complete, in any order.
- *Reset.* `resetGlobalSettings` is one call per organization and left out of the phases.
- *Wizard, browser.* The retry dialogs of a phase are one outcome of it. `Hub.Send` is one step: a
  connection replaced between its two locks loses the message as one that breaks after it.

## What is not modelled

Report building, generated protobuf code, SDK types, pipelines by version, rendering
of reports, prediction and the regression test are data without control: a model would repeat
the code. Branch selection is a set of pure filters, whose outcome the import starts from. The progress
tracker is display. `transfer` and the other commands chain the phases and map errors to exit codes.
Of the create, associate and configure tasks, permissions, rules, profiles and the content of
portfolios are one call per object.

## Plan

1. `RecordsAreHonest` beyond `ShrinkingSourceIsHonest`: how often a window may be widened while issues are
   born, and the band of the churn.
2. `BranchGuard` composed with `ImportProjectData`: the removal of long-lived branches between
   the branch list a project read and the imports that rely on it.
3. The remaining associations (permissions, portfolios) as appliers of `MigrateRun` with the lookup of
   what exists; branch selection against a reference definition.
