# Formal models of the CCSwitch Antigravity Provider

TLA+ specifications of the parts of `src/src/ai_provider_gateway` whose
correctness depends on the order of steps: what overlaps, what fails half way
and what a killed process leaves behind. Paths below are relative to that
package. Every definition is translated from the Python code; `PROJECT.json`
maps each to its lines.

## 1. The system

Four processes run on one Windows machine for one user:

    start.exe (launcher.py)
      +-- Supervisor, port 8010   (control/: one asyncio event loop, worker threads)
      |     +-- CLIProxyAPI Sidecar, port 8317   (external executable)
      +-- Gateway, port 8020      (gateway/: one asyncio event loop)

Supervisor and Gateway share one SQLite database and nothing else. The Gateway
forwards `/v1/chat/completions` to the Sidecar or to a custom provider. The
Supervisor serves the control API: the Sidecar's lifecycle, its update, its
proxy, the administrator's sessions, keys, providers and statistics.

| Component | State it keeps | Operations | Talks to | What makes it correct |
|---|---|---|---|---|
| Sidecar updater (`sidecars/cliproxy/updater.py`) | installed executable and manifest, backup directories, `update-transaction.json`, an `asyncio.Lock` | install, rollback, recover_interrupted_update | lifecycle; lifespan of the control app | an interrupted or failed update can always be undone; a committed one can be rolled back |
| Sidecar lifecycle (`sidecars/cliproxy/lifecycle.py`) | process handle, `_mutation_lock` | start, stop, restart, status | readiness probe, child process | one owned child, truthful answers, every call returns |
| Proxy control (`control/runtime.py`, `portable.py`) | `proxy-url` of the Sidecar's file | replace | lifecycle | the live Sidecar runs on the stored setting; an answered setting stays |
| Gateway chat (`gateway/app.py`) | per request: upstream response, provider client, finalizer flags | chat completion, streamed or not | data planes, registry, usage recorder | accounted exactly once and truthfully; whatever was opened is closed |
| Gateway keys (`gateway/authentication.py`) | `gateway_api_keys` rows | create, authenticate, revoke | both processes | a revoked key lets nobody in |
| Launcher (`launcher.py`, `control/shutdown.py`) | two child handles, launch mutex, prepared files, shutdown marker | main, run, stop, request | Supervisor, Gateway | starts what it can serve, ends what it started, and only when asked |
| Model registry and discovery (`models/registry.py`, `providers/antigravity/discovery.py`) | catalogue, freshness, aliases | refresh, record failure, alias, resolve | both processes | a failed discovery never erases a catalogue or its last success |
| Custom providers (`providers/openai_compatible/`, route in `control/app.py`) | encrypted configuration, catalogue | save = load, replace, probe, record | registry | the verdict stored is about the configuration stored |
| Administrator access (`control/auth.py`, `control/password_recovery.py`) | sessions, challenges, verifier in memory and in the database | login, authorize, start, complete | threads | single-use challenges; a changed password ends every session |
| Quota, usage, health (`quota/`, `usage/`, `health/`, `control/phase4.py`) | snapshots, records | get_or_refresh, record, purge | background task | one probe per interval; failures stay local |
| Integrations (`integrations/`, `control/phase5.py`) | the stored export selection | replace, export | registry | a provider that is turned off stays out of the exports |
| Dashboard page (`control/dashboard.py`) | the page's variables and inputs, one cookie | its event handlers | control API | it holds no key it does not know of, and none once it is left |
| Everything else | - | settings, migrations, redaction, ACLs, HTML, packaging | - | pure functions or start-up code |

The hard behaviours, line by line, are the `hazards` of `PROJECT.json`. They fall
into five groups: a crash or an exception between two file operations (updater,
launcher); coroutines that overlap at an await (lifecycle, proxy control, updater, quota);
a client that leaves at any point of a relayed answer (gateway); two processes on one
database (keys, registry, custom providers, selection); and a page whose answers arrive
after it has moved on (dashboard).

## 2. The modules

| Module | Models | Run(s) |
|---|---|---|
| `SidecarUpdate` | the updater inside the Supervisor | `sidecar_update`, `sidecar_update_heals` |
| `AtomicPair` | what the updater promises: one version changes in one step | refined by `SidecarUpdate` |
| `PortableLaunch` | the updater behind the launcher's check of the pair | `portable_launch` (violated) |
| `SidecarLifecycle` | the lifecycle, its lock and its child processes | `sidecar_lifecycle` |
| `ProxyControl` | `AntigravityProxyControl.replace` over `SidecarLifecycle` | `proxy_control`, `proxy_lost` (violated) |
| `GatewayChat` | the chat route, its streams and the key it is called with | `gateway_chat`, `gateway_early_cancel` (violated) |
| `PortableLauncher` | `start.exe`: preparation, the process tree, the shutdown marker | `portable_launcher` |
| `ProviderCatalogue` | the provider tables that both processes write | `provider_catalogue` |
| `AtomicCatalogue` | what those tables promise their readers: each job takes effect in single steps | refined by `ProviderCatalogue` |
| `AdminAccess` | password, sessions, recovery challenges, the Supervisor's restart | through `DashboardPage` |
| `PasswordRecovery` | what a recovery promises: one ticket, one attempt, no session left | refined by `DashboardPage` |
| `DashboardPage` | the page over `AdminAccess` and the key and export routes | `dashboard_page` |
| `StatisticsMaintenance` | the quota cache, its routes and the background task | `statistics_maintenance` |
| `*Proofs` | theorems about the module they are named after (`DashboardPageProofs` about `AdminAccess`, too) | - |
| `MC*` | model values and staged candidates for TLC | - |

Operators whose names begin with `Mut` are deliberate mistakes next to the
definition they would replace (a dropped guard, a swapped order): each property
of a passing run is violated under one of them, so none of them holds by the shape
of the model.

### SidecarUpdate

A file is abstracted to the version it belongs to, a manifest to the version whose
checksum it pins; `Whole` is the code's test that they agree and are marked tested.
`pc` is the next operation of `install`, `rollback`, `recover_interrupted_update` or the
lifespan; `kind` says which one runs, `payload` which pair it copies, `recovery` the
backup it goes back to, `marker` the transaction file. One step is one file
operation, because that is the granularity at which the process can die (`Crash`) or the
operation raise (`FailEarly` before the `try`, `FailLate` in it and in its handler). The
other routes (`ApiStart`, `ApiStop`) act only where the manager awaits. `before` is a
history variable. The lifecycle is reduced to the live process's version (`image`).

Checked: `Recoverable` (a mismatched pair has a marker, and a marker's backup is
valid), `StartsWholePair`, `CommitCanBeUndone`, `UnsuccessfulLeavesPair`, the refinement
`RefinesAtomicPair`, and, without faults, `CrashHeals`. The refinement maps the version to
the one an interruption now would lead back to (the marker's backup, or the
installed pair), so it says that this version changes only when the marker is
archived, although four files change. `TypeOK` holds the locals to the operation under way: nothing of one
is left when the next begins, and from the user's consent on it has a backup to go back to.

Bounds: three versions, one of them untested, three candidates (good, untested and
mismatched), three backups, two faults and one crash; without faults, two
crashes. Two faults reach a failing handler after a failing install; three
backups an install after a failed rollback. After a failing handler the next
operation starts from a torn pair or from residue, which is where the properties bite.

### PortableLaunch

`launcher.main` is the only thing that starts the Supervisor in the shipped
application, and it validates the pair first (`launcher.py:411`). `Launch` adds that
guard to `Boot`. The run is a finding: see section 5.

### SidecarLifecycle

Each caller is a coroutine; a step runs to its next await. `lock` and `waiting` are the
`asyncio.Lock`, which is FIFO; `Status` takes no lock. A child is a number: `alive` are
those whose `poll()` is `None`, `terminated` those that were told to end. The probe asks a
fixed URL, so its answer is unconstrained.

Checked: `OneChild` (a child nobody told to end is the handle's), `AnswersForItsChild` (the
pid answered by start or restart is that of the handle left behind), and
`EveryCallReturns`. Bounds: two callers, which suffices for one inside the lock and
one waiting or asking; three children; two readiness attempts (production: 25), one stop
poll, so that each loop iterates and ends by its own limit.

### ProxyControl

EXTENDS `SidecarLifecycle`; `Replacer` callers run `replace`. `LoopFree` expresses that
`replace` does not await between a call's return and its next call: while one
caller is `Resumed`, nobody else moves. `Write` and `TakeBack` may raise before or after
the rename. `launched` records the setting each child read when it was started.

Checked: `LiveChildRunsConfig`, `SidecarComesBack`; violated: `AnsweredSettingPersists`. Bounds:
two replacers and one caller of the Sidecar's own routes, two settings (three where an
answered setting is to be lost), four children, one fault, one route call.

### GatewayChat

`req[r]` is a request's locals and response. Its `pc` walks through authentication, body,
model, provider, and then the plain or the streamed answer. `authenticate` blocks the
event loop between its two statements (`verify`), while the Supervisor may `Revoke`.
`ClientLeaves` may happen at any time and takes effect as the framework lets it: in the body as
an exception, in a stream as a cancellation (`Cancelled`) of the awaited pull, or of the
awaited send. A stream is events (data, data with the tokens used, `[DONE]`), its end and its
breaking. Both data planes fail with their own errors: only the Sidecar's 404 becomes
`model_not_found` and refreshes the catalogue (`Miss`), and an error answer whose body breaks
while it is read raises an exception no handler knows (`OpenBreaks`). An upstream error is its HTTP
status and its code, because the handler maps it twice, to the category it records
(`UsageErrorCategory`) and to the code it tells (`SidecarErrorCode`), by two functions that differ.

Checked: `AccountedOnce`, `TruthfulStatus`, `Released`, `RevokedKeyLetsNobodyIn`, `StreamsClose`;
violated: `ClosedBeforeFirstEvent`. `TruthfulStatus` compares what is stored (status, error,
tokens) with what the caller was told and what the upstream sent. The two mappings agree but in one case,
which the property names: a 429 of the Sidecar's without a code is recorded as `rate_limit_exceeded`
(`app.py:555-556`) and told as `provider_error` (`app.py:593`), under the same HTTP status. The tests
expect the recorded category (`tests/test_phase4_statistics.py:362-370`) and no text promises the code, so this is
no finding. The first three exclude, by
name, what the code does not account for: an exception that leaves the handler (a
`ClientDisconnect` while the body is read, `OpenBreaks`), and a generator that never ran.
Bounds: two requests (they interact through the blocked event loop, the key and the catalogue),
one event per answer, one change of catalogue or provider. With one event each, answers have
the cases the properties tell apart: no event, one of each kind, an end or a breaking after
it. The theorems hold for any number of events.

### PortableLauncher

A launcher's `pc` is its place in `main` and `run`: the mutex, the secrets, the Sidecar's file, the
database, the ports, the marker, the two children with their readiness waits, the watch loop, and
the `finally` clause. `process` holds each launcher's children; the Sidecar is a child of its
Supervisor and starts before that answers. Creating a file is two steps (`Create`, `Write`), because
a launcher killed in between leaves it empty. A child gets `ServiceEnvironment` and exits if its
port is taken or a setting in `Required` is missing. `marker` is "old" when it was written before the
owner locked the directory. `Kill`, `Exit` and `Cut` (a cleanup step raises) are the faults.

Checked: `ServesPreparedState`, `StopsItsTree`, `ChildrenStay`, `OnlyOwnRequestEnds`,
`RequestEndsRun`. `StopsItsTree` names the one child the code leaves behind: the Sidecar of a
Supervisor that exited by itself, or whose `taskkill` failed. Bounds: two launchers, beside or after each
other; two readiness attempts (production: 60), so that the loop goes round; two faults, so that a
killed launcher's residue meets one more death.

### ProviderCatalogue

The tables `available`, `verdict`, `row` and `selection`, and the jobs that change them: an
Antigravity discovery, a save of the custom provider (four thread hops), a change of the export
selection. Python's SQLite driver begins a transaction with the first write: a SELECT before it sees
the committed state and holds nothing (`FailRead`, `ReplaceRead`, `RowRead`), the first write waits
for the only write lock (`Mark`), and COMMIT shows everything at once (`RefreshSuccess`,
`ReplaceCommit`, `Insert`). A transaction whose first write is its last statement is one step.
`Die` rolls an open one back.

Checked: `VerifiedIsOneDiscovery`, the refinement `RefinesAtomicCatalogue`, `SoloKeepsLastSuccess`,
`SoloSaveSettles`, `DisabledStaysOut`. In `AtomicCatalogue` a discovery takes effect in one step, and a save
in two (its connection, then its verdict); no step empties a catalogue, a failure leaves the models, and
the last success shown is one there was. `past`, a history variable, holds the times of a provider's
successes, since a job may write back one that it read before another job's. The two `Solo` properties claim nothing of a provider two of whose
jobs overlapped (`overlapped`): the code takes no lock for a whole job, so that overlapping
saves may leave one's connection with the other's verdict, and a failed discovery may set the last
success back. The route of the
selection awaits nothing: while it runs the Supervisor's event loop begins nothing else
(`LoopFree`), and only threads that have begun and the Gateway commit between its statements.
Bounds: two of the three forms of a save's request (a
malformed one is refused where one with two credentials is), one discovery and two saves (a job of each
provider, and two jobs of one), two selections, two models, answers
that omit one of them, one death. Jobs of one kind are symmetric.

### AdminAccess and DashboardPage

`AdminAccess` is the Supervisor's side: the stored verifier and the one in memory, sessions,
challenges, the desktop's dialog, death and restart. Its operations run without an await, except the
dialog's. `DashboardPage` EXTENDS it: a `slot` is a handler of the page under way, which is sent,
answered by the Supervisor at some time and continued at some later time, whatever the page has done
meanwhile. `direct` is the portable application's setting
(`AIPG_DASHBOARD_PASSWORD_BYPASS=1`): no password, no session.

Checked: `SessionsKnowThePassword` (restarts and failed recoveries included),
the refinement `RefinesPasswordRecovery`, `KeysAreTracked`, `LeavingForgets`. `PasswordRecovery` hands out
tickets that are good for one attempt, and its change of the password closes every session in the same
step; in the code the password is in the database and everything else in memory, and the process may die
between the two. `LeavingForgets` excludes a page that left while
an answer with a key was on its way (`late`): the code puts that answer on the page. Bounds: one page, two
handlers under way (one when there is no password), two passwords,
two session tokens and one session, one challenge, one key. All sessions live equally long, so the
oldest expires first; any may expire at any time. Passwords, tokens and slots are symmetric.

### StatisticsMaintenance

`get_or_refresh` is a first look without the lock (`Ask`), a place in the lock's FIFO `queue`, a second
look with the throttle (`Enter`), and the probe's outcome; `task` is `maintain_background`, which the
lifespan stops and awaits (`Stop`, `Close`). The purge matters only in that it may raise. The probe that
ships answers at once and never raises; the cache is written for any probe, and one that takes long
and raises is modelled, whose behaviours include the shipped one's.

Checked: `ProbesAreSpaced`, `MaintainedUntilStopped`. The first compares any two entries of `begun`, a
history of the times at which probes began that no guard reads, and not the code's own note of
its last attempt. Bounds: two routes and the task; validity, minimum
interval and the task's period are two ticks each, of five in all, so that a snapshot can be fresh, can be
stale within the interval, and can be probed again.

## 3. Fairness

* `SidecarUpdate`: weak fairness of the operation in progress (an event loop runs what is
  ready; thread and subprocess calls return), of `Boot` and `BootStart` (the user starts the
  application again), and of an orphaned Sidecar's exit while the Supervisor is down: an
  assumption on the environment, since the code cannot end a child it no longer owns
  and the launcher refuses a taken port. No fairness of the confirmation dialog.
* `SidecarLifecycle`: weak fairness of every caller's own steps: sleeps elapse and the
  probe's HTTP client has timeouts. None of `Exit`: a child may ignore `terminate`.
* `GatewayChat`: weak fairness of every request's handler: upstream calls answer or time
  out. None of the client or of the Supervisor.
* `PortableLauncher`: weak fairness of each launcher's own steps: it polls, sleeps and calls with
  timeouts. None of its children: a service may never answer, and the attempts then run out.
* `StatisticsMaintenance`: weak fairness of every call's progress (a probe answers or times out, the
  lock serves its waiters) and of the task's steps. None of new calls, and none of the lifespan's end.
* `ProxyControl`, `ProviderCatalogue` and `DashboardPage` have safety properties only.

Deadlock is checked for `SidecarUpdate` and `SidecarLifecycle`. The other models stop
when their requests, jobs, launches or time are over, and `portable_launch` in the state the finding
is about.

## 4. What is proved

For every value of the constants, with TLAPS:

| Theorem | Says |
|---|---|
| `SidecarUpdateProofs!TypeCorrect` | `Spec => []TypeOK` |
| `SidecarUpdateProofs!AlwaysRecoverable` | `Spec => []Recoverable` |
| `SidecarUpdateProofs!StartsOnlyWholePairs` | `Spec => []StartsWholePair` |
| `SidecarUpdateProofs!CommitsCanBeUndone` | `Spec => CommitCanBeUndone` |
| `SidecarUpdateProofs!UnsuccessfulLeavesThePair` | `Spec => UnsuccessfulLeavesPair` |
| `SidecarUpdateProofs!UpdateIsAtomic` | `Spec => RefinesAtomicPair` |
| `SidecarLifecycleProofs!TypeCorrect` | `Spec => []TypeOK` |
| `SidecarLifecycleProofs!NeverTwoChildren` | `Spec => []OneChild` |
| `SidecarLifecycleProofs!StartAnswersForItsChild` | `Spec => AnswersForItsChild` |
| `ProxyControlProofs!ProxyTypeCorrect` | `PSpec => []PTypeOK` |
| `ProxyControlProofs!AppliedIsPersisted` | `PSpec => []LiveChildRunsConfig` |
| `ProxyControlProofs!SidecarReturns` | `Replacer # {}` implies `PSpec => []SidecarComesBack` |
| `ProxyControlProofs!ReplaceUsesLifecycle` | `PSpec => Spec`: the lifecycle's theorems hold under `ProxyControl` |
| `GatewayChatProofs!TypeCorrect` | `Spec => []TypeOK` |
| `GatewayChatProofs!ChatAccountedOnce` | `Spec => []AccountedOnce` |
| `GatewayChatProofs!ChatAccountedTruthfully` | `Spec => []TruthfulStatus` |
| `GatewayChatProofs!ChatReleases` | `Spec => []Released` |
| `GatewayChatProofs!ChatRevokedKey` | `Spec => RevokedKeyLetsNobodyIn` |
| `PortableLauncherProofs!TypeCorrect` | `Spec => []TypeOK` |
| `PortableLauncherProofs!ServesOnlyPreparedState` | `Spec => []ServesPreparedState` |
| `PortableLauncherProofs!TreeIsStopped` | `Spec => []StopsItsTree` |
| `PortableLauncherProofs!OwnRequestEnds` | `Spec => OnlyOwnRequestEnds` |
| `PortableLauncherProofs!ChildrenAreNotLost` | `Spec => []ChildrenStay` |
| `ProviderCatalogueProofs!TypeCorrect` | `Spec => []TypeOK` |
| `ProviderCatalogueProofs!CatalogueIsAtomic` | `Spec => RefinesAtomicCatalogue` |
| `ProviderCatalogueProofs!OneDiscovery` | `Spec => []VerifiedIsOneDiscovery` |
| `ProviderCatalogueProofs!LastSuccessKept` | `Spec => []SoloKeepsLastSuccess` |
| `ProviderCatalogueProofs!SaveSettles` | `Spec => []SoloSaveSettles` |
| `ProviderCatalogueProofs!NeverErased` | `Spec => CatalogueNeverErased` |
| `ProviderCatalogueProofs!OnlyChosenIn` | `Spec => DisabledStaysOut` |
| `DashboardPageProofs!TypeCorrect` | `Spec => []TypeOK` |
| `DashboardPageProofs!SessionsCurrent` | `Spec => []SessionsKnowThePassword` |
| `DashboardPageProofs!RecoveryIsAtomic` | `Spec => RefinesPasswordRecovery` |
| `DashboardPageProofs!ChallengesSpentOnce` | `Spec => OneTryPerConfirmation` |
| `DashboardPageProofs!KeysTracked` | `Spec => []KeysAreTracked` |
| `DashboardPageProofs!LeftEmpty` | `Spec => []LeavingForgets` |
| `StatisticsMaintenanceProofs!TypeCorrect` | `Spec => []TypeOK` |
| `StatisticsMaintenanceProofs!ProbesSpaced` | `Spec => []ProbesAreSpaced` |

The safety half of each liveness property, stated in the proof modules:

| Theorem | Says | For |
|---|---|---|
| `SidecarUpdateProofs!UpdateAdvances` | every step of an operation or a start-up leaves fewer before it | `CrashHeals` |
| `SidecarUpdateProofs!RecoveryHeals` | a start-up in which nothing raises serves over a whole pair | `CrashHeals` |
| `SidecarLifecycleProofs!StepsLeadToReturn` | every step of a call leaves fewer before it, others' steps not more | `EveryCallReturns` |
| `SidecarLifecycleProofs!NobodyIsForgotten` | whoever waits for the lock waits for somebody who is on the way | `EveryCallReturns` |
| `GatewayChatProofs!ChatAdvances` | every step of a handler leaves fewer before it, others' steps not more | `StreamsClose` |
| `GatewayChatProofs!EventLoopRuns` | the event loop is never blocked for good | `StreamsClose` |
| `PortableLauncherProofs!RequestsAdvance` | a request is not lost, and every step of its launcher leads to its end | `RequestEndsRun` |
| `StatisticsMaintenanceProofs!EveryCallIsServed` | whoever waits waits for one that the lock serves | `MaintainedUntilStopped` |
| `StatisticsMaintenanceProofs!WaitersAdvance` | every step of the one served brings all who wait nearer | `MaintainedUntilStopped` |
| `StatisticsMaintenanceProofs!StoppedTaskAdvances` | the task ends only when stopped, and then each step leads to its end | `MaintainedUntilStopped` |

Assumptions are the modules' named ones. Names that stand for nobody are no caller's
(`CallerAssumption`, `LauncherAssumption`, `JobAssumption`, `CallAssumption`) and no
version or proxy (`VersionAssumption`, `ProxyAssumption`); replacers are callers
(`ReplacerAssumption`); answers are sets of models (`AnswerAssumption`); the jobs of the three kinds are
different; durations (`DurationAssumption`) and bounds are natural numbers, those that must let
something happen at least one. TLC evaluates all of them.

*Updater.* `Recoverable` is not inductive: that a marker's backup stays valid needs that
backups are only written while no marker names them. The invariant `IInv` adds `Locations`
(which kind stands where), `Unmade` (no directory beyond `made` holds a file), `Copying` (what the
new backup holds at each step of its making), `Marked` (in the `try` block the marker names
`recovery`), `Payload` (what is copied is whole) and `History` (`before` is in the recovery
backup). The refinement proof takes each action to a step of `AtomicPair` or a stutter.

*Lifecycle.* `OneChild` needs `Exclusive` (whoever stands inside is the lock's holder, nobody waits
twice), `Counted` (children are the numbers up to `spawned`), `Stopping` and `Asking` (a waiting
or asking operation's local handle is the current one) and `Unterminated` (nobody has told a
child that start is asking about to end). Each action is shown to touch only its caller.

*Proxy.* `PInv` adds to `IInv`: `Starting`, `Calling` (a replace that will write next is inside
`stop`), `Alone` (at most one caller is resumed) and `StopsFirst` (at that moment no child is left
to run on the old setting). The lifecycle's invariance lemma is reused through
`PNextIsNext`. `SidecarReturns` adds `Returning`: whoever stopped the Sidecar is still on the way
to its start. It needs the order in which the lock serves (`Queued`), since a replacement's start may
wait behind another one's stop.

*Gateway.* A handler changes only its own request, so that the invariant is `TypeOK` and one formula
per request: `LetIn` (past authentication means authenticated), `Accounting` (what has been recorded, by
place), `Answering` (what the caller was told), `Noted` (the flags against what the upstream sent), `Owning`
(which resources are open, and who will close them) and `Told` (what was recorded is true of the request).
`FailingOn` proves every failure once, from `Agree`: the two mappings agree on it, or it is
the Sidecar's 429 without a code.

*Launcher.* `Exclusive` says that the mutex has one owner, `Prepared` that each step after a file's finds
it whole, `Owned` that only a launcher that got that far has children, `Fresh` that a marker a
serving launcher sees was written in its run, and `Counting` bounds the attempts. A
second launcher cannot spoil the first's files, because nobody writes one without the mutex.
`ChildrenStay` needs `Undisturbed`: as long as nothing has died only the mutex's owner has children, so
that whoever boots finds its port free, and its settings are those `ServiceEnvironment` hands on.

*Catalogue.* `Placed` says which job stands where and who has the write lock, `Carried` that what a job
will commit is one answer. The two `Solo` properties need `Noticed` (two jobs of a provider that are
under way are known to have overlapped), hence `Current` (what the only one has read is still
true) and `Settling` (the stored connection is being probed, or its verdict is in). Its types need `Locked`
(the write lock is held by the job inside its transaction) and `Counted` (a job stamps once, so that
stamps never outnumber jobs). The refinement takes each action to a step of `AtomicCatalogue` or a stutter;
`Remembered` says that what a job read of the last success is still one there was, whatever was written since. `DisabledStaysOut`
needs `Known`: a provider that is turned off was listed to whichever selection is under way, and no two are.

*Dashboard.* `Unspent` says that no challenge waits twice and, while the Supervisor runs, that none that
waits was tried; it fails between a death and the restart that clears the challenges, which is why it is
conditional. Every action of the page and of the Supervisor is one of `AdminMove`, and each of its disjuncts
is a step of `PasswordRecovery` or a stutter: `Open` and `Stage` hide the memory of a Supervisor that is
down, so that a death right after the password was stored is a change that closes all. `Sent` says what a handler under way may bring, `Held` what each page knows of its
keys, and `Emptied` that a page that was left is empty and has no key on its way.

*Statistics.* `Heads` says that whoever is probing is the head of the lock's queue, so that one call probes at
a time and leaves the queue by taking its own place away. `Remembered` ties the history of probes to the
code: no probe began after the last attempt it remembers. The second look, which a waiting call takes
when it is the head, then keeps the new probe an interval from the last one, and
so from all before it.

*Progress.* A variant (`Left`, `Remaining`, `Ahead`, `Closing`) counts the steps an actor has before it at
most: its loops' attempts, the events still to come (`Unsent`), its place in a queue, its way back after an
exception. Every step of the actor decreases it, whatever branch the step takes and whatever fails in it,
and no step of another actor increases it. Where actors wait for each other, one more invariant says
that there always is one who can go on: the queues hold whoever waits, once (`Lined`), and one request
verifies at a time (`OneVerifies`). `RecoveryHeals` needs that no Sidecar runs while a
recovery replaces its files (`Unheld`). What fairness adds, that an actor that can take a step takes
one, needs ENABLED and stays with TLC.

Only model-checked: the five liveness properties themselves (`EveryCallReturns`, `StreamsClose`,
`CrashHeals`, `RequestEndsRun`, `MaintainedUntilStopped`), which are outside the prover's
reach. Every other property of a passing run is a theorem. There are no recursive operators. Two helpers,
the logout of a session and the consumption of a challenge, use `RemoveAt` and not a filter,
because an operator that takes an operator cannot be proved about; tokens are unique, so both
remove the same.

## 5. Findings

1. `portable_launch`: an update killed between its two renames leaves a pair that the launcher
   refuses (`launcher.py:411`), so the recovery in the Supervisor's lifespan never runs.
   `tests/test_phase6_sidecar_update.py:188` promises it is recovered.
2. `gateway_early_cancel`: `gateway/app.py:372` promises to "Close the upstream even if
   downstream cancels before the first event."; a custom provider's stream lives in a generator
   that is closed without having run. It needs a send of the response head that
   suspends, as it does when the transport's buffer is full.
3. `proxy_lost`: `control/runtime.py:96` promises to "Persist and apply" the proxy. A's start is answered
   CRASHED and A queues its second stop behind B's first; B's stop ends, B writes its setting and queues
   its start behind A's stop; A's stop ends and A writes its stale previous setting (`runtime.py:119`); B is
   then started on A's setting and answered as applied. B's setting is neither persisted nor applied.

## 6. Not modelled, and why

* Contents of files, requests, answers and log lines, redaction, ACLs, checksums (taken to be perfect),
  the text of generated configurations and of the page: pure functions, without state.
* The page's provider forms, its statistics and the OAuth login it polls: they keep nothing but what
  they show, except the OAuth login, whose state is in the Sidecar.
* Routes that only read, and the statements of `QuotaStore`, `UsageStore` and `HealthStore`, which are one
  transaction each. `ModelRegistry.set_alias` has no caller in the program.
* Clocks that are set back: `created_at` orders backups as they were made, and a monotonic clock spaces probes.
* The reuse of the Sidecar's port right after `kill()` (`lifecycle.py:158`): it depends on how long the
  operating system keeps the port. The launcher's own check of its ports is modelled.
* A usage recorder that raises: the Gateway ignores it, so that the request is served and not accounted for.
* Migrations, settings, the Gateway's bootstrap and packaging run before anything is concurrent.

The staging directory is taken not to change between verification and
copy. An `asyncio.Task` cancelled by a shutdown of the event loop is a `Crash`.

## 7. What is left

1. Compose `PortableLauncher` with `SidecarUpdate`: a readiness wait that gives up in the middle of a
   recovery kills the Supervisor there. Each half is modelled, the kill as `Exit` and as `Crash`.
2. The page's provider forms over `ProviderCatalogue`, and the OAuth login, should its polling ever
   keep state in the Supervisor.
