# TLA+ verification of the integration-suite harness

`integration-suite` starts throw-away test environments (MySQL, Redis, Kafka,
WireMock and application containers on a Podman engine), hands them to Go
tests and takes them down again; a small program runs the tests and reports
what they cost. This directory models the parts whose correctness depends on
the order of events: who may remove what, what a failure or a crash in the
middle leaves behind, which setting wins, what a passed test and the numbers
of the report can be trusted for, and what the exit code of the whole means.

Source paths below are relative to the repository root, `file.go:n` is a line.

## 1. The system

| component | state it keeps | operations | talks to |
|---|---|---|---|
| `pkg/env` Environment lifecycle | containers and networks of the engine, handles and client pools of an `Environment` | `Build`, `PruneManagedContainers`, `runFlywayMigration`, `Teardown` | the engine; called by the harness |
| `suites/common` harness | `scenarioMu`, `activeScenario`, one `t.Cleanup` per test | `Setup`, cleanup, `AssertConnectivity`, `TruncateTables`, `FlushRedis`, `DumpLogs` | `pkg/env`, `pkg/catalog`, `go test` |
| `pkg/catalog` | none (definitions); appends to `Environment.AppContainers` | `StartService`, `HostEndpoint` | the engine, `pkg/config` |
| `cmd/test-runner` main | channels, `terminated`, exit code, the child process | start, wait, sample, forward a signal, report | the command, Podman, whoever sends signals |
| `cmd/test-runner` metrics | peaks and totals per container | `update`, `printReport`, byte units | the sampler (a goroutine), main |
| `pkg/config` | process environment, parsed `config.yaml` | `Load`, `LoadEnv`, `GetImage`, `GetLocalImage`, `GetPodmanBin` | `pkg/env`, `pkg/catalog`, `cmd/pull-images` |
| `pkg/env/podman.go` | `DOCKER_HOST` in the process environment | `SetupPodmanEnvironment` | `podman machine inspect` |
| `pkg/contract` | none | `ValidateSortNodeEventSchema`, `Assert…Contract` | the suites |
| `pkg/testutil` | none (clients) | connect, truncate, flush, publish, read next event | MySQL, Redis, Kafka, WireMock |
| `suites/e2e`, `producer`, `consumer` | reader offset, ids of created nodes | requests, reading events, polling the database and cache | the services under test |
| `cmd/pull-images` | list of failures | pull each image | Podman |
| `proto`, `Makefile`, `docker` | none | generated code, build rules | – |

What is hard here, and what makes each part correct:

* **Environment.** A run makes dozens of engine calls and each can fail or the
  process can die between two of them. A container that started and never got
  ready has no handle; a dead run leaves everything. The remedy is a prune of
  *all* labelled containers at the start of `Build` and the end of `Teardown`,
  and that remedy is itself the danger: it can hit another run. Correct means:
  an ended run leaves nothing, a run finds a clean slate, nobody takes away
  what a test uses, and developers' containers are never touched.
* **Harness.** `activeScenario` is reused by name, cleared by every cleanup,
  and guarded by a mutex that is released between `Setup` and the cleanup;
  `require` leaves `Setup` in the middle, and the error of every `Teardown` is
  dropped. Correct means: tests do not get each other's scenario, nothing is
  left but what the engine refused to remove, no test is blocked for ever by
  another that has ended.
* **Test runner.** Three goroutines, an unsynchronised flag and signals at
  any time. Correct means: the report sees final metrics, exit code 0 is never
  invented, a signal reaches the command, and the runner ends.
* **Metrics.** Containers start, work and end while Podman reads them one after
  the other; polls and inspections time out; the report names containers while
  it walks a map in any order. Correct means: nothing is overstated, no
  container used more than all of them, no number falls, and two containers
  share a name only if their image and role are the same.
* **Configuration.** Every `Build` and every `StartService` loads the files
  again, into one process environment that remembers what earlier loads set;
  the image puller does so in another process and directory. Correct means:
  the shell wins, a setting once made stays, all environments of a process run
  the same images, and the puller pulls those.
* **Suites.** A step asks for a change, takes *the next* event of the topic for
  the answer, and polls a database and a cache one after the other; a failed
  step leaves its event behind for the next one. Correct means: no failure
  without a misbehaving service, a passed step judged its own events, and the
  change has really arrived.

`PROJECT.json` lists every hazard at its line with the properties that cover
it, or why none does yet.

## 2. Modules

| module | models | about |
|---|---|---|
| `Environment` | `pkg/env/builder.go`, `environment.go`, `prune.go`, `catalog.StartService` | all runs that share one engine, call by call |
| `Lease` | – (abstract) | what an environment, and a scenario, promises to a test |
| `Harness` | `suites/common/harness.go`, `connectivity.go` | the tests of one process |
| `TestRunner` | `cmd/test-runner/main.go`, `main` | goroutines, signals, exit code |
| `ContainerMetrics` | `cmd/test-runner/main.go`, sampler, `update`, `printReport` | what is measured and reported of containers |
| `Gauge` | – (abstract) | what `ContainerMetrics` shows: one sample at a time, as a whole |
| `Config` | `pkg/config`, `pkg/env/podman.go`, `cmd/pull-images`, the loads of `builder.go` and `catalog/runner.go` | where settings come from |
| `Contract` | `pkg/contract` | the rules of an event, as operators |
| `Pipeline` | the three suites, `pkg/testutil`, `TruncateTables`/`FlushRedis` of the harness; extends `Contract` | the suites against the services |
| `MCEnvironment`, `MCHarness`, `MCTestRunner`, `MCContainerMetrics`, `MCConfig`, `MCPipeline` | – | instances for TLC |
| `EnvironmentProofs`, `EnvironmentLeaseProofs`, `HarnessProofs`, `TestRunnerProofs`, `ContainerMetricsProofs`, `ConfigProofs`, `PipelineProofs`, `PipelineVerdictProofs` | – | theorems |

Operators marked *Seeded fault* are wrong variants of the definition that
follows them, kept to show that each property notices a plausible bug; no
specification uses them.

### Environment

A *run* is one `Build` with the services `Setup` starts on it, and the
`Teardown` that ends it. `Plan` is the sequence of containers of the scenario
in the order `Build` and `Setup` start them. `containers` and `networks` are
what the engine holds; `handles` and `pools` are what the process remembers
(a crash empties them and leaves the engine as it is); `pc` follows the code:

    idle → list → prune → network → (start → await → configure)* → ready
         → close → terminate → unlink → relist → reprune → done      (dead: crashed)

* `Begin`, `ListManaged`, `ListFails`, `RemoveListed`, `PruneEnds` are
  `PruneManagedContainers`: it takes one list and removes from it item by item,
  dropping errors, while other runs go on. `relist`/`reprune` is the same code
  called by `Teardown`.
* `CreateContainer` and `StartSucceeds`/`StartFails` split
  `GenericContainer`: the container exists from the first, the handle from the
  second, and in between the run can fail or die. `Migrate` is
  `runFlywayMigration`, whose deferred `Terminate` may fail silently.
* `Configure`/`ConfigureFails` are what follows a start (mapped port, client
  pool, databases, topics, stubs). Every failure goes to `close`, as each error
  path of `Build` and of `Setup` calls `Teardown`.
* `CloseClients`, `Terminate`, `TerminateEnds`, `RemoveNetwork` are
  `Teardown`. A refused call is noted (`refused`) and `Teardown` goes on. The
  engine (external) refuses to remove a network that still has a container.
* `spared`, `strays` and `refused` are ghosts, used by properties only.

`Serial` is `go test -p 1` (`Makefile:113`) with `scenarioMu`: a run begins
when no other is live. With `Serial = FALSE` runs overlap.

Two calls that could run side by side inside one run do not exist: `Build` and
`Teardown` are sequential, so a run is one process. Image names, ports and DSNs
are left out; a start order or a class of containers is not. The 45 s and 30 s
deadlines are part of "the call fails": when they pass, every later call of the
same context may fail too.

### Lease

`Lease` knows phases and held resources only. A run acquires resources,
*offers* them when it holds every required one, and loses them only in its own
release or, once it ended or died, to others. `Lent` in `Environment` is the
refinement mapping: phases are classes of `pc`, resources are the containers
and the bridge network, migrations are the resources that are used up.
`Lent` in `Harness` maps tests that follow each other: a scenario is held in
`some` while it has a container and as a `whole` while it has lost none, and
both are required. A run may end in the middle of its provisioning, if it keeps
nothing: that is a `Build` refused before its first container. A failed `Setup`
goes through its release, like a cleanup, and what that could not remove is
still held when it has ended, to be taken by the prune of a later test.

### Harness

One action per stretch of `Setup` and of the cleanup between two points where
another test can act. A scenario is named by the test that built it. What the
engine has of it is all the model keeps: `remains` are the scenarios with a
container, `up` those that `Build` completed and that lost none since. `Build`
and `Teardown` end in a prune of the *whole* engine, and nobody looks at what it
returns (`harness.go:175, 188, 207`, `builder.go:89, 139`): `Remove` takes away
the first or the last container of any scenario, as often as it is lucky, and
`PruneEnds` may come at any moment, after a failed list or refused removals.
`spared`, a ghost, is what the last prune left. `abandon` is the `Teardown` of a
`Setup` that failed, `exit` its `require`, with the mutex still held. `parallel`
is chosen at the start: tests follow each other, or all call `t.Parallel`.
`unsound` is a ghost: the tests under way whose checks failed.
Tests in parallel share scenarios and lose them, so only tests in sequence
implement `Lease`.

### TestRunner

`main` steps through `main()`; `sampler` is the polling goroutine; `handler`
is the goroutine that receives one signal. `terminated` is written without
synchronisation, so `Settle` may read it stale: both outcomes are explored.
After `signal.Stop` a signal kills the runner. The command is external: it
ends with any code or by a signal.

### ContainerMetrics

`status`, `mem`, `io` are the engine's containers (external); `phase`, `pending`
and `sample` the poll in progress, which reads one container after the other
(`Read`) while the engine goes on; `known`, `peakMem`, `peakTotal`, `latestIO`
the fields of the Go struct, which `AddEntry` (one round of the loop of
`update`, with the inspection `Metadata`) and `UpdateEnds` change. Memory
stands for CPU and PIDs, which are treated alike, one I/O counter for four.
Amounts are counted in parts of a byte, `Fine` to the byte, because Podman
prints decimals. A size is a number with a unit, and `ParseHumanBytes` reads it
as the code does: `Truncated` is `int64(ParseFloat * factor)`, which cuts off a
fraction, and with `short` a whole byte, where the floating-point product falls
just below the integer (which it does for decimals only, `ShortAssumption`);
terabytes are read as nothing. `DisplayName` gives role or number in the order of one walk
through the map, which `PrintReport` leaves open. `highest` is a ghost.
`formatBytes` has no unit above TiB and would index out of range from 1 PiB on;
a reading of that size cannot come out of `parseHumanBytes` (it stops at GB,
and Podman prints less than 1000 of a unit), so the report never gets there.

`Gauge` is the abstract specification: it takes a whole sample in one step and
keeps the largest readings and the largest sums. The mapping `Shown` lets a
sample count from the moment `update` has it (`Counting`): what is still
`pending` is added in advance, as who reads the metrics has to wait for `mu`
anyhow. `PollEnds` is then the step of the gauge, and
every `AddEntry` and `UpdateEnds` a stutter.

### Config

A process has an `environ` that starts as its `shell` and that `LoadEnv` fills;
`envFile` and `configFile` are the files at the places the upward walk visits:
the package directory and the root for `go test`, the root alone for `make`.
`Begin` and `Inspect` are `SetupPodmanEnvironment`, `LoadConfig`, `Provision`
and `Migrations` the loads and image choices of `Build` and
`runFlywayMigration`, `StartService` the load of the catalog. `PullImages` is
the whole of `cmd/pull-images`. A developer edits files at any moment. `Find` returns
an explicit `CONFIG_PATH` or `ENV_PATH` as it is and `os.ReadFile` resolves it
(`Opened`): a path in `Relative` means another file in each working directory,
which is the package for the tests and the root for the puller. No suite passes
an image, migrations or a configuration of its own, so those parameters of
`StartService` and of the builder are left out. The
syntax of `.env` and YAML is data: a file is a sequence of settings, or what
`config.yaml` says once parsed, or invalid. Names are lists of words in one of
two styles, so `ServiceNameToEnvKey` and its inverse in `Build` do what they do.

### Contract and Pipeline

`Contract` translates the validator, the three assertions and the fixtures.
An assertion has three outcomes: `Stop` (a `require` failed, the step ends),
`Fail` (an `assert` failed, the step goes on), `Pass`.

A suite is a script of calls; the same handlers run all three. `at` and `phase`
say where the suite is, `node` which node the step works on (for API suites the
id an event reported), `seen` how far the current poll got. `Request` is the
HTTP call; sort-mistake (external) commits and publishes later, in order.
`ReadNextSortNodeEvent` takes the next event of the topic whoever caused it.
`Poll` reads one place at a time; `PollTimesOut` marks the step failed and goes
on, `StopStep` goes to the next step, as `t.Run` and `require` do. sort-service
(external) applies events in order, database before cache; the suites' comments
describe it so ("DB + Redis").

What services may do wrong, `MaxFaults` times a run, each charged to a step in
`faulty`: refuse or lose the answer of a request with or without its effect,
fail to truncate, publish a malformed event (any one field wrong, another type
of node or a number that names none included), publish twice, publish or apply
too late for a deadline. A database query that fails (`LookOnce`) is charged
too.

## 3. Runs

| run | instance | result |
|---|---|---|
| `environment_serial` | two serial runs; MySQL, one migration, one application, one developer container | holds: types, `EndedRunLeavesNothing`, `CleanRunLeavesNoNetwork`, `CleanSlate`, `LiveEnvironmentIntact`, `AppsHaveTheirBackings`, `ForeignUntouched` (273,051 states) |
| `environment_lease` | two serial runs, MySQL with a migration | holds: `ImplementsLease`, `EveryRunFinishes` |
| `environment_isolation` | two overlapping runs, Redis and an application | **violated**: `LiveEnvironmentIntact` |
| `environment_network_leak` | the serial instance with a Redis | **violated**: `TeardownRemovesNetwork` |
| `harness` | three tests, two with the same scenario name, sequential or parallel | holds: types, `FreshScenarioIsUp`, `SequentialTestsOwnTheirScenario`, `NothingOutlivesTheTests`, `TestsImplementLease`, `EveryTestEnds` (105,739 states) |
| `harness_connectivity` | the same | **violated**: `ConnectivityFailureHalts` |
| `test_runner` | exit codes 0, 1, 2; at most three signals | holds: types, `MetricsAreFinal`, `SuccessIsReal`, `UnsignalledCodePreserved`, `SignalReachesCommand`, `RunnerEnds` |
| `test_runner_report` | the same | **violated**: `ReportGuaranteed` |
| `metrics` | two containers (symmetric), two polls, sizes up to a terabyte | holds: types, `PeaksWithinTotal`, `NothingOverstated`, `IOTotalClose`, `NamesIdentifyRoles`, `MeasuresOnlyGrow`, `ImplementsGauge` (1.06 million states) |
| `config` | one backing service, Flyway, one application; two Builds, one edit, paths that are relative | holds: types, `ShellWins`, `PulledImagesSuffice`, `AppImageHonoured`, `BuildsAgree`, `SettingsStick` (1.9 million states) |
| `config_flyway` | the same | **violated**: `FlywayImageOfConfig` |
| `pipeline` | the three suites as they are, two misbehaviours | holds: types, `NoFalseAlarms`, `AnswersAreOwn`, `PassMeansDelivered`, `FixturesMeetContract`, `TestEnds` (127,293 states) |

The five violations are disagreements between the code and its documents:

1. `Teardown` removes the network *before* the safety-net prune
   (`environment.go:99`, `:105`). A container that started and never got ready
   has no handle, is still attached, and the network stays for ever, against
   the comment at `environment.go:47`. Pruning first would repair it.
2. Runs that overlap prune each other (`builder.go:89`), against README:189
   and line 98 of the ADR. What holds without `-p 1` is only that each run
   leaves nothing behind.
3. `Setup` ignores the result of the connectivity subtest (`harness.go:212`),
   against README:301.
4. `runFlywayMigration` asks the configuration of the `Builder`, which `Setup`
   never sets, instead of the one `Build` has just loaded (`builder.go:312`):
   the flyway image of `config.yaml` is ignored, against the comment at
   `config.go:215`. Passing `cfg` on would repair it.
5. `signal.Stop` comes before the final snapshots and the report
   (`main.go:495`), so a second signal loses the report, against the comment at
   `main.go:461`.

Weaker than their documents, though no run is spent on them: after a trapped
signal the runner exits 130 whatever the command's code was (`main.go:508`,
README:331; what holds is `UnsignalledCodePreserved`); the I/O of containers
that ended is lost and up to a byte of each reading is cut off (README:329 says
"cumulative"; what holds is `IOTotalClose` and `NothingOverstated`); the
contract does not check enum ranges (README:537; what holds is that a created
node has the type asked for and an updated one has some type, `AnswersAreOwn`);
a relative `CONFIG_PATH` or `ENV_PATH` (README:130) means other files to `make
pull-images` than to the tests (`PulledImagesSuffice` without `Absolute` is
violated: the tests fall back to the default image, which nobody pulled);
the last step of the consumer suite looks at one database row a second later
(`consumer_test.go:134` speaks of Redis and the container too).

What a passed step does *not* say, found while stating the properties of
`Pipeline`: which id a create reported (an event with another node's id passes,
and the later calls then work on that node); and, in the consumer suite, that
anything was ever consumed if an earlier step failed, because an absent row
counts as a deleted one. A fault in one step may fail every later one: each
reads its predecessor's event. `NoFalseAlarms` blames the services, not the step.

### Bounds, and why they are enough

* Two runs: a property of `Environment` relates a run to another one (its
  predecessor's leftovers, an overlapping prune); a third run only repeats the
  second. The theorems have no bound on runs.
* One service of each role (a migration, a container with a pool, an
  application; a Redis takes MySQL's place where runs overlap): the code treats services of a class alike, and the order
  between classes is what `AppsHaveTheirBackings` needs. Symmetry over runs is
  used in the safety runs only, symmetry over containers in `metrics`, which
  checks no liveness; neither compares the elements it permutes with a fixed one.
* `Foreign` is one container: the engine never starts one for a run.
* Three tests: two that share a name and one that does not, so that reuse,
  non-reuse and a stale `activeScenario` all occur.
* `MaxSignals = 3`: one more than `sigChan` holds, so that a signal is dropped,
  and one can be left for the moment after `signal.Stop`. Exit codes 0, 1, 2:
  success, the runner's own failure code, another one.
* Metrics: sizes are in tenths (`Fine`), and the factors 10 and 13 stand for
  1000 and 1024, so that kilobytes are whole bytes and kibibytes are not: a
  fraction that is cut off, a product that falls short and a terabyte occur.
  Two containers are what "alike" and "total" need; two polls let a
  container be seen and grow, shrink, vanish or only then appear.
* Configuration: each kind of name occurs once; two Builds, so that the second
  meets what the first has set. One shell names a relative `CONFIG_PATH`, one a
  relative `ENV_PATH`. Images are pulled only while files are not
  edited: the properties of the puller are about files as they are.
* Pipeline: the scripts are the suites' own. Two misbehaviours let one be
  followed by another in the same or a later step.
* Deadlock is checked in the runs of `Environment`, `Harness`, `TestRunner` and
  `ContainerMetrics`; a process of `Config` and a suite of `Pipeline` really
  stop, and for the latter `TestEnds` says that it stops nowhere else. `AllFinished`, `AllOver` and `Ended` are
  the stutters of a system that is done.

### Fairness

* `Environment`: weak fairness of each run's steps. Nearly every engine call has
  a deadline (45 s, 30 s, readiness timeouts); those that have none, such as
  Flyway's `Terminate` (`builder.go:340`), and the test itself are ended by
  `go test -timeout`, which is `Crash`: a run takes its next step or dies.
* `Harness`: weak fairness of what a test does between calls, strong fairness
  of taking `scenarioMu`, which Go's mutex justifies (starvation mode hands it
  over). Nothing is assumed where a call has no deadline (`Unbounded`): in every
  prune (`podman` run by `exec.Command`), in `Build` and the connectivity checks
  (`EnsureTopic`; `http.Get`, `connectivity.go:65`) and in the test body. So
  `EveryTestEnds` says what the mutex can promise: a test ends, or some test
  stays in such a call for ever, its own body or a call with `scenarioMu` held
  (in sequence also an earlier body). What `go test -timeout` does then is
  `Crash` in `Environment`.
* `TestRunner`: weak fairness of `main` and of the goroutines; the polls have
  2 s and 3 s timeouts. Strong fairness of `SamplerStops` only: `select` picks
  at random among ready cases, so a closed channel is taken at last even when
  the ticker is always ready. None of the command, on which the runner sets no
  bound: it may run for ever, and `SignalReachesCommand` and `RunnerEnds` are
  stated for such a command too.
* `Pipeline`: weak fairness of the suite's own steps and of its deadlines
  (15 s timers), and of sort-mistake answering and publishing and of
  sort-service applying. The answer of a request has no deadline in the code
  (`http.DefaultClient`, `context.Background()`): that sort-mistake answers, if
  only with an error, is an assumption. No misbehaviour is ever required.

## 4. Proofs

All theorems are proved with TLAPS for every value of the constants that
satisfies the named assumptions.

* `EnvironmentProofs`: `TypeCorrect`, then one inductive invariant per
  promise.
  * `EndedRunsLeaveNothing` (invariant `Tidy`; serial or not) needs to know, for a run in its
    last prune, that each of its containers is still listed or was spared, and
    for a run past `CloseClients` that its pools are closed. The list is taken
    when the run can create nothing any more, which is why it suffices.
  * `CleanRunsLeaveNoNetwork` adds (`Accounted`): unless the run lost a handle or was
    refused something, its containers are its handles, plus the one being
    started; hence none is left at `unlink` and the network goes.
  * `SerialEnvironmentsIntact` and `SerialRunsStartClean` rest on one
    invariant of serial runs, `Undisturbed`: at most one run is live, so only
    it prunes, and past its own prune nobody else's containers are around
    except those it was refused.
  * `ForeignContainersUntouched` is an action property: lists hold managed
    containers only, and `ForeignAssumption` keeps the two apart.
* `EnvironmentLeaseProofs`: `SerialRunsImplementLease`, the refinement. Each
  step of `Environment` is mapped to a step of `Lease` or a stutter; the
  invariants above and `Complete` (a building run has recorded everything in
  its plan before `next`, used-up migrations apart) discharge what the lease
  demands (nothing required is lost while available, everything required is held
  when offered). `AppsStandOnTheirBackings` follows from `Upheld`, which says of
  the handles what the theorem says of the containers: the plan starts apps last
  (`AppsComeLast`), so `Complete` gives every backing service its handle when an
  app is created; and Teardown takes handles in `TerminationOrder`, apps first
  (`AppsEndFirst`), so no backing service goes while an app's handle is left.
* `HarnessProofs`: `Guarded`, the holder of `scenarioMu` is exactly the test
  inside `Setup` or the cleanup, only a test that has its scenario and is not
  over can be active, and a container that no prune has come across belongs to a
  test whose `Teardown` is still to come (`Tended`); `Alone`, when tests
  are sequential one test at a time is under way. Types, `FreshScenariosAreUp`,
  `SequentialTestsIsolated` and `TestsLeaveNothing` follow: when all tests are
  over nothing is tended, so what remains is what the last prune left. So does
  the refinement `SequentialTestsLease`, step by step: `OthersAreOver` says that
  in sequence a test removes its own containers or those of tests that are over,
  and finds no scenario to reuse.
* `TestRunnerProofs`: one invariant that ties the position of `main` to the
  child's status, the sampler's and the exit code. `ReportsFinalMetrics`,
  `ZeroMeansSuccess` and `CodeIsTheCommands` follow.

* `ContainerMetricsProofs`: `PeaksStayWithinTotal` needs, inside an update,
  that every entry already added is part of the running sum; `NamesTellRoles`
  that a number is the position among the alike in a walk that visits each
  container once, so two containers never get the same one; `MeasuresGrow`
  follows from the types. Three theorems are about sums over any finite set of
  containers, which the code and the properties build by a fold. What is needed
  of the fold is that it takes its elements in any order (`TotalTakesAny`) and
  grows with its terms (`TotalGrows`). Induction on the set is done by hand:
  sums that satisfy the recursion exist for the subsets up to every size, since
  there is no least size for which they do not (`SumsExist`), and the same
  argument, on a smallest set at which it fails, gives each fact about them.
  * `NothingIsOverstated` and `LittleIsLost` rest on `Measures`: a reading in
    the sample is never above what its container has used by now (`Measured`),
    and during `update` the running sums are the sums of the entries added so
    far, afterwards the I/O total is at least that of the last sample
    (`Accounted`). A conversion loses at most one byte (`TruncatedIsClose`), so a
    sum over the sample at most one per container (`TotalPadded`); the second
    theorem is about containers that have not ended.
  * `UpdateIsAtomic` is the refinement of `Gauge`: an entry moves from `pending`
    into its peak and into the running sum without changing what is shown, and
    `UpdateEnds` finds in the running sums the sums that were shown since the
    sample arrived.
* `ConfigProofs`: `ShellAlwaysWins` and `SettingsAlwaysStick` are about single
  loads. The theorems about files as they are rest on `FilesDecide`: as long as
  no file is edited, the environment is a fixed point of loading from the first
  load on, up to `DOCKER_HOST` and the Ryuk switch, so every later load finds
  what the first one found; and `PullerIsRight` ties the images of the puller's
  process to those of the tests'. That both find the same files
  (`SameFiles`) takes absolute paths, or none.
* `PipelineProofs`, for any number of misbehaviours. Types need `Shape`: `nextId`
  never runs ahead of the creations of the calls so far, and a step that updates
  or deletes works on a node some answer named. `AnswersBelongToTheirCalls`
  rests on three facts. `Ordered`: the events of the topic are in the order of
  their calls, repetitions apart, and none is of a call that is not due.
  `Named`: a name belongs to one call of a script, and no single malformation
  turns the name of one call into that of another; so an event that names what
  was asked for is the answer. `Armed`: the deletion has no name, but the event
  read just before it was the answer to its own creation, so what follows in the
  topic is that event again, which is no deletion, or the answer. The theorem
  therefore depends on the scripts: suites whose steps reused a name would not
  have it.
* `PipelineVerdictProofs`: what a verdict means. `AlarmsAreReal` rests on
  `Healthy`, which holds until the first misbehaviour: one event at a time is on
  its way, it is what its call owes (`Sound`), and it is the answer to the call
  at which the suite is (`Awaiting`); an injected event is stored and cached
  before the next one (`InjectedInTurn`), and what was applied last shows
  (`Shown`). So every assertion holds and every poll can succeed. After the
  first misbehaviour `Blamed` keeps the failed steps from being earlier ones.
  `PassesAreDelivered` rests on `Seen`: a name in the database or the cache is a
  seeded one or came with an event (`Origin`), what was applied last shows if it
  was a creation (`LastShows`), and a step that deletes and is not failed has its
  creation in the topic (`Prepared`), so an absent row is not taken for a deleted
  one; in the consumer suite the two copies hold what they took last (`Copied`).
  Since a name belongs to one call, what a poll sees is the change of its own.

Assumptions: `NamesAssumption`, `SerialAssumption`, `BridgeAssumption`,
`ForeignAssumption`, `PlanAssumption` (no service is started twice),
`NoneAssumption`, `CodesAssumption`, `SignalsAssumption`; `ContainersAssumption`
(finitely many), `UnitsAssumption`, `SizesAssumption`, `ShortAssumption`,
`PollsAssumption`; and
in `Config` those on its files, paths, names, shells and binaries; in `Pipeline`
`SuitesAssumption` and `BoundAssumption`. TLC evaluates each.

Only model-checked: liveness (`EveryRunFinishes`, `EveryTestEnds`,
`RunnerEnds`, `SignalReachesCommand`, `TestEnds`), which TLAPS does not do under
fairness. Every other property that a passing run checks is the subject of a
theorem.

## 5. Not modelled

* The engine and testcontainers, Kafka, MySQL, Redis, the services under test:
  external; only their answers occur, all of them.
* Ports, DSNs, labels other than `harness.managed`, the layout of the report,
  `.env` and YAML syntax, JSON and protobuf encoding: data the properties do not
  tell apart.
* Connecting to MySQL and Redis, `EnsureTopic` and the WireMock stub: single
  calls that succeed or fail, part of `Configure` in `Environment`.
* Log dumps; generated protobuf code but for its enum numbers; build rules other
  than `-p 1`.
* Networks of dead runs: nothing in the code removes them and nothing in its
  documents says so; `networks` shows them, no property forbids them.
* Reordered events: the topic has one partition and sort-mistake one publisher.
  The offset commits of the reader: a group of its own, one member, no restart.
* `Harness` has no crash: what the end of a process leaves is `Environment`'s
  `Crash`. A container that a scenario loses by itself is the engine's doing.
* A failure that hits only part of a run's remaining calls because a deadline
  passed is covered by independent failures of each call.

## 6. Plan

1. Done: `Environment`, `Lease`, `Harness`, `TestRunner`, `ContainerMetrics`, `Gauge`,
   `Config`, `Contract`, `Pipeline`, their runs and proofs.
2. Left: larger scenarios (Kafka, WireMock, two Redis). `Harness` is not shown
   to abstract the runs of one process of `Environment` step by step: a lock, a
   reuse and a build there begin a single `Begin` here. What links the two is
   that both implement `Lease`.
