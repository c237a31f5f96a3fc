# TLA+ models of LogAct

LogAct makes agents commit their intended actions to a shared log, the AgentBus, before they
execute them. A commit engine plays the log: voters look at an intention, a decider turns votes
into a `Commit` or an `Abort` entry, and the proposer is answered with the first decision in the
log. This directory models the engine, the buses and storages it runs on, the roles and services
around it and the local installation, checks them with TLC on small instances and proves the
safety properties with TLAPS.

## Inventory

| Part | State | Operations | Interacts through | Hard behaviour |
|---|---|---|---|---|
| `BaseEngine` (`logact/commit_service/impls/v1/engine`) | per bus: checkpoint (position, policy version, decider, voters); per call: snapshot, read cursor, retry budgets | `create_bus`, `propose_intention` | bus, compare-and-swap storage, policy provider | concurrent drives from stale snapshots, failure between writes, forced abort, policy change under way |
| Policy deciders, voter adapter | a `FirstBooleanWins` slot per decider id: position, pending intention, last output | `apply` | engine, storage | redelivery, a lost compare-and-swap |
| Policy register and provider | a policy and its generation | bootstrap, `read_validated`, `set_policy`, lookup | storage, engine | racing bootstraps, conflicts that say nothing, lost answers |
| SQLite storage | a row per key, connection mutex, file lock | `get`, `put` | engine, blocking pool | puts that outlive their callers, busy file, panics, crashes |
| Storage and space caches | bounded LRU of values with deadlines | `get`/`put`, `read`/`write` | storage, write-once space | delayed answers, expiry, eviction |
| Write-once and conditional-write spaces (memory, SQLite, DynamoDB) | address to versioned value, write time | `write`, `read`, `tail` | bus, storage | requests that outlive their caller, resends, expiry |
| `WriteOnceAgentBus` (`bus/impls/writeonce`) | per instance: next-position hints (LRU) | `append`, `poll`, `read_next`, `read_range`, `check_tail`, `blocking_poll` | a space shared by instances | contention, ambiguous timeouts, forgotten hints, paging |
| In-memory bus (`bus/impls/simple`) | vector of entries with expiry | the same | | tail read before the read, expiry, deadlines |
| Bus roles (`bus/core`: `Decider`, `VoterLoop`, gates) | read cursor, undecided intentions, policy in force | `poll_and_decide`, `poll_and_vote`, `gate_check` | the bus | retry after a failed append, restart at position 0 |
| Mailbox | mail buffer, read cursor | `send_mail`, `poll_and_receive`, `check_mail` | the bus | full buffer, callers that go away |
| Voters (`bus/voters`) | rules, prompt override | `evaluate`, `apply_policy`, validation and creation | roles, engine | overlapping rules, half-legal configs, what an LLM may answer |
| Application server, channelled bus, space and commit service | queues, one-shot reply senders | every call of the interface behind it | worker thread, gRPC | blocked worker, panics, dropped callers, lost messages |
| `BufferingCommitService` | per-bus FIFO mutexes (LRU) | `commit_intention` | the service behind it | eviction while held, dropped callers |
| In-memory commit service | replay state, cached policy version | `create_bus`, `commit_intention` | in-memory bus, provider | two copies of the applied version, foreign entries |
| Observable wrappers, `CommitServiceV1` errors | counters, rows | every wrapped method | | overlapping and dropped calls, error classes over four layers |
| Local server (`grpc/local_server`, `local_fs`) | directory, lock, socket path, policy row | start, serve, stop | file system | look-then-act on the file system, crash, racing starts |
| Hook and manual clients (`commit_service/cli`) | one process per event | one request, enforcement, exit | local server, harness | timeouts against late answers, fail-open and fail-closed |
| Bus CLI (`bus/cli`) | current bus, command at hand | commands, tail and follow mode | the bus | entries that arrive between a read and the follow |
| Simulator (`bus/simulator`) | ready queue, blocked tasks, heap of sleeps, clock | `spawn`, `sleep`, `run`, barrier | test code | lost wake-ups, sleeps and jitter, barrier reuse |
| Wire conversion, printing, plugins, scripts | none | | | not modelled, see below |

What makes each part correct:

* engine and deciders: every decision in the log is the verdict of the log before it; the
  proposer's answer is the first decision; nothing is lost by a failure between two writes; the
  checkpoint is the replay of the log and only moves forward; a policy version means one policy;
  every proposal is answered;
* register: a generation has one policy, and a bootstrap leaves one;
* storage and spaces: compare-and-swap that takes effect at most once and is answered with what
  it did, although callers are dropped and requests resent;
* caches: what they serve is stored, and their limits hold;
* buses: an atomic append-only log without holes to any number of instances, reads that cover
  what was acknowledged and pages that neither skip, repeat nor deliver what has expired;
* roles, mailbox: what was played was dealt with, once, across failed appends and restarts; mail
  arrives once and in order, and only a full buffer loses any;
* voters: votes follow the last legal config, and an unclear answer is a vote against;
* services and wrappers: a call takes effect at most once, is answered for its own effect, waits
  for its turn and not for ever, and is told of its error, by class where the front end has classes;
  the books balance;
* local server and hooks: a bound daemon stays reachable, nothing foreign is removed, a stale
  socket keeps nobody out, and a rejection reaches the harness;
* CLI, simulator: every entry of a range is shown once; no wake-up is lost, sleeps fire in order.

`PROJECT.json` lists the components with their status and the hazards, each at its source line
with the properties that would catch it.

## Modules

| Module | Models |
|---|---|
| `EnginePolicy` | bus entries, per-bus engine state, `policy.rs::plan`, the effect of one entry on the engine state |
| `Engine` | `base_engine.rs`, `policy_decider_applicator.rs`, `stateless_voter_adapter.rs`, storage CAS and its retries |
| `SharedLog` | abstract: what a bus promises its appenders |
| `WriteOnceBus` | `write_once_agentbus.rs` over a write-once space, with the reading helpers of `bus/api`; refines `SharedLog` |
| `SimpleBus` | `in_memory_agentbus.rs` and its state |
| `BusRoles` | `decider.rs`, `vote_trackers.rs`, `voter.rs` and the gates of the application server on one log |
| `Mailbox` | `mailbox.rs` and the mail requests of the application server |
| `Voters` | `rule-based`, `llm`, both voter factories, startup configuration |
| `ConditionalSpace` | the memory, SQLite and DynamoDB spaces and the write-once adapter |
| `SpaceCache` | `caching_write_once_space.rs` |
| `StorageCache` | `caching_storage.rs` |
| `CasStorage` | abstract: what a `Storage` promises for a key |
| `SqliteStore` | `SqliteStorage`, `sqlite_db.rs` and the engine's concurrency retries; refines `CasStorage` |
| `PolicyRegister` | `policy_register.rs`, `synchronous_register_provider.rs` |
| `InMemCommit` | `commit_service/impls/inmem` |
| `CommitQueue` | `buffering.rs` |
| `Channels` | the channelled bus, space and commit service, the application server's worker, the gRPC client and handler |
| `Observed` | the five observable wrappers and the error conversions of `CommitServiceV1` |
| `LocalDaemon` | start, stop and crash of `logact_local_server` |
| `Hooks` | `logact-oss-hook`: hooks of the three harnesses and manual commands |
| `BusCli` | commands and interactive mode of the bus CLI |
| `Simulator` | the deterministic executor of `bus/simulator` |
| `AppServer` | composes `BusRoles`, `Mailbox` and `Voters` |
| `BusReaders` | composes `SimpleBus` and `BusCli` |
| `StorageStack` | composes `SqliteStore`, `ConditionalSpace`, `StorageCache` and `SpaceCache` |
| `PolicyPath` | composes `InMemCommit` and `PolicyRegister` |
| `CommitPath` | composes `Channels`, `CommitQueue` and `Observed` |
| `LocalInstall` | composes `LocalDaemon` and `Hooks` |
| `EngineProofs`, `WriteOnceBusProofs`, `SimulatorProofs` | theorems about the module each is named after |
| `BusRolesProofs` | theorems about `AppServer` and `BusReaders` |
| `StorageProofs`, `PolicyProofs`, `ServiceProofs`, `LocalDaemonProofs` | theorems about `StorageStack`, `PolicyPath`, `CommitPath` and `LocalInstall` |
| `MC*` | instances for TLC |

A composite extends its first module, instantiates the others on variables of their own and states
the properties that are about all of them. In every module an action is what a call, thread or process does between two awaits (or two system
calls), so that others interleave wherever the code can be suspended. Variables that no action
reads are called history in the module's comment; the properties are stated over them.

### EnginePolicy and Engine

A log entry is a record that keeps what the engine tells apart: an intention's version constraint
and kind, a vote's intention and boolean (or `other` for a vote that is not readable as one), a
decision's intention and cause, a policy batch's expected and new version with one operation per
voter. Standalone policy operations are `Legacy` entries, and a batch that no node can read
(`Broken`) has an operation that is `Missing` or a decider policy that is `Unrecognized`. Positions
count from 0 and -1 is the code's `None`. `Engine` has the log, the checkpoint slot, a slot per `FirstBooleanWins` decider and,
for each call, a program counter and a record of its locals.

| Actions | Code |
|---|---|
| `CreateReadPolicy`, `CreateAppend`, `CreateSave`, `CreateSaveFails` | `create_bus` |
| `LoadSnapshot`, `ReadPolicy`, `AppendPolicy`, `AppendIntention` | `propose_intention`, `append_resolved_policy` |
| `CheckTail`, `ForceAbort`, `ReadOutcome` | the loop of `sync_and_apply` |
| `RejectIntention`, `ApplyStateless`, `LoadDecider`, `SaveDecider`, `DeciderRejected`, `DeciderConflict` | `apply_entry_once`, decider and voters |
| `AppendOutput`, `StopPlayback`, `SaveCheckpoint`, `CheckpointRejected`, `CheckpointConflict`, `Reload` | `apply_entry_once`, outputs and checkpoint; the retry in `apply` |
| `Publish`, `ExternalAppend`, `Fail` | a new policy revision, another client of the bus, a dropped call or an operation that returns an error |

Calls run on nodes, and `Supported` says which voter configs a call's node validates and builds.
`plan` checks the provider's decider and writes an operation for every difference, but it validates
no config. A provider made with the node's check refuses a revision the node does not support
(`ProviderRefuses`; `SynchronousRegisterProvider` with the check of the local server), one made
without it hands over any revision; the model has both. So a batch that one node planned may stop
another: `RefusedBy` while the batch is applied, `Builds` when voters are built to look at an
intention, after the decider has been applied and saved. `Malformed` has the exits at which every
node stops: a missing operation, an unrecognized decider, the removal of a voter that is not
installed. `create_bus` applies its own batch when it is the first entry, and may stop there.

An operation that times out although it took effect is the effect followed by `Fail`. Voters may
answer differently each time they are asked. The read loop passes over entries it does not apply
without an await, so a step goes straight to the next entry of interest (`Attention`). `replay` is
history: `replay[p + 1]` is the engine state that the first `p` entries determine.

### Buses: SharedLog, WriteOnceBus, SimpleBus

`WriteOnceBus` has the space, one hint per bus instance (0 when it has none, as in the code), and
for each call a program counter, a position and, for reads, the request and the entries collected.
The request also records which positions had been acknowledged when the read was made. Writes
whose caller gave up stay in flight (`Lose`, `LateWrite`): SQLite runs its statement on a blocking
thread that outlives the dropped future. `SharedLog` is the promise to appenders: each call adds
its payload at most once, atomically, at the end, between invocation and answer; an append that
ended in an error may take effect later. The refinement mapping reads the log off the space.

`SimpleBus` has the vector of entries with their write times, a clock and a cursor per reader, who
pages by `Poll`, by `CheckTail` and `ReadNext`, or by `BlockBegin` and then `BlockFound` or
`BlockTimeout`; an expired entry in the range ends a read in an error (`ReadExpired`).

### Roles: BusRoles, Mailbox, Voters

`BusRoles` has one log, the deciders' cursors and trackers, the voters' cursors and the policy each
has seen, and the gates. A page is read together with the handling of its first entry, and its
entries are handled one at a time (`PlayEntry`); an append may fail, with or without effect, and a crash (`Fault`) loses everything but the log, so that
`Restart` begins at position 0 as `build_and_spawn` does. `Mailbox` has the buffer and the loop's
cursor; `CheckMailAbandoned` drains the buffer for a caller that has gone away. `Voters` has what
each voter has in force, the last legal config it was sent and its last vote; patterns, bus ids
and intentions are short sequences, regular expressions a relation between them, and an LLM's
answer a sequence of tags and words.

### Storage: ConditionalSpace, SpaceCache, StorageCache, SqliteStore, CasStorage

`ConditionalSpace` splits a request into sending, `Execute` and `Return`; in between its caller may
leave (`Abandon`) and DynamoDB's client may send it again (`Resend`). Both caches split a call of
the backing store the same way, so that an answer arrives after newer calls, and keep the cache as
the code does: a recency list, a byte count and a deadline per entry. `SqliteStore` has the row,
the connection mutexes, the file's writer, the jobs of the blocking pool and the drives, which load,
put, and retry by the engine's policy (one immediate retry after a rejection, `MaxRetries` after
conflicts); `Panic`, `Drop`, `BusWrite` and `Crash` are what can go wrong. Its promise `CasStorage`
lets a put take effect once, after it was made, and be answered with what it did.

### Services: PolicyRegister, InMemCommit, CommitQueue, Channels, Observed

`PolicyRegister` has the cell, the nodes' bootstraps with their retries and the administrators.
`InMemCommit` has the log, the cached version, the replay state and the calls, which are suspended
only while the provider answers. `CommitQueue` has the LRU of mutexes and a waiting list for each;
mutexes are numbered as they are created, so that an evicted one is told from its successor.
`Channels` has the queues, the worker and the calls with their reply senders, for four front ends:
which methods run in the worker and which in a task of their own is the difference between them.
With `Remote` the service behind is a gRPC client of a second front end, and an error comes back by
its status code (`Carried`). Callers of the application server are behind its own handler as well,
which turns every error into the code for an internal one (`HandedOn`). `Observed` has the wrapped
calls with the counters and rows they have written.

### Local installation and tools: LocalDaemon, Hooks, BusCli, Simulator

`LocalDaemon` has the directory, the path with what is bound there, the advisory lock, the policy
row and each daemon's place in `run_server`; each system call is an action, `Others` are programs
that use the path without the lock. `Hooks` has one process per event with its request, whether the
server has recorded it, and its answer; `Serve` and `Receive` are separate and may be late or never
come. `BusCli` has the number of entries of each bus, the command at hand and the positions shown;
`Simulator` has the executor's queues, its clock, and what each task waits for.

## Runs

A passing run is about one question and may have several parts: the MC module instantiates the
modules that bear on the question, a variable `part` is chosen in the initial state, and only that
part moves. The parts thus share a run and its properties without multiplying their states. The MC
module extends the component or composite its run is mostly about, so that the theorems and the run
speak of the same definitions, and instantiates what else it needs, where the question calls for it
the same module again with other constants.

| Run | Parts and instances | Properties |
|---|---|---|
| `engine` | `MCEngine`: two drives with one voter, decided by votes, by default or by late external votes; a revision from voting to off; two creators next to a drive; a failure or conflict at any await; a standalone operation or a batch that nobody can read in the log; calls on two nodes of which one refuses a voter that the other supports, and both refuse a third | `TypeOK`, `CheckpointIsReplay`, `DecisionsFollowLog`, `CheckpointedVerdictsLogged`, `OutcomeIsFirstDecision`, `PolicyFaithful`, `SingleCasRetrySuffices`, `PlaybackStopsForCause`, `CheckpointAdvances` |
| `engine_live` | `MCProgress`: two drives of the engine with at most one external vote; drives of `SqliteStore` with a fault | `ProposalsReturn`, `DrivesEnd` |
| `bus_append` | `MCBus`: three appends on two instances with three faults; a blocking poll; follow mode of the CLI; a gate with a voter and a decider | `ImplementsSharedLog`, `AppendsReturn`, `WaitersGetOn` |
| `bus_read` | `MCBus`: three appends and a read of any kind; a poller, a pager and a blocking reader with expiry; the CLI on two buses | `ReadsCoverAcked`, `PagesAreExact`, `ReadersGetTheirRange` |
| `roles` | `MCRoles`: two deciders against racing and contradicting votes with crashes; a gate with a voter loop and a decider; a mailbox of two; rule-based voters with two of seven rules, LLM voters with answers of up to four tokens, the factories | `DecisionsAreLogVerdicts`, `PlayedMeansDone`, `MailArrives`, `VotersFollowConfig` |
| `storage` | `MCStorage`: `SqliteStore` with drives of two processes, or of one connection; the three spaces; both caches, once for races in time, once for their limits | `FoldedInOrder`, `AnswersAreTrue`, `CachesServeStored`, `CachesWithinLimits`, `ImplementsStorage` |
| `policy` | `MCPolicy`: the in-memory service with well-behaved clients and with any client; the register with two nodes and two administrators | `DecidedOnce`, `OnePolicyPerGeneration`, `CommitsUseNewestPolicy` |
| `service` | `MCService`: the four front ends with three calls; the queue with two buses and room for one mutex; every wrapper; fair loops of the in-memory service and of the bootstrap | `CallersToldTheTruth`, `ErrorsKeepTheirClass`, `CommitsInTurn`, `BooksBalance`, `CallersGetAnswers` |
| `local` | `MCLocal`: three daemons, one foreign program, two crashes; two hook processes of every harness | `ServedSocketReachable`, `ReportsAreTrue`, `KeepsToItsOwn`, `FailuresPass` |
| `simulator` | `MCSimulator`: three tasks with sleeps over two runs; tasks at a barrier of two used again | `TasksGetOn`, `SleepsFireInOrder` |
| `inmem_early` | `InMemCommit` with a client that appends before `create_bus` | violates `AdoptsNewer` |
| `cli_refused_tail` | `BusCli` with refused arguments | violates `RefusedLineDoesNothing` |

A property defined in a composite or in an MC module is a conjunction of properties of its parts;
each conjunct is stated and commented in the module it is about. `CallersToldTheTruth` is
`AnsweredForOneEffect` of each front end; it includes that a caller is told of an error when the service met
one, by its class, which survives every hop but the application server's handler: behind that, every error
is internal, and a caller cannot tell a timeout from a refused argument. `ErrorsKeepTheirClass` is about the codes and categories of the observing
wrappers. `DecidedOnce` is checked with well-behaved and with arbitrary clients; the second half of
`CommitsUseNewestPolicy` holds where only the service writes policy batches (`ServiceOnly`).

Deadlock is checked in `local`, where some process can always go on, and in `inmem_early`. The
other passing runs switch it off: a state in which every call has returned, or the log or space is
full, has no successor.

Bounds. Two drives are enough for every race on a slot: a drive competes with the checkpoint and the
decider slot, not with the identity of who wrote them. The log bounds leave room for a batch, two
proposals, their votes and competing decisions; at the bound a drive cannot append and waits, and
`engine_live` uses a capacity no run of its calls reaches. In `bus_append` three appends on two
instances give an instance that competes with itself (clones share hints) and with another one.
`MaxPoll` is 1 and limits are 0 and 2, so that a page is empty, filled, and cut by the bus.
Caches hold one or two entries, so that insertions evict, and where time matters clocks run past the
lifetime of an entry. One fault (two or three where a request can be lost and its retry too) reaches
every recovery path. `MaxGeneration` is 1, so that the generation reaches its limit. Three daemons
are a holder of the lock, a successor and a third that meets the traces of both.
`SingleCasRetrySuffices` speaks of runs without storage conflicts; that two drives are enough to
see it is confirmed by its theorem, which is about any number.

Fairness is weak fairness of what the executor, the operating system or a timer carries on with:
the steps of a drive, of an append and of a fold whose storage job is answered; the jobs of a
connection; the polling loops of decider, voter and gate; a reader that can return, and time; the
bus's answer to the CLI; the worker's loop and the calls it spawned; the first in line of a mutex
and its commit; the in-memory service's resumed call; the bootstrap's next attempt; a daemon that
is starting, and a hook's timers. Votes, other clients, policy revisions, administrators, faults,
crashes and the harness get none.

Every property has mutants, definitions with a plausible mistake in the code they model (a dropped
compare, a missing reload, a cursor that is off by one, a retry of an ambiguous timeout), under
which its run fails; a conjunction has one for each of its parts.

## Findings

* `inmem_early`: `create_bus` of the in-memory service caches the policy version only when its batch
  lands at position 0. After a client entry that came first, cache and replay disagree for good, and
  a newer policy is not adopted, although the module's documentation says it is.
* `cli_refused_tail`: the interactive `tail` command prints an error about an invalid argument and
  its usage and then runs with the arguments that are left.

## Proofs

Every safety property and action property of the passing runs is stated by a theorem, for every
value of the constants: any number of calls, processes, entries, faults and retries, any page size,
capacity and lifetime. A theorem about a composite is about its parts at once: each part behaves by
its own `Spec`, whatever the others do. `PROJECT.json` lists the theorems with their properties.
Below is, for each, what had to be added to the property to make it inductive.

### Engine (`EngineProofs`)

* `TypeCorrect`. `TypeInv` adds to `TypeOK` how the cursors of a call relate to its program counter
  and to the length of the log.
* `CheckpointCorrect`, `CheckpointMonotone`. The checkpoint is not inductive by itself: a drive
  writes the state it computed from its own snapshot, which may be stale, having skipped every entry
  between snapshot and cursor that it does not apply. `ReplayInv` says the same of every call's
  snapshot (`CallValid`): it is the replay at its position, and the replay does not change over the
  entries the call has passed over (`ReplayQuiet`); `ReplayChain` ties consecutive states of `replay`
  to the entries between them. Versions grow along the replay, so the checkpoint only advances.
* `PolicyIsFaithful`, `PlaybackStops`. `PolicyInv`: every batch in the log was planned by the engine or
  can be read by no node (`BatchesPlanned`), hence every state of the replay has what the policy of its
  version asks for (`StatesFaithful`), and no batch that applies removes a voter that is missing. A call
  that has stopped stands at an entry that stops every node, which the checkpoint has not passed, or
  where the log installs a voter its node does not support (`StoppedForCause`). A call about to save a
  batch has built the voters before it and accepted those it adds (`BuildsFirst`), so that the voters
  of the checkpoint are some node's.
* `DecisionsSound`, `DecisionsComplete`, `OutcomesAgree`. `DecisionInv`: a decider's slot has the
  pending intention and the last output of the entries up to its position (`SlotExact`), is at most one applied entry ahead of the
  checkpoint (`SlotBehind`) and never behind it (`SlotsCover`); up to the checkpoint every verdict is
  in the log (`SettledLogged`); a call that is about to save or append carries what the log before
  its entry implies, and a call that has been answered was told the first decision (`CallDecides`).
* `OneRetryIsEnough`. `RetryInv`: without conflicts a spent retry means that the checkpoint or the
  slot is past the call's entry (`Budgets`).

### Buses (`WriteOnceBusProofs`)

* `BusTypeCorrect`, `NoHoles`, `AckedIsRead`. The absence of holes depends on what appends are about
  to do: the written addresses are an initial segment (`Packed`), no hint and no append is ahead of
  the tail (`HintsBehind`, `AppendsBehind`), so that a write that finds its address empty writes
  exactly at the tail. `ReadsBehind`: what a read knows as acknowledged has been reached.
* `Implements` is the refinement of `SharedLog`: the write that finds its address empty, also a late
  one, is `TakeEffect`; the acknowledgement is `Answer`; every other step of an append is an
  invocation, an error or a stutter. `WrittenOnce` (a call whose payload is in the space is past its
  write) keeps a payload from taking effect twice.
* `PagesExact`. `PageInv`: what a read has collected is the matching entries of what it has passed.

### Roles and readers (`BusRolesProofs`)

* `DecisionsAreTheLogs`, `RolesKeepUp`. The verdict that a prefix of the log implies never changes as
  the log grows (`VerdictNext`, `VerdictLasts`), so that a decision is right or wrong for good.
  `RolesInv`: decisions and votes in the log are sound (`LogFits`); what a decider, a voter or a gate
  has played it has dealt with, but for the append at hand (`DeciderFits`, `VoterFits`, `GateFits`).
  A crash puts a role back to position 0, where these hold of nothing.
* `MailKeepsItsPromise`. `MailInv`: buffer and deliveries are in the order of the log and everything
  delivered comes before everything buffered (`MailFits`, `Holds`); mail below the cursor is
  buffered, delivered, drained for a caller that has gone, or followed by at least as many mails as
  the buffer has room for (`Keeps`).
* `VotersObeyTheirConfigs`. `VotersInv`: a voter gives to every bus id and text the answer of the last
  legal config it was sent (`Serves`), although it holds the converted rules and not the config.
* `ReadersAreServed`. `SimpleInv`: what a reader has got is the matching entries below its cursor in
  order (`ReaderFits`). That pages join to such a sequence is proved with ranks: the member of a set
  of positions at place `i` is the one with `i - 1` smaller ones (`InOrderAt`, `InOrderJoin`).
  `CliInv`: what the CLI has shown ends at its cursor (`Shown`), and cursor and count of what remains
  are where the command's range puts them (`RangeFits`).

### Storage (`StorageProofs`)

* `FoldsInOrder`, `RejectionIsSettled`, `KeepsStoragePromise`. A dropped caller's put may run at any
  later time, so `FoldInv` says of every job, whoever waits for it, that it carries the successor of a
  state the row has had (`JobOK`): the compare then rejects it unless the row still is that state.
  `DriveOK` keeps a drive at most one entry ahead of the row and lets it read again after a rejection
  only when the row has its entry. For the refinement of `CasStorage`, `PromiseInv` adds that job
  numbers are unique (`JobsDiffer`), that history only names puts that were made (`RecordsKnown`) and
  what has become of each job (`StageOK`): the statement is `TakeEffect`, taking the result is the
  answer, a job that ends without its statement leaves the promise's caller in doubt.
* `StorageAnswersTruly`. `IsolationInv`: only a put that panicked ends in its error. `SpaceInv`:
  requests are numbered, and a number names one (`NumbersFit`); where nothing expires, an address
  moves past the version a request expects before or when the request takes effect, so a copy sent
  again cannot (`VersionsFit`); a request in flight that is not `true` has not been installed, except
  where the client library resends (`EffectsFit`).
* `CachesAnswerTruly`, `CachesKeepLimits`. `CacheInv` and `ValuesInv`: the byte counts are those of the
  values held, keys differ, limits hold (`CacheFits`, `ValuesFit`); a put in flight, a cached item and
  a served one are about different writes, and none is older than its lifetime allows (`PutsFit`,
  `ItemsFit`, `ServedFits`); what the space cache holds, or is about to hold, is what the backing
  space holds until its deadline (`AccessCurrent`, `HoldingsFit`).

### Policies (`PolicyProofs`)

* `OneWriterPerGeneration`. `RegisterInv`: the register holds the newest generation installed, and the
  generations installed differ.
* `NoSecondDecision`. `OnceInv`: every decision is of an entry the replay has passed, and the
  intention it has pending is undecided (`DecisionsFit`); the one commit that runs waits for an entry
  the replay has not decided (`RunnerFits`).
* `FreshPolicies`. `FreshInv`: a commit of the running call was replayed under a policy at least as new
  as the call's (`ApprovalFits`); where only the service writes batches, cache and replay both have
  the version of the last batch (`PolicyFits`, `VersionAt`).

### Services (`ServiceProofs`)

* `CallsAreHonest` proves `AnsweredForOneEffect` for any front end, of which `CallersToldTheTruth` checks
  four. `ChannelInv`: a call is in one queue at most (`QueueFits`), its effect in the log is
  its own, no answer comes before it is done, and the answer is what the front end makes of what the
  service reported (`CallFits`, `ToldOf`); the status codes lose no class (`HopKeepsClass`).
* `BooksAreKept`, `ErrorsAreTold`. `WrapperInv`: rows are of calls that returned, with the code of what
  they returned (`ReturnsFit`, `RowsFit`), and each counter is the number of rows and of the calls that
  publish none (`BookedCalls`, `BookedErrors`).
* `CommitsTakeTurns`. `QueueInv`: a call is in the line of its mutex and at its head when active
  (`LinesFit`), lines are in the order of arrival (`OrderFits`), and a bus whose mutex was not evicted
  has the one its calls wait for (`MutexesFit`).

### Local installation and simulator (`LocalDaemonProofs`, `SimulatorProofs`)

* `DaemonReachable`, `DaemonStatePrivate`, `DaemonKeepsToItsOwn`. `SocketInv`: a daemon past the lock
  holds it until its socket is removed (`LockIsHeld`), a program that listens is the one the path names
  (`PathNamesListener`), a socket about to be removed has nobody listening (`StaleIsUnused`);
  `FileSeen`: a daemon past its look at the path has not seen a plain file.
* `HooksReportWhatHappened`. `HooksInv`: an entry belongs to a process whose request was served, with
  the answer recorded (`EntryOf`); exit code, output and tool follow from the answer (`ProcessFits`).
  That a bus id parses back to its identity is proved from what splitting at the separator returns
  (`Enumerated`, `SplitParts`, `ParseMainThread`, `ParseSubagent`, `ParseDisplay`).
* `SleepsInOrder`, `SleepsOnTime`, `StarvationIsBounded`. `SleepInv` puts the clock between what has
  fired and what is pending (`ClockBetween`) and numbers sleeps in the order of their start
  (`NumbersUsed`, `NumbersDiffer`); `Paced` counts the events that have moved the clock since a sleep
  began.
* `EveryTaskGetsOn`. `WakeInv`: a task is registered with every channel it waits for that has not been
  sent (`Registered`), and a channel has at most one waker, none once it was sent (`WakersSound`);
  `BarrierInv`: a barrier keeps the senders of the arrivals since it last released.

### Assumptions and limits

The theorems assume the named `ASSUME`s of the modules (disjoint call sets, finite voter set, natural
bounds, one policy per version, distinct model values, that other clients append no decisions and no policy
batches but broken ones, and that a node builds the voters it validates and no others) and, where a module is an instance in a composite, its assumption as a hypothesis:
`RolesAssumption`, `MailboxAssumption`, `VotersAssumption`, `SimpleBusAssumption`, `BusCliAssumption`,
`SpaceAssumption`, `CacheAssumption`, `SpaceCacheAssumption`, `RegisterAssumption`, `InMemAssumption`,
`HooksAssumption`, `ObservedAssumption`, `QueueAssumption`, `ChannelsAssumption`. They say that
constants have their types, that page and buffer sizes are positive, that clients of the roles do
not write decisions or vote in a voter's name, and that a model value for "none" is not one of the
values it is told from. TLC evaluates all of them: those of the modules directly, those of instances
by an `ASSUME` of the MC module.

The library's induction theorems are out of the provers' reach. What a recursive function over a
sequence returns (the bytes a cache holds, the rule that decides) is therefore proved by way of the
least place at which the claim would fail, and what sorting a set of positions returns by counting
the smaller ones.

Only model-checked: the liveness properties `ProposalsReturn`, `DrivesEnd`, `AppendsReturn`,
`WaitersGetOn`, `CallersGetAnswers` and `FailuresPass`, because temporal reasoning under fairness needs
`ENABLED`, which the provers do not handle; and what the two runs that end in a violation show.

## Not modelled

* Conversion between messages of the wire and of the program, field by field; printing, logging,
  completion and line editing; plugin manifests, build and installation scripts.
* A bus that loses data: `BusDataLoss` is a guard of `AppendIntention` that an append-only log never
  satisfies, and a status code in `Channels`.
* Expiry below `WriteOnceAgentBus` and the engine; it is modelled for the spaces, the space cache,
  the in-memory bus and the in-memory commit service.
* What a regular expression matches and what an LLM says: a relation and an arbitrary answer.
* `ScopedStorage`'s key prefix, a renaming; creation of tables; addresses and versions beyond the
  integer range.
* A batch with an unrecognized decider on the in-memory commit service, which ends the call that plays
  it; on the engine it is modelled.
* Latencies, timestamps, the simulator's wall clock, texts of reasons and errors.
* The test harness for linearizability, which is a checker itself.

Two answers are weaker than they look, by design of the libraries: a DynamoDB put that the client
resends may be answered `false` although its first copy took effect, so `AnswersAreTrue` excludes
it; and a bus id refused by the observing wrapper is an error that reaches no inner call.

## Plan

1. Done: all modules above, and theorems for every safety and action property of the passing runs.
2. Possible next: `SimpleBus` as a second implementation of `SharedLog`; expiry under `WriteOnceBus`,
   where a tail that moves because entries expire changes what `check_tail` may promise; the
   conversions between wire and program messages, once one of them carries a decision.
