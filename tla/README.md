# ddson in TLA+

ddson downloads a file with several machines.  A *server* cuts the file into
chunks of 10 MB, has registered *agents* fetch one chunk each, puts the chunks
together, sends the file to the *client* that asked for it and keeps it in a
cache.  This directory holds TLA+ models of the server, of the agents and of the
client, alone and put together, the TLC configurations that check them on small
instances, and proofs for TLAPS of what holds for any number of goroutines,
agents, processes and faults.

    tlc -config AgentPool.cfg MCAgentPool.tla      # a run
    tlapm AgentPoolProofs.tla                      # the proofs

## The system

| Component | Code | State | Operations |
|---|---|---|---|
| Agent list | `internal/agents/agent_list.go` | free and busy agents, next identifier, bans; one mutex, one condition variable | AddAgent, RemoveAgent, RunTask (getOneFreeAgent, callback, freeAgent, three attempts), BanAgent |
| Agent errors | `internal/agents/agent.go` | an error count and a retired flag per agent | AgentImpl.RunTask, Retire |
| Download task | `cmd/server/distributed_download.go`, `subtask.go`, `task_info.go` | quit flag, error, progress channel, finish channel, target files | executeTask, executeSubTasks, execute, downloadChunk, progressFunc, combine, validateFile, transferFileData |
| Download call and queue | `cmd/server/server_download.go`, `task_list.go` | a FIFO of tasks with one runner | Download, addTask, run |
| File cache | `internal/persistency/downloaded_file.go`, `internal/database/downloaded_files.go` | a directory of files, a SQLite table of rows | GetPersistedFile, AddDownloadedFile, RemoveFileAndDbEntry, Cleanup |
| Registration (server) | `cmd/server/server_register.go`, `server_heartbeat.go` | a timer per agent in a map without a lock | Register, Heartbeat, expiry |
| Agent loop | `cmd/client/agent_mode.go` | its identifier, an error count, a ticker | register, heartbeat, register again |
| Agent's side of a chunk | `cmd/client/agent_download_part.go` | per request a progress channel and two goroutines | DownloadPart, downloadFromServer, reportProgress |
| Client | `cmd/client/download_mode.go` | the output file, the progress bar | receive loop |
| Progress accounting | `cmd/server/download_progress.go` | bytes per agent | update, getTotalDownloadedBytes |
| Progress bar | `internal/progressbar/progressbar.go` | progress and frame | render, with and without a terminal |
| Daemon | `internal/common/daemonize.go`, `cmd/client/ddson_client.go` | the pid file | Daemonize, StopDaemon; --daemon, --force, --stop |
| Rest | logging, version, formatting, HTTP helpers, start-up | | |

How they interact.  A `Download` call looks in the cache, else queues a task and
waits on its `done` channel.  The single runner executes one task at a time.
`executeTask` starts a goroutine per chunk and one reporter.  A chunk's
goroutine calls `RunTask` of the agent list, which blocks until an agent is free
and runs `downloadChunk` on it; that reads the agent's stream, appends to the
chunk's target file and passes progress to the reporter, which relays it to the
client.  On the agent, one goroutine reads the chunk from the origin, another tells
the server how much has arrived, and when both are done the chunk is sent.
Meanwhile agents register, and are removed when their heartbeats stop,
also while a goroutine uses them.  After the task the call, now concurrent with
other calls and with the runner's next task, adds the file to the cache and
cleans the cache up.

What is hard here, with the lines in `PROJECT.json` under `hazards`:

* *agent list*: wake-ups that go to a worker that finds nothing; removal of an
  agent in use; handing back exactly once on every outcome;
* *download task*: four kinds of goroutine share two channels and an
  unsynchronised flag; the task may go on only when every chunk's goroutine is
  really finished; failures in any of them must reach the result; channels whose
  reader left;
* *cache*: a file and its row are two objects that no lock and no transaction
  holds together, used by concurrent calls, through failing statements and
  process crashes; Cleanup works from a snapshot;
* *registration*: a map without a lock, timers against heartbeats, lost calls,
  server crashes, identifiers that start again at 0;
* *the way of a chunk*: four bounded buffers in a row (the agent's channel, its
  stream, the server's channel, the client's stream), each of which may lose its
  reader, and amounts that are counted again when a chunk is requested again;
* *the pid file*: three steps with a fork between them, each of which may be the
  last.

What makes each correct is stated below, property by property.

## Modules

| Module | Models | State ↔ code |
|---|---|---|
| `AgentLease` | what the list promises: an agent joins once, leaves for good, is lent to one worker at a time | abstract |
| `AgentPool` | `agent_list.go` | `freeAgents`, `busyAgents`, `nextID` are the fields; `pc`, `agent`, `attempt` the locals of each goroutine in `RunTask` |
| `AgentErrors` | `AgentPool` with the error counts of `agent.go` | `errorCount` is the field, `failures` what it should have counted |
| `DistributedDownload` | one task; borrows its agents from an instance of `AgentPool` | `exec` is the task goroutine, `sub` and `stage` the chunk goroutines, `reporter` progressFunc; `quitFlag`, `finishChan`, `progress` the shared variables; `written` and `wrong` the target files |
| `DownloadCache` | Download calls, queue, cache | `disk` the directory, `db` the table, `queue` the task list; `pc`, `req`, `content`, `target`, `listed`, `unsized`, `total` the locals of each call |
| `AgentRegistry` | Register, Heartbeat, expiry and the loop of each agent process, over an instance of `AgentPool` | `timers` is heartbeatTimers, `left` and `waiter` the timer and the goroutine of each registration; `handler`, `callID` the server's side of the open call of each process; `loop`, `id`, `errCount`, `due` the locals of agent and sendHeartbeats; `owner` the address in the Agent; `stale` marks identifiers from before a restart |
| `Daemon` | `daemonize.go` and the commands that call it | `pidfile`; `cmd`, `force`, `target` the running command; `process`, `signalled` the processes |
| `AgentNode` | `AgentRegistry` whose agents are the processes of a `Daemon` | `managed`: which of them that machine runs |
| `AgentDownload` | one call of DownloadPart | `serve`, `source`, `got`, `failed` are downloadFromServer and the upload; `offered` the channel; `relay`, `unreported` are reportProgress; `stream`, `open` the connection |
| `DownloadClient` | `download_mode.go` | `inbox` its stream, `ending` the status of the call, `phase` the receive loop or the end of the process, `output` the file, `resp` the last message |
| `ProgressBar` | the arithmetic of `progressbar.go`, operators only | |
| `EndToEnd` | origin, agent, task, call and client of one download: `DistributedDownload` with one chunk, `AgentDownload`, `DownloadClient` | adds `call` (requests so far), `reported` and `amounts` (the progress channel's values), `counted` (downloadProgress) |
| `MC*` | instances for TLC | |
| `*Proofs` | theorems about the module of that name | |

Grain of the actions.  In `AgentPool` a method that holds the mutex throughout is
one action; `getOneFreeAgent` is split at `cond.Wait`.  Which sleeper
`Signal` wakes, and which free agent the map iteration yields, are open choices.
In `DistributedDownload` each channel operation, each message of a stream and
each read of the flag at the head of a loop is a step; `quitFlag` is the task's
error as well, as `setError` sets both and nothing clears either.  In `DownloadCache` each SQL statement and each access to the disk is a
step; a task is taken by the runner in one step and ends in another, or never
(what comes in between is `DistributedDownload`).  In
`AgentRegistry` a handler is two steps, what it does to the list under the mutex
and what it does to the map of timers under none; a tick is the interval between
two heartbeats.  In `Daemon` every access to the file or to a process is a step.
In `EndToEnd` a step of one component is taken together with what it does to the
stream between two: the agent sends and the stream grows, the subtask receives
and it shrinks.

Data.  Chunks are counted in pieces; a piece may be wrong.  Contents of cached
files are a size and a checksum; a file gets a fresh name and at most one row,
so a row is named by its file; what the cache holds is counted in units of size,
as a set, since the provers know cardinalities and no sums.  Sizes and times are small integers.  Agent
processes live once; one that is started again is another process.  Lost or late
calls, server crashes, races of the map and mishaps of a command draw on one
budget `faults`, as the properties of that part are about what so many faults
can do.

Definitions whose name ends in `_Mutant` stand before the definition they
distort: a plausible slip such as a forgotten Signal.  They belong to no
specification; putting one in place of its neighbour makes the property it is
paired with in `PROJECT.json` fail, which shows that the property depends on
that code.

## Runs

### `agent_pool` - AgentPool.cfg

Three workers, three registrations, three attempts (the code's number).  Three
workers are needed for a wake-up that is overtaken by a third goroutine; three
agents for one in use, one free and one removed at a time.

* `Exclusive`: an agent runs one callback at a time.
* `BusyIffHeld`: no agent leaks out of circulation, and none is offered while
  still used, although `freeAgent` is deferred with nothing but an identifier.
* `NoLostWakeup`: while workers sleep, every free agent has a worker on its way.
* `RemovedStaysRemoved`: the worker's late `freeAgent` does not resurrect an agent.
* `ImplementsLease`: refinement of `AgentLease!Spec`.
* `FreeAgentIsUsed` (liveness): with an agent free and a worker asleep,
  sleepers are woken or the agents taken.  Fairness: goroutines that can run do,
  and callbacks return.  None is assumed of registrations and removals.

### `agent_errors` - AgentErrors.cfg, finds a violation

`runTaskOnce` calls the callback itself, so the count in `AgentImpl` never moves
and an agent that always fails is never retired.  This is also why the ban list
is left out of `AgentPool`: the branch to `BanAgent` is unreachable.  (Were it
reached, it would lock the list's mutex twice.)

### `download_safety` - DownloadSafety.cfg

Two chunks of one piece; agents deliver 0 to 2 pieces, right or wrong, with
progress messages in between; two agents that may leave at any time; two
attempts of `RunTask`, two rounds of `execute`; a progress channel of capacity
1; a client that may leave at any time.  Chunks interact only through the flag,
the channels and the agents, so two of them show each interaction; `MaxData = 2`
gives the short, exact and long file.  `MaxRetries` 1 for 3 and `ProgressCap` 1
for 32 make the limits reachable; nothing depends on their values otherwise.

* `WorkersQuiescent`: behind `executeSubTasks` no chunk goroutine is alive in
  any sense - it cannot send on the channel about to be closed, write into the
  removed directory, or keep an agent.
* `OnlyWholeFiles`: the client never gets a file with a chunk missing, short or
  long, though `combine` looks at no file size; with a checksum never a wrong
  one.  This holds because the size test behind the receive loop decides on the
  last attempt's file and nothing else, and a quit flag set at any time ends
  in an error.
* `SuccessMeansDelivered`: a task without error has sent the whole file.

### `download_liveness` - DownloadLiveness.cfg

* `TaskTerminates`, `ReporterEnds`: the task ends, and its reporter with it.

Fairness: goroutines that can run do (weak); an agent's stream ends eventually
however many messages precede (strong on `StreamEnds`: it is disabled while the
goroutine reports); agents come back until one stays (`MinAgents = 1`, weak
on `AgentJoins`).  The last two are not guaranteed by the code: there is no
deadline on a stream (`plan.md` lists "fail a subtask if it is too slow
(timeout)" as open), and a goroutine in `getOneFreeAgent` waits without looking
at the flag.  The run shows that nothing else can hold a task up - provided that
the file is not empty and the client stays, as the next two runs show.

### `download_empty_file`, `download_client_leaves` - find violations

The same property for a file without chunks, where the collection loop waits
for a notification nobody sends, and for a client that leaves, where the
reporter returns and a chunk goroutine blocks on the progress channel.  Either
way the only runner is lost, and with it every later download.

### `cache_concurrent` - CacheConcurrent.cfg

Two concurrent calls, three in all, on two URLs with two checksums and two
sizes, without faults.  Time stands still, so every order of removal and every
second-phase removal can occur.  Two calls give every race of a pair of SQL
statements; three calls in all let a third find what two left behind, and let a
Cleanup of one handler begin and end within that of the other.

* `ServedIsRequested`: a requested checksum is honoured by the cache.
* `NoDanglingRow`, `NoOrphanFile`: concurrent adding, replacing and cleaning
  leave no row without file and no file without row, except in the middle of the
  call that is about to repair it.
* `KnownFilesFit`: Cleanup adds up sizes of files that other calls remove, and
  then subtracts those of rows read earlier.  When its first phase is done, the
  files it knows of that are still there take no more than `MaxSize` all the
  same.  That it gives up when a file to be removed is missing looks like a flaw
  and is what this rests on: going on would subtract a size that may never have
  been added.

Not claimed of concurrent calls, since the code does not give it: that the second
phase removes only what nobody used for `MaxLife`.  `Cleanup` compares the
`last_used` it read at its start, and a file read as old may be used by a
`GetPersistedFile` before the second phase removes it.  (For one call at a time it
would only say again what the comparison says.)

### `cache_sequential` - CacheSequential.cfg

One call at a time, four in all, a clock; the file left by a task may be empty.

* `SizeBoundedAtRest`: after a call the cache is within `MaxSize`.

It is false of two concurrent calls, and claimed for one only: a Cleanup that
meets a file another Cleanup has just removed gives up (its `os.Remove` fails)
with the cache still too large.

### `cache_faults` - CacheFaults.cfg

One URL, two concurrent calls, three in all; any statement or move inside the
cache may fail, and the server may crash between any two steps and start again
with the files and rows it finds.  Three calls are needed for one that finds in
the cache what another has left while the task of a third hangs.  To keep that
small the clock stands still and the two limits of Cleanup are equal, so that
its second phase removes nothing; `cache_concurrent` has that phase without
faults, and the proofs have both.

* `ServedIsRequested` again: half-finished removals and insertions do not make
  the cache serve wrong content.
* `DownloadReturns` (liveness): every call returns, unless from some time on it
  waits for one task, its own or one in front of it in the queue, that never
  ends.  Fairness: calls that can go on do, and a runner that is through with a
  task takes the next.  That a task ends is not assumed: `executeTask` may block
  for ever (`download_empty_file`, `download_client_leaves`; no agents; a silent
  agent), and the single runner with it.  So the property shows how far such a
  task reaches, to the calls in the queue and not to those the cache serves, and
  that nothing in cache, queue or Cleanup holds a call up in addition.

`NoDanglingRow` and `NoOrphanFile` are not claimed here: a fault in the middle
leaves exactly such rows and files, and nothing repairs them.

One fault is excluded from the runs of `ServedIsRequested` (`MoveMayFail =
FALSE`): the result of the rename at the end of `executeTask` is ignored, and if
it fails an *empty* file is cached under the requested checksum.  Both paths are
in one temporary directory, so this takes a failing disk.  `cache_sequential`
includes the outcome.

### `cache_size_faults` - CacheSizeFaults.cfg, finds a violation

`CleanupReduces`: a Cleanup that starts removing does not return with the cache
above `MaxSize`.  After one failed DELETE (or a crash before it) the row's file
is gone; every later Cleanup tries to remove it first, fails and returns.

### `agent_node` - AgentNode.cfg

Two agent processes, either on machines of their own or both forked and stopped
by commands on one machine; five registrations; a timer of three ticks (four in
the code), one error put up with (three in the code), two faults, of which the
machine with its commands leaves one (`Spent`) to keep the run small.  Two
processes are enough for a stolen identifier and for two daemons; two faults for
a crash and a loss around it, or for `TimerTicks - 1`, the number that may cost
a living agent its place; five identifiers for every registration two processes
make with two faults.

* `TimerForEveryAgent`: no agent is in the list without a goroutine that will
  drop it, and no timer outlives its agent but in the goroutine about to delete
  it, whatever registrations, expiries and crashes overlap.
* `OwnHeartbeats`: a heartbeat prolongs the registration of its sender, unless
  the server was restarted since the sender registered.
* `LiveAgentKept`: a living agent loses its place only after `TimerTicks - 1`
  faults.
* `LiveAgentListed`, `DeadAgentDropped` (liveness): when faults cease, living
  agents end up in the list and dead ones out of it.  Both except an agent that
  is `Mistaken`: identifiers start at 0 again with each server process and
  Heartbeat compares no name, so after a restart an agent may go on with an
  identifier that now belongs to another, be accepted, and never register.
* `AtMostOneDaemon`, `RunningIsNamed`: whatever commands are given and wherever
  each is cut off, one daemon runs at most, and the pid file names it.

Fairness (weak): handlers and expiry goroutines that can run do; an agent whose
ticker or sleep is over calls; time passes when all that is due has happened; a
server that is down is started again; a process that was forked listens or ends,
and one that was signalled ends.  No command need be given or finish.  That
handlers and agents keep up with the ticks (`Settled`) is the assumption that
5 s are long against a call; a tick that comes too early (`SlowTick`) costs a
fault.  A call ends with an answer or an error: the code has no deadline, so an
agent whose server is reachable and silent waits for ever.

### `end_to_end` - EndToEnd.cfg

One chunk of three pieces, two attempts of `RunTask`, one round of `execute`;
the origin answers with right or wrong bytes, too few, too many or not at all;
the agent's connection may break and the client go at any time; every buffer
holds one message.  Three pieces are more than the buffers on the way hold
together with the goroutines between them, so every blocking send blocks
somewhere.  The terminal is 12 wide with frames of 2, the line with the progress
takes 10: wide enough.

* `CompletedFileIsWhole`: a client that ends with success has the whole file;
  wrong bytes only without a checksum and from an origin that ignored the range
  (an answer 200 is taken for the chunk, wherever that begins).
* `EofMeansWhole`: when an agent's stream ends without error the chunk is
  complete, so the size test of `downloadChunk` never fails on a true agent.
* `NoConcurrentSend`: the agent's two goroutines never send at the same time,
  which only the order of two deferred calls sees to.
* `CountedOnce`: within one request no piece is counted twice; the total exceeds
  the file only by what was requested again, as the TODO in
  `download_progress.go` says.
* `BarSafe`: the bar takes the client down only if a chunk was requested again:
  then the progress exceeds 1 and a repeat count becomes negative.
* `SentMeansOk`: a client that is there is not told of an error after the file
  was sent, although the reporter may set the error at any time.
* `PartServed`, `ClientAnswered` (liveness): the agent's call returns unless its
  connection is lost or the client has left; the client's process ends.

Fairness: weak on the disjunction `Running` of all that runs by itself - server,
agent, origin, client, and an agent that registers when there is none.  Nothing
repeats for ever here (no endless progress), so it is enough that something runs;
it is less than fairness of each goroutine.  As in `download_liveness`, that
agents register is not the code's doing.  Deadlock is not an error: the run ends,
or the server stays stuck after the client has left (below).

What the exceptions of these properties stand for is in the code:

* reportProgress returns when its Send fails; downloadFromServer then blocks on
  the full channel and the call is never left (`~open` in `PartServed`).
* When the client leaves, the reporter of the server returns, the subtask blocks
  on the progress channel, stops reading the agent's stream, and the agent's Send
  blocks in turn (`~client` in `PartServed`; the server's half is
  `download_client_leaves`).

## Proofs

### The agent list

`AgentPoolProofs` proves, for every finite set of workers, every number of
agents and of attempts (assumptions `WorkersAssumption`, `MaxAgentsAssumption`,
`MaxAttemptsAssumption`, `NoAgentAssumption` of `AgentPool`):

* `Invariance`: `Spec => []Inv`.  `Exclusive` and `BusyIffHeld` are not inductive
  alone.  `Inv` adds that the two lists are disjoint, that no identifier from
  `nextID` on is in use (else AddAgent could hand out a number somebody holds),
  and that a worker holds an agent exactly while its callback runs or the agent
  is still to be handed back (else TakeAgent could overwrite one).  One lemma
  per action.
* `TypeCorrect`, `MutualExclusion`, `NoAgentLeaks`: from `Invariance`.
* `RemovalIsFinal`: `RemovedStaysRemoved`, from the part on `nextID`.
* `WakeupsArrive`: `NoLostWakeup`.  It is inductive relative to `Inv`; the proof
  counts: each action that adds a free agent moves a sleeper to the mutex if
  there is one, and each worker that leaves the mutex takes an agent with it or
  finds none.
* `Refinement`: `ImplementsLease`: a registration is a Join, a removal a Leave,
  TakeAgent a Lend, FreeAgent a GiveBack, the rest stutters.

### The download task

`DistributedDownloadProofs`, for any number of chunks, pieces, attempts, rounds
and agents and any capacity of the channel (`SizesAssumption`, and
`ListAssumption`, which says of the list's constants what `AgentPool` assumes):

* `UsesTheList`: `Spec => Pool!Spec`.  The task touches the list by its operations
  only, so `Pool!Inv` is not proved again but taken from `AgentPoolProofs`.
* `Invariance`: `Spec => []Inv`, from which `TypeCorrect`, `NoWorkerLeft`,
  `WholeOrNothing` and `ErrorsArrive` follow.  `Inv` adds to `Pool!Inv` and the types
  * `SubtaskInv`: where a goroutine is in `execute` agrees with where it is in
    `RunTask`; a chunk counts as fetched only if its file is there with the right
    size; one that gives up without an error never called `RunTask`, which only a
    quit flag can cause; and an error that was collected is in the flag;
  * `PhaseInv`: what the task goroutine relies on at each point of `executeTask`,
    above all that behind the collection loop every subtask has finished and been
    collected, and that it stores a file only after having sent it.

### The cache

`DownloadCacheProofs`, for any number of concurrent calls, any URLs, checksums,
sizes and limits (`CleanupAssumption`):

* `TypeCorrect`.  The types of the locals depend on where a call is (`CallsOK`);
  a call is in the queue at most once and only while it waits (`QueueOK`), else
  the runner would answer one that has gone on.  That file names do not run out
  is a count of the calls that may still create one (`NamesInv`).  That Cleanup's
  `total` does not become negative, although rows and files vanish under it, is
  `TotalInv`: it is never less than the size of the listed files that are in it and
  still on the disk.
* `ServesTheRequested`, with failing statements and crashes, if `~MoveMayFail`:
  an entry's file agrees with its row, so does what a call is about to
  insert, and what it is about to serve agrees with the request (`SumInv`).  The
  condition is needed: after an unseen failed move an empty file has a row.
* `RowsHaveFiles` and `FilesHaveRows`, if `~StoreMayFail` and `~MayCrash`: `RowInv` is
  both properties and what each call in the middle of two statements has in
  hand; in particular the file about to get a row is known to nobody else.
* `StaleTotalSuffices`: `KnownFilesFit`, with failing statements and crashes and
  without any condition, from `TotalInv` and from `FitInv`: past its first phase a
  Cleanup has a total within `MaxSize`, or nothing left that it knows of.
* `CacheStaysSmall`, without faults and for a single handler: what Cleanup has
  listed is what is in the table, and its total the size of what it has asked for
  (`AloneInv`).  Two concurrent calls break it, as said at `cache_sequential`, so
  the hypothesis is not a convenience.

### Registration and the pid file

`AgentRegistryProofs` proves about `AgentRegistry`, for any set of processes, any
number of identifiers, any length of the timer and any number of faults
(`RegistryAssumption`, `AgentsAssumption`), `Invariance`: `Spec => []Inv`.
`TimerForEveryAgent` and `OwnHeartbeats` are not inductive alone; `Inv` adds

* `InOrder`: no identifier from `nextID` on is listed, has a timer or a
  goroutine, so AddAgent hands out one that is nobody's;
* `DroppedFirst`: a goroutine about to delete a timer has dropped its agent, so
  nothing loses its timer while listed;
* `OwnStore`: between the two steps of a Register its agent is listed, its own
  and without a goroutine, so nothing can drop it before its timer is stored;
* `OwnIds`: a process that is not stale owns the identifier in its loop and the
  one in its open call.

There is one lemma per action; `CallsFailEffect`, `AnswerEffect` and
`RegistrationEffect` say once what an answer, or its loss, does to the loops.

`Kept` is `LiveAgentKept`, by counting: a timer has run for no more ticks than
there were faults, and for one more while its agent's heartbeat is due or on its
way (`TimeInv`); so an expiry takes `TimerTicks - 1` faults.  This needs besides `Inv` that a
registered agent's open call is a heartbeat with its own identifier (`CallInv`),
and that nothing is listed while the server is down (`DownInv`).

`AgentNodeProofs` proves the same of `AgentNode` (`NodeTypeCorrect`, `NodeTimed`,
`NodeOwn`, `NodeLiveKept`), whose agents are started and stopped by commands, and
of the pid file `OneDaemon` and `Named`, for any number of processes, commands and
mishaps.  Their
strengthening `Relied` says what a command that has looked at the file relies on
later: the file is as it was, and no daemon runs but the one it names; when it is
about to remove the file or to fork, none.  The assumption behind it is that one
command runs at a time (`PidsAssumption` only keeps the names apart).

### End to end

`EndToEndProofs`, for one chunk of any number of pieces, buffers of any capacity and
a client that may leave (`OneChunk`, `CapsAssumption`):

* `Refinement`, `E2ESpec => Spec`: each step of the composition is a step of the
  task as `DistributedDownload` has it, or leaves it alone.  So the task's `Inv`,
  and with it `WorkersQuiescent`, `OnlyWholeFiles` and `SuccessMeansDelivered`,
  holds of the composition.
* `OneSender` and `EofWhole`, from the agent's side.  `AgentInv` ties the reporting
  goroutine to the uploading one; `PiecesInv` says where the pieces are: while the
  agent uploads, the stream is some progress messages and then only data, and
  written, streamed and unsent pieces make up the chunk.
* `SuccessIsWhole` and `SentIsOk`.  `QuitInv`: while the client is there the flag
  means a failure before the file is sent.  `ClientFlow`: the file is in one place,
  still with the server, in the client's inbox, or in its output.
* `NoDoubleCount`.  `CallInv` bounds the requests by rounds and attempts.  `CountInv`
  adds up what is counted, in the server's channel, on the agent's stream, in the
  hands of a goroutine and still unread: never more than was requested.  The sum over
  a channel is stated by its partial sums (`SumsTo`), whose existence the proof
  carries from step to step, in place of a recursive definition.
* `BarHolds`: `BarSafe` on a terminal that is wide enough (`WideTerminal`), from
  `NoDoubleCount` and `SafeOnWideTerminals`.
* `E2ETypeCorrect`.

`ProgressBarProofs`, over all integers: `SafeOnWideTerminals`, no repeat count is
negative if the progress is at most 1 and the terminal as wide as the bottom line
and two wider than the frames; and `SafeWithoutTerminal`, without a terminal no
progress does harm.  The conditions are needed: a narrower terminal ends the
client (`w - b` is negative), as does a progress above 1 (`BarSafe`).

### Only model-checked

The liveness properties: `FreeAgentIsUsed`, `TaskTerminates`, `ReporterEnds`,
`DownloadReturns`, `LiveAgentListed`, `DeadAgentDropped`, `PartServed` and
`ClientAnswered`; fairness and ENABLED are out of the prover's reach.  Every
invariant and every action property of a passing run is a theorem.  What a
recursive definition computes for all inputs (induction over data) cannot be
proved with the installed provers; no module with a theorem has one.

## Not modelled

* BanAgent: nothing reachable calls it (`agent_errors`).
* Concurrent sends on the client's stream by reporter and task goroutine: gRPC
  forbids them, and what arrives then is not defined.
* A Heartbeat that comes between AddAgent and the entry in the map, with an
  identifier kept from before a restart, resets a nil timer and ends the server
  (`server_register.go:47-53`).  It is modelled (`ResetPanics`) and charged as a
  fault: agents that hit the window after every restart could keep the server
  crashing, and no liveness property would hold.  The same panic after an expiry
  is not charged.
* Daemon: two commands at once (the TODO above `os.Create` names that race), pids
  that the system gives out again, and, as no property promises a daemon after
  --force, two ways to have none: an empty pid file, left by a start that was cut
  off, is an error for --stop and --force until removed by hand; and --force does
  not wait for the old daemon, so the new one may find the port taken and end.
* A file system of its own for the cache: the task leaves its file in the
  system's temporary directory, and where that is not on the file system of the
  cache (under the user's home) every `os.Rename` of `CreateFile` fails.  Nothing is
  ever cached then, and each download leaves an empty file that no Cleanup sees.
  The models let the move fail at any time (`StoreMayFail`); that it always does
  is a matter of the machine.
* An agent's address that `grpc.NewClient` refuses: `downloadChunk` only logs the
  error, and using the nil connection ends the server (`subtask.go:86-96`).
  Addresses are those of registered peers, which it does not refuse.
* Refusal of incompatible versions, which only keeps an agent out.
* The bar's floating-point rounding and its speed figure; the wording of statuses.
* Temporary files outside the cache directory; HTTP probing; flags, logging,
  version, `internal/task` (interfaces nothing uses).
* Overflow: sizes are int64 and added within Go's range for any real disk.

## Plan

Done: all modules above; proofs of every safety property that a passing run
checks.  What is left:

1. `Chunks`: the offsets and sizes that `createSubtasks` makes against the checks
   of `combine`, for every size of file and of chunk; so far a file is whole when
   its chunks are, and that the chunks are the file is taken from reading the loop.
2. That a file in the cache is the one the task delivered: `DownloadCache`'s one
   step per task as a refinement of `DistributedDownload`.
