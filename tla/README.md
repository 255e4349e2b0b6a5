# A TLA+ model of pyResolv

pyResolv (`src/pyresolv`, version 2.12.2) processes firewall logs with a chain of
filter stages: `collect` reads them from Graylog, `trim` drops columns, `merge`
concatenates files, `aggregate` groups and counts, `resolve` looks up every address
and fills in owner columns. A stage runs on its own (`pyresolv --type resolve ...`) or
as a step of a pipeline (`pyresolv run`), in memory or through temporary files.

The stages are simple while nothing goes wrong. What is hard is `resolve`: hours of
network lookups in a thread pool, which cron kills and users interrupt, whose answers
go into a cache that other runs share, and whose result must land in the output file
also when the run does not finish. This directory models that part and what surrounds
it, from the pages of Graylog to the deletion of the inputs, checks it with TLC and proves
most of its safety for every value of the parameters with TLAPS.

## The system

| Component | Code | State | Operations | Hard behaviour |
|---|---|---|---|---|
| Resolve engine | `resolvers/base.py` | frame, answers, futures, failure counter | `enrich`, `resolve`, the handler of an interrupt | worker threads, completion in any order, signals at every instruction, lookups that raise or hang |
| Pipeline runner | `runner.py` | running frame or current file, split request, temporary directory | steps, `_finalize`, the interrupt path of each engine | two engines that must agree, interrupts, kills, failures of any step |
| Stage output | `io.py` | target file, one temporary file per process | `open_output` | overlapping writers, failures, kills, power loss |
| Resolve cache | `resolvers/cache.py` | entries with an expiry date | open and prune, `get`, `set`, expiry rule | overlapping runs, locks, a `set` of two steps, power loss, dates |
| Resolver plugins | `resolvers/{default_chain,rdap,whois,gunter,geo_maxmind,_rdap}.py` | none | `resolve_one` | fallbacks and partial outages |
| Aggregate stage | `stages/aggregate.py` | partial counts per chunk | full and chunked aggregation, split by subnet | the two modes must agree |
| Merge, trim, collect | `stages/*.py` | none | one pass over the input | empty inputs, failure after output |
| Graylog source | `sources/base.py`, `sources/graylog.py` | page cursor | time windows, pagination | a growing index, equal timestamps |
| Stage dispatch | `pipeline.py` | none | run one stage, then `--delete` | order of output and deletion |
| Command line | `cli.py` | none | exit codes, the resume command | signals, what a resumed run repeats |
| Configuration | `config.py` | cached settings | `.env`, TTL specs | a command that lacks a setting, the resume command that drops one |
| Subnets | `subnets.py` | none | bucket of an address, prefix query | prefix lengths, overlaps |
| Log tee | `logfile.py` | line buffer | `write` from any thread, the end of the tee | interleaved writers, writers that outlive the log |
| Translations, schema, tools | `i18n.py`, `schema.py`, `tools/` | - | - | - |

How they interact. The command line turns SIGTERM into `KeyboardInterrupt` and calls
either one stage (`pipeline.dispatch`) or the runner. Every path-based stage reads with
`open_input` and writes with `open_output`. `Resolver.resolve` wraps `Resolver.enrich`,
which the in-memory engine calls directly; `enrich` asks the cache for every key,
submits the misses to a pool of threads that call `resolve_one`, and stores each
non-empty answer in the cache as it arrives. An interrupted loop raises
`ResolveInterrupted` with the partial frame, which the stage or the engine writes where
a result belongs before the command line prints how to go on. Several processes share
the cache and the output directory and know nothing of each other.

What makes each component correct:

- engine: an answer goes to the rows and the cache entry of its own key; filled rows
  stay; every key is answered before a normal finish; an interrupt keeps what is known,
  starts nothing new and does not hang; the file is written once, and whole;
- runner: only the final frame is published, in the right place, by both engines alike;
  a failure publishes nothing; what a kill leaves can be resumed from;
- output: readers find whole documents; only finished ones appear; no litter;
- cache: nothing is served past its expiry; nothing committed is lost;
- plugins: a field comes from the first provider that has it, and an outage is not
  remembered as an answer; aggregate: chunked equals full;
- source: every document of the time span is read, and read twice only if time passed;
- dispatch: nothing is deleted before its content is safe, and exit code 0 means done;
  command line: following the resume command completes an interrupted resolve;
- log: the terminal misses nothing, a line is logged whole and not twice by its writer.

The files at the top of the source tree (`cli.py`, `runner.py`, `resolvers/`, `stages/`,
...) are earlier copies of the package; `pyproject.toml` packages `pyresolv*` only, and
nothing here is about them.

## The modules

| Module | Models | Kind |
|---|---|---|
| `ResolveFrame` | the frame, the keys it asks for, how answers are written back | operators |
| `ResolveContract` | what `Resolver.resolve` promises | abstract specification |
| `ResolveEngine` | `enrich` and `resolve`, the pool, signals | specification, implements `ResolveContract` |
| `ResolveEngineProofs` | proofs about `ResolveEngine` | 8 theorems |
| `PipelineRunner` | `run_pipeline`, both engines side by side | specification |
| `PipelineRunnerProofs` | proofs about `PipelineRunner` | 7 theorems |
| `OutputFile` | `open_output` by several processes | specification |
| `CacheExpiry` | `compute_cache_expiry`, `parse_ttl` | operators |
| `ResolveCache` | `SqliteCache`, `RedisCache`, `get_cache` under overlapping runs | specification |
| `ResolveCacheProofs` | the expiry rule and `ResolveCache` | 4 theorems, 1 lemma on the rule |
| `ResolverChain` | `DefaultResolver` and the providers, over repeated runs | specification |
| `ResolverChainProofs` | proofs about `ResolverChain` | 4 theorems |
| `Aggregate` | both modes of `aggregate`, the split by subnet, `assign_label` | specification |
| `AggregateProofs` | proofs about `Aggregate` | 5 theorems |
| `Subnets` | `parse_cidrs`, `octet_prefix` | operators |
| `GraylogCollect` | `collect` with `GraylogSource` against an index that grows | specification |
| `GraylogCollectProofs` | proofs about `Subnets` and `GraylogCollect` | 6 theorems |
| `StageCli` | `pyresolv --type ...`: `dispatch`, `--delete`, exit codes, the resume command | specification |
| `StageCliProofs` | proofs about `StageCli` | 5 theorems |
| `LogTee` | `_StderrTee`, `tee_stderr` | specification |
| `FileProofs` | proofs about the two modules that write files, `OutputFile` and `LogTee` | 9 theorems |
| `MC*` | instances for TLC | |

Definitions whose comment begins with "Mutant" are deliberate mistakes. They are used
nowhere; putting one in the place of the definition that follows it must make TLC
refute the property `PROJECT.json` names, which shows that the property depends on it.

### ResolveFrame, ResolveContract, ResolveEngine

A cell is reduced to its origin: `Blank`, `Given` by the input, or the key of the
lookup that returned it. Keys are numbers in the order `sorted` gives them; `KeyOf`
says which key a row has, 0 for none. An answer of key `k` is a record with any subset
of the columns filled with `k`, so a crossed answer is visible in the cell.

`pc` is the main thread. `start` is the argument checks and the mask; `lookup` and
`submit` walk over the keys with `cursor`; `collect`, `record` and `store` are one turn
of the loop over completed futures, split where a signal can come between; `apply` and
`write` are the normal end; `cancel`, `salvage` and `rewrite` the handler of the
interrupt and `resolve`'s write of the partial frame; `written` and `rewritten` are the
way from the `os.replace` in `open_output` to the return or the raise. `done`, `saved`, `raw`
(`KeyboardInterrupt` escaped) and `error` are the ends, `exited` is the interpreter after
it has joined the pool. A worker thread is a key whose future is `running`; the queue
of the executor is FIFO, so it is the set of `queued` keys, smallest first.
`Interrupt` may come at every `pc`, more than once. A cache that fails is a miss or a
lost store; `StoreOverflows` is an expiry date that is none any more, raised outside every
handler. The write is atomic or fails: that is what `OutputFile` shows. It may also fail, or be
interrupted, right after the move (`WriteFails`, `Interrupt` at `written`).

`ResolveContract` has neither threads nor cache: answers become known one at a time and
the file changes at most once, to the input with the known answers. `ContractHolds`
says that the engine implements it under `known <- results` and a `status` read off `pc`.
To publish and to return are two steps of the contract, too: a run that is cut short between
them has failed with its result in place. Before that a failure leaves the file alone.

### PipelineRunner

Both engines run the same job side by side and independently, so that their outcomes
can be compared in a state. A frame is the sequence of what produced it. The in-memory
engine validates a step when it reaches it and notes its split request then; the
streaming engine does both for all steps first, writes each step to a numbered
temporary file, the last one of a run without split to `-o`, and loses the temporary
directory on every end but `Kill`, which is SIGKILL, and `cut`: the removal of the directory
is itself cut short, by a further signal or a kill, and any of its files may stay (`Leave`).
`InterruptResolve` is the interrupt inside the resolve
loop, with the write of `Resolver.resolve` that comes before the engine's handler;
`InterruptElsewhere` is every other signal, `Fail` every error, `FailMerge` the error that
`merge` raises after its output is in place. Of the config file a step has a stage, or a
name that is none, and parameters that are valid or not; `WellFormed` is what
`load_pipeline_config` checks before anything runs.

### OutputFile

Several processes go through `open_output` on one path, several times each: a process
that was killed may be followed by one with the same pid. A document is its author and
the number of parts written. `Raise` is an error or a signal inside the block or before
the move, `Abort` a second one in the `finally` block, before or in the unlink, and `Kill` is
SIGKILL. `Sync` is the kernel writing the target to disk; at a power loss before that, the
predecessor of the target may come back, or the target truncated, and under the name of a
temporary file whatever part of it has reached the disk (`Recovered`), since neither the
rename nor the unlink is synced. Every process is `lost` then. `torn` remembers a target that
such a loss has hit until the next document is moved into place.

### CacheExpiry, ResolveCache

`ComputeExpiry` is the rule with its branches; dates and TTLs are days on a clock up to
`Horizon`, the calendar is the function `NextMonth`, and it ends with `LastDate`: a resolver's
date that has no next day `Overflows`, and the run ends with an error (`Overflow`). Each run opens the cache, serves
and stores in any order and ends at any time. `Insert` and `Commit` are the two halves of
`set` for both backends: INSERT and commit under SQLite's write lock, SET and EXPIREAT
for Redis. Only an exception is swallowed; a signal between the halves leaves the
transaction open (`held`) until the process ends. Commits reach the disk at the next
checkpoint of the WAL. What the user gives with `--cache-ttl` is a number with or without
a unit, or garbage; `ParseTTL` is its length and `Refuse` the run that argparse ends. `backend` and the TTL of each run (`ttl`) are chosen in `Init` and
stay.

### ResolverChain

The lookup of one key, over as many runs as one likes. A field of an answer is reduced to
the service it came from; what each service knows of the key (`knows`), which services the
settings switch on (`enabled`, from `ResolveSettings`: `rdapss`, `rdap_bootstrap`, `tcinet`) and the resolver in use (`chain`) are chosen in `Init`. A
resolver that is used alone is a chain of one. `at` is the provider at work, `tier` its next
service: `Ask` is a reply, `AskFails` a timeout or an error the provider catches, `Unreadable`
one it does not, which ends the provider and is caught by the chain, or by `enrich`. `Take`
merges what the provider returned, `Finish` is what `enrich` does with the answer: fill it in
and cache it when any column is filled. `Hit` is a run that finds the entry, `Lapse` the entry
reaching its date, which is so with SQLite. `asn_descr`, a column like any other, is left out.

### Aggregate

Both modes read the same rows side by side. A row is reduced to its group, a table to the
count of every group. `ReadRow` counts a row in `size` (full load) and in `partial` (the
chunk at work); `EndChunk` and `EndInput` add the chunk to `total`; `Finalize` applies
`min_count` to both. `WriteFile` writes one file of the split, `Stop` is an error or a signal at
any point, between two files too. Labels are the positions of the networks in the settings,
and `Other`.

### Subnets, GraylogCollect

An address is a number of `Octets` octets of `OctetBits` bits, a network a base and a length,
so that the prefix of whole octets the server compares and the exact network the client
compares can be related; the comparison is the one of the decimal numerals, in which `1` is
also the beginning of `12` unless a dot follows.

A document has a timestamp and an address. `Matching` is what a request made now matches,
`IsPage` what the server may return of it: the first `SearchSize` by timestamp, in any choice
among equal timestamps. `FetchPage` is one turn of the loop of `fetch_window`, `EndWindow`
the empty page that ends a window, and after the last window the output. Meanwhile documents
arrive (`Arrive`), also with old timestamps, and the clock moves (`Tick`): the bounds of the
window are evaluated by the server at each request. That a reply without an error holds all
it should, and that every hit has its `sort` value, is taken as the server's side of the
contract: the code checks neither. A row remembers the window, the cursor
and the time it was read with, for the properties.

### StageCli

The user gives a command, the process runs, the next command finds the files it left. A file
counts for the rows in it and for those of them that are filled; `FileOf` gives a file several
names (`a`, `./a`). `Refuse` is everything that stops a run before its stage has made anything:
the settings file of `--env` missing or invalid, Graylog or Gunter not configured
(`Misconfigured`, exit code 2), `-o` with `--out-dir`, inputs missing or empty. `Load` is a
stage that runs to its end, `InterruptLoop` a resolve that is interrupted in its loop,
`LookupsFail` one in which lookups fail: their rows stay blank and the run counts as done. `Put`
moves one file of the output into place, `WriteRows` writes to stdout, of which an arbitrary
rest stays in the buffer until `Exit`. `Return` hands over to `--delete`, or raises what had to
wait for the output: `ResolveInterrupted`, or the error of a merge without a header. `Delete`
looks at one `-i` after the other. `Fail`, `Interrupt` and `Kill` come anywhere; `Kill` is
SIGKILL, which leaves the disk as it is. `BreakPipe` ends with 0, or with 120 if the
interpreter finds the buffer still unwritable when it exits.
`hint` is the file in the resume command: `Resume` runs it as the code prints it, with the
resolver of the interrupted run and without its `--env`.

### LogTee

A thread prints a sequence of calls, each a sequence of writes to the stderr it looked up
at its start. The tee's write is split where Python may switch threads: the terminal, each
character, the write of a line, and, after its flush, the assignment that empties the buffer.
That adding a character (`self._pending += ch`) is one step is so on CPython from 3.10 on, which
`pyproject.toml` requires, with its global lock.
The main thread ends the tee (`Restore`, `CheckLeftOver`, `WriteLeftOver`, `TakeLeftOver`,
`CloseLog`) after the others have finished, or, when signals arrive (`abandons`), without
waiting, also out of the middle of its own write, and perhaps not to the end (`BreakEnding`);
then a line of the others may find the log closed (`RaiseClosed`).

## What the runs show

Passing runs:

| Run | Instance | Shows |
|---|---|---|
| `engine` | 3 keys, 5 rows (two share a key, one has none), 2 columns, 2 threads, 2 signals, also between the move of the file and the return; 3 frames, cold and warm cache; lookups may hang | answers never cross; filled rows stay; only missing keys are looked up; the failure counter; a cancelled queue stays idle; the contract; an interrupted loop ends although lookups hang; if lookups end, every run ends and the process exits |
| `pipeline` | 9 step lists, with and without `-i`, `-o`, subnets; 2 signals per engine | only final frames are published; a finished run is complete; an interrupted one names the right place; a failing one leaves `-o` alone; stage files survive SIGKILL; the engines agree |
| `output` | 2 processes, 2 runs each, documents of 2 parts, second signals in the clean-up, power losses | the path is whole unless a power loss tore it; only finished documents appear; a process that ends by itself leaves no temporary file |
| `cache` | SQLite and Redis; 2 runs with different TTLs, 1 key, 2 puts each, 4 moments, months of 2 days, dates up to the end of the calendar, power losses | what is stored expires within the cap and its TTL from the moment it was computed; SQLite serves nothing stale; committed entries stay |
| `chain` | the default chain, `rdap` and `gunter` alone; 5 keys from well known to unknown; 3 sets of services | fields come from the first provider that has them; a lookup that ends with a blank field has given every provider its turn; an outage is forgotten once its entry has lapsed |
| `graylog` | documents that share timestamps or not, inside and outside the networks, with and without an address; 1 or 2 windows, pages of 1, the clock moving during the run; every kind of address filter | a document is repeated only if the clock moved; none is missed that was there, in range and alone at its timestamp; the run ends |
| `stage` | 14 commands of all five stages, 2 in a row and what resumes them, 2 rows, 3 names for 2 files, 2 files of a split; `--delete`, stdin, stdout; 4 states of the settings; 3 faults: signals, SIGKILLs, failures of stages and lookups | rows that were read survive; an input goes only when the output is there; exit code 0 means done; progress is kept; the resume commands complete the file unless lookups fail in the last run |
| `tee` | 2 threads, texts with newlines, carriage returns and unfinished lines; the main thread waits or not; signals in the middle of its writes and of the removal | the log of one thread is exact; a text is logged at most once per thread, once more under signals; the terminal has every write; an orderly end logs every line and raises nothing |
| `aggregate` | 4 groups, 5 rows, chunks of 1, 2, 3 and 6, thresholds 0, 2, 3, two nested networks | the modes agree; files of a split are whole and right, whenever it stops; a finished split lost nothing |

Two properties of `pipeline` have exceptions, written into them because the code has them:
`EnginesAgree` compares what finished runs publish and leaves out a pipeline with `-i` that
starts with `merge`, and `FailureLeavesOutput` leaves out a pipeline that starts with a merge,
which may leave an empty file; see below. The exceptions of `NothingMissed` (documents that
share a timestamp, which a page boundary separates; networks shorter than an octet, whose
prefix query is empty) and of `ReadRowsSurvive` (a run to stdout with `--delete` that ends with
an exit code of failure) are what the code does, too; so is that of `NoLitter` (a second
signal or an error of the unlink in the clean-up, SIGKILL, a power loss). `ExpiryCapped` speaks of
both backends when an entry is stored, and of the database with SQLite only: what Redis makes of
the date is the finding of `cache_redis_outlives`.

Runs that refute what the documentation says. They are disagreements between code and
text, found while modelling; `PROJECT.json` quotes the sentences.

| Run | Refuted | Because |
|---|---|---|
| `engine_unsaved` | an interrupt writes everything resolved so far | only a signal inside the loop over the futures is handled |
| `cache_redis_outlives` | no entry outlives its TTL | SET and EXPIREAT are two commands |
| `chain_poisoned` | a transient failure does not poison the cache | what the other providers know is not empty, and is cached |

The models show more, which have no run of their own:

- the engines do not always "produce byte-identical output" (runner.py:230): for a pipeline
  that starts with `merge` the streaming engine merges `-i` as its first file (runner.py:410),
  the in-memory one does not read it (runner.py:300): `Source`;
- a partial result does not always go "exactly where a finished run would write it"
  (README.md:336-337): the in-memory engine knows the split requests of the finished steps
  only (runner.py:314), so `-o` gets what the finished run would have split: `Finalize`;
- `resolve` in a pipeline is not always interruptible "without losing work" (README.md:335):
  missing subnets are noticed when the partial frame is finalized: `Finalize` to `refused`;
- "the exact command that continues an interrupted resolve" (cli.py:45) drops the `--env` of
  the run: with Gunter configured only there it is refused with exit code 2, each time.
  `ResumeFinishes` of `StageCli` supposes that it is not; without that TLC refutes it;
- `--delete` also removes a second `-i` of trim, aggregate and resolve, which they do not
  read: `Reads` against `Delete`;
- the log loses text another thread writes between the flush of a line and the assignment
  that empties the buffer (logfile.py:48-49): `TakeLine`;
- a signal while keys are submitted leaves the queue uncancelled (README.md:335-336): in
  `ResolveEngine` it ends in `raw` with queued futures, and `Exit` waits for all of them;
- `merge` notices empty inputs (merge.py:71) after `open_output` has put an empty file in
  the place of the previous one (CHANGELOG.md:47-49): `FailMerge` in `PipelineRunner`;
- the in-memory engine validates a step when it gets there, not before anything runs
  (runner.py:22-23): `Fail` at a later step;
- a streaming run to stdout whose resolve is interrupted prints the partial frame in
  `Resolver.resolve` and again in `_finalize` (CHANGELOG.md:40-41): `InterruptResolve`
  followed by `Finalize`;
- a row that was partly filled takes the whole answer, blanks included, while `enrich`
  "adds/fills" columns (base.py:124): `Applied` in `ResolveFrame`;
- a finished stage file can be truncated by a power loss (README.md:364-365), since nothing
  is fsynced before the rename: `torn` in `OutputFile`;
- the cache loses what was committed after the last checkpoint when the power fails
  (README.md:365): the third case of `CommittedStays`;
- an expiration date of 9999-12-31 ends a resolve with an error and its answers unwritten, since
  the day that is added to it is beyond the calendar (cache.py:77), although no result of one
  lookup ends the run otherwise (base.py:199-207): `StoreOverflows`;
- with `--delete`, or with `-o` equal to `-i`, a power loss may take the rows: the input is gone
  (pipeline.py:133) before anything has synced the output (io.py:50), see `PowerLoss` of
  `OutputFile`. `StageCli` is about signals, SIGKILL and failures;
- lookups that fail do not make a run fail: it ends with exit code 0 and blank rows
  (base.py:199-219): `LookupsFail`.

### Bounds

`NumKeys`, `Rows`, `Columns`: three keys are enough for one to be answered, one running
and one queued at once with two threads; the rows include every case `_apply_results`
tells apart (filled, partly filled, blank; sharing a key with a row of another kind; no
key). `MaxInterrupts = 2`: the second signal hits the handler of the first. `Pipelines`:
every stage first, last and in between, the split before, at and after resolve.
`MaxRuns = 2`: a process and its successor with the same pid. `MaxPuts = 2`, `Horizon = 3`,
`MaxTTL = 3`, `LastDate = 10`, months of 2 days: an entry can be stored, expire and be replaced, across a
month's end, with dates and TTLs in reach and beyond the cap; 2 puts by 2 runs are enough
for a `set` of one to fall between the two halves of another's. The proofs show that
for the theorems below none of these bounds matters. Runs of `ResolveCache` are
interchangeable and use symmetry; no liveness is checked there. The `engine` run has
`skip_already_enriched` on; the proofs cover both settings. `MCRegistries` has a key for every
tier at which a provider can stop, `MCSwitches` the three settings of the fallbacks that
differ. `ChunkSizes` has an input within one chunk, one that ends with a chunk, and one that
ends in the middle of one; the networks have an address in both, in one and in none.
`SearchSize = 1` puts a page boundary between any two documents, `MaxTime` lets the clock move
a whole unit, so that a document falls into two windows or would fall between them. Two commands with
their resumptions and three faults are enough for a second run to find what an interrupted
one and an interrupted resumption left. The texts of `LogTee` are different characters, so a
lost, doubled or crossed one is visible in the log.

### Fairness

`HangingSpec` assumes only that the main thread runs; lookups may hang. `RunExits` is
conditional on `LookupsEnd`, an idle thread takes a queued task and a lookup ends: every
request of every resolver has a socket timeout (`rdap_timeout`, `whois_timeout`,
`tcinet_timeout`, ...). Nothing is assumed about
signals. In `ResolverChain` runs are repeated, which is what cron does, and an entry reaches
its date, which holds for SQLite (`ExpiriesAreCapped`), not for an entry Redis keeps without one; `OutageForgotten` supposes that from some point on (`calm`) no service fails. `CollectEnds`
needs only that the process runs on and the server answers (WF of `Collect`; a request has a
timeout). In `StageCli` a running process runs on and the user follows the resume command
(WF of `Work` and of `Resume`); signals and failures are bounded by `MaxFaults`. Where the
code really stops (`OutputFile`, `ResolveCache`) deadlock is not checked; the other
specifications have an explicit `Terminated` step, so a run
that got stuck would be reported.

## What is proved

For all values of the constants under the stated assumptions (`FrameAssumption`,
`EngineAssumption`, `OutputAssumption`, `ExpiryAssumption`, `CacheAssumption`, `AggregateAssumption`,
`SubnetsAssumption`, `GraylogAssumption`, `PipelinesAssumption`, `ChainAssumption`,
`StageAssumption`, `TeeAssumption`; TLC evaluates them in the runs):

- `ResolveEngineProofs`: `TypeCorrect`, `AnswersStayWithTheirKey`, `FilledRowsStay`,
  `LookupsAreNeeded`, `CancelledQueueStaysIdle`, `FailuresAreCounted` and
  `EngineImplementsContract`. None of the invariants is inductive: that a finished run
  answers every key, for example, holds because of how far the walks have come. `IInv`
  says so. `WalkInv` ties `cursor` to the keys already answered or missed, `FutureInv` the
  futures to the misses, `LoopInv` the future at hand to its answer, `FrameInv` and
  `FileInv` say that frame and file change only at the end, `AnswersInv` that answers
  belong to their keys. `Invariance` proves it by one lemma per group of actions. The
  contract follows with one step lemma: `Record` and a cache hit are `Learn`, the two
  writes `Publish` and `Salvage`, `Return` is `Finish`, every other end `Fail`, and everything
  else is stuttering. `FailedCount` needs a second invariant on cardinalities.
- `FileProofs`, about `OutputFile`: `OnlyFinishedDocumentsAppear`, `ReadersFindWholeDocuments`,
  `NothingLeftBehind` and `OutputTypeCorrect`, from `TempInv`: a process that is writing owns
  its temporary file, and one that has closed it has finished it; a process that is idle, done or
  failed has none.
- `FileProofs`, about `LogTee`, for any number of threads, any characters and any programs: all
  five properties of the run. `TeeInv` says where each thread is in its program and that the
  tee is removed before the log is closed; `TeeTypeCorrect` follows. The others need what has
  happened so far. `OnceInv`, for `LoggedOncePerThreadAtMost`, counts: while a text that is printed once
  stands in the buffer, the lines that have it are no more than the threads (the main thread, as
  it ends the tee, among them) that have written the buffer and have yet to empty it; a main thread that a signal took out of its
  write counts once more. `OrderInv`, for `OrderlyExitsLogAll`: the log has one line per
  newline that the threads have passed, as long as the tee is there. `TerminalInv` and `RaisedInv`, for
  `TerminalHasEverything`: the terminal has what was made of the earlier calls of a thread, and the
  writes of this one. `SoloInv`, for `SoloLogIsExact`: log and buffer are `Lines` and `LastPart` of
  what the lone thread has written so far, character by character. The streams are made
  with `FlattenSeq`, a fold: `JoinsExist` and `FlattenUnfolds` say that it satisfies its equation,
  `FlattenAppend` and `FlattenMore` what a further part adds.
- `ResolveCacheProofs`: `ExpiryBounds` (an expiry is never before now, nor beyond
  `_MAX_TTL`, nor beyond the TTL asked for), `CacheTypeCorrect` for both backends,
  `ExpiriesAreCapped`, from `PendingInv` (what a run is about to store is short-lived), and
  `SqliteServesNothingStale`, from `LifeInv`: with SQLite every entry, committed, on disk or
  pending, has an expiry within its lifetime. It is false of Redis, see
  `cache_redis_outlives`. `CommittedEntriesStay`, for both backends, rests on `LifeInv` (an entry
  without a date would be pruned) and on `OwnInv` (what a run commits is its own).
- `AggregateProofs`: `AggregateTypeCorrect`, `ChunksDoNotMatter`, `SplitFilesAreRight` and
  `SplitLosesNothing`. `CountInv` says that the sum of the earlier chunks and the chunk at work
  is the full count, `PhaseInv` that the last chunk is in the sum when the input has ended and
  that a split only ends when no bucket is missing, `FilesInv` that a file is missing or whole.
  `LabelIsFirst` needs that a set of positions has a smallest one, which is well-foundedness.
- `GraylogCollectProofs`: `PrefixCovers` (every address of a network that keeps an octet has the
  prefix the server compares), `ServerCoversClient`, `CollectTypeCorrect`, `NothingIsMissed` and
  `RepeatsTakeTime`. `GInv` says that rows are behind the cursor and the window, and that a
  document that is due is written, ahead of the cursor, or older than the window: a window
  that moves on only moves towards newer documents, which is why it leaves no gap.
- `PipelineRunnerProofs`: `PipelineTypeCorrect`, `FailuresLeaveOutput`, `FinishedStagesAreKept`,
  from an invariant per engine: what is published, which files exist and which split is noted
  is a function of the program point and the step number (a run that is `cut` may keep any of its
  files). On top of it `ContentInv` says what is
  in the frame: at step `i` the result of the first `i - 1` steps of the job, at the end that of
  all, after an interrupt the partial frame of the resolve at which the run stopped; the split
  the in-memory engine has noted so far is that of its finished steps. From it follow
  `OnlyFinalFrames`, `DoneRunsAreComplete`, `HintsNameOutput` and `EnginesWriteTheSame`, for every
  list of steps. They need `HistoryUnfolds`: the recursive function `History`, which says what a
  list of steps makes of a source, satisfies its equation. That is an induction over the list,
  done as an argument about a shortest beginning of the list that would be without a history.
- `ResolverChainProofs`: `FieldsFromFirstProvider`, `EveryProviderHadItsTurn` and
  `ChainTypeCorrect`, from an invariant on what the providers at work and before have returned.
- `StageCliProofs`: `StageTypeCorrect`, `RowsThatWereReadSurvive`, `InputsGoAfterOutput`,
  `ZeroIsDone` and `ProgressIsKept`, for any files, names of files, command lines, settings and
  faults. None is inductive: they speak of the disk when the command started and of the disk now,
  and what has happened in between has to be said. The faults are signals, SIGKILL and failures, no power loss. `Made` does: the rows that were read are in the
  result, a file of the output that is in place holds its part, and every other file is as it was,
  or gone for a reason (`Deleted`) that stays true until the next command. `HintInv` says that a
  command that resumes deletes nothing and starts from what the interrupted run has written. One
  lemma per action; `Ending` is what all ways to end have in common.

Inductions over a list (the `History` of a pipeline, the `FlattenSeq` of a stream) are arguments
about a shortest counterexample: well-foundedness of the numbers gives one, and the list without
its last element refutes it.

Only model-checked: the liveness properties `InterruptEnds`, `RunExits`, `OutageForgotten`,
`CollectEnds` and `ResumeFinishes`, because temporal logic with fairness is beyond the prover.
Every other property of a passing run is stated by a theorem.

## Not modelled

- Columns: what trim drops, under which header merge puts rows with other columns, and which
  field of a reply goes to which column (`_rdap.py`) are data conversion.
- Parsing of YAML, `.env`, dates and CSV, argument handling and help texts, translations. A
  parsed value is valid or not. `parse_ttl` of `inf` and of numbers beyond a `timedelta` is left out.
- Addresses: IPv6 networks, and documents whose source is no address although it has the prefix
  of a network.
- Files: a name in `--out-dir` that equals that of an input, and two splits within one minute,
  whose files have the same names. A crash between `mkdir` and the creation of a file leaves
  an empty directory, which is harmless.
- Power losses outside of `OutputFile` and `ResolveCache`: the other models have a disk that stays
  as it was written.
- Replies of Graylog with status 200 that are partial (`timed_out`, failed shards), and hits without
  `sort`, at which the loop ends a window early.
- A commit of SQLite that fails (a full disk) is a store that did not happen.
- What a progress bar writes through `_StderrTee.flush`, which keeps no state.
- The diagnostic tool (one request, printed) and the earlier copies at the top of the tree.

## Plan

What is left, most valuable first: the resume command of a split, a loop over the files of
`--out-dir`; the composition of the resumed runs with the shared cache:
nothing is looked up twice.

Runs of each stay within a few keys, documents or lines, as above.
