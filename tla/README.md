# A TLA+ model of lunar-kasada-api

The program is an HTTP service in Rust (actix-web on tokio, rayon for the heavy
parts). `POST /worktime` fetches a site's script once, extracts from it the
parameters of a proof of work, and answers with solved challenges;
`POST /payload` takes a second script apart, runs what it needs of it, and
answers with a payload; `POST /test` runs both against a site. This project
models the parts in which state, order and failure matter, and those whose
rewriting of code has to leave its meaning alone. Paths below are relative to
`src/` of the repository.

## The system

| part | state it keeps | operations | talks to |
|---|---|---|---|
| cache (`worktime/cache.rs`) | a table of slots, each an entry (value, fresh until, stale until, generation) and a flight (generation, watch channel), behind an RwLock; a generation counter | `resolve`, `claim`, `settle`; a task `run` per flight, with a drop guard | handlers call it; it spawns `fetch` |
| fetch (`worktime/fetch.rs`) | none between calls | send, receive, extract; `lifetime`, `delta_seconds` | HTTP client, extraction |
| worktime route, encoder (`routes/worktime.rs`, `worktime/encoder.rs`) | one request | validate, resolve, apply fc, solve, encode | cache, wall clock |
| extraction (`worktime/{pipeline,deobfuscator,decoder,disassembler,config,model,handlers,fc}.rs`) | one script | syntax tree to words, words to instructions, instructions to parameters and to which of them fc supplies | - |
| profiles (`utils/profiles.rs`) | the loaded devices | list, fetch, parse, pair | object store |
| payload pipeline (`payload/pipeline.rs`, `routes/payload.rs`) | one request, an arena per server thread | the stages below in order, the last three in a rayon scope | rayon's pool |
| reading the payload script (`payload/{disasm,decompile,lift,...}.rs`) | one script | words to instructions, blocks, trees | - |
| devirtualiser (`payload/{devirt,defer}.rs`) | functions as blocks of trees, shards of them | simplify each function, evaluate what is constant, share summaries between shards in rounds | rayon's pool |
| interpreter (`payload/exec.rs`) | heap, scopes, promises, caches of one run | compile and optimise functions, run operations, built-in methods | the script's own functions, as callbacks |
| probe, layout (`payload/{probe,compute}.rs`) | one script | share out the functions, drive the batches, find the permutation, place the cells | rayon's pool, interpreter |
| assembly (`payload/{values,catalog,timing,assemble}.rs`) | tables; the timeline of one page load | make the values and the timeline, put them together | - |
| test route (`routes/test.rs`) | the cookies, instants and requests of one session | fetch the page, the script, send the solution; judge the answer | the site, both of the above |
| client, TLS (`utils/{client,tls}.rs`), start-up (`main.rs`) | configuration | - | - |

What is hard in it: requests race between the read and the write lock of the
cache; a refresh runs in the background while its host is asked for again; a
fetch may fail, panic, be cancelled, or never be polled; clients leave; a body is
slower than its own lifetime; headers come in any order and malformed; the wall
clock is stepped during a request; objects arrive in any order and some never;
workers share a counter and panic; a job on the pool waits for other jobs of the
same pool; a guess is worked out while the answer is still being looked for;
summaries travel between shards in a bounded number of rounds, and a worklist has
a budget; passes move expressions past calls that may throw into a handler; a
script's callbacks contradict themselves, resize the array that is being worked
on, settle the promises whose reactions are running, or use the regular expression
that is being used; a session fails at any of eight steps, each with an
answer of its own, sends cookies that later lines replace or remove, and subtracts
unsigned instants that rounding may have swapped. `PROJECT.json` lists each of these at its line under
`hazards`, with the properties that would catch it.

What makes the parts correct:

* cache: one fetch per host at a time; nothing expired, superseded or failed
  earlier is given out; a failed refresh does no harm; the table does not grow
  by failures; everyone is answered.
* headers: the span granted is the one the header means and is never inverted.
* worktime: what is answered verifies, the reason given for a refusal is so, times
  are those of the arrival.
* extraction: the sweep reads every word once; a parameter said to be the
  program's own is never the host's.
* profiles: no permit and no profile is lost; pairs are as close as they can be.
* pipeline: an answer is a function of its request; no job outlives its request;
  everyone is answered, on a pool of any size.
* sharing, shards, layout: each function once; results point where they should;
  the outcome depends neither on scheduling nor on the cut nor on the guess.
* reading: both decoders agree; the blocks partition the functions.
* rewriting (simplify, defer, compile, optimise): nobody can tell the new code
  from the old, by its calls, their arguments, their order, or its result.
* session: requests are those of one browser, with the cookies of the moment; the
  verdict is earned; a timeline is in order and as long as what was measured.
* built-ins: what they return is what is meant, whatever callbacks do meanwhile.

## Modules

### The cache and its task

`Cache` is `cache.rs` and the life of a task in `fetch.rs`. Its variables are the
table (`slots`, `entry`, `flight`, `nextGen`), the tasks with their channels
(`task`), the calls of `resolve` (`req`) and the monotonic clock (`now`). A step
is one critical section, one clock reading, the work between two awaits, or one
operation on the channel:

| action | code |
|---|---|
| `Arrive` | `resolve` up to `Instant::now()` |
| `PlanStep` | the plan under the read lock |
| `ClaimStep`, `Open` | `claim` under the write lock, with `open` |
| `LaunchStep` | `launch`, and what `resolve` does after it |
| `Wake`, `Disconnect` | `wait`; the future dropped by the server |
| `Poll`, `Respond`, `FetchFails`, `FetchSucceeds` | `run` and `fetch`, split at their awaits |
| `Abandon`, `DropUnpolled` | the drop guard; a task dropped before it was armed |
| `Settle`, `Publish` | `settle` under the write lock; `send_replace`, or the dropped sender |

A value is named by the generation of the flight that fetched it, a host by its
spellings. A request keeps one history, the flights already over when it came.
`lifetime()` is a set of spans here, `Lifetimes`, whose assumption is what
the theorem `GrantedSpan` says of `Lifetime`.

`CacheContract` is what `resolve` promises, with neither locks nor tasks: a call
is answered with the stored value, if that had not expired when the call was
made, or with the outcome of a fetch that landed since. `Cache` implements it
(`ImplementsContract`): a fetch lands at its `Settle`, a call is answered when its
value is fixed, which for a refresher is under the write lock.

`Lifetime` is `lifetime()`, one step per directive, and beside it, as a machine of
its own, `unquote()` and `delta_seconds()`, one step per character. Each has a
reference definition that does not scan (`ScanMeetsReference`, `MatchesReference`).

### The worktime request and the reading of its script

`Worktime` is one request: the handler, `apply()` of `fc.rs` and `encode()`.
`resolve` is external to it and may give any build or error after any time;
SHA-256 is an arbitrary function; a score `2^52 / (prefix + 1)` against the
threshold `difficulty / sub_count` is compared in integers. Phrase and suffix of
the seed, which are read alike, are one parameter.

`ReasonsAreTrue` relates every answer to what it says. It does not say that a 502
clears the caller, for the code does not: an `st` of 0 or less in his body, and a
difficulty or a number of sub-challenges in his fc that no digest can satisfy, end in
`encode()` (lines 73-75 and 102 of `encoder.rs`) and are answered 502 like a faulty
build or a clock before the epoch (line 125 of `routes/worktime.rs`). Only a body or an
fc that cannot be read is a 400 of the handler's own.

`Sweep` is the linear sweep of `worktime/disassembler.rs`, one action per word or
group of words that are read together. What it returns must assemble to exactly
the words it was given. Words of registers go up to what the shift drops; the
limits of code length and register shift are left out.

`Flow` is `analyze()` of `worktime/fc.rs`: `Program::build()` (leaders, functions,
the names closures are bound to) and the `Solver`, whose abstract values carry
which paths of the host's document they come from. Beside it the same program is
run (`m`), each value with where it really comes from, and the verdict is compared
with that (`VerdictCovers`); `NothingLeftToRun` says that the queue was emptied at
a fixpoint, although a write notifies only readers that can observe it. The
programs of `MCFlow` combine 22 ways a value can travel with 8 functions; they keep
to a fragment the analysis takes for granted: a closure is bound as soon as it is
made; lists are neither stored in fields, nor thrown, nor meet another value where
branches join (`ListsAreRead`); a computed key reads only what a computed key set,
and copies keep their keys; a handler reads no register set since it was
installed; a host call on the whole document parses it. That the solver always
ends is seen only in that every run of the model is finite.

### Profiles and the payload pipeline

`Profiles` is `load()` and `pair()`: two listings page by page, a task per object,
the semaphore, the JoinSet, the unstable sort (any order of ties), the greedy
pairing.

`Pipeline` is `POST /payload` from `solve()` through `run()` and `execute()`. What
a check or stage comes to (`fate`: done, failed or panicked) is fixed; when it
happens is not. Server threads own an arena each, which a request borrows. At the
end of the stages the server thread opens a scope in rayon's pool: two jobs are
spawned, a third is driven by the server thread, which spawns one job more; and
`prepare()`, already on the pool, spawns its workers and waits for them. A thread
that waits takes up other jobs, of any request, and goes on when they end, so
waits nest on its stack. `RequestsStandAlone` compares the answer with that of a
sequential run of the same fate.

### The session of POST /test

`Session` is the handler of `routes/test.rs`, one action for what it does between
two awaits: the request is validated and `fp` sent (`Receive`), `fp` is answered and
read (`FpAnswered`, `FpRead`), the script is asked for, answered and read
(`SendIps`, `IpsAnswered`, `IpsRead`), `solve()` answers (`Solve`), and `tl` is sent,
answered and read (`TlAnswered`, `TlRead`). The site, the network, the solver and
the client library are external and may do anything; the history `said` keeps what
they did, so that the verdict can be compared with it. `StoreCookies` is
`store_cookies()`; a jar is compared with what a browser would keep of all lines
heard (`IsJarOf`), which speaks of the lines alone; `Expires`, `Domain` and `Path`,
which a browser would honour too, are not read by the handler.

`VerdictIsEarned` says, both ways, which first step that goes wrong calls for which
answer. Three of these are not what one might expect, and are stated as they are:

* a body of `tl` that breaks on the way is a rejection (`success: false`), not a 502,
  although the site may have accepted (lines 689-695, 698);
* a request for the script that cannot be built is a 400, although its URL is made of
  the caller's host and of the `src` that the site sent (lines 511-513, 550); by then
  `fp` has been sent;
* what `solve()` refuses with is passed on as it is, whoever is at fault.

That URL is the origin and the `src` written one after the other, and nothing checks
that the `src` begins with a slash. One that does not makes the host longer or another
(`stray`, `Elsewhere`), and the request for the script goes there, with the cookies of
`fp`, the whole URL of `fp` as its referer and `sec-fetch-site: same-origin`.
`SentLikeOnePage` therefore speaks of referers only where a request goes to the
caller's host, and says that no other request than this one can go elsewhere.

`Timing` is `payload/timing.rs`: a timeline made up (`Synthetic`) or measured
(`Measured`), its lite variant, and the durations `header()` reports, in ticks of
100 us. What is drawn is a record of `Choices`, with the ranges of the constants as
an assumption; the clock of `Session` is finer than a tick (`Grain`), so that rounding
loses something. The distribution of the draws and the order of the reported fields
are left out.

### Work shared out

`WorkShare` is `prepare()` of `payload/probe.rs`; what is found in a function is
reduced to the functions it encloses and the variables it binds. `Devirt` is
`devirtualize()` of `payload/devirt.rs`; the evaluation of one function
is reduced to which summaries it is enough to have for finding one. `Layout` is
`compute()` of `payload/compute.rs`: the lists of batches, the drives that find
the key, the guess of the key and its permutation beside them, and the replay that
places the cells. What running a closure gives is in the script.
`SpeculationIsTransparent` has a premise (`OneWayOfSetting`): in one function a key
is not set both to the result of a call and to a variable, since the guess and the
search look at these in different orders.

### Rewriting functions

`Ir` is the intermediate language and what it means; `Simplify` the passes of
`Pass::function()` over it (chains merged, expressions moved to where their
register is read, dead stores dropped, jumps shortened); `Defer` the abstract
interpreter of `payload/defer.rs` (one pass without loops, else a worklist with a
budget, then rewriting; summaries); `Passes` puts them in the order of the code and
runs the function before and after. What the passes take for granted, and do not
check, is `TakenForGranted` of `Passes`:

* a handler is entered only by throwing (`HandlerStandsAlone`): one that is also
  jumped to is merged into its predecessor, or taken for dead;
* a register a handler reads is not set twice in a block around something that may
  throw (`HandlerSeesLastOnly`): the first store is dropped;
* the second part of a conjunction reads no register (`SecondPartsReadNothing`):
  `walk()` moves expressions into it as if it were always evaluated;
* no register is read after a memory read in one expression (`MemoryReadLast`):
  `walk()` lets a call that was put into the register move past the read;
* arrays stay in registers (`ArraysStayHome`): the contents of one that escapes
  are still taken for known.

Not exercised, and taken for granted as well: a memory read does not throw; two
closures of one entry may be taken for equal (`AV::Fn`); a pure expression moved
into a conditional statement reads no register that an earlier statement nested in
it writes. `BudgetSuffices` holds while `2 * slots + 1` rounds per block are within
the 64 of the code; a function may have up to 4096 slots, and one that uses up its
budget is rewritten from what is no fixpoint.

`Compile` is the compiler of `payload/exec.rs` (`lower_*`, `array_run()`, `follow()`,
the hoisting of declarations) and `summarize()`; a function and what it was
compiled to are run over the same meaning of each operator. Premises: no handler
reads a register to which a new array is assigned (`HandlersReadNoArray`, since
`array_run()` delays that assignment to the last store); a function that gets a
summary declares its variables before it uses them (`DeclaredFirst`, since
`summarize_case()` takes an assignment to one for local); converting the operands
of `^` has no effect. Where one arm of a branch leads out of the function, compiling
fails for both; so it does in the model.

`Optimize` is `optimize()`, one action per pass (per round for dead stores), over
functions whose operations are classed by what they define, use and may do; then
the loop of `ops()` and `exec()` over the original and the optimised function side
by side: the runs take pure operations and jumps alone and meet at everything
else. Its premise `CatchesReadNoResult`: no operation that may throw defines a
register that some block reads on entry, since `dead_stores()` takes such an
operation to have overwritten the register even when it throws. Lowering can emit
that shape; nothing in the repository says whether its input ever has it. The
functions of the run have no conditional jump from between the arrays of a fused
`apply` to code that reads them, and the run says nothing of those that do.

### The interpreter's built-ins

`TimSort` is `sort` and `toSorted`: the copy, `timsort()` with its runs, merges and
gallops, and the writing back. The comparison is the script's: it either compares
ranks or gives any answer to any question, and between comparisons it may throw or
resize the array. `merge_low()` and `merge_high()` are mirror images and share
their actions, told apart by `side`. A search or a scan that asks about an index at
most once is one step.

`Promises` has no job queue, since the code has none: `settle()` runs reactions at
once, as frames on a stack, and while a function of the script is on top the script
may make, settle and chain any promise. As in the code, a nested `then()` on a
settled promise runs before reactions that are still waiting in the loop, resolving
with a pending promise does not lock the promise, and `all()` and `race()` go by
what is settled when they are called.

`Arrays` are the other methods, those with callbacks one call of the callback per
step, between which the array may be changed by any method. Where a callback
shortens the array, `find()` and `findIndex()` stop and `reduce()` passes undefined,
which is what the code does and not what ECMAScript says. Conversions never call
the script. `Objects` are property reads through the inline cache, with getters and
setters of the script; accessors occur on plain objects only, and nothing removes a
property. `Strings` are `exec()`, `replace()` and the methods that cut by UTF-16
units. The regular expression engine is external: an expression matches one literal
text. One `replace()` with callbacks is under way at a time; a template is expanded
in one step; the sticky flag is ignored by a global `replace()` or `match()`, as in
the code.

`Strings` also writes numbers and reads them (`num_to_str()`, `radix_str()`,
`str_to_num()`, `parseInt()`, `parseFloat()`) and converts and compares values
(`to_str()`, `to_prim()`, `to_num()`, `typeof`, `===`, `==` and the orders). A number is
its sign, its shortest digits and the place of its point, as `ryu` gives them; its
arithmetic is not modelled, so the numbers of the instance are such that no sum or
product rounds while they are read. The code prints a whole number below 1e21 with the
digits of its exact value, which beyond 2^53 need not be the shortest: the numbers of
the instance have these in common. Both zeros are one number.

### Reading the payload

`Disasm` is `disassemble()` and `decompile()`: from words to instructions by following
control flow, with the plain and the fast decoder side by side; from instructions
to functions and blocks, with the tables that are reused from one function to the
next. What an opcode reads and where it leads is a template; tags are distinct,
seeks are sorted and none lies behind the last read, strings have their length first, and
the arithmetic that makes a double is left out.

### Instances, proofs, mutants

The `MC*` modules give the constants values and, where parts share no state, put
several into one run as its parts, told apart by the variable `part` (`MCSharing`,
`MCControl`, `MCValues`, `MCOptimizer`, `MCReading`, `MCSession`): each initial state
belongs to one part, and the variables of the others stay as they are, so the run is
the union of independent ones. The two readers of `Lifetime` are run side by side in
the same way by `HeadersSpec`. `MCLayout`, `MCFlow` and `MCPasses` hold the instances of
three of these parts. The modules named `*Proofs` hold proofs.

Operators marked "Mutant" in a comment are wrong variants of the definition that
follows. They are not part of a specification: put in place of the definition,
they show that a property notices.

## Runs

| run | instance | shows |
|---|---|---|
| `cache` | one host, 3 requests, 3 flights, span <<1,2>>, clock to 2; up to symmetry | `NoEmptySlot`, `FreshEnough`, `AnswersAreCurrent`, `SettleInOrder`, `ImplementsContract` |
| `cache_liveness` | 2 hosts, one with 2 spellings, 2 requests, 2 flights, tasks may be dropped unpolled | `TypeOK`, `SingleFlight`, `NothingHangs` |
| `headers` | all headers of up to 3 directives, seconds 0..2 or malformed; all arguments of up to 4 characters over 6, cap 25 | `GrantedSpanIsProper`, `MeetsReference` |
| `worktime` | all hash functions on 2 nonces and 2 digests, 40 builds, 50 fcs, 4 clock readings | `AnswersHold`, `RefusalsHold` |
| `profiles` | 2 + 3 profiles, 3 pages, 2 permits, 40 choices of times | `LoadIsExact`, `LoadEnds` |
| `sharing` | 7 functions, batch 2, 3 workers; 4 functions, 1296 shapes, 3 sizes, 1 or 3 threads, 2 rounds; scripts of two batches with guesses right and wrong | `EachOnce`, `ArenasMatch`, `FailsOnlyByPanic`, `MapsAreStable`, `RoundsAreWhole`, `LayoutIsRight` |
| `script_control` | all arrays of up to 6 items over 3 ranks, any answers for up to 8 items, one array of 46 with runs 18, 13, 4, 3, 5, 3, minimal merge 4, minimal gallop 2, one change of length; 3 promises, 4 operations of the script | `SortIsExact`, `AlwaysCloser`, `ReactionsRunOnce` |
| `script_values` | arrays of up to 3 items, 2 changes during a call; 2 objects with 2 names, 4 operations; 4 texts with characters of one, two and four bytes, 16 expressions, 161 templates; 204 numbers about every boundary of their text, 27 whole numbers in all radixes; 37 values of all kinds | `LoopsSurviveChanges`, `BuiltinsAreExact`, `CachedReadIsLookup` |
| `optimizer` | functions of up to 5 blocks and 3 registers (straight lines, loops, handlers, arrays, summaries; 9 ways events are answered); functions with array runs, nested expressions, chains of decided branches, hoisted declarations, summaries; loops with handlers, chains of jumps, applies with something in between | `PassesKeepEffects`, `CompiledAlike`, `SameEffects`, `KeepsPace` |
| `pipeline` | 2 requests, 2 server threads, a pool of 1, one helper; every single fault of a stage and every pair around the scope | `RequestsStandAlone`, `EveryRequestAnswered` |
| `reading` | programs of 4 instructions with targets between and inside them; all scripts of up to 4 words over 7, longer ones behind an instruction; programs of two detours and two functions | `ReadingsAreExact`, `VerdictHolds` |
| `session` | 14 requests of all kinds with one line of cookies; two requests with up to 2 lines of 5 kinds a response; a clock of up to 11 instants, 3 a tick; all timelines made up of short and long gaps | `SentLikeOnePage`, `VerdictIsEarned`, `CookiesAreCurrent`, `TimelineIsMeasured`, `TimelinesInOrder` |

A property that is a conjunction has a name for each part in its module, with what
it says: `AnswersAreCurrent` is `ReadsLatest` and `FailureIsCurrent`; `NothingHangs`
is `EveryRequestAnswered` and `FlightLands`; `MeetsReference` is
`ScanMeetsReference` and `MatchesReference`; `AnswersHold` is `AnswersVerify` and
`ReceiptIsArrival`; `RefusalsHold` is `GivesUpHonestly` and `ReasonsAreTrue`;
`LoadIsExact` is `PermitsBalance`, `NothingLost` and `PairingIsTight`;
`RoundsAreWhole` is `SummariesAreAll` (`CutsPartition`, `NothingMissed` and
`EarlyEndIsFixpoint`) and `ErrorNamesFirst`; `CompiledAlike` is `SameBehaviour` and
`SkippedCallsDoNothing` of `Compile`; `PassesKeepEffects` is `SameEffects` and
`ConclusionsHold` of `Passes`; `ReadingsAreExact` is `DisassemblyIsExact` and
`SweepIsExact`; `BuiltinsAreExact` is `MethodsAreExact`, `StringsAreExact`
(`ReplaceIsExact`, `CutsAreExact`, `NumbersAreExact` and `ConversionsAgree`) and
`ExecWalks`;
`SortIsExact` is `TypeOK`, `NothingLost`, `SortedStably`, `ResultIsComplete` and
`StackFalls`; and so on.

Why the bounds are enough. Three requests are the fewest with which one fills an
entry, one refreshes it and one reads; three flights are the fewest in which a
stale entry could be refreshed twice at once. The clock bound lets an entry be
fresh, stale and expired. Generations are never reused, so more flights repeat
these situations. Two nonces and two digests make a chain that advances, retries
and dead-ends. Two permits with five objects make tasks wait. Two requests on a pool
of one are the smallest instance in which every thread of the pool waits for jobs
that only a waiting thread can run, and in which such a thread has the jobs of
another request before it. Seven functions in batches of two end in a partial
batch, and four functions with two rounds make chains of references that need more
rounds than there are. Lowering the minimal merge and gallop makes arrays of six to
eight items take every path that arrays of hundreds take in the code; the long
array is one for which looking at the top of the stack alone breaks its invariant.
Three promises let a reaction settle one promise while it derives another from a
third. Hops, rounds and spans (`ThreadHops`, `DseRounds`, `SummarySteps`, ...) are so
small that some functions reach them. Two detours and two functions carry a value
through a call inside a call. `FlightLands` excepts a flight whose task was
dropped before its first poll: it does stay in its slot, where later requests find
a closed channel and are told so (`EveryRequestAnswered`).

Three responses with two lines each let a cookie be set, set again, removed and set
anew between two others. Deadlock is checked wherever the system goes on for ever or says that it is done
(`Idle`, `Done`, `Loaded`, `Returned`, `Left`). It is not in `script_control`,
`script_values`, `reading` and `session`: a script that has made all its calls, a
program that has returned and a session that was answered really stop.

Fairness. `cache_liveness` assumes weak fairness of a request's own steps and of a
task's steps: tokio runs what is ready, and a transfer ends because the client has
a timeout. It assumes nothing of arrivals, of the clock, of panics, cancellations
or departures. `profiles` assumes the same of its tasks and listings, which share
that client. `pipeline` assumes weak fairness of every thread: the operating system
runs them, rayon wakes a worker when there is a job, and a stage ends or panics.
`optimizer` assumes that each of the two runs that are compared goes on. That a sort
ends is an action property instead: every step but those of the script makes `ToDo`
smaller.

## Proofs

TLAPS proves the following for every value of the constants: any number of hosts,
requests, workers, functions or objects, headers and texts of any length, any bound.
What is assumed of the constants is named in the module that declares them
(`...Assumption`), and TLC evaluates it in every run.

* `CacheProofs` on `Cache`: `TypeCorrect`, `SingleFlightHolds`, `SettleInOrderHolds`,
  `NoEmptySlotHolds`. None of the last three is inductive alone. The invariant
  `IInv` adds `FlightsMatch` (a slot's flight is the task that has yet to settle, and
  the other way round; numbers from the counter on are unused), `EntriesOlder` (what
  is stored is older than the flight), `LaunchersOwn` (a request between claim and
  launch is the only one to hold its flight) and `WaitersJoined`. That a flight is
  opened only where there is none is `PlanOpens`; everything else is that only
  `Settle` closes what only `Open` opened. Assumed: lowering a spelling twice changes
  nothing, and spans are as `lifetime()` grants them, which is the theorem
  `GrantedSpan`.
  Then `FreshEnoughHolds`, `ReadsLatestHolds`, `AnswersAreCurrentHolds` and
  `CacheImplementsContract`, from a second invariant, `AInv`, over the first: the
  entry of a host is what the latest of its responses left (`EntriesLatest`), its
  flight is the latest of its tasks (`FlightsLatest`), and what a request holds is no
  older than what had landed when it came, taken from the table before it expired or
  waited for (`RequestsHold`). The last two theorems need that the runtime does not drop a task
  before its first poll: where it does, a closed channel stays in its slot and is told
  to later requests, which is what the code says of that case.
* `CacheProofs` on `Lifetime`: `GrantedSpan`, from a cap on seconds and room on the clock for two
  capped spans; `MeetsReferenceHolds`, for which `ScanInv` says which
  directives of the part that was read are in force, and `ReadInv` that the capped
  value and the number the digits denote, which is a recursive function, are the same
  once the number is capped too.
* `WorkShareProofs`: `EachOnceHolds`, `FailsOnlyByPanicHolds`, `ArenasMatchHolds`. The
  invariant says that whatever lies below the counter is held by exactly one worker
  unless its worker panicked, and that the workers merged so far are 0, 1, 2, ... in
  order. `MapsAreStableHolds` adds `MapsInv`: the maps are those of the functions
  assembled so far, taken in order, once the one with the most bindings was seeded.
* `WorkShareProofs` on `Layout`: `LayoutIsRightHolds`, both parts of the property
  `LayoutIsRight` of `MCSharing`, for every value of the constants. That guessing is
  never noticed rests on the two searches finding the same calls in the same order
  (`SitesAgree`): in a function that sets the key one way only, one of the two rows that
  are put together is empty. That every registration has a cell rests on `CellsInv`:
  through every shuffle, each cell holds a registration that was replayed or was never
  touched, and no two hold the same one. There are as many cells as registrations, and
  one, and only one is left untouched at the end; so nothing is missing (`AllHeld`).
  Nothing else is checked by the code, and a registration that was overwritten is thus
  always found out. Assumed of a script (`ScriptsAssumption`): what its lists name can
  be driven, and statements are of the kinds there are; TLC evaluates it on the scripts
  of the run.
* `SessionProofs`: `TimelinesInOrderHold` and `TimelineIsMeasuredHolds` from `Placed`
  (milestones are in order, and what a lite variant collects fits in its own span) and
  the clock readings that a session keeps; `SentLikeOnePageHolds` and
  `VerdictIsEarnedHolds` from what has been sent and said at each step (`PageInv`,
  `VerdictInv`, of which the former needs the latter: the script was named third); `CookiesAreCurrentHolds` from `CookieInv`: line by line, the jar is
  that of the lines heard (`JarTo`), which says in which order its cookies came to be
  and that every other one was removed since it was last set.
* `WorktimeProofs`: `AnswersHoldAlways` and `RefusalsHoldAlways`, for any function in
  the place of SHA-256. A verifier's chain is recursive; `WInv` carries that it exists,
  is unique and ends where `encode()` is, one answer at a time, and that no nonce below
  the current one clears the threshold; and that a chain is under way only for an `st`
  and parameters that can be used (`Workable`).
* `PipelineProofs`: `RequestsStandAloneHolds`. `AnswerInv` says of each request what it
  has passed and what each of its parts may come to; `JobInv` that a job is in one
  place only, that a request has jobs only while its thread is in the scope, and that
  what spawns jobs and waits ends after them. That no request sees another's parts is
  then a consequence of who writes what, on whatever thread it runs.
* `ProfilesProofs`: `LoadIsExactHolds`, from `PermitInv` (the permits that are out are
  those of the running tasks), `ListInv`, `ParsedInv` and `ResultInv` (listed, parsed
  and paired objects, at every step, are those that were there, each once). Of the sort
  the pairing starts from it is used only that later profiles are not older, so ties
  may fall either way.
* `DevirtProofs`: `SummariesAreAllHolds` and `ErrorNamesFirstHolds`, together the
  property `RoundsAreWhole` of `MCSharing`. The cut is followed function by function
  (`CutTo`); sizes are added up in whatever order (`SizeOfAdds`). For the rounds the
  property is not inductive: `SumsInv` adds `Recent`, that whatever the summaries from
  before the last round are enough for has one already. So a function that is to get
  one now needs one of the last round, refers to it, and is tried (`NewAreWanted`);
  and a round that finds nothing is a fixpoint, from which what trying everything
  would give does not move (`ClosedStays`).
* `ScriptProofs` on `Objects`: `CachedReadIsLookupHolds`. The invariant (`Heaped`) is that
  every object is a list of properties, no two of one name; that a position kept anywhere,
  good or stale, then reads what a lookup reads is the lemma `CachedIsGet`. It holds with
  every interleaving of getters, setters and assignments, because all writing goes through
  `Define` (`DefineKeeps`, `SetKeeps`).
* `ScriptProofs` on `TimSort`: `StackFallsHolds`, a part of `SortIsExact`. `StackInv` says
  how far down the stack falls at each place: all of it while a run is looked for or
  extended, all but the top two while the loop that restores it goes on, a merge under way
  included (the `...Returns` lemmas: a merge comes back to the loop that began it).
  `FallingToTop` is what the tests at the top are enough for. That both the run at the top and the
  one below are tested is needed: with the first test alone `FallingToTop` fails. Assumed:
  arrays have at most `MaxArray` items, the largest the interpreter makes at once.
  Then `NothingLostHolds`, three more parts of `SortIsExact`: no index is out of range
  (`TypeOK`), and the array always has its elements, each once (`NothingLost`), those of
  the result included (`ResultIsComplete`). It assumes nothing of the comparison, which
  may contradict itself at every call, so of a search only its range is used
  (`BisectIn`, `GallopIn`). The invariant is `SortInv`: `StackInv`; the runs on the
  stack are next to each other and end where the next is looked for (`Tiled`); and
  between two steps of a merge the half that was copied away and what is left of the
  array have the elements between them, with a gap in the array as long as what is left
  of the copy (`Apart`). That filling the gap keeps this, from the left or the right, by
  one element or many, is `TakenGood`; that reversing a run and inserting one element
  keep the elements is `Reversed` and `Rotated`.
  Then `SortIsExactHolds`, the whole of `SortIsExact`, by adding `SortedStably`. To
  `SortInv` comes `OrderInv`: every run on the stack is sorted, equals in the order of
  the array (`Ascends`); it begins where later elements of the array begin, whatever was
  moved before (`Cut`, and `Untouched` for the rest not looked at yet); while an element
  is inserted, the part before it is sorted; and a merge under way (`MergeOrder`) is of
  two sorted halves, of which whatever is in place already, at either end, is in order
  with all of the other half. The last is
  stated of the copy as if there were no gap (`View`): moving an element over the gap is
  then a step of merging two lists, the same from the left and from the right. Of the
  comparison it uses that its answers agree with one another (`Descends`), so that
  `Bisect` and `Gallop` find the place where they turn (`Splits`), and that the code asks
  whether the key is below an element where equals go before the key, and whether an
  element is below the key where they go after it. That a strictly descending run has no
  equals is why turning it around is stable (`TurnedShuffles`).
  Last, `AlwaysCloserHolds`: of what is left to do (`ToDo`) every step takes something.
  That a step of a merge leaves fewer elements of it is part of what such a step comes to
  (`Merges`); the rest is arithmetic (`LessOutside`, `PushedLess`). From `SortInv` alone,
  so for comparisons that contradict themselves too.

The provers have no induction over data here. Its place is taken by the least-number
principle (`LeastNumber`, from the well-foundedness of `<` on Nat): of the numbers at
which a claim fails there is a least one, and the one before it leads to a
contradiction. That way recursive functions are shown to exist and to unfold
(`Decimal`, the chain of nonces, `SizeOf`, `Naive`), and sums and sequences are
reasoned about.

Only model-checked:

* liveness (`NothingHangs`, `LoadEnds`, `EveryRequestAnswered`, `KeepsPace`): fairness
  and ENABLED are outside this prover;
* what runs code before and after a rewriting, or a program beside its analysis
  (`Passes`, `Compile`, `Optimize`, `Flow`, `Disasm`, `Sweep`), and the settling of
  promises: runs are recursive operators, which its modules cannot be proved about;
* `Arrays` and `Strings`.

## Not modelled

* Assembly: `values.rs` and `catalog.rs` are tables and draws of values, `assemble.rs`
  puts them one after the other: data without control.
* The passes that recognise the handlers of one script: `lift.rs`, `emulate.rs`,
  `anatomy.rs`, `blob.rs`, `operand.rs`, `handlers.rs`, `opaque.rs`, `fold.rs`,
  `stack.rs`, `walk.rs`, `query.rs` of the payload, and `deobfuscator.rs`, `decoder.rs`,
  `config.rs`, `model.rs`, `handlers.rs` of the worktime script. They match fixed shapes
  in a syntax tree of a parser library, in one thread and without state that
  outlives a call: a model would restate the patterns.
* What one function gives the probe (`Work::function` and the signatures in
  `probe.rs`), for the same reason.
* Of the interpreter: arithmetic and the rounding of numbers, dates, the regular
  expression engine, the host objects.
* Signing of store requests, XML and JSON parsing: libraries and formats.
* Configuration: `tls.rs`, `client.rs` but for which requests need a client of their
  own and that building it may fail, `main.rs` but for how connections are served.

## Plan

Done, in this order: `Lifetime`, `Cache`, `CacheContract`, `Worktime`, `Profiles`,
`WorkShare`, `Devirt`, `TimSort`, `Optimize`; then `Ir`, `Simplify`, `Defer`, `Passes`,
`Pipeline`, `Compile`, `Flow`, `Sweep`, `Disasm`, `Layout`, `Promises`, `Arrays`,
`Objects`, `Strings`; then `Session` and `Timing`; and the proofs above.

Theorems to add: `LoopsSurviveChanges` of `Arrays` and `ReactionsRunOnce` of `Promises`,
which first need their recursive operators written as functions or folds.
