# rusty_racer in TLA+

`rusty_racer` embeds V8 in Ruby: a Rust extension (`src/ext/rusty_racer/src`)
and a thin Ruby library.  One *isolate* belongs to the Ruby thread that made
it; every operation on it runs inline on that thread without the GVL, calls
Ruby back with it, and that Ruby code may operate on the isolate again.  What
is hard here is therefore not parallelism inside V8 but

* **nesting**: a stack of requests, host functions, resolvers and microtask
  checkpoints on one thread, sharing the isolate's few flags and slots;
* **asynchronous termination**: the watchdog thread, `Isolate#terminate` from
  any thread and the heap ceiling all raise V8's single terminate flag;
* **identity over time**: realm ids, slot indices, thread addresses and cached
  stack bounds that name another thing than they did;
* **shared graphs**: values that cross the boundary with cycles and aliases,
  read by code that may change them and rebuilt by code that may raise;
* **failure in the middle**: refused operations, panics, interrupts that leave
  by `longjmp`, objects collected on a foreign thread.

The modules below model these.  Line numbers are in `PROJECT.json`, which maps
every definition to the code it stands for; `lib.rs`, `ops.rs`, ... are the files
of `src/ext/rusty_racer/src`.

## Inventory

| Component | State | Operations | Hard part | Correct when | Module |
|---|---|---|---|---|---|
| Execution watchdog (`watchdog.rs`) | frames, generation counter, one report slot, shutdown flag, under a mutex; a thread and a condition variable | arm, disarm, the loop, request_shutdown, join | lost wakeups, a deadline firing while its request disarms, nested deadlines, shutdown | deadlines enforced, outer ones stay in force, reports true, no terminate after shutdown | `Watchdog`, abstract `Deadlines`, proofs `WatchdogProofs` |
| Request servicing (`service_request`, `run_js_bracketed`, `Core::run`'s recovery) | stack of requests, terminate flag, `watchdog_fired`, `oom_fired`, `draining` | begin, arm, JavaScript, drain, disarm, sweep, recover; terminate, heap ceiling | who clears the flag and when; races of three causes | every outcome reported, nothing leaks into the next request, nested sweeps erase nothing | `Requests` (over `Deadlines`), proofs `RequestsProofs` |
| Realms | contexts by id, `active_realms`, `draining`, microtask queue, reject handler, wrappers' disposed flags | create, reset, dispose, requests, cross-realm calls, checkpoints, attach, attach_many | resets issued by code the realm's own script called, or by an accessor half-way through an attach | a request keeps its context, live functions reach their proc, checkpoints lose no realm | `Realms` (extends `ProcTable`), proofs `RealmsProofs` |
| Host function registry | slots, free list | alloc, also for a batch, release, clear | indices handed out again | the free list names each released slot once | `ProcTable`, proofs `ProcTableProofs` |
| Modules, scripts, `import()` | registries, `instantiating`, the parked resolve block, V8's module statuses | compile, instantiate, resolve, evaluate, namespace, run, import, dispose | resolvers are Ruby code that uses the isolate; V8's link is not re-entrant | one link at a time, each edge asked of its own resolver, no foreign module linked, no stale verdict | `Modules`, proofs `ModulesProofs` |
| Isolate lifecycle | registry, leak counter, owner, depth, disposed flag, V8's entry stack, watchdog thread | new, operations, dispose, drop on any thread, panic, interrupt | teardown against running operations, collection elsewhere, recycled addresses | nothing freed in use, watchdog first, leaks counted, entries nest | `Lifecycle`, abstract `Isolates`, proofs `LifecycleProofs` |
| Value marshalling (`marshal.rs`) | per copy: the containers registered, the copies built | JS and Ruby object graphs, encoded to a tree with back references and decoded | aliases, cycles, the depth limit; sources that change while they are read; a table the collector does not see | the copy has the shape of what was read, and nothing in the table is collected before it is used | `Marshal`, proofs `MarshalProofs` |
| Native stack limit (`stack.rs`) | per native thread: its own bounds, the last fiber region; per isolate: V8's limit and scan start | set both for the stack an outermost operation runs on | fibers that are mapped elsewhere or moved, nested operations, unreadable maps | limit and scan start are those of the stack in use | `Stacks`, proofs `StacksProofs` |
| GVL trampolines, error capture, host namespace building, snapshots, platform flags, Ruby wrappers, ExecJS adapter, packaging | none that interacts | | | | not modelled (last section) |

How they interact: a Ruby call checks owner and disposed flag (`Lifecycle`),
bumps the depth, at depth zero sets V8's limits for the current stack
(`Stacks`), and hands a request to `service_request` (`Requests`), which
marks its realm active (`Realms`, `Modules`), arms a deadline (`Watchdog`) and
runs JavaScript; host functions, resolvers and the promise-reject recorder are
callbacks into Ruby on the same stack; arguments and results are copied by
`Marshal`'s two pairs of functions.  The only shared memory between threads
is the watchdog's mutex-protected state, V8's terminate flag, the proc table's
mutex, the resolver's mutex, and the process-wide registry and leak counter.

## Plan

Done, in this order, the behaviour everything relies on first:

1. `Deadlines`, `Watchdog`: the timer, abstract and detailed; refinement.
2. `Requests`, which uses `Deadlines` as its timer (`INSTANCE ... WITH`).
3. `WatchdogProofs`: inductive invariant, safety, and the refinement steps.
4. `ProcTable`, `ProcTableProofs`; `Realms`, which extends `ProcTable`.
5. `Lifecycle`.
6. `Modules`.
7. `Stacks` and `StacksProofs`: the native stack limit.
8. `Marshal`: both directions of the copy, as a state machine, since a source
   can change while it is read.
9. `RealmsProofs`, on top of `ProcTableProofs`: all safety properties of the
   `realms` run.
10. `LifecycleProofs`: all of the `lifecycle` run's; `Isolates`, abstract, and the
    refinement.
11. `ModulesProofs`: all of the `modules` run's.
12. `RequestsProofs`: the safety properties of the `requests` run, and that the
    requests use the timer of `Deadlines` by its own steps only.
13. `MarshalProofs`: all of the `marshal` run's.

Next:

14. An abstract specification of `Requests`, "a request ends with exactly one of
    value, error, Terminated, OutOfMemory, and its cause is its own or an outer
    one's", with the refinement as a PROPERTY.
15. Fibers in `Lifecycle`: several stacks interleaved on one thread.  `Stacks`
    has them, but only for the two settings it is about.

## The models

### Deadlines and Watchdog

`Watchdog` has the fields of `WatchdogInner`, where `watchdog_loop` is (`loop`:
before the mutex, at the top with the mutex, between its terminate and its
record, in one of the two waits, gone), a clock, the frames of the requests
inside their arm/disarm bracket (`open`), and where `teardown` is (`owner`).  A
critical section of the owner is one step; the loop holds the mutex from a
wake-up to its next wait, so it is split where the clock matters.
`request_shutdown` notifies after it has unlocked, hence two steps.
`NotifyOne` wakes a thread that waits and is lost on one that does not;
spurious wake-ups happen at any time.  `hit` and `told` are history.

`Deadlines` is what is left of this without thread, lock, condition variable
and clock.  `ImplementsDeadlines` (refinement mapping in `Promise`) checks
that `Watchdog` implements it, liveness included.

### Requests

A request is a record on a stack with a phase: `arm`, `js`, `tail` (before the
automatic drain), `drain`, `disarm`, `reply`, `swept`, `gc` (`Core::run` has taken
`oom_fired` and collects), `done`; in the promise-reject recorder `handler`, and
`absorbed` when its TryCatch took a termination; and, suspended, `host` or
`handlerHost`, a Ruby function called by the script or by the recorder.  Only
the top runs.  The terminate flag is `none`, `requested` or `active` (JavaScript
is unwinding): V8 notices a request at a stack guard only.  `causes`, `hit` and
`ceilingHit` are history.  What JavaScript computes is abstracted to "a value or
its own exception".

What a request replies does not only depend on its script.  `run_js_bracketed`
lets a timeout or the heap ceiling override the outcome if `ran_js` says that
JavaScript ran, and three bodies say it did not and drain all the same: a module
that cannot be evaluated (an error), one that is `Evaluated` already (`ops.rs:811`,
an Ok; both `NoJs`) and one that is `Errored` (`ErroredModule`).  The heap ceiling can be
hit wherever JavaScript runs, the recorder included, and once more in the
collection that the recovery forces, which is why the recovery is two steps.
`ceilingHit` remembers it until the outermost request is over, so that
`OomIsReported` looks at the reply the caller gets, after `Relabel`.

Left out: a rejection inside the recorder, and with it a recorder in a recorder;
and what little JavaScript runs after the drain, when an outcome is turned into
an error (a getter on a rejection reason).

The model allows a checkpoint inside a running microtask queue to do what an
outer one does; V8 makes it a no-op, so this only adds behaviours.

### ProcTable and Realms

A realm is an id, a context one `v8::Context`; `stamp` is the id in a context's
embedder data, so `Live(ctx)` is `id_of_context`.  The owner thread is a stack
of requests, calls into another realm, checkpoints (`marked` when the binding
runs them, unmarked for `NS.drainMicrotasks`), microtasks and host functions.
Each context has at most one job queued: properties look at which context runs,
not at how many jobs it has.  `attach` and `attach_many` take all their slots
before the request, and the request carries the pairs of slot and proc it was
given; `Install` then puts one function after another in place,
each of which may run an accessor that is the embedder's code (a `CallHost` in
between), and its second disjunct is the failure after which the rest of the
batch keeps its slots and has no function.  Wrappers minted for the resolver
have a disposed flag of their own; `ForeignAttach` and `ForeignDispose` are
the same calls from another thread, which change something before they are
refused.

`ProcTable` is the table alone, for any sets of realms and procs: `NthId(k)` is
the k-th index a row of allocations gets.  `Realms` extends it, so the table is
part of its state and there is one definition of each method.  A script may call any
function: `contextGlobal` may have handed it out while its context was live.

### Modules

The stack again, with links, evaluations, resolvers and host functions.  A
link has the modules it has reached (`walk`) and what was parked before it.
Which modules import what is not fixed in advance: a link asks its resolver for
as many edges as it likes, from any module reached, so every graph over the
compiled modules is covered.  Classic scripts are entries of the same table
with a status of their own.  `ContextFor` is `context_for`: a request looks its context up
by the id of the module's realm, and the module it finds in the registry has to go
with it, which is a consequence of resets dropping artifacts and not assumed.  The isolate is in `:auto` mode and its dynamic
import resolver is set; a resolver that is not set behaves as one that answers
nil.  A failed link puts its modules back, as V8 does.  `Graph` is what an
evaluation reaches, said without recursion as the least closed set; errors may
appear anywhere in it.

### Isolates and Lifecycle

Threads with a stack of operations each, isolates with an owner (the address
of a Thread object) and a generation (`birth`) that the code cannot see: a
thread that ends may be followed by one at the same address (`ReuseAddress`)
unless a Core roots it.  The GVL is taken by every step in Ruby and held by a
teardown from beginning to end.  `entered` is V8's per-thread stack of entered
isolates.  `Interrupts` says whether an interrupt may leave `Core::run` by
`longjmp` after its closure; `lifecycle` runs with it.  There are no fibers.

`Isolates` is what is left of this for those who use isolates: a thread makes one, runs
operations on it and closes it, all on its own; nothing else happens while one is torn down;
what is lost on another thread, or poisoned by a panic, is never used or freed.
`ImplementsIsolates` (refinement mapping in `Contract`) checks that addresses, depth,
flags, wrappers and the GVL come to that.

### Stacks

Addresses are naturals.  An execution (`exec`) is a native thread on its own
stack or a fiber; Ruby maps a fiber's stack at some pair of bounds (`Region`), runs it
on any native thread while it has no operation in progress, and unmaps it
(`MapFiber`, `UnmapFiber`).  Two pairs of bounds may be the same, disjoint or
overlap: the code caches the last fiber region of a thread and never drops it
(`stack.rs:144-156`), and nothing keeps Ruby from mapping across it later.  Nor need the
entry of `/proc/self/maps` that holds the stack pointer be the whole stack: `Entries`
are the pieces it may be split into (at `Split`), and `CachedRegion` is the set of what
a thread may remember.  `shifted` is history: the fibers mapped across a remembered
region with other bounds.  `bounds` and `region` are the two thread-local
caches.  `Run` is the outermost entry of `Core::run`, including `Enter` and the
whole of `set_v8_stack_limit`: either query of the system may fail, the discovery
of the scan-start field may have failed (`Booted`), and each subtraction
saturates.  `sps` are the stack pointers of the operations of one isolate, `Nest`
the entries at depth above zero, which set nothing.  V8's own check that the
stack is the central one (`stack.rs:221-229`, the documented limitation for
fibers of worker threads) is not in the model.

### Marshal

One copy from beginning to end, in either direction.  The encoder keeps a stack
of open containers (`open`) and reads one value at a time (`Read`): what the
graph is, is decided as it is read, so that graphs which an accessor or a `to_s`
changes under way are covered, and a graph that does not change is a special case.
`jsval` is the tree it has built so far.  The decoder walks the tree with a stack of
activations (`walk`), each with the Rust locals that keep objects alive: the container it
fills and, of a pair, the key.  `Contents` and `Eql` are Ruby's `eql?` for the
copies as they are at that moment, because Hashes and Sets compare their members
when they are added.  `Stored` is Ruby's frozen copy of a String used as a key.
Two copies are `eql?` if some relation that is closed under `Contents` relates
them, which is what Ruby's guard against recursion comes to on cyclic data.
`Raise` is an exception out of any Ruby method called.  Blobs of bytes are
containers without contents and are not subject to the depth limit; a Proxy that
refuses to list its keys (`refusing`) becomes a text although it was given an id.

## What the runs show

| Run | Instance | Shows |
|---|---|---|
| `watchdog` | timeouts {1,2}, 3 generations, clock to 4 | type, no lost wakeup, outer deadlines stay in force, true reports, somebody is told, no stray terminate; deadlines are enforced, shutdown ends; refines `Deadlines` |
| `requests` | 2 deep, 2 deadlines | idle is clean, also after a collection that hits the ceiling again, and nobody is terminated for what happened before, terminates survive nested requests, timeouts are reported and so is OOM, to the outermost caller as OutOfMemory, `draining` is exact; deadlines and terminates end requests |
| `requests_masked_timeout` | 2 deep | *violated*: an eval past its deadline replies with its value |
| `realms` | 2 realms, 3 contexts, 2 procs, 2 slots, 4 activations | requests keep their context, live functions reach their proc, the free list is exact although attaches fail half-way, the reject handler dies with its context, no realm goes during a checkpoint of the binding |
| `realms_script_drains` | | *violated*: `NS.drainMicrotasks` marks nothing |
| `lifecycle` | 2 threads with 2 lives, 2 isolates, depth 3 | nothing freed in use, watchdog first, leaks counted, entries nest; refines `Isolates`, hence operations and teardown on the thread that made the isolate |
| `lifecycle_interrupted` | 1 thread | *violated*: the depth counter stays up |
| `modules` | 2 realms, 3 contexts, 2 modules or scripts, 3 activations | one link at a time, each edge to its own resolver, instantiates stay in their context (which needs registries that follow resets), verdicts are fresh |
| `modules_foreign_dep` | 4 activations | *violated*: the link of an `import()` takes a module of a newer context |
| `stacks` | 2 native threads, 2 fibers at 3 pairs of bounds two of which overlap, entries split in two, 1 isolate, 2 deep | limit on the current stack and below the entry (but for a fiber mapped across a remembered stack with other bounds), scan start above the operation's frames and within its stack |
| `marshal` | 3 containers of any kind, 5 values read, depth 2 | the copy has the shape of what was read, the decoder's table hides nothing from the collector but what a Set or Hash did not keep |
| `marshal_unrooted` | 3 values read | *violated*: a blob in a Set, referred to again, is held by the hidden table alone |

A run marked *violated* checks one sentence of a comment, the README or a test
against the code; the finding in `PROJECT.json` quotes it and says what the
counterexample does.  Every property of a passing run also has a mutant: a
plausible slip in a mapped definition that makes TLC find it violated.

### Further counterexamples

More sentences of the code's comments and documentation are stated as properties
at the end of their modules, without a run of their own.  TLC finds each violated
when its name replaces the properties of the configuration in the last column.

| Property | The sentence | What happens instead | Configuration |
|---|---|---|---|
| `Requests!EveryOomIsReported` (invariant) | `lib/rusty_racer.rb:49-50`: a script that exceeds the heap ceiling is terminated and raises V8OutOfMemoryError | `op_drain_microtasks` (`ops.rs:475`) looks at the watchdog only: a checkpoint that hit the ceiling replies nil; and so does the evaluation of an `Evaluated` module (`ops.rs:811`, drain at 846), which `watchdog.rs:192` is told ran no JavaScript | `RequestsMaskedTimeout.cfg` |
| `Requests!NoTimeoutIsMasked` (invariant) | `lib.rs:671-672`: a runaway drained continuation is caught by the watchdog, whose firing the caller maps to Terminated | evaluating a module that is `Evaluated` already drains (`ops.rs:846`) with `ran_js` false: its deadline ends a continuation and the reply is Ok (`watchdog.rs:192`) | `RequestsMaskedTimeout.cfg` |
| `Realms!SuspendedFramesKeepTheirRealm` | `ops.rs:301-303`: a reset refuses to pull a live realm out from under a suspended frame | the frame of a realm whose function another realm's script called is not in `active_realms` | `RealmsScriptDrains.cfg` |
| `Realms!NoRecycledIdIsCalled` | `lib.rs:135-137`: no stale V8 external can still call a recycled id | a microtask of the context that was reset away still holds the external | `RealmsScriptDrains.cfg` with `Proc = {1, 2}`, `MaxSlots = 2`, `MaxProcs = 2` |
| `Realms!DisposedRealmsAreGone` (invariant) | `lib.rs:2432-2433`: a failed DisposeContext send is success | the flag is set before the request, which may be refused in a live isolate: wrapper disposed, realm alive | `RealmsScriptDrains.cfg` |
| `Lifecycle!DisposedIsTornDown` (invariant) | `lib.rs:2245`: an explicit dispose already tore the isolate down | a poisoned isolate has the flag and was never torn down, nor is it counted as leaked | `LifecycleInterrupted.cfg` |
| `Lifecycle!RunsInTheCurrentIsolate` (invariant) | `lib.rs:1792-1795`: the isolate is already entered by the depth-0 operation | with A, B, A nested, the inner A runs with B entered | `LifecycleInterrupted.cfg` |
| `Stacks!LimitSitsBetween` (invariant) | `stack.rs:203-204`: the limit MUST sit between the SP and the real bottom | not within `NATIVE_GUARD` of a native stack's bottom, nor within the clamp of a fiber's | `Stacks.cfg` |
| `Stacks!EveryScanStaysMapped` (invariant) | `stack.rs:218-220`: a native start runs the scan off the fiber's mapped stack | boot and teardown on a fiber keep the native start; nothing shows that V8 collects there | `Stacks.cfg` |
| `Stacks!LimitFitsRemapped` (invariant) | `stack.rs:208-209`: the limit is set from the bottom of the region holding the SP, the fiber's real bottom | Ruby unmapped a fiber's stack and mapped another across it with a higher bottom; the thread's cached region holds the SP, and its bottom is below the real one | `Stacks.cfg` |
| `Marshal!CyclesSurvive` (invariant) | `marshal.rs:44-47`: shared/cyclic graphs survive the round-trip | in `a = []; a.push(new Set([a, []]))` the two members are equal when Ruby's Set gets them, both still empty | `Marshal.cfg` with `MaxMarshalDepth = 3` |
| `Marshal!RefsAreEmitted` (invariant) | `marshal.rs:128-129`: no later Ref can target a container that was never emitted | a Proxy whose `ownKeys` throws gets an id and becomes a text: later references to it are nil | `Marshal.cfg` |

Also met, and not a matter of safety: the slots a failed `attach_many` leaves are
said to be reclaimed at the next reset or dispose of the realm; a realm that was
disposed of already has none.

### Bounds

* `watchdog`: three generations give an outer request, a nested one that ends
  before, with or after it, and a request after both; four ticks let two
  deadlines of two ticks follow each other.  `Arm` refuses what would not fit.
* `requests`: at depth two a nested request meets every phase of the outer one;
  two deadlines are those of the two, or of one request and of the next outermost one.
* `realms`, `modules`: two realms, and one context more than realms, so that one
  reset is possible.  In `realms` four activations are a request, a host function,
  a request inside, and what it calls; two procs let a slot be handed out again and make
  a batch that stops after its first.
  Its constant `Minted` leaves the wrappers of the dynamic import resolver out: they
  differ from `create_context`'s own in their disposed flag only.  A binding
  checkpoint inside another needs five activations and is not reached; the flag's
  save and restore across nesting is `DrainingIsMarked` of `requests`.
  In `modules` three activations are an instantiate, its resolver and what the
  resolver does, or a request, the link of its `import()` and the resolver; the
  counterexample of `modules_foreign_dep` needs a fourth, a call across realms.
* `lifecycle`: two threads, one of which can be replaced at its address; three
  frames make an isolate, another, and the first again.
* `stacks`: the main thread's stack is the highest, one place for fibers lies below
  the worker's and one above, as on Linux; the upper place has two pairs of bounds that
  overlap, and a stack may be listed as two entries.  Stacks are three to five addresses
  high with a guard of two, so that every comparison in `set_v8_stack_limit` meets its boundary.
  Fibers differ by their name only, hence the symmetry.  One isolate
  is enough for its properties: two share the caches only, which the operations
  of one on several threads fill as well (the theorems are for any number).
* `marshal`: three containers make every shape of sharing and cycle that goes
  through one intermediate; five reads fill them.  The depth limit is 2 instead
  of 256: what happens at the limit does not depend on how far it is, and with
  it deep and shallow sightings of one container exist.
* `CHECK_DEADLOCK FALSE` is set for `Lifecycle` only: when both isolates
  are gone and no thread can be replaced any more the program is over.
  `Watchdog` and `Marshal` have an explicit last step instead (`Finished`, `Ended`).

### Fairness

* `Watchdog`: the thread's steps are weakly fair (the operating system runs
  it), time passes, and a begun shutdown goes on (`teardown` has no way out).
  Nothing is assumed of requests: a script may run forever.  `Spec` bounds the
  clock, but an armed deadline is always within it.
* `Requests`: the binding's own code goes on; the watchdog acts (what `Watchdog`
  implements); V8 unwinds what has noticed a termination; JavaScript reaches a stack
  guard, in a script, a microtask or the recorder (`Notice`, `HandlerAbsorbs`): strongly
  fair, because a script that keeps calling host functions is not at one all the
  time, and for each depth, because the polls of a nested request are none of the outer
  one's; host functions return, strongly fair because one may issue requests again
  and again.  No fairness is assumed of `HandlerReturn`, nor of scripts and microtasks:
  what JavaScript does, recorders included, may run forever unless it is terminated.
* `Realms`, `Modules`, `Lifecycle`, `ProcTable`, `Stacks` and `Marshal` state safety
  only.

## What is proved

`WatchdogProofs` (from `WatchdogAssumption`: timeouts are positive naturals,
the bounds naturals) proves for every set of timeouts, number of generations
and clock:

* `Invariance`: the inductive invariant `IInv`.  The safety properties are not
  inductive by themselves; `IInv` adds that generations are unique and not
  above the counter, that the frame being fired stays in place until it is
  recorded (the loop holds the mutex), that shutdown is only up when no
  request is open, and that between a terminate and the first report of one
  the slot is not empty;
* from it `TypeCorrect`, `WakeupsAreNotLost`, `OuterStaysWatched`,
  `ReportsAreTrue`, `SweepIsOwed`, and the action property
  `NoStrayTerminate`;
* `RefinesDeadlines`: the safety part of the refinement, initial states and
  every step.

`ProcTableProofs` (from `ProcTableAssumption`: the empty slot's mark is no
proc) proves `TypeCorrect`, `NothingIsFreedTwice` and the action property
`AttachedProcsStay`, with `TypeOK /\ FreeListIsExact` as the invariant, for
every table size and batch.  Its lemmas say that a row of allocations gets distinct
indices (`NthId`) that hold the procs of the batch in its order, which of them were free,
and what a release appends.

`RealmsProofs` (from that assumption and `RealmsAssumption`) proves every
property of the `realms` run, for any number of realms, contexts, procs and any
depth.  The properties need each other and more.  `RInv` adds to them

* `Counted`: the requests on the stack can be counted off against
  `active_realms` in order.  Only requests push, only their returns pop, so the
  one look `Active(realm)` is enough, and this is why;
* `Grounded`: a frame's context was stamped with its realm, and the slots that
  a suspended attach still has to fill hold the procs it was given (`Held`).  Without
  it a function could be installed in a slot handed to somebody else;
* `Reaches`: the same of the functions of a live context, once installed.

`RealmsInvariance` is its induction, one lemma for each action;
`RealmsTypeCorrect`, `SlotsAreNotLost`, `NoRealmIsPulledAway` and
`FunctionsReachTheirProc` follow.  `KInv` adds `Marks` (every checkpoint of the
binding on the stack but the lowest saved TRUE, and `draining` is TRUE while there is
one) and `Tagged` (the handler of a live context has that context's realm as
its tag); from it the two action properties `NoRealmDiesInACheckpoint` and
`HandlersDie`.

`StacksProofs` (from `StacksAssumption`: stacks of native threads do not overlap, no
fiber is mapped across one, none begins near address zero) proves `TypeCorrect`,
`LimitsFit` and `ScansStayMapped` for any number of threads, fibers and isolates
and any sizes, wherever fibers are mapped and however the system lists them.
`ScansStayMapped` has no exception.  `LimitsFit` has those of `LimitFitsItsStack`, of
which the second is what the code does not check: an operation on a fiber that was
mapped across memory some thread still remembers with other bounds.  `LimitFitsRemapped`
above drops it and is violated.  The invariant says of the caches
(`CachesAreApart`) that a remembered region, long unmapped perhaps, is within or off every
native stack and every fiber that is not such a one: on a cache hit the bottom is
then one of that stack.  It also says that the frames of an operation are on its
stack, which a fiber keeps until the operation is over.

`LifecycleProofs` (from `LifecycleAssumption`: finitely many isolates, marks that
are neither threads nor teardowns) proves `TypeOK`, `RunningIsolatesExist`,
`OperationsStayOnTheirThread`, `WatchdogGoesFirst`, `LeaksAreCounted` and
`EntriesNest` for any threads and isolates, with interrupts or without.  `LInv` adds what ties depth
to the stacks:

* `DepthCovers`: no isolate has more operations on a stack than its depth says.
  An interrupt leaves depth too high (`DepthIsTheStack` fails), never too
  low, so that "depth is 0" is still reason enough to tear an isolate down;
* `FramesBelong`: an operation is of a held, registered isolate and on its owner's
  stack.  With `DepthCovers` it makes depth 0 mean that no stack has one;
* `TeardownsAreExclusive`, because a teardown keeps the GVL, and `OwnersLive`: a
  rooted thread keeps its address, so the owner of a held isolate is its creator.

`EntriesNest` is inductive given `LInv`.  What it takes are facts about the operations
of a stack that enter their isolate: the k-th of them is the k-th entry of V8's
stack, pushing or popping a frame moves no other, and only the top one leaves.

`RefinesIsolates` is the whole refinement, no fairness being involved: one lemma for each
abstract step.  `OwnersLive` turns the code's comparison of addresses into "made by this
thread", `DepthCovers` its test of depth into "not busy", and the GVL keeps everything
else still while a teardown is under way.

`ModulesProofs` (from `ModulesAssumption`: the bounds are naturals and there is
room for the first contexts) proves every property of the `modules` run for any
number of realms, contexts and modules and any depth.  None is inductive: that an
instantiate stays in its context depends on its realm being active, which
depends on the requests below and above it.  `MInv` adds

* `Counted`, as in `RealmsProofs`: what opened a request can be counted off against
  `active_realms`, so a reset leaves the realm of an instantiate alone;
* `Born`: what is registered is of the current context of its realm, because a
  reset drops the artifacts of the old one;
* `EdgeHolds`: a resolver that is being asked has the link it works for right
  below it, and the realm noted before it was asked is still that link's;
* `LinkState`: the flag and the parked pair are those of the one link there is,
  and a link that starts finds nothing parked (`LinkHolds`).

For the link of an `import()` the realm need not be active, which is where the
proof stops and `modules_foreign_dep` has its counterexample.

`RequestsProofs` (no assumption but `RequestsAssumption`: the bounds are naturals,
and one request fits) proves every safety property of the `requests` run for any
depth and number of deadlines: `TypeCorrect`, `NothingLeaks`, `TerminatesEscalate`,
`TimeoutsAreReported`, `OomsAreReported`, `CheckpointsAreMarked`.  `RInv` there is
those properties and

* `Shaped`: all requests but the top wait for a host function, only the
  outermost is ever swept, each knows whether `draining` was up when its
  checkpoint began, and generations grow from the bottom of the stack;
* `Blame`: whoever raised V8's flag is in `causes`, and `firedGeneration`,
  `watchdogFired` and `oomFired` speak for it until the outermost request sweeps.
  This is what makes it right for the sweep to clear what it finds, and wrong
  for a nested one;
* `SlotRemembers`: a request whose deadline *alone* was enforced still finds its
  generation in the slot when it disarms.  With two deadlines enforced it need
  not, which is the counterexample of `requests_masked_timeout`;
* `Owed`: once the ceiling is hit the recovery is still to come, under way or done, and
  it comes for nothing else.  This ties `oom_fired`, which nested requests read and
  only `Core::run` takes, to `ceilingHit`;
* `Reports`: what a request that has disarmed says already, and, for the ceiling, what
  the recovery makes of it.

`OomsAreReported` is about requests whose `ran_js` is true.  Where it is false although
they drain, the promise is `EveryOomIsReported` above, which fails.

`DeadlinesNest` shows that the generation a request disarms is the innermost one,
and `UsesTheTimer` (`Spec => Timer!Safety`) that every step of the requests is one
of `Deadlines` or leaves its variables alone.  With
`WatchdogProofs!RefinesDeadlines` both sides of that interface are proved: what the
thread implements is what the requests rely on.

`MarshalProofs` (from `MarshalAssumption`: the bounds are naturals, and there is a
container and a level) proves every property of the `marshal` run for any number of
containers, any shape of graph, sources that change while they are read, any
depth limit and both directions.  The argument has four layers.

* `EInv`, what the encoder writes down.  It is a tree (`TreeIsTree`: each container but
  the root is emitted in one place, one level below its parent, and none but bytes
  at the limit), it fits what was read (`ItemsStand`), and ids are handed out in the
  order in which the tree is walked (`IdsAreInOrder`), which holds because the open
  containers are a path from the root (`PathIsOpen`).
* `DInv`, the decoder.  It builds copies in the order of ids (`BuiltInOrder`), and what it
  has not come to yet is below the path (`PathPrecedes`).  With `IdsAreInOrder` this
  yields `ReferencesFindTheirCopies`: the nil that both decoders fall back on for an
  unknown id is reached for a refused Proxy only.
* `BuiltStaysRooted`.  "Marked by the collector" is a least fixed point; the proof
  works with the sets that contain the roots and are closed (`Guards`) and shows that
  each contains the table.
* `CopiesAreFaithful`.  `KInv` says of every copy what it holds of the items that were
  taken so far (`Filling`, one conjunct for Arrays, one for Sets, one for Objects and
  Hashes).  Arrays are immediate.  Sets and Hashes compare members as they are *at that
  moment*, so that being alike has to last: a member is `Settled` if it is in a set of
  copies closed under containment that no activation is filling, `Same` depends
  on such sets only (a bisimulation cut down to one is still one), and what is
  filled later is outside.  A member that reaches the container it goes into is
  not settled: this is `KeyedByItself`, which `CopyIsFaithful` leaves out and
  `CyclesSurvive` shows to go wrong.

Only model-checked: liveness everywhere (`DeadlineEnforced`,
`ShutdownCompletes`, the fair half of the refinement, `DeadlineEndsRequest`,
`TerminateEndsRequests`), which needs fairness and ENABLED, both out of the
prover's reach.  Every invariant and every action property of a passing run is a
theorem.  `Marshal!Reads`, the bound on what is read, is a recursive
function; the proofs do not look into it.  No module has a RECURSIVE operator.

## What is not modelled

* In `marshal.rs`: the conversion of leaves (numbers, big integers and their
  words and hexadecimal digits, dates, texts and their encodings), and the order
  of the type tests that tell values apart.  They keep no state and are
  functions of one value, which unit tests reach.  Towards JavaScript a pair is always
  added as a property (`Added`): `obj.set` and `set_index` (`marshal.rs:389`) are [[Set]], so
  that a key `__proto__`, or a setter that was put on `Object.prototype`, creates none.
* In `stack.rs`: the parsing of `/proc/self/maps` and the search for the scan
  start in V8's heap object, modelled as queries that may fail; V8's check of the
  central stack.
* The GVL trampolines carry a closure and its panic across C; their effect, that
  only one thread runs Ruby, is in `Lifecycle`.
* Error capture, stack parsing, formatting, code caches and `import.meta`: no
  property is about them.  Which error a request replies is in `Requests`.
* Snapshots, platform flags: immutable after start-up.
* Ruby wrappers: argument checks and delegation, except `Context#dispose`,
  which is in `Realms`.
* `dynamic_import_resolver=`, which, unlike the operations, makes no owner
  check: it swaps a value under a mutex.
* The ExecJS adapter and packaging.
* Fibers outside `Stacks`: the code calls interleaved operations an unsupported
  edge; the other models have one stack per thread.
* The deadlines of `Module#namespace`, which has none (`ops.rs:871`): `Requests`
  models the requests that arm one.
* V8 itself: its terminate flag, microtask queue, module graph and entry stack
  are modelled from how the binding uses them and marked external in the map.
