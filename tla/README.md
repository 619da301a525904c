# A verification project for guestpy

GuestPy runs Python "guests" inside a Rust program, on CPython or RustPython. One
*runtime* owns an interpreter and serves any number of guests on one thread; each
guest has its own globals, its own modules, its own timeout and its own asyncio
loop. This directory holds TLA+ models of the parts of GuestPy whose correctness
depends on the order in which things happen or on cases that meet in one place, the
TLC runs that check them on small instances, and theorems that TLAPS proves for all
instances.

Paths below are relative to `src/crates/guestpy-core/src/` unless they name another
crate; README.md:n is the repository's README.

## Inventory

| component | state | operations | what is hard |
|---|---|---|---|
| **activity, policy, registry** (`guest/activity.rs`, `policy.rs`, `guest/registry.rs`) | per guest: depth, deadline; per runtime: the stack of active guests, the shared signal | begin and end an activity, arm and disarm, look for the innermost guest | guards kept in futures are dropped in any order; nested calls between guests |
| **guest** (`guest/mod.rs`) | closed flag, driver slot | `enter_with`, host callbacks, `exec`/`eval`/`import`/`load`, `close`, `scope`, `advance`, `run_until_idle`, the driver's `close` | re-entrance; awaits between the steps of a drain or close |
| **async driver** (`driver/coroutine.rs`, `runtime.rs`, `event_loop.rs`) | the asyncio loop, its tasks, the `CoroutineFuture`s and their wakers | poll, one loop pass, cancel, close | lost wake-ups; several tasks that drive one loop; errors half way |
| **host futures and streams** (`driver/host_futures.rs`, `host/iter.rs`) | pending entries, the number moved out, completed entries; a stream and its borrow | register, poll all, settle, publish, take an item | polling and publishing run code that comes back; calls race for a stream's items |
| **timer** (`driver/timer.rs`) | a tokio sleep and its deadline | `poll_after`, `WaitTimer` | reuse of a running timer; the clamp by deadline and poll interval |
| **imports** (`imports/*.rs`) | bound sources and extensions, loaded roots, realised modules | mount, import, realise, bind in the parent, remove on failure | circular and nested imports, bodies that fail, bundles loaded by bodies |
| **native extensions** (`guestpy-pyo3/src/native_extensions.rs`) | per process: `sys.modules`, the registry of loaded extensions, the import lock; per guest: its packages | load: look up, create, register parents, execute, roll back | threads and guests share one table; loads nest under one lock that its thread may take again |
| **host classes, catalog** (`host/class.rs`, `catalog.rs`) | per runtime: the first declaration of each class, the class realised for all guests; per guest: what it has seen | absorb declarations, realise a class with its bases | realising runs code that asks for other classes; failures half way; guests that fail to be built |
| **instances** (`host/class.rs`, `handle/class.rs`, both `classes.rs`) | the payload of each instance and its borrows | `__new__`, `__init__`, give a value, borrow shared or exclusively | host code that has borrowed a payload calls the guest, which initialises or borrows the instance again |
| **marshalling** (`marshal/*.rs`, `guestpy-macros/src/derive.rs`, both `values.rs`) | which arguments of a call are consumed | bind arguments, convert each way, by `Serde` or a union | widths, nested types, guesses from the guest's value, two backends |
| **errors and exceptions** (`errors.rs`, `guest/errors.rs`, `host/exception.rs`) | none that outlives a call | realise an exception class, raise, match, read fields back | turning an error into an exception may itself fail; fields are numbered by one derive and named by another |
| **host macros** (`guestpy-macros/src/host/*.rs`) | none | accept a member or an impl block, resolve its backend parameter and the traits it needs, generate | what is accepted, what is generated and what the builders ask for are decided in different places |
| **host declarations** (`host/*.rs`, both `callables.rs`) | the members of a module, an object or a class, in order | declare, realise, reach by name | what is reached under a name is put together from tables, builtins and descriptors, by position |
| **builders** (`runtime.rs`, `guest/builder.rs`, `imports/bindings.rs`, `host/context.rs`) | the libraries bound; per guest, who owns a module's state | bind, validate, run hooks and initializers | modules hide one another by name, classes do not |
| **generators and cursors** (`handle/generator.rs`, `handle/iter.rs`, `driver/step.rs`, `driver/cursor.rs`) | the step that a handle waits for | next, send, throw, close; poll, drop | several readers, steps given up half way, guest code inside the generator |
| **bundles** (`bundle.rs`, `guestpy-macros/src/bundle.rs`) | the modules and files of a directory | read from disk, embed, build | the same directory in another order; names that only one backend can load |
| **handles, guest macros** (`handle/*.rs`, `guestpy-macros/src/guest/*.rs`) | none of their own | get, call, construct, look up annotations and generic bases; generate a facade | several questions to the guest make up one answer; arguments by position, by name and by Rust name |
| backend traits, facade | none that changes | re-export, test suites | |

How they interact: a call through any handle goes through `enter_with`, which takes
an `ActiveGuest` guard and then runs guest code; guest code calls host functions,
which bind their arguments, borrow payloads, take a guard for the guest they are
bound to and may call into any guest again. An import statement goes to the
runtime's one dispatcher, which finds the guest in the globals of the importing
module or else takes the innermost guest; a module that declares host classes
realises them, and one that is a native extension is loaded through the process's
registry. A call of an async host function, or of `__anext__` on a host stream, is
registered with the guest's driver and answered by an asyncio future; whoever polls
the driver (a `CoroutineFuture`, `run_until_idle`, `advance`, `close`) polls the host
futures, publishes the outcomes and makes one pass of the loop.

What makes each correct: guards, depths and deadlines stay balanced and the
running guest is the innermost one (activity); every awaited coroutine is resolved
and cancelled in time, and drains return (async driver); no call is lost, answered
twice or overtaken, and items reach calls in order (host futures, streams); waiting
never outlasts the guest's sleep, the deadline or the poll interval (timer); a cached
module is whole or being made, stays once it is whole, and a load returns what was
loaded (imports); a guest never gets another bundle's binary, and a failed load
leaves nothing that others could take for a module (native extensions); a class is
one whole object for all guests (classes); a borrowed payload stays what it is
(instances); what is accepted is not altered on the way (marshalling); whatever
fails, the guest gets an exception that the right handlers catch (errors); what a macro
accepts compiles (macros), and what is declared to be reached by name is (declarations,
handles).

## Modules

| module | models | proofs |
|---|---|---|
| `Activation` | `guest/activity.rs`, `guest/registry.rs`, `policy.rs`, the guards taken in `guest/mod.rs` and by `CoroutineFuture::poll` | `ActivationProofs` |
| `AsyncDriver` | `driver/coroutine.rs`, `driver/runtime.rs`, `driver/event_loop.rs`, `drive` and `close` in `guest/mod.rs`, under a single-threaded executor | `AsyncDriverProofs` |
| `HostFutures` | `driver/host_futures.rs` in full detail; implements `HostCalls` | `HostFuturesProofs` |
| `HostCalls` | what a guest is promised about its calls of async host functions (abstract) | |
| `HostStreams` | `HostStream` of `host/iter.rs`, composed with `HostFutures` | `HostFuturesProofs` |
| `Timer` | `Timer::poll_after`, `CoroutineFuture::clamp`, the waiting part of its poll | `TimerProofs` |
| `Imports` | `imports/*.rs`, and bundles as `bundle.rs` guarantees them | `ImportsProofs` |
| `NativeExtensions` | `guestpy-pyo3/src/native_extensions.rs` | `NativeProofs` |
| `Realisation` | `catalog.rs` and the realiser of `host/class.rs`, with the building of guests | `RealisationProofs` |
| `Instances` | payloads and borrows of `host/class.rs`, `handle/class.rs` and both `classes.rs` | `BoundaryProofs` |
| `Results` | what an operation that may fail comes to, and the first failure of several: the errors of `marshal` that the models tell apart | `BoundaryProofs` |
| `Arguments` | `marshal/args.rs` and the code that `guestpy-macros/src/host/callable.rs` generates | |
| `HostMembers` | `classify_method` and the closures of `guestpy-macros/src/host/class.rs` and `module.rs` | |
| `HostDefinitions` | what the macros make of an impl block: `guestpy-macros/src/host/backend.rs`, `target.rs` and the renders of `class.rs` and `module.rs` | |
| `Values` | `marshal/primitives.rs`, `marshal/collections.rs`, the unions of `derive.rs`, the accessors of both `values.rs` | |
| `Serde` | `marshal/serde.rs` | |
| `Exceptions` | `errors.rs`, `guest/errors.rs`, `host/exception.rs`, exceptions in `catalog.rs` | |
| `ExceptionFields` | the fields of a `HostException`: `host/exception.rs` and `guestpy-macros/src/host/exception.rs` | |
| `Bundles` | `bundle.rs`, `guestpy-macros/src/bundle.rs`, the claims on native names | |
| `GuestStreams` | `handle/generator.rs`, `handle/iter.rs`, `driver/step.rs`, `driver/cursor.rs` | `BoundaryProofs` |
| `Declarations` | `host/` with `ClassBuilder`, both `callables.rs`, `runtime.rs`, `guest/builder.rs` and the bindings of modules | |
| `Handles` | `handle/traits.rs`, `handle/class.rs`, `marshal/args.rs` towards the guest, `guestpy-macros/src/guest/*.rs` | |
| `Interfaces` | composes `HostDefinitions`, `Exceptions`, `Bundles`, `Declarations`, `Handles` and what these are built from: what is declared on one side and used from the other, one case per behaviour | `BoundaryProofs` |
| `Boundary` | composes `Interfaces` with `Serde`, `ExceptionFields` and what these are built from, `Instances` and `GuestStreams`: one case, or one story of instances or of a generator, per behaviour | |

Each `MC*` module instantiates its specification for TLC. `HostStreams` is composed
with `HostFutures`, and `Boundary` with the modules of what crosses it; the others
overlap instead of being composed: `Activation` knows futures only as holders of
guards, `AsyncDriver` only the wakers, `HostFutures` only the lists, `Timer` only the
times of one future, `Imports` takes a native module to be loaded in one step, and
`Realisation` sees imports only as code that may ask for classes. The seams are
these: `AsyncDriver` treats `poll_all` and `publish` as steps of their own, which
`HostFutures` opens up; it lets any timer fire at any time, which `Timer` makes
precise; it takes for granted that a pending `CoroutineFuture` holds a guard (its
`Refused`), which `Activation` proves; and the load that `Imports` skips is
`NativeExtensions`.

Slips, named after the definitions they stand beside (`ReleaseAlways`, `TakeFirst`,
`BoxTakesAlways`, ...), are plausible mistakes in these operations. They are used in no
behaviour: each shows that some property would notice the mistake.

### Activation

The Rust call stack is `frames`; each entry is a call into a guest and says whether
it owns a guard. `Enter`, `Callback`, `Close`, `Advance`, `DrainPass` and
`DrainRound` open a frame, `Return` closes the top one and drops its guard. A
`CoroutineFuture` and a `Guest::scope` keep their guard from their first poll until
they are dropped (`held`). `Release` does what `Drop for ActiveGuest` does: it pops
the *top* of the stack, whoever pushed it. `ByExecutor` restricts polls and drops
to code outside guest calls, as an executor does it; with `FALSE` a host callback
may poll and drop futures too. A `Tick` moves the clock; deadlines are absolute.

### AsyncDriver

The guest's asyncio tasks are followed from await to await: a task ends, yields,
sleeps, or awaits an async host call. `PollTask` gives a woken executor task its
turn; it polls its live futures one at a time. `Poll` is `CoroutineFuture::poll`:
`poll_all` with the task's waker, publish, one loop pass, then wake itself
(`Ready`), start a timer (`Waiting`) or rely on the wakers it left (`Blocked`,
`Idle`). A drain goes through the states of `drive`: `round`, `blocked` (awaiting
host futures), `waiting` (awaiting `WaitTimer`), and for a close `end`. `waker`
says which task a host future wakes when it completes; `poll_all` overwrites it
for all of them, and `advance` and every round of a drain do so with the waker that
wakes nothing.

The policy's deadline is not in this module: `Timer` covers it. The signal is.

### HostFutures, HostCalls and HostStreams

`frames` holds the calls of `poll_all` and `publish` under way; only the top one
moves, and code called from it may register, poll, publish and cancel. The abstract
specification has one status per call; `KeepsPromise` is the refinement, with the
status computed from the lists and the asyncio futures. A call that were in none
of the lists would be "forgotten", a status `HostCalls` does not have.

In `HostStreams` some of the calls are calls of `__anext__` on one stream. Each polls
the stream when it is polled, so that the order of the list decides who gets which
item; a poll within a poll of the stream is refused with an error. An item that comes
between the polls of two calls goes to the younger, and `ItemsInCallOrder` allows that
one exception.

### Timer

All times are ticks from now, so the state space is finite without a bound on the
clock. `Rounding` is how late tokio may fire. `Interval` is the poll interval,
`Slack` the 1 ms of `Timer::SLACK`. A woken task is polled within the tick, so the
properties bound the delay the code adds, not the executor's.

### Imports

`imports` is the stack of imports under way: the name, the prefix it is at, and
whether the body of that prefix runs. An import may start from the host or from a
running body. `Load` mounts a bundle and imports its root. `whole` records the
modules whose body ran to its end and `bound` those that are attributes of their
parents; both are state of the interpreter, not of `BindingState`. Denied and
relative names are resolved before any of this state is touched, and are left out;
so are from-lists, whose imports are imports of their own, and the delegation of
names that are not bound to the guest. A module is one model value; its content is
left out. That the parent refuses the attribute (`set_attr` fails, which takes a module
with a `__setattr__` of its own) is left out, and the load of an extension is one step,
so that it imports nothing meanwhile. `load` is one step up to the start of its import:
mount enters the guest and runs no guest code. A load that is refused changes nothing, and is no action.

### NativeExtensions

Each thread has a stack of loads; a load is at its creation, at its parents
(`register`) or at its execution, and only the innermost moves. The lock is the
thread's: other threads wait for the whole stack. Code of an extension may load
others in the middle of its own load, for any guest of its thread. `sysModules` holds
objects and not just names, because the code compares identities: an extension's
package is the module object of the guest that loads it, and another guest's object
under that name is a refusal. `Foreign` is what any other code of the process puts in
or takes out (`Squatted`). An extension that imports itself while it is created
(`Reimports`) is a setting, FALSE in the run. `Parent` gives each extension one package,
which stands for all that are above it: `register` puts each of these there in turn, and
takes them out together. A package that is itself an extension is left out.

### Realisation

`making` is the stack of classes being realised. A class takes its bases one at a time,
realises those that are missing on top of itself, becomes an object, has its static
members set one by one (`statics` says how far each object is) and is published, which
is the first that others see of it. In between it may run code (`RunsCode`: a metaclass,
an imported base, a getter of a static member). That code may ask for other classes; with
`Reenters` also for those under way. Guests are built (which absorbs their declarations, for good), may fail to be
built, take classes and go. `Class::of`, which needs no import, is the same realiser.

### Instances

`New` is the static `__new__` of a host class, which takes any class derived from a
host class; `StartInit` and `FinishInit` are its `__init__`, first the constructor, then
`set_payload`; `Instantiate` is `ToGuest` of a host value. `uses` is the stack of
constructors and borrows under way, so that anything may happen between the start and
the end of each. CPython keeps a payload of any type in one box and checks its type at
each borrow; RustPython makes the instance for one type of payload and takes no other.
Both are followed through the same calls; `on` says which of them accepted a borrow.

### Boundary

Each behaviour takes any one case and keeps its result; the properties compare
it with a definition that is not translated from the code. The cases that no nested type
or value goes into are those of `Interfaces`, with a specification of its own
(`InterfacesSpec`), as `Instances` and `GuestStreams` have; `Boundary` lets each behaviour
be one of any of these, or of the copies that it adds. `BoundaryProofs` is about the three
parts. The arms of a CASE exclude each other: which of two that hold is taken is not
defined, so a translated `match` whose patterns overlap is an IF, or says the rest.

- `Arguments`: a signature and a call, bound as the generated code does it, each
  parameter taking its arguments in turn. The reference is Python's rule: every
  argument has one place and every place its argument.
- `HostMembers`: a function with a role and parameters, as `classify_method` takes or
  rejects it, with the names its closure binds and those its body uses.
- `HostDefinitions`: an impl block with generics, predicates and functions, the backend
  parameter the macro finds or introduces for it, and the definition made of it. The
  reference is rustc's: every parameter declared once, every trait that a call needs in
  scope, every bound the author wrote in force. `Misfit` names four shapes that are
  accepted and do not compile.
- `Values`: a host type, nested, and a value given, or a guest value taken, on either
  backend. Widths are scaled down: `Wide` bits for 64, `Narrow` for the others, `Exact`
  for the significand of an `f64` and `Coarse` for that of an `f32`, whose numbers end
  below 2^`Reach`; the comparisons with the ends of each type are kept. Floats are whole
  numbers or an infinity: fractions, subnormal numbers, NaN and -0.0 are left out.
- `Serde`: the same by the serializer and the deserializer, with structs, newtypes
  and enums; serde's own visitors are external.
- `Exceptions`: an error as the sequence of itself and its causes, the exception a guest
  gets as that of its classes in their order of resolution, and what matches it: dotted
  names, joined as the code joins them. A builtin that a declaration or a raise names may
  be missing, or be no exception class.
- `ExceptionFields`: a struct with fields, raised by the host and caught as itself or as
  another of its chain, or raised by a guest. `Clashes` names the fields that get in each
  other's way.
- `Bundles`: a tree of files, read in one order and embedded in another.
- `Declarations`: members in order, and a use of a name: a call, or getting, setting or
  deleting it, through a module, an instance or a class. `UseAttribute` goes the code's
  way, from tables to builtins to descriptors to the receiver split off by position. The
  reference says what each declaration promises, and what may hide it. The other half
  is the building of a guest from libraries of modules with state and requirements, and
  of initializers.
- `Handles`: a small heap of classes, generic aliases, a function and an instance, which the
  host asks for annotations and generic bases, calls, or uses through a facade. The
  references are Python's rule for a call and the look-up of one name at a time.
- `Instances` and `GuestStreams` are stories: a behaviour goes on with them.

What the inputs may be is assumed by name in `Interfaces`, and TLC evaluates it on the
instance of the run: a parameter list is one that the macro parses (`ParametersAssumption`,
`FunctionsAssumption`), a function of the guest's has no two parameters of one name, and
the host's arguments are results of conversions (`HostCallsAssumption`), Python has the exceptions that `guest/errors.rs` raises
(`BuiltinsAssumption`, in `Exceptions`), what a runtime
binds is a list (`LibrariesAssumption`), and the names of an impl are an author's: not `_`,
which stands for no name, nor `__GuestpyBackend`, which the macro introduces
(`ImplsAssumption`).

In `GuestStreams` each reader is a handle on one generator, plain or async: `Pollers` poll
it as a `Stream` or iterate it, `Callers` call its methods. A step is asked for, runs as
Python has it, and is answered; the future that waits for it may be dropped or refused,
and the step of an async generator goes on without it. A due step runs at any time,
which covers whatever passes of the loop `AsyncDriver` makes.

## Runs

Bounds are constants, in the cfg files.

| run | instance | checks | why this is enough |
|---|---|---|---|
| `activation_async` | two guests, a coroutine of one and a scope of the other, polled and dropped anywhere, two nested calls | `GuardsBalanced`, `DeadlineKept` | two guards that are not call frames are needed, and suffice, for a drop out of order |
| `activation_sync` | two guests, no future, calls nested four deep | `RunningIsInnermost`, `RunningIsActive`, `OperationsAreBudgeted`, `CancelledAdmitsNothing` | a-b-a-b holds every alternation of two guests, with a call of the innermost guest inside |
| `async_join` | two coroutines with three host calls, sleeps and a signal, in one executor task | `ParkedIsRegistered`, `AwaitsResolve` | two awaits each reach every mixture of waiting, sleeping and parking of the two |
| `async_close` | a close beside two coroutines in one task | `DriverHolds`, `DrainsReturn` | a budget of 3 rounds is used up in some behaviours and not in others |
| `async_wild` | two tasks, a close, a `run_until_idle`, `advance`, drops, a faulty result, the signal | `TypeOK` | every action of the module occurs |
| `async_tasks` | two coroutines in two executor tasks | `AwaitsResolve`, which fails | |
| `timer` | delays 1, 3 and 8, budget 10, interval 4, slack and rounding 1 | `InTime` | there are delays on both sides of interval and slack, and two of them outlast the budget |
| `host_futures` | three calls, of async functions or of a stream of two items, three nested batches, two drivers | `StreamTypeOK`, `InCallOrder`, `EmptyIsHonest`, `ItemsInCallOrder`, `KeepsPromise` | a batch within a publish within a batch, with a call for each; fewer items than calls |
| `imports_nested` | a package with a module and an extension, two bundles that compete for it, a host, a native and a plain module, three nested imports | `CachedIsWhole`, `Reachable`, `LoadGivesBundle`, `WholeIsKept` | three levels hold a circular import within a load |
| `native_extensions` | three guests on two threads with two bundles, three extensions in two packages, foreign code that takes a name of each kind, three nested loads | `OwnBinary`, `NothingHalfMade`, `RunningHasParents`, `LoadedForGood` | one pair of guests shares thread and bundle, one differs in both; a binary differs and another is the same |
| `realisation` | two guests, a line of three classes and a second base, two that run code, one class with two static members and one with one, a shared and a private module, four nested | `OneClassEach`, `OnlyWholeClasses` | a class with two bases, one of them with a base of its own, and one class only one guest declares; the class with two members is a base, so others may ask for it between them |
| `boundary` | signatures of at most three parameters, types nested two deep, integers of 2 and 4 bits, an `f64` with a significand of 2 bits and an `f32` of 1 that ends below 2^5, errors with causes, directories of three files; structs of two fields on five bases in two modules; impl blocks of two functions with six parameter lists and four backend options; heaps of eleven objects, called with two arguments by position and two by name; two instances, two host classes, three nested uses; three declarations, of members with colliding names; two library entries of a runtime and one of a guest; a generator with two readers, three steps and two items | `CallsLikePython`, `GeneratedCodeCompiles`, `ConversionsAreFaithful`, `UnionSelectsFirst`, `SerdeWidens`, `RaisesAsDeclared`, `FieldsAreKept`, `SameToAll`, `PayloadsHold`, `ReadersAreServed`, `MembersAreReached`, `GuestsAreWhole` | each conversion meets both ends of its width and the next number beyond, and a tie of each rounding; three uses hold an `__init__` within a borrow within an `__init__`; three members hold two accessors and what comes between; two functions hold one that asks a trait and one that needs it; two keywords hold one name given twice; three steps hold one given up, one refused because of it and one that is served |

What the properties say, and of which code, stands beside each in its module. Each is
also checked with one of the slips in place of the right operation, and fails.

`CHECK_DEADLOCK FALSE` stands where the system really stops: all guests dropped, all
futures resolved, the one future of `Timer` ended, every extension loaded, the case of
`Boundary` taken. `Imports` and `HostStreams` never stop and are checked for deadlock.

### Where the code does something else

`RunningIsInnermost` and `RunningIsActive` hold for synchronous use, and so do
`AwaitsResolve` and `DrainsReturn` for awaits joined in one executor task, of host
futures that do not hang, and for guests that do not sleep during a drain. `async_tasks` drops the first of these conditions: two executor
tasks await two coroutines of a guest, the last to poll owns the wakers of all host
futures, and when it is done, the other's completion wakes nobody. `PROJECT.json`
quotes what the documentation says of it, under "findings". The same modules show
more of this kind, with these settings, not kept as runs:

- `RunningIsInnermost` with two pending coroutines of guests a and b: when a's is polled
  again, b's guard is on top; code of a runs while b is "innermost", and an import from
  code with no guest id in its globals is resolved for b.
- `RunningIsActive` with the same two: after one of the futures is dropped, the pop has
  taken the other's entry; the top of the stack names a guest whose depth is 0, and a
  call into it takes no guard, asks no signal and arms no deadline.
- `CancelledAdmitsNothing` with one guest and a coroutine of it: while it is pending
  the guest's depth is not 0, so `eval` runs after `cancel()`.
- `AwaitsResolve` without `Completes`: a coroutine that awaits a hanging host future has no
  timer, and a tripped signal does not stop it.
- `DrainsReturn` with a guest that sleeps: `run_until_idle` never gets past the sleep,
  as its timer is restarted each time it has elapsed.
- `AwaitsResolve` with one coroutine and `Advances = TRUE`: `advance` replaces the waker
  of a parked future with one that wakes nothing.
- `WaitingIsHeld` with two coroutines and one faulty call: a completion that does not
  convert takes those collected with it along, and their awaiters wait for good.
- `DriverStays` with a close and a `run_until_idle` in two tasks: the close takes the
  driver away between two rounds, and an `expect` fails.
- `LoadGivesBundle` with `Mounted <- BoundV`: the guest was built with a bundle and its
  root was imported; `load` of another bundle with that root succeeds, and returns
  the old module.
- `OwnBinary` and `LoadedForGood` with `Reimports = TRUE`: an extension imported again
  while it is created is loaded twice, and the outer load replaces the record.
- `OneClassEach` with `Reenters = TRUE`: code run while a class is realised asks for it,
  and the class is made twice.

Seen while modelling, and stated by no property:

- A class shared by all guests calls the host as the guest that realised it first. When
  that guest is dropped, others get the class with callbacks of a guest that is gone;
  so does module state (README.md:109-111 binds libraries to the runtime for every
  guest). `Class::of` in a guest that does not bind the class leaves it that way for all.
- A foreign module that comes into `sys.modules` between the look-up of an extension and
  its `set_item` is overwritten. A load that fails takes its packages away from
  extensions loaded inside it. A load that succeeds leaves its guest's packages in
  `sys.modules`, so another guest's extension of the same package is refused, where
  README.md:232-234 speaks of different binaries under one name.
- A method that a derived host class inherits borrows the base's payload, and an
  instance of the derived class has none: the call is refused on both backends, on
  CPython with a message about an `__init__` that was never called, although it was.
  `Base.__init__(derived)` replaces the payload on CPython and is refused on
  RustPython; `PayloadsHold` compares the backends for instances without such a call.
- `HostIter.__next__` keeps its `RefCell` borrowed while the item is converted, and a
  nested `__next__` panics; `HostStream` refuses the same with an error.
- An int beyond 64 signed bits is an error of the guest's, so a union of `i64` and `u64`
  never takes 2^63; `i64` to `f64` rounds silently, and so do both to `f32`, where a float
  too large for it becomes infinite (`as Self`, `marshal/primitives.rs:212,216`); a string that is no UTF-8 is a guest
  error on CPython and a mismatch on RustPython; `HashSet<Vec<_>>` takes a set of tuples
  that it cannot give back; keys 1 and `True` collapse. A serde tuple or struct taken
  from a longer sequence drops the rest; serde refuses a bool for an int; an unknown
  field of an unsupported type makes its struct fail.
- Errors whose exceptions need a module degrade to `SystemError` when no guest is active.
- Raw identifiers keep their `r#` in the names the macros generate, and a facade's member
  of such a name asks the guest for it. Members named `new`, `instance` or
  `into_instance` collide with methods of the facade's own.
- Four shapes of impl block are accepted and do not compile (`Misfit` in `Boundary`); a
  backend bound in a `where` clause does not make its parameter the backend, as one
  written inline does.
- Two fields of one name, a field named `args`, and three or more arguments on an
  `OSError`, which keeps two of them, do not come back (`Clashes` in `Boundary`).
- `annotations()` fails as a whole when one annotation is no class, as in `-> None`. A
  keyword that the host gives twice is taken once, the last; Python refuses it.
- `collect`, `annotations` and `generic_bases` enter the guest once for each of their
  steps, and each step has the whole budget of the policy.
- A directory with both `a.py` and `a/__init__.py` gives the one that is read last.
  `BundleBuilder::data` over a module's origin changes the file and not the module.

### Fairness

Only `AsyncDriver` states liveness. `Scheduled` is weak fairness of each executor
task, of each poll it has begun, and of each running timer and sleep: a
single-threaded executor (tokio's `LocalSet`) polls every woken task, and a
poll of this code always returns. `Completes` adds that host futures come to an outcome.
Nothing is assumed of the host: it need not call `advance`, `close`, `Cancel` or drop anything.

## Proofs

Everything below is checked by TLAPS for every value of the constants, under the
assumptions named with each module.

`ActivationProofs` (from `GuestsAssumption`). `GuardsBalanced` is not inductive by
itself: that a drop never takes a depth below zero needs that the guard being
dropped is counted, and that a poll frame owns none and its future does. The
invariant is `IInv == TypeOK /\ GuardsBalanced /\ IdleIsDisarmed /\ PollFrames`,
where `PollFrames` says that each future is polled by at most one frame, that no
poll frame owns a guard, and that its future is held and belongs to the frame's guest. The lemmas
`OwnersAppend`, `OwnersPop`, `BalancedOpen`, `BalancedPop` and `BalancedFuture` do
the counting once, `ActivateStep` and `ReleaseStep` say what taking and dropping a
guard does, and one lemma per action uses them. Theorems: `TypeCorrect`, `Balance`,
`Disarming`, `DeadlineIsKept`, `PollsAreHeld`.

The rest of the module needs `Synchronous == Futures = {}`, which stands in the statement
of each theorem. When no future keeps a guard, the stack of
active guests is the stack of the guards that the calls hold, in their order. The
invariant `SInv` adds three parts to `IInv`: `Stacked` (there is a map from calls to
stack entries that rises by one at each call that took a guard and names the guest of
each call), `Covered` (each call runs on a guard of its own or of a call below it) and
`Alive` (no guest is dropped while a call is under way in it). `StackedOwning`,
`StackedNesting` and `StackedPop` extend and restrict the map; `OwningKeeps`,
`NestingKeeps` and `PopKeeps` lift them to steps. `BInv` adds the budgets: an active guest
has a call under way (`ActiveHasCall`), so a call that takes no guard of its own finds
the deadline that the call below it armed, and a deadline goes only with its guest's last
guard. Theorems: `Attribution` (`RunningIsInnermost`), `RunsActive` (`RunningIsActive`),
`Budgeting` (`OperationsAreBudgeted`) and `Admission` (`CancelledAdmitsNothing`). The
assumption is needed: with a pending coroutine each of the four is false, as some of the
settings above show.

`AsyncDriverProofs` (from `DriverAssumption`). Each step is one of six kinds as far as
tasks and host calls go (`TaskSteps`): it leaves them alone, collects outcomes, runs tasks,
fails to publish, wakes tasks or ends them all. Most lemmas are about these and not about
the actions. Without any hypothesis: `TypeCorrect` (with `BlockedHasRound`, that a
close that waits has a round left), `Finality`, `DriverGoneAfterClose` and `Held`. Two
theorems have hypotheses on the instance, and each of those is needed, as TLC shows:

- `DriverIsHeld` (`DriverHolds`) where a close is the only drain and all results convert.
  A second drain finds the driver gone, and a faulty result leaves an awaiter
  waiting for good.
- `WakersAreKept` (`ParkedIsRegistered`) for any number of coroutines and host calls,
  where one executor task polls everything, nobody closes or
  calls `advance`, and all results convert. `DueOrParked` says that a pending
  future is due, or that its task waits and nothing in the loop can run before a host future
  that holds its waker has its outcome (`Quiet`). `poll_all` gives its waker to all host futures, so
  another task's poll, or the waker of a close or of `advance`, breaks it.

`TimerProofs` (from `TimerAssumption`). The three properties bound a wait from
outside; the inductive invariant adds that a parked future has a running timer whose
remaining time is within `Lag` of each of its three limits (`ParkedInTime`), and
that the sleep is never later than its recorded deadline by more than the rounding
(`SleepFitsDeadline`). Theorems: `TypeCorrect`, `WokenInTime`, `StoppedInTime`,
`SignalledInTime`, and `PolledInTime` for the three together.

`HostFuturesProofs` (from `HostFuturesAssumption` and `HostStreamsAssumption`). Neither the
order of the calls nor the promise is inductive: an outcome that is published must not be
lost already, and a future that gets its outcome must not wait anywhere else. `IInv` adds
that calls are made in turn (`Fresh`), that each unsettled one has a place (`Kept`) and
what is lost has none (`Gone`), that no outcome waits and each is in one list (`Apart`,
`Once`), and that `polling` is the sum of the batches moved out (`Counted`: there is a map
from the depth of a batch to the sum up to it). `PushKeeps`, `GoKeeps` and `PopKeeps` say
what becomes of the invariant when a batch is moved out, goes on and is over; one lemma per
action says where it moves calls, and from that `RegisterCalls` and its like which step of
`HostCalls` it is. For the streams, `Overtaking` shows that every older call that waits
while the stream is polled was passed over. Theorems: `TypeCorrect`, `CallOrder`, `Honest`,
`Refines` (the refinement of `HostCalls`), `StreamTypeCorrect`, `ItemsInOrder`, and
`StreamsAreLists`, which carries the first four over to the streams.

`ImportsProofs` (from `ImportsAssumption`). A body that fails takes its module out of
the cache while the imports around it go on. They are safe because none of them has
come past that module: its body began when the module was not cached, and what they
have come past was. `IInv` adds that no two bodies of a module run, that a running body's
module is cached and not whole, that what an import has come past is bound, and that
this is none of the modules whose bodies run above it (`Apart`). Theorems:
`TypeCorrect`, `CacheIsWhole`, `BodiesRunOnce`, `ParentsStayCached`,
`ImportedIsReachable`, `CompleteIsKept`. `LoadIsFaithful` (`LoadGivesBundle`) follows from
`RootsAgree`: a bundle's cached root came from the bundle that is mounted there, and that is
the one recorded as loaded. It is true where nothing but the bundle defines its root
(`Uncontested`): no native module, no extension, and no other bundle that the guest was
built with. Without any one of the three, TLC finds a load that returns something else.

`NativeProofs` (from `NativeAssumption`, and `~Reimports` in the theorems). One thread
holds the lock, so one stack of loads moves (`Exclusive`). The names in it differ: one
being executed is in `sys.modules`, one being created is not started again, and only the
innermost is at its parents. What a load put into `sys.modules` was not there before, so
the loads below it do not count on it, and a failure may take it out. Theorems:
`HoldsOwnBinary`, `FailuresLeaveNothing`, `ParentsStay`, `ParentsGo`, `LoadedOnce`.

`RealisationProofs` (from `RealisationAssumption`). `WholeClassesOnly` (`OnlyWholeClasses`)
holds whatever the code that runs asks for. `WholeInv` says that each object on the stack is
one that was made for its class, and that the bases taken, the realised classes and those
that guests have are whole (`Finished`). What is whole stays so, since members are only
added (`Grows`), and to no object that has them all. The other theorems
have `~Reenters`: no class being realised inherits from one under way below it, so what is
published is always new: its object takes nothing's place, and the bases that others
took stay what they were (`IInv`). Theorems: `OneObjectPerClass`, `BasesAreDeclared`,
`ClassesStay`.

`BoundaryProofs` (from `InstancesAssumption`, `GuestStreamsAssumption` and the assumptions of
`Interfaces`). A case of `Interfaces` is one step, and its theorems are about operators.

- `CallsAreLikePython` (`CallsLikePython`). Towards the host, the accessors of a signature
  each see only their own parameter, and what they took is counted in the end.
  `BindsLikePython` shows for every signature and call that this is Python's rule: what a
  parameter takes may go to it (`TakenIsTarget`), no argument may go to two that take it
  (`OneTarget`, from `GuestIndexRises`: places by position rise), and a parameter that
  leaves an argument it may have has taken another (`TargetTakes`). Towards the guest,
  `HostCallBinds`: of the keywords of one name the last is in the dict (`LastOfAName`), and
  the names that differ have places that differ.
- `CodeCompiles` (`GeneratedCodeCompiles`). For members, the names that a body uses are
  bound by its closure, role by role (`LetsIsClosed`). For impls it is `DeclaresOnce`,
  `BoundsStay` and `NeedsAreMet`. Each goes through the backends that the macro finds:
  declared by the impl, introduced by the macro, or concrete; `HasNth` and `SelectedFacts`
  say what the one picked out of the generics is. The four shapes of `Misfit` are left out of
  the property, and each is needed, as TLC shows.
- `BundlesAreTheSame` (`SameToAll`). The builder of some entries is a function of the set of
  files (`BuiltOfFiles`, with the entry that fails wherever it comes), which `ReadIsSound`
  shows entry by entry; what is read and what was embedded are the same files at the same
  places (`DirectoryIsSound`), so there is one builder (`OneBuilder`). A name that CPython
  loads from a path is the one that is claimed for that path on either backend
  (`CompatibleIsClaimed`, from `SuffixesAssumption`: an extension suffix ends in `so`, `pyd`
  or `dylib`).
- `MembersAreFound` (`MembersAreReached`), from `DeclarationsAssumption`, `HeapsAssumption`,
  `FacadesAssumption` and `HostCallsAssumption`. A class is built declaration by declaration,
  and the invariant of its builder (`BuilderFits`, kept by each kind of declaration and so by
  all of them, `BuildingFits`) says that a member is of a declaration or of a slot, that the
  slots have names of their own, and that a slot holds for each use one of the accessors
  declared for it, if there is any. What a name then stands for (`StandsFor`, for modules,
  objects and classes in `AttributeStands`) is all that a use goes by (`UseServes`). The
  other way round, an attribute is that of the nearest object that has it
  (`GetAttrFacts`), from which come `AnnotationsAreTold`, `GenericBaseIsTold` and
  `FacadeMemberServes`.
- `GuestsAreBuiltWhole` (`GuestsAreWhole`). `OwnedOnce` says that the module which owns a
  class's state is the first that lists it, and the only one where a class that asks for
  state is concerned; `BuiltRunsInOrder` that the hooks come before the initializers, and
  that a failure is the last thing that runs.
- `ErrorsAreRaised` (`RaisesAsDeclared`), from `ExceptionsAssumption` and
  `BuiltinsAssumption`: the catalog is a map, so
  that a type has one declaration, and no type is among its own bases, for which the code
  would recurse without end. What lies upward of a type are its bases (`BasesAreUpward`), and
  the class made of it has their entries in that order, then those of the class of Python's
  that they end at (`RealisedFacts`). `ConvertFacts` goes through an error's causes up to the
  first that cannot be raised: what stands in for it is an error of the host's or of Python's
  (`IsReason`), whose class exists. `ClassMatches` needs `DistinctNames`, which is a hypothesis of the property:
  a guest's exception is known by the dotted names of its classes alone. `FatalEscapes` is
  about the four fatal classes, of which none inherits from `Exception`.

Where a model takes the least or greatest of a set of places, `HasLeast` and its like find it
by the well-foundedness of < on the naturals. What an entry does to a builder is gone through
the same way: that there is a function of the number of entries which obeys the rule, and what
it says of each number, holds for all of them because the set of the numbers it holds for
contains the first and with each the next (`Counting`, an induction over a set in place of an
operator).

`set_payload` is the
only way to replace a payload, and is refused while any borrow of the instance is left on
that backend. As long as an instance takes payloads of its maker alone, the box of one
backend and the cell of the other hold the same (`Cells`), so that what one of them accepts
the other does. Theorem: `PayloadsStay`. For the readers of one generator, the invariant
says that a reader holds one step, its own and open (`Holder`), that only the step inside
the generator moves it (`Runner`), and that what a task came to is there until the host
takes it or gives it up (`Kept`). Theorem: `ReadersServed`.

Proved and in no run: the type invariants of `Activation`, `Timer` and `Imports`,
`IdleIsDisarmed`, `PolledIsHeld`, `OverStaysOver`,
`GoneOnlyAfterClose`, `HeldUnlessFault`, `RunsOnce`, `ParentsCached`, `ParentsAreUsed`,
`LineageRegistered` and `ClassStays`.

Only model-checked: the liveness of `AsyncDriver` (`AwaitsResolve` and
`DrainsReturn`), since liveness under fairness and ENABLED are out of the prover's reach, and
of `Boundary` what is copied (`ConversionsAreFaithful`, `UnionSelectsFirst`, `SerdeWidens`,
`FieldsAreKept`). Types and values nest there, so `Values`, `Serde` and the operators of
`Boundary` that compare values are RECURSIVE, which the prover does not take, and a proof
would be an induction over the data; TLC compares them over the bounded values of `MCBoundary`.

## Not modelled

- Execution of synchronous code and the interrupt flag of the backends: nothing in
  `guestpy-core` requests an interrupt.
- `HostIter`, `Mapping`, `bytes`, `rest_keywords` and `split_receiver`.
- Panics that unwind through a poll or into the interpreter.
- Relative and denied names; the cache of compiled code; doc strings and annotations;
  the members of native modules, whose tables are filled while a library is declared.
- A `__getattr__` that is declared on a nested object or a class: it is a member like any
  other, and Python's asking it for a name that has no member is not followed. A module's is.
- Module state that a class of another module's asks for through inheritance:
  `GuestsAreWhole` covers classes that a guest's own modules list.
- A native extension that is itself a package; two libraries of one module.
- Handle operations that forward to one operation of the guest: setting, deleting, items,
  comparisons and names; the conversions of facades; the facade crate, which re-exports.
- Renaming rules of the macros and the options that only choose a path.
- The backend traits and their test suites, which both backends instantiate.
- The interpreters, asyncio, tokio and serde, which are modelled by how they are used.

`PROJECT.json` says why for each, and its hazards list what no property covers.

But for the loading of native extensions, nothing runs on a second thread, and the
values a runtime works with are not `Send`, so the other models interleave only at
calls, awaits and polls.

## Plan

1. `Closing`: what coroutines, callbacks and awaiters see after a guest or a driver
   is closed, with the guest that a shared class's callbacks are bound to.
2. `HostIter`, with the panics of a second borrow.
