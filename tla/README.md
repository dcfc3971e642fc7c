# TLA+ models of rsActor

rsActor runs each actor in one tokio task. Other tasks hold `ActorRef`s and
send it messages over bounded channels. Beside the runtime the repository has
the macros that write an actor's `Message` impls and `rsactor-graph`, a tool
that draws who sends what to whom from the source. This directory holds TLA+
models of the three, the TLC configurations that check them, and proofs checked
by TLAPS.

Paths such as `actor.rs:850` are relative to `src/src/`; those of the tool
(`calls.rs`, `discover.rs`, `resolve.rs`, `types.rs`, `crate_tree.rs`,
`workspace.rs`, `view.rs`, `render.rs`, `main.rs`) to `src/rsactor-graph/src/`.

## 1. Inventory

| Component | State | Operations | Interacts through |
|---|---|---|---|
| Actor task, `actor.rs` | the loop's place, the actor value, the idle streams, four receivers | `on_start`, the biased `select!` (terminate, priority, subscribe, mailbox, idle), graceful drain, `on_stop`, shutdown drain in `Drop` | the four channels, the oneshot replies, the `JoinHandle` |
| `ActorRef`, `actor_ref.rs` | one strong sender per channel | `tell`, `ask`, `*_with_timeout`, `*_priority`, `stop`, `kill`, `subscribe_idle`, `is_alive`, `wait_stopped`, `clone`, `drop` | channel sends, the dead-letter record |
| `ActorWeak`, `actor_ref.rs` | weak senders | `upgrade`, `is_alive` | the channels' reference counts |
| Blocking calls, `actor_ref.rs` | the calling thread, a dedicated thread and its runtime | `blocking_tell`, `blocking_ask`, priority variants | the same channels; the runtime's driver |
| Spawning, `lib.rs` | the process-wide default capacity, the identity counter | `spawn*`, `set_default_mailbox_capacity`, `SpawnOptions` | creates the channels, the drain guard and the task |
| Dead letters, `dead_letter.rs` | one global counter, log records | `record`, `record_erased` | called by senders and by the shutdown drain |
| Deadlock detection, `deadlock.rs` | the global wait-for graph | `register_ask_edge`, token and guard drops | `ask` on the caller's side, the reply on the callee's |
| Metrics, `metrics/` | relaxed atomic counters | record, snapshot, averages, last activity | the task writes, any `ActorRef` reads |
| `ActorResult`, `actor_result.rs` | the result value | predicates and conversions | returned through the `JoinHandle` |
| Type-erased handles, `handler.rs`, `actor_control.rs` | a boxed `ActorRef` or `ActorWeak` | forwarding | none of their own |
| Errors, `error.rs` | none | classification, formatting | returned by every send |
| Derive macros, `src/rsactor-derive` | the impl block being rewritten | `#[message_handlers]`, `derive(Actor)` | the tokens of the user's impl; the compiler takes the result |
| rsactor-graph: command, `main.rs`, `workspace.rs`, `lib.rs` | the run's stage, the selected crates | select, scan, `--check`, `--focus`, render | cargo's metadata, the source files, Graphviz |
| rsactor-graph: names, `crate_tree.rs`, `resolve.rs`, `types.rs` | module tree, scopes with their imports | path and type resolution, comparison keys | `use` declarations of every module |
| rsactor-graph: scan, `discover.rs`, `calls.rs` | the graph under construction, the walker's scopes | actors, handlers, held references, sends and spawns in bodies | item by item over the crates |
| rsactor-graph: output, `view.rs`, `render.rs` | the narrowed graph, two pipes and a process | focus, drawing, `dot_to_svg` | the `dot` process |

What is hard here:

* A send is *reserve, then push*. Between the two the actor may close, sweep
  and drop the mailbox. The closed flag is not looked at by the push.
* `select!` polls its branches one after the other while senders run on other
  threads, so a decision is taken on an older poll.
* The priority drain of a graceful stop must outwait permit holders, and must
  not wait for a permit that is returned without a wakeup.
* The task may end at any `await`: by a panic, by `JoinHandle::abort`, by the
  runtime's shutdown. Only the drop guard then acts.
* An `ask` is accounted for by two parties, the drain and the caller, who must
  not both record its loss.
* Deadlines race the semaphore's grant; a cancelled sender may hold a permit.
* The actor lives by reference counts that queued envelopes also hold, and an
  `ActorRef` drops its senders one after the other while `upgrade` takes them
  one after the other.
* The metrics are several relaxed atomics, read while they are written.
* The macro rewrites tokens it cannot resolve; what it gets wrong shows as a
  compiler error in code nobody wrote, or as a handler that is silently missing.
* In a body the tool reads, a name may be shadowed, destructured, moved into a
  closure or bound in one branch only; a wrong reading draws a send that nobody
  makes, a lost one hides a send. Globs and re-exports lead round in circles.
* `dot` reads and writes over pipes of bounded size and may die at any moment.

What makes each component correct: what a caller is told agrees with what
became of its message; no admitted message disappears without a record; none is
counted twice; handlers run one at a time, in order, and never after the actor
is reported stopped; a stop, a kill or the last drop ends the task; every
sender and every asker gets an answer; a dead actor stays dead for every handle;
a snapshot's average is never above its maximum; an impl the
macro writes fits its method in all that the tokens show; an edge is a send that the program makes, and a send is an
edge or a report.

## 2. Modules

```
Queues                     queues without repetitions: mailboxes, semaphores
Queues_proofs              what appending, popping, withdrawing do to them

MessageContract            abstract: what an actor promises of its messages
MessageContract_proofs     what these promises come to; nobody overtakes
ActorRuntime               the task, its channels, its callers
ActorRuntimeInvariant      the inductive invariant IInv of ActorRuntime
ActorRuntimeContract       ActorRuntime implements MessageContract
ActorRuntime_proofs        IInv, the safety properties, the refinement step by step
MCActorRuntime             instances of ActorRuntime for TLC

BlockingCalls              the blocking_* calls, threads and runtimes
BlockingCallsContract      BlockingCalls implements MessageContract
BlockingCalls_proofs       their invariant, its safety properties, the refinement
MCBlockingCalls            which call is made from where, for TLC

Reachability               paths and cycles of a relation, without recursion
AskDetector                abstract: the edges of the asks, in atomic steps
WaitForGraph               the deadlock detector, with the actors around it
WaitForGraphDetector       WaitForGraph implements AskDetector
WaitForGraph_proofs        its invariant, no deadlock, no panic without one,
                           the refinement step by step
MCWaitForGraph             which actor asks which, for TLC

PathSearch                 the depth-first search the detector runs
PathSearch_proofs          it answers as reachability does, in bounded work
WeakRefs                   ActorRef and ActorWeak, field by field
MetricsCollector           the relaxed counters and who reads them
HandlerExpansion           #[message_handlers] on an impl block
HandlerInput               the impl blocks it is documented for
Parts_proofs               a dead actor stays dead; no average is above its maximum;
                           what the macro writes fits
MCParts                    the four above, side by side, for TLC

CrateTree                  the module tree of a crate, cfg and file lookup
NameResolution             scopes, imports, globs: resolve.rs      (CrateTree)
TypeKeys                   resolved types and their keys      (NameResolution)
ActorDiscovery             actors, handlers, holds, assembly        (TypeKeys)
BodyTypes                  the type environment of a body     (ActorDiscovery)
CallScan                   the walk over a body, its sends         (BodyTypes)
ScanInput                  which crates a command line selects
GraphView                  the focus and the drawing
SvgPipe                    the call to Graphviz
GraphOutput                a run from the finished graph on  (GraphView, SvgPipe)
GraphOutput_proofs         the focus, the drawing and the pipe, on any graph
ActorGraph                 one run of the tool: all of the above
RustNames                  reference: what a name means in Rust
RustBodies                 reference: what a body sends
GraphTruth                 what the graph says against the references
MCActorGraph               programs and command lines, for TLC
```

A name in brackets is the module that one extends. ActorRuntime, WaitForGraph
and BlockingCalls are three views of one actor, each with the detail the others
leave out. ActorRuntime assumes that hooks and handlers return; WaitForGraph
looks at what makes a handler wait for another actor, with the task reduced to
what decides who waits for whom. WaitForGraph takes `has_path` to be `Reaches`;
PathSearch shows that it is. BlockingCalls looks at the threads: its actor is
reduced to taking a message, handling it and going down. WeakRefs takes apart
the drop and the upgrade that ActorRuntime has in one step each.

### ActorRuntime

State, and what it stands for in the code:

* `pc`, `cur`, `cause`, `result`: where `run_actor_lifecycle` is, the envelope
  whose handler runs, why the loop was left, the value of the `JoinHandle`.
* `rx`, `buf`, `waitq`, `term`: each receiver's state as its senders see it,
  the buffered envelopes, the senders queued on the semaphore of each mailbox,
  the Terminate signal.
* `stage`, `fate`, `letters`: each call is one future (`stage`: queued on the
  semaphore, handed a permit, about to push, awaiting the reply, or returned
  with this error) and one message (`fate`), and the dead letters recorded.
* `held`, `stream`: a strong reference held by user code, and each stream given
  to `subscribe_idle`.
* `passed`, `due`, `stalled`, `raced`: history, read by properties
  only.

An action of the task is one poll of one branch, one return of a hook, or one
pop of a drain. The senders' actions are the start of the future (the first
poll of the semaphore), a later poll, the push, the reply, the deadline, and
the drop of the future. `HasStrong` is derived from the rest of the state: it
lists every owner of an `ActorRef`, the envelopes included.

The channels are tokio's and are modelled from its documented semantics: fair
semaphore, `close()` wakes the queued senders, a permit outlives `close()`,
`recv()` on a closed channel answers `None` once the buffer is empty and every
permit has been returned, a permit returned by a cancelled sender does not wake
the receiver.

### MessageContract

What a user of the actor may rely on, with no task, no channels, no threads and
no permits: a message is admitted or withdrawn, run in order, finished, or lost
after the actor went down, and the caller's answer matches. What a call is (`op`,
`chan`) is the caller's choice until it is admitted. Two modules implement it. In
ActorRuntimeContract, `fate` is the message's state, `stage` the caller's
knowledge, `pc` whether the actor is up, and each call's kind and mailbox are
constants. In BlockingCallsContract they come from `req`, chosen when the call is
made; its mapping leaves out who waits on which thread, so that what the async
calls promise is shown of the blocking ones as well. The actor there loses at once,
as it goes down, what the contract also lets it discard later.

### BlockingCalls

* `flavor`, `detect`, `hasPrio`: the runtime and the build, chosen at the start.
* `req`: what each call is: its method, the context it is made from (the actor's
  own handler, another task, a `spawn_blocking` thread, a plain thread) and
  whether it has a deadline.
* `stage`: how far it is: entered, refused by `try_send` (`full`), on a dedicated
  thread without a runtime yet (`worker`), before its first poll (`poll`), queued,
  granted, about to push, awaiting the reply, returned, or panicked.
* `loop`, `cur`, `inner`: the actor, the call it handles, the call that handler
  makes.

`WaitHere`, `RefuseToPark` and `SpawnWorker` are the dispatch each method makes:
`block_in_place` on a multi-thread runtime; tokio's panic, or the one of
`assert_current_thread_can_block`, on a thread that drives tasks; a dedicated
thread when a deadline needs a timer. `HoldsDriver` says that the only thread of
a current_thread runtime is inside a call: until it returns, nothing else on that
runtime runs, the actor included. A kill stands for every way the actor ends.

### WaitForGraph

* `graph`, `lock`: the map behind `WAIT_FOR` (how many entries for `y` the Vec
  under `x` holds) and its mutex.
* `removed`, `own`: the flag of each `AskEdge`, and for each of its two owners
  where its drop is. `remove_once` takes up to three steps, `Peek`, `Claim` and
  `Erase`; the relaxed read of `Peek` may miss a flag that is set. While an
  owner is dropped its thread does nothing else (`ThreadFree`).
* `fut`, `env`, `answered`: the ask's future, its envelope and its reply
  channel. Each ask is one future used once; a handler may have several.
* `up`, `stopping`, `busy`: the actor's life as far as it decides which channel
  is open and which hook runs.

`Register` and `Refuse` are `register_ask_edge` under the lock: the check and
the insertion are one critical section. `SendFails` gives the envelope back to
the caller's thread, where its token is dropped before the guard. `Release` is
the drop of an envelope by the callee's task, in an unwinding one as well.

AskDetector is what the rest of the runtime takes the detector for: one set of
edges, in which an ask either enters, after a look for a path back, or is refused,
and from which its edge is taken out once, after its caller has stopped waiting.
It has no mutex, no counts, no flags and no owners. The mapping in
WaitForGraphDetector takes an edge to be in from its registration until its entry
is erased, the moment between the two included in which the flag is already set.

An ask from outside the actor's task (`tokio::spawn`, `spawn_blocking`, a plain
thread) is untracked in the code and absent from the model: the documentation
calls it a blind spot. A future created in one hook and awaited in a later one
is left out as well; here a hook drops what it asked before it returns.

### PathSearch

`stack`, `visited` and `found` are the locals of `find_path`; `has_path` goes
through the same steps with the end of each path in place of the path. One step
is one turn of the loop. The initial graph, start and target are arbitrary.

### WeakRefs

A handle is a slot of `Refs`: free, an `ActorRef`, or what a call on an
`ActorWeak` holds for the time being. `use` says what the slot is doing, `has`
which strong senders it owns. `upgrade` and `is_alive` take and give back one
sender at a time, the drop of an `ActorRef` drops one field at a time, and the
loop leaves when the mailbox or the terminate channel has no sender left.
`deserted`, `refused` and `late` are history: the loop left for want of senders,
some call has answered no, and the calls that began after that.

### MetricsCollector

`order` is the modification order of each atomic, every value it had from the
first on; `shown` how far in it a reader finds it. An update appends to the
order, and values come into sight one at a time, never an earlier one after a
later one, and each atomic's in its own time: all that relaxed ordering
promises. A reader's loads (`reading`, `seen`) are made in any order. The counters
wrap past `MaxU64` or saturate, as the code has it. `work` and `last` are history,
what was really completed and when; `calm` says of the read under way that
everything was in sight when it began and nothing has happened since.

### HandlerExpansion

`block` is the impl block, `place` the item being looked at, `impls` the impls
written, `verdict` how it ends. A step is one item: the options of
`#[handler]`, the checks of the signature in the order of the code, the impl
that is written with its generics, predicates and `cfg`s. A type is its form,
its last segment, and the identifiers and lifetimes in it: all that the macro
looks at. An input is any block that keeps two of Rust's own rules (`IsRust`, in
`BlocksAssumption`): no lifetime of a method shadows one of its block, no predicate
has an `impl Trait` in it. HandlerInput has a handler in each shape, for TLC,
those included that the macro lets through and the compiler refuses: a lifetime
of the method in the message or the reply, `result` on what is not a Result. What
the macro answers for in an impl is in `GeneratedFits`.

### ActorGraph and the modules below it

`stage` is where a run of the tool is: select the packages, load their files,
index the names, collect the actors item by item, add the `holds` edges, walk
the bodies item by item, check or advise, narrow to the focus, render. `ix` is
the index over the crates, `b` the graph under construction (the `Builder`),
`out` the assembled graph. When nothing is found, the guidance scans the examples:
these are steps of the same machine. SVG output goes through SvgPipe, in which
the caller, the thread that feeds the text and the process `dot` (external)
move in any order and `dot` may fail at any moment.

From the focus on, a step of ActorGraph is a step of GraphOutput (`Output`), which
has a specification of its own, `OutputSpec`: a run that starts from any finite
graph whose edges join its nodes. The search for the focus is the breadth-first
search of view.rs, a level in a step, with what it has reached in `distance`.

A body is a syntax tree of records, and the walk over it is a fold that threads
the walker: scopes, block imports, handled spawn calls, the closure hint.
`ResolveSegments` follows a path through items, imports, globs, `super` and
re-exports with the guard against cycles that `resolve.rs` has. The index keeps
what the code recomputes, `outside` and `crateByName`.

The references share no definition with the scan but the syntax. RustBodies
evaluates a body with the value of each name known, over all of its branches,
and gives the sends it makes. RustNames is the least fixpoint of what Rust's
rules give each name in each module of a crate, and `Accepted` tells which
crates rustc compiles.

## 3. Runs

| Run | Instance | Question |
|---|---|---|
| `mail` | timed tell, ask, stop, one stream; mailbox of 2 | results, fates and dead letters agree; a freed slot goes to who waits for it; the select! serves its branches in order; the actor is quiet once it is seen dead or refuses a send; refinement of MessageContract |
| `live` | tell_priority, ask_priority, stop; fair | the graceful drain handles what was in; a priority send is refused only once the stop has begun; a kill ends the task; asks and sends return; a stop or the last drop ends it |
| `blocking` | blocking_ask from a thread, any call of its handler, any other call; both flavors; fair | no driver is parked, the outcome tells the fate, each failure leaves one letter; refinement of MessageContract; calls end, kills get through |
| `asks_ring` | A asks B, B asks D, D asks A, A asks itself | a panic means a deadlock, and no deadlock goes unnoticed; refinement of AskDetector |
| `asks_return` | A asks B twice, B asks A by priority; fair | one entry per ask; every ask let through returns |
| `parts` | every graph of 3 actors; 3 handles; 2 recordings; every shape of handler | the search answers as reachability does, with bounded work; a dead actor stays dead; the metrics are consistent; what the macro writes fits the methods it calls |
| `graph` | bodies that bind and send in many ways, crates of 3 modules, 13 command lines on 3 workspaces | edges are sends and sends are edges or reports; names mean what Rust says; nothing is lost up to the drawing; Graphviz neither hangs nor truncates |
| `ask_hang`, `ask_lost` | one call | disagreements of section 6 |
| `phantom_cycle` | A asks B by priority, B asks A | a disagreement of section 6 |
| `self_send` | as `blocking` | a disagreement of section 6 |
| `glob_cycle` | the root and two modules it globs | a disagreement of section 6 |

The inductive invariants of the proofs (`IInv`, `BlockInv`, `WaitInv`, `MetricsInv`,
`ExpInv`, `OutputInv` and those of the other modules) were tried as invariants of
these instances before they were proved. No run lists them now: a proof covers
every instance, and the runs keep to what the proofs are for.

Bounds. Every call is one future used once, so the calls of a run bound it.
`PRIORITY_CHANNEL_CAPACITY` is 1 in the code. A mailbox of one slot is enough
for a sender to queue, be granted, be cancelled while granted and be woken by
close, and three calls are enough for one to be in the handler, one in the slot
and one in the queue. Order within a mailbox needs two slots: run `mail`, where
the third sender waits.
`passed` counts without a bound in the model; that it stays at one is a
property. One stream is enough to be overtaken and to overtake. All the runs
let hooks fail, panic and be aborted at every await, and kills and the drop of
the references come at any time. A finished system stops, so deadlock is not
checked; the liveness runs say what must be reached.

In `blocking` one call keeps the actor busy, one is made by its handler, and a
third competes for the one slot. Every method, context, deadline, runtime flavor
and build comes up in the latter two; a second self-send is not needed for one
to find the mailbox full.

A cycle of asks needs two actors at least, and a ring of three is the first one
that the callee's own edges do not show. Two asks with the same ends are what
makes the graph a multiset. `asks_ring` bounds by `MaxOut` how many actors are
stopping, unwinding or down at a time, at two of three; the other runs have no
such bound.

In `parts`: three actors with up to two asks each, so that paths branch, meet
and leave a dead end; three handles, so that two calls race one drop; two
recordings with durations 1 and 9 against a `MaxU64` of 7, so that sums wrap and
durations saturate, and clocks 0 and 2, as the epoch itself is a time; every
kind of parameter, receiver, generic, predicate and attribute of a handler on
its own and next to a second item that comes under the same or another of two
features. The components share no state, and a behaviour is one of a single
component.

In `graph` a body is one of 28 bindings, one of 6 after it, and then every one of
the 26 ways to send; what a binding does to the sends after it comes up for each
pair. The 2160 crates of a root and two modules combine six, six and five sets of
imports with what each module declares: named, renamed and grouped imports,
globs, globs of globs, `super`, a nested module, a name that hides one of the
prelude. The seventh set, a named import from the root that globs back, is the
one of `glob_cycle` and left out of the passing run. Thirteen command lines with a
focus, a depth, grouping, `holds` and each format run against a workspace
with a package at its root, without one, and with `--manifest-path`. Texts of
three chunks and pipes of one are enough for both pipes to be full with more to
come; the theorems have no such bound.

Fairness, in `live`: weak fairness of the task's steps (tokio polls a ready
task; hooks and handlers are assumed to return, as the documentation demands of
them), of a woken sender's poll, of the push (it is in the same poll as the
permit) and of the receipt of a reply. Nothing is assumed of deadlines, kills,
cancellations, or of the users who drop their references.

Fairness, in `asks_return`: each ask makes the progress it can by itself
(`Progress`; strong fairness, as another thread may take the mutex or the slot
meanwhile, and tokio's semaphore and the mutex serve who queues), a hook returns
once its asks are over, and an actor that stops or unwinds comes to its end.
Nobody has to ask, to give up, to stop or to crash. None of the steps of one ask
can repeat for ever, so fairness to their disjunction is fairness to each.

Fairness, in `blocking`: the operating system schedules threads, so the call's
own code runs; a runtime whose driver is free polls what is ready; a handler that
is not inside a call returns. Timers fire: without `TimeOut`, a timed self-send
would wait for ever. Kills, cancellations and the calls themselves are not
assumed.

## 4. What the properties say

* `OutcomeMatchesFate`: Ok, Send, Timeout and Receive mean what they say of the
  message, on both sides of every race.
* `NoDoubleCount`, `NoSilentLoss`: the accounting of dead letters. `raced` marks
  the one excuse the documentation makes.
* `NoLostWakeup`: an open mailbox never holds more than its capacity, and no sender
  sleeps while a slot is free, whoever gives the slot back: the task that pops, or
  a caller that gives up between its grant and its next poll.
* `ServedOnceBelow`: while anything waits at a higher branch, at most one
  message or event of a lower branch is served.
* `GracefulDrain`: what the stop owed the priority channel was handled, unless
  a sender stalled between permit and push for the whole quiet period.
* `StoppedIsQuiet`: `is_alive` turns false (on either of its two channels),
  `wait_stopped` resolves and a send to the regular mailbox gets `Error::Send` only
  after the last hook. A priority send gets it earlier, while a graceful stop still
  drains and runs `on_stop`, but never while the loop serves.
* `KillEnds`, `StopEnds`, `AskReturns`, `SendReturns`: liveness.
* `ImplementsContract`: the refinement of MessageContract, by the async calls in
  `mail` and by the blocking ones in `blocking`.
* `DriverNeverParks`: the only thread that drives the actor is never parked by a
  blocking call.
* `OutcomeTellsFate`, `OneLetterPerFailure`: the accounting of the blocking
  family, a dedicated thread that does not start included.
* `CallEnds`, `KillObserved`: every call ends and every kill is observed,
  whatever thread waits where. The self-hang that the documentation announces
  is the one exception for both, and is gone with deadlock detection.
* `EdgesMatchAsks`: whoever takes the mutex finds an entry for every ask that
  both owners keep and none for an ask one owner is done with, so no owner
  takes out another ask's edge.
* `NoDeadlockedSet`: no set of actors waits on itself through tracked asks.
* `ImplementsDetector`: the check and the insertion are one step, and an edge
  leaves once, when nobody waits on it any more, though the map only counts
  edges and the two owners of each are dropped on two threads.
* `PanicIsDeadlock`: a refused ask would have closed a cycle of actors that
  wait, or are just giving up, at that very moment.
* `TrackedAskReturns`: what the detector lets through comes back.
* `AnswerIsReachability`, `PathIsReal`, `WorkIsLinear`: the search is right, the
  path in the panic message is a simple cycle of edges that exist, and no edge
  is followed twice while the process-wide mutex is held.
* `DeadIsFinal`: once any handle has been told that the actor is dead, no call
  that begins later, on any handle, is told otherwise, though each call looks at
  several counts one after the other.
* `NobodyLeftBehind`: a loop that left because it had no senders left no
  `ActorRef` behind, and no upgrade makes one.
* `SidesAgree`: an upgrade that races the last drop may lose a secondary channel,
  but only when nobody else has it.
* `AverageWithinMax`, `QuietReadIsExact`: what a snapshot may not say even when
  it races the recordings, and what it must say when it does not.
* `GeneratedFits`: each impl that the macro writes calls a method that is compiled
  in, takes no type, constant, `impl Trait` or lifetime predicate from it, has the
  other predicates its call needs and logs only a reply that there is. It does
  not say that the compiler takes every block the macro lets through: see
  section 7.
* `EdgesAreTrue`, `NoSendVanishes`: the graph is neither wrong nor silent. The
  reference is the independent evaluation of the body.
* `NamesAreRust`: names, on every crate that rustc accepts.
* `FocusIsNeighbourhood`, `NothingHidden` (which has `EdgesHaveNodes` and
  `EdgesAreDrawn` for its parts): no node or edge is lost or invented between
  the scan and the drawing.
* `NeverStuck`, `SvgIsComplete`: the pipes to Graphviz.

## 5. Proofs

`ActorRuntime_proofs` proves `TypeCorrect`, `Spec => []TypeOK`, for any calls,
capacities and streams. Its assumptions are the named ones of ActorRuntime:
what the API allows a call to be, capacities of at least one. The argument is
one step per action, with lemmas for the operators that several actions share
(`GrantHead` and `PopWaiter`, `Record`, `Closed`). What appending, popping and
withdrawing do to a mailbox or to a semaphore's queue is in `Queues_proofs`, for
this proof and for those of BlockingCalls, with the sums that count slots.

The module goes on to `InvCorrect`, `Spec => []IInv`. None of the properties is
inductive: that a caller's `Ok` agrees with its message's fate follows only from
where the envelope is. `IInv` therefore says, in named parts, that a call is
queued on a semaphore exactly when its sender waits, that it is in a buffer
exactly once while its fate says so, that the envelope in the handler's hands is
the running one, that each record in `letters` was made by the one party
entitled to it, which receivers are closed at each place of the task, how far
the select! has gone past a branch that was ready, and how the slots of an open
mailbox divide (`SlotsAccounted`), and that whoever got `Error::Send` had found
its receiver closed, which then never opens again (`RefusedIsClosed`). There is
one lemma per part, with one step per action. From it follow `OutcomeCorrect` (`OutcomeMatchesFate`),
`CountCorrect` (`NoDoubleCount`), `LossCorrect` (`NoSilentLoss`),
`OvertakingCorrect` (`ServedOnceBelow`), `DrainCorrect` (`GracefulDrain`),
`QuietCorrect` (`StoppedIsQuiet`) and `WakeupCorrect` (`NoLostWakeup`).

`SlotsAccounted` needs cardinalities: the envelopes in an open mailbox and the
permits out for it are together at most its capacity, and while fewer, nobody is
queued. A slot that is given back, by a pop or by a sender that gives up, goes to
the head of the queue, after which all are taken again: stated once (`GivesSlot`,
`SlotHandedOn`) for all who give one back. A step at another mailbox leaves this
one's permits alone (`GrantElsewhere`), and a receiver once closed does not open
again (`OpenStays`).

`ContractCorrect`, in the same module, is `Spec => ImplementsContract`. Each step
of the task, of a caller or of a holder of references is one step of
MessageContract or a stutter: the push is an `Admit`; a refusal, or giving up
before the push, a `Withdraw`; the start of a handler a
`Run`, its end a `Finish`; leaving the loop for the shutdown drain `GoDown`;
what the drain or the drop of a receiver takes away a `Discard`; a reply, or
giving up on one, an `Answer`. The conditions of the contract's step follow from
`IInv` alone: that the message of a push is still unsent, that a handler starts
while no other runs, that a message is lost only when the actor is down.

`MessageContract_proofs` says what the contract is worth. `PromisesKept` (`Spec =>
[]Promises`): handlers run one at a time and only while the actor is up, nothing is
lost while it is up, the answers fit, and an admitted message waits exactly once,
in its own mailbox. `NobodyOvertakes` (`Spec => NoOvertaking`): whoever was admitted
to a mailbox earlier and waits is served earlier, because a step can only take
first messages out or add a last one (`BoxesShift`). Through the refinement both
hold of ActorRuntime: `PromisesHold` and `PushOrderHolds`, which is the FIFO order
of pushes past the semaphore, the select!, the drains and the cancellations.
No run lists them, as `mail` checks the refinement that they follow from. The
contract's theorems have no hypothesis on what a call is: its kind and its mailbox
change only while its message is new (`MailboxKept`).

`BlockingCalls_proofs` proves `InvCorrect`, `Spec => []BlockInv`, for any calls,
requests and capacities. A call's outcome agrees with its message's fate because
a message that has not been pushed is still `unsent` at every stage before
(`StageBoundsFate`), and because only waiting calls are queued on a semaphore
(`QueuedWait`) and nobody is once it closed (`DownHasNoWaiters`), so that a
permit is never granted to a call that has returned. The steps are sorted by who
moves: the call itself (`OwnCall`), or another (`BystanderOK`), to which a step
can do no more than grant it a permit and move its message on. From `BlockInv`
follow `NoParkedDriver` (`DriverNeverParks`), `OutcomeCorrect`
(`OutcomeTellsFate`) and `LettersCorrect` (`OneLetterPerFailure`).

`WakeupCorrect` there is `Spec => []NoLostWakeup`, the counterpart of ActorRuntime's
for callers whose deadlines fire on threads of their own. It adds to `BlockInv`
that the slots of each mailbox are accounted for (`SlotsAccounted`), with one lemma
for each thing that happens to a slot: taken, awaited, filled by the push, popped,
given up. No run lists it; it was tried on the instance of `blocking`.

`ContractCorrect` there is `Spec => ImplementsContract`, from `BlockInv` and the
same theorems on queues. A `Begin` is a `Make`, a push an `Admit`. The dispatch to
a thread (`WaitHere`, `SpawnWorker`, `PollFirst` and so on) stutters, or fails
before the push and is a `Withdraw` (`CallerMoves`, `CallerMaps`): that needs
`StageBoundsFate`, as the contract lets nobody withdraw what was admitted.
`PromisesHold` and `PushOrderHolds` follow for the blocking calls as they do for
the async ones.

`WaitForGraph_proofs` proves `WaitInvCorrect`, `Spec => []WaitInv`, for any
actors and finitely many asks. The heart is `EntriesCounted`: each entry of the
graph counts the asks whose edge was put in and not taken out, which holds
through the moment between the swap of the flag and the removal because that
owner then holds the lock. `GraphAcyclic` is kept by `Register`: were there a
set of actors each with a successor in it, the new edge would lie on a path back
(`Reaches`), which `ClosesCycle` refuses. As every waiting ask's edge is in the
graph, `NoDeadlockCorrect` (`NoDeadlockedSet`) follows, and `EdgesCorrect`
(`EdgesMatchAsks`) by counting.

`DetectorCorrect` is `Spec => ImplementsDetector`. Whatever is being dropped
meanwhile, the pairs that the graph counts are the abstract edges (`EdgesAreIn`,
from `EntriesCounted`), so that the check of the key and the search answer what
`WouldClose` asks (`CheckIsSearch`), and `Register` is an `Enter`, `Refuse` a
`Refuse`. The code removes any entry of the pair; `Erase` is still the `TakeOut`
of one ask, because only the owner that set the flag erases (`EraseTakesOut`),
and one that nobody waits on, because an owner is dropped only after the caller
left, the reply was sent or the envelope is gone (`ErasedIsLeft`). Everything
else is a stutter or ends waits (`OtherStops`): no step but `Register` makes an
ask hold its caller up (`WaitsEnd`), as a channel that closed stays closed
(`ClosedStays`).

`PanicCorrect` (`PanicIsDeadlock`) assumes that no ask goes through a priority
channel, without which `phantom_cycle` refutes it. A guard lives only in a hook
(`GuardInHook`), and a task that answered an ask does nothing else before it has
dropped the token (`AnsweredOnce`). So an actor in a hook has answered none of
the asks whose edges lead to it, and the edges of a path back to the caller, who
is in a hook, belong to asks that hold up theirs.

`PathSearch_proofs` proves `SearchInvCorrect` and from it `AnswerCorrect`
(`AnswerIsReachability`), on every graph: what was visited leads only to what
was visited or is on the stack, so that an empty stack leaves a closed set
without the target. `PathCorrect` (`PathIsReal`) adds that each path on the stack
is a simple path whose nodes but the last were visited in order, and `WorkCorrect`
(`WorkIsLinear`) that every path that was pushed, one for the start and one for
each entry of a visited node, was popped or is still on the stack.

The first part of `Parts_proofs` proves, for any number of handles, `DeadStaysDead`
(`DeadIsFinal`), `LoopLeavesNobody` (`NobodyLeftBehind`) and `HandlesAgree`
(`SidesAgree`). The invariant `HandlesInv` says which senders a slot holds at
each step of what it does. The heart is `Final`: once a call has been refused,
one of the two primary channels has no sender and none of the calls under way can
give it one, because an upgrade takes the two in the order in which a drop lets go
of them (`HalfOK`).

The part of `Parts_proofs` on the metrics proves `MetricsInvCorrect`, `MetricsSpec
=> []MetricsInv`, for any durations, clocks and number of recordings. From it follow
`AverageCorrect` (`AverageWithinMax`) and `QuietReadCorrect` (`QuietReadIsExact`).
The invariant says of the last value of each atomic what it tells of the work
completed, as far as that fits (`CountsWork`), that a maximum never falls
(`MaximaRise`), and that what a read has loaded was found there, the maximum at
least (`LoadsWereFound`). The sum is at most the number times the longest, so an
exact mean is never clamped: the clamp that keeps a racing read within its
maximum does not falsify a quiet one.

The part on the macro proves `GeneratedCorrect`, `ExpSpec => []GeneratedFits`,
for any set of blocks that keep those two rules of Rust. `ExpInv` says that each impl written so far
fits a method of the block that has the same `cfg`s (`EveryImplMatches`), and
that the block put out has no mark left (`NoMarkIsLeft`): the clean-up takes the
marks away and nothing that an impl relies on.

`GraphOutput_proofs` proves four properties of `OutputSpec`, for any graph, focus
and depth and for texts and pipes of any size. `FocusCorrect` (the action property
`FocusIsNeighbourhood`) compares the search with walks in the graph: `Ball(out,
start, d)` is what a walk of at most `d` edges leads to, `BallStep` that the next
ball is this one and its neighbours, and `Measured`, in the invariant `OutputInv`,
that below the level looked at the distances are those of the balls.
`DrawingCorrect` (`NothingHidden`) holds of any graph whose edges join its nodes,
because the drawing merges both ends of an edge as it merges the nodes. `PipeNeverStuck` (`NeverStuck`) and
`SvgReturnedIsComplete` (`SvgIsComplete`) follow from what was fed being what was
taken and what the pipe holds, and so for the output. That the scan hands
over such a graph is what run `graph` adds: it checks the same four properties on
every run of the tool, the scan included.

Only model-checked: liveness under fairness (`KillEnds`, `StopEnds`, `AskReturns`,
`SendReturns`, `CallEnds`, `KillObserved`, `TrackedAskReturns`), which is out of
the prover's reach; and `EdgesAreTrue`, `NoSendVanishes` and `NamesAreRust`, which
compare two evaluations that are recursive over the syntax of a program: a proof
would be an induction over it.

## 6. Where the code and its documentation differ

* `ask_hang`: an `ask` that took its permit before the mailbox closed and pushed
  after the receiver was dropped waits for ever. The envelope holds an
  `ActorRef`, which keeps the channel with the envelope and the reply's sender
  alive. `actor.rs:44` says a waiting ask is woken.
* `ask_lost`: an `ask` swept by the drain while its caller waits, and then
  cancelled, leaves no record. `dead_letter.rs:157` promises one of two.
* `phantom_cycle`: `ask_priority` puts its edge in the graph before its send. If
  a graceful stop has closed the callee's priority channel, the send fails at
  once, but a drained handler or `on_stop` of the callee that asks back before
  the edge is gone panics, though nobody would have waited. `deadlock.rs:17`
  says what an edge means, and `deadlock.rs:96` that the graph is consistent
  whenever a registration can observe it.
* `self_send`: `panic_if_self_send_on_full` panics whenever `try_send` finds no
  room. The last slot may be a permit granted to a queued sender that is not
  polled yet; if that sender has a deadline or is aborted, the slot comes back
  while the handler waits. `actor_ref.rs:676` calls it a guaranteed deadlock.
* `glob_cycle`: with `use p::*; use q::*;` in the root, `T` in `q` and
  `use super::T;` in `p`, the lookup of `T` goes round to the root, where the
  guard against cycles answers "not found". `resolve.rs:548` takes a path that is
  not found for one of an external crate, so `T` is judged, with certainty, to be
  one from a crate `super`. Rust resolves it to `q`'s. The tool's `README.md:149`
  says that what cannot be judged is reported.

Smaller ones, without a run:

* A `kill()` enqueued before the stop signal is dequeued, but after the terminate
  branch was polled, is not observed. `actor_ref.rs:1478` ties the exception to a
  stop already dequeued.
* An `upgrade` that races the last drop may return an `ActorRef` without its
  priority or idle channel, whose `has_priority_channel` then denies what the
  actor was spawned with. The comment in `upgrade` calls the check that allows
  this best-effort; `SidesAgree` says that nobody is misled.

## 7. Not modelled

* Handlers that never return: hooks are assumed to return, and in WaitForGraph
  to do so once their asks are over.
* The detector's blind spots: asks made off the actor's task, and ask futures
  kept from one hook to the next. BlockingCalls knows only the cycle of an actor
  that asks itself; longer ones are in WaitForGraph.
* A panic on the dedicated thread of a blocking call (`Error::Runtime` with the
  panic's text), a runtime without a time driver, `LocalSet`, and worker pools so
  small that `block_in_place` runs out of threads.
* Message payloads, types (`Downcast` cannot happen through the typed API),
  tracing, formatting.
* Spawning: the capacity is looked up in a chain of defaults whose only state is
  a set-once cell. `ActorResult`: predicates over the result that ActorRuntime
  gives. Type-erased handles: each method is a call of the `ActorRef` method of
  the same name. Errors: which error is returned is a caller's stage; the rest
  is text.
* Metrics: the uptime, a difference of two clock readings.
* Derive macros: `derive(Actor)`, which writes the same impl for every type; the
  words of the errors. No property says of these that the compiler takes them, and
  it does not: a message or a reply that names a lifetime of the method, which the
  impl does not declare (`lib.rs:494` leaves lifetimes alone), and a reply that is
  called Result, or said by `result` to be one, and is not (`lib.rs:430`, which
  gives `no_log` for it). The macro sees no types, so it cannot tell them from the
  right ones.
* rsactor-graph: parsing, which is the `syn` crate's; the command line's own
  parsing (`main.rs:53-104`); the words of the report and the quoting of the
  formats; modules, constants and macros declared as items inside a body; a
  leading `::` on the path of a trait, the value of a `break`.
* rsactor-graph reads a few programs otherwise than Rust does, in ways a syntactic
  scan is bound to, and the instances of MCActorGraph keep off them: a block that
  is a value and has a `use` of its own; a function declared inside a body that
  shadows one of the module; a parameter that is a `MutexGuard` of an `ActorRef`;
  a method call between an adapter and its closure; type arguments of declared
  types, which comparison keys leave out; a `--focus` that names one actor by
  its full path and another by its trailing segments; actor types whose `impl`
  comes before what makes them actors.

## 8. Plan

Done: `ActorRuntime` with its runs, invariant and safety theorems;
`MessageContract` and its two refinements, `AskDetector` and its refinement by
`WaitForGraph`, as theorems; `BlockingCalls`, `WaitForGraph`, `PathSearch`,
`WeakRefs`, `MetricsCollector` and `HandlerExpansion` with their theorems;
`rsactor-graph` from the command line to the drawing, with theorems from the
finished graph on. Every safety property that a passing run checks is a theorem
but for the three of section 5.
