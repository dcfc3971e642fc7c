---------------------------- MODULE BlockingCalls ----------------------------
(***************************************************************************)
(* The blocking_* family of ActorRef, seen from the threads: which thread  *)
(* makes the call, which thread waits for it, and what that wait stops.    *)
(*                                                                         *)
(* One actor and its runtime of either flavor.  A call is made from the    *)
(* actor's own handler, from another task of the runtime, from a thread of *)
(* its spawn_blocking pool, or from a plain thread.  Depending on that, it *)
(* completes by try_send, waits in place through block_in_place, waits on  *)
(* a dedicated thread with a runtime of its own, parks the thread inside   *)
(* tokio's blocking_send/blocking_recv, or panics.  An async tell has the  *)
(* same try_send hot path, and shares the mailbox with the others.         *)
(***************************************************************************)
EXTENDS Naturals, FiniteSets, Queues

CONSTANTS
    Calls,      \* the calls made on the actor's ActorRefs
    Reqs,       \* Reqs[c]: the requests c may be
    Cap,        \* Cap["mail"], Cap["prio"]: capacities of the two mailboxes
    Null        \* no handler, no call

Mailboxes == {"mail", "prio"}
Ops == {"tell", "blocking_tell", "blocking_ask",
        "blocking_tell_priority", "blocking_ask_priority"}
PrioOps == {"blocking_tell_priority", "blocking_ask_priority"}
Contexts == {"handler", "task", "pool", "thread"}

\* A method, the thread it is called from, and whether it has a deadline: an
\* async tell needs a task to poll it, the priority methods demand a deadline.
Requests ==
    {r \in [op : Ops, ctx : Contexts, timed : BOOLEAN] :
       /\ r.op = "tell" => r.ctx \in {"handler", "task"}
       /\ r.op \in PrioOps => r.timed}

ASSUME ParameterAssumption ==
    /\ Null \notin Calls
    /\ Reqs \in [Calls -> SUBSET Requests]
    /\ Cap \in [Mailboxes -> Nat \ {0}]

VARIABLES
    flavor,     \* RuntimeFlavor of the runtime that drives the actor
    detect,     \* the crate is built with deadlock-detection
    hasPrio,    \* SpawnOptions::with_priority
    loop,       \* the actor's task: in its select!, in a handler, or gone
    cur,        \* the call whose handler is running
    inner,      \* the last call that handler made
    killed,     \* the Terminate signal was sent
    buf,        \* the envelopes in each mailbox
    waitq,      \* the senders queued on each mailbox's semaphore
    req,        \* what each call is: method, context, deadline
    stage,      \* how far each call is
    fate,       \* where each call's message is
    letters     \* the dead letters the caller's side recorded, per call

rtVars == <<flavor, detect, hasPrio>>
actorVars == <<loop, cur, inner, killed>>
mailVars == <<buf, waitq>>
callVars == <<req, stage, fate, letters>>
vars == <<rtVars, actorVars, mailVars, callVars>>

-----------------------------------------------------------------------------
(* Values *)

NoRequest == [op |-> "tell", ctx |-> "task", timed |-> FALSE]

\* called: the method was entered; full: try_send found no room; worker: the
\* dedicated thread runs and has no runtime yet; poll: the send future is about
\* to be polled first; wait, granted: queued on the semaphore, handed a permit;
\* permit: past the semaphore, about to push; awaiting: the reply.
Busy == {"called", "full", "poll", "permit"}
Waits == {"worker", "wait", "granted", "awaiting"}
InCall == Busy \cup Waits
Panics == {"panicGuard", "panicDeadlock"}
Returned == {"ok", "errSend", "errReceive", "errTimeout", "errRuntime",
             "errNotEnabled", "cancelled"}
Stages == {"idle"} \cup InCall \cup Panics \cup Returned

Fates == {"unsent", "queued", "started", "handled", "lost", "leaked"}
Reasons == {"ActorStopped", "Timeout", "ReplyDropped", "RuntimeUnavailable"}

IsAsk(c) == req[c].op \in {"blocking_ask", "blocking_ask_priority"}
IsAsync(c) == req[c].op = "tell"
OnPrio(c) == req[c].op \in PrioOps
Chan(c) == IF OnPrio(c) THEN "prio" ELSE "mail"

\* Code that runs on the thread that drives the runtime's tasks.
OnDriver(c) == req[c].ctx \in {"handler", "task"}

\* current_multi_thread_handle() answers Some.
InMultiThread(c) == flavor = "multi_thread" /\ req[c].ctx # "thread"

\* The only thread of a current_thread runtime is inside this call: a blocking
\* method until it returns, an async one until its poll returns.
HoldsDriver(c) ==
    /\ flavor = "current_thread" /\ OnDriver(c)
    /\ stage[c] \in IF IsAsync(c) THEN Busy ELSE InCall
DriverFree == \A c \in Calls : ~HoldsDriver(c)

\* The code of the call itself may run: on its own thread, or polled by a
\* driver that is not inside another call.
MayRun(c) == IsAsync(c) => (HoldsDriver(c) \/ DriverFree)

Permits(ch) ==
    {c \in Calls : stage[c] \in {"granted", "permit"} /\ Chan(c) = ch}
Free(ch) == Cap[ch] - Len(buf[ch]) - Cardinality(Permits(ch))
HasRoom(c) == loop # "down" /\ Free(Chan(c)) > 0
IsFull(c) == loop # "down" /\ ~(Free(Chan(c)) > 0)

\* A permit given back goes to the first queued sender.
GrantHead(ch, st) ==
    IF waitq[ch] = <<>> THEN st
    ELSE [st EXCEPT ![Head(waitq[ch])] = "granted"]
PopWaiter(ch) ==
    IF waitq[ch] = <<>> THEN waitq ELSE [waitq EXCEPT ![ch] = Tail(@)]

\* The handler is not inside a call.
InnerDone == inner # Null => stage[inner] \in Returned

Record(c, reason) == letters' = [letters EXCEPT ![c][reason] = @ + 1]
Become(c, s) == stage' = [stage EXCEPT ![c] = s]

-----------------------------------------------------------------------------
Init ==
    /\ flavor \in {"current_thread", "multi_thread"}
    /\ detect \in BOOLEAN
    /\ hasPrio \in BOOLEAN
    /\ loop = "select" /\ cur = Null /\ inner = Null /\ killed = FALSE
    /\ buf = [ch \in Mailboxes |-> <<>>]
    /\ waitq = [ch \in Mailboxes |-> <<>>]
    /\ req = [c \in Calls |-> NoRequest]
    /\ stage = [c \in Calls |-> "idle"]
    /\ fate = [c \in Calls |-> "unsent"]
    /\ letters = [c \in Calls |-> [r \in Reasons |-> 0]]

-----------------------------------------------------------------------------
(* The calls *)

\* A handler makes one call at a time and does nothing else meanwhile.
Begin(c, r) ==
    /\ stage[c] = "idle" /\ r \in Reqs[c]
    /\ r.ctx \in {"handler", "task"} => DriverFree
    /\ r.ctx = "handler" => loop = "handler" /\ InnerDone
    /\ inner' = IF r.ctx = "handler" THEN c ELSE inner
    /\ req' = [req EXCEPT ![c] = r]
    /\ Become(c, "called")
    /\ UNCHANGED <<rtVars, loop, cur, killed, mailVars, fate, letters>>

\* Mutant: blocking_tell does not look for a self-send.
MutSelfSend(c) ==
    detect /\ req[c].ctx = "handler" /\ ~req[c].timed /\ IsAsync(c)

\* panic_if_self_send_on_full: an unbounded tell of the actor to itself.
SelfSend(c) == detect /\ req[c].ctx = "handler" /\ ~req[c].timed

Disabled(c) == OnPrio(c) /\ ~hasPrio

NotEnabled(c) == Disabled(c) /\ Become(c, "errNotEnabled") /\ UNCHANGED letters

Refused(c) ==
    /\ loop = "down"
    /\ Become(c, "errSend")
    /\ Record(c, "ActorStopped")

\* The tells try first to send without waiting, in every context.
TrySend(c) ==
    /\ stage[c] = "called" /\ ~IsAsk(c) /\ MayRun(c)
    /\ \/ NotEnabled(c)
       \/ ~Disabled(c) /\ Refused(c)
       \/ /\ ~Disabled(c) /\ HasRoom(c)
          /\ Become(c, "permit")
          /\ UNCHANGED letters
       \/ /\ ~Disabled(c) /\ IsFull(c)
          /\ Become(c, IF SelfSend(c) THEN "panicDeadlock"
                       ELSE IF IsAsync(c) THEN "poll" ELSE "full")
          /\ UNCHANGED letters
    /\ UNCHANGED <<rtVars, actorVars, mailVars, req, fate>>

\* The asks, and the tells that found no room, choose how to wait.
Dispatches(c) ==
    \/ stage[c] = "called" /\ IsAsk(c) /\ ~Disabled(c)
    \/ stage[c] = "full"

AskDisabled(c) ==
    /\ stage[c] = "called" /\ IsAsk(c)
    /\ NotEnabled(c)
    /\ UNCHANGED <<rtVars, actorVars, mailVars, req, fate>>

\* Mutant: no check that the calling thread may be parked.
MutMayPark(c) == TRUE

\* assert_current_thread_can_block, and the same check of tokio's own inside
\* blocking_send: a thread that drives tasks must not be parked.
MayPark(c) == ~OnDriver(c)

\* block_in_place hands the worker's tasks to another thread and polls the
\* future here; without a deadline, blocking_send parks the thread.
WaitHere(c) ==
    /\ Dispatches(c)
    /\ InMultiThread(c) \/ (~req[c].timed /\ MayPark(c))
    /\ Become(c, "poll")
    /\ UNCHANGED <<rtVars, actorVars, mailVars, req, fate, letters>>

RefuseToPark(c) ==
    /\ Dispatches(c) /\ ~InMultiThread(c) /\ ~MayPark(c)
    /\ Become(c, "panicGuard")
    /\ UNCHANGED <<rtVars, actorVars, mailVars, req, fate, letters>>

\* The message is dropped with the future, which was never polled.
Unavailable(c) ==
    /\ Become(c, "errRuntime")
    /\ Record(c, "RuntimeUnavailable")

\* run_blocking_on: a deadline needs a timer, so the call is handed to a
\* dedicated thread, whose spawning may fail.
SpawnWorker(c) ==
    /\ Dispatches(c) /\ ~InMultiThread(c) /\ req[c].timed /\ MayPark(c)
    /\ \/ Become(c, "worker") /\ UNCHANGED letters
       \/ Unavailable(c)
    /\ UNCHANGED <<rtVars, actorVars, mailVars, req, fate>>

\* Mutant: both the thread and the join record the loss.
MutBuildRuntime(c) ==
    /\ stage[c] = "worker"
    /\ \/ Become(c, "poll") /\ UNCHANGED letters
       \/ /\ Become(c, "errRuntime")
          /\ letters' = [letters EXCEPT ![c]["RuntimeUnavailable"] = @ + 2]
    /\ UNCHANGED <<rtVars, actorVars, mailVars, req, fate>>

\* The dedicated thread builds its runtime, which may fail too.
BuildRuntime(c) ==
    /\ stage[c] = "worker"
    /\ \/ Become(c, "poll") /\ UNCHANGED letters
       \/ Unavailable(c)
    /\ UNCHANGED <<rtVars, actorVars, mailVars, req, fate>>

\* The ask of an actor to itself is a cycle of one edge; the caller's identity
\* is only known on the thread that runs the handler.
SelfAsk(c) == detect /\ IsAsk(c) /\ req[c].ctx = "handler"

PollFirst(c) ==
    /\ stage[c] = "poll" /\ MayRun(c)
    /\ \/ /\ SelfAsk(c)
          /\ Become(c, "panicDeadlock")
          /\ UNCHANGED <<waitq, letters>>
       \/ /\ ~SelfAsk(c) /\ Refused(c)
          /\ UNCHANGED waitq
       \/ /\ ~SelfAsk(c) /\ HasRoom(c)
          /\ Become(c, "permit")
          /\ UNCHANGED <<waitq, letters>>
       \/ /\ ~SelfAsk(c) /\ IsFull(c)
          /\ Become(c, "wait")
          /\ waitq' = [waitq EXCEPT ![Chan(c)] = Append(@, c)]
          /\ UNCHANGED letters
    /\ UNCHANGED <<rtVars, actorVars, buf, req, fate>>

\* The waiting send is polled again: a closed mailbox is seen before a permit.
PollSend(c) ==
    /\ stage[c] \in {"wait", "granted"} /\ MayRun(c)
    /\ \/ Refused(c)
       \/ /\ stage[c] = "granted" /\ loop # "down"
          /\ Become(c, "permit")
          /\ UNCHANGED letters
    /\ UNCHANGED <<rtVars, actorVars, mailVars, req, fate>>

\* After the receiver is gone nothing pops what a late push leaves behind.
Push(c) ==
    /\ stage[c] = "permit" /\ MayRun(c)
    /\ Become(c, IF IsAsk(c) THEN "awaiting" ELSE "ok")
    /\ IF loop = "down"
       THEN fate' = [fate EXCEPT ![c] = "leaked"] /\ UNCHANGED buf
       ELSE /\ fate' = [fate EXCEPT ![c] = "queued"]
            /\ buf' = [buf EXCEPT ![Chan(c)] = Append(@, c)]
    /\ UNCHANGED <<rtVars, actorVars, waitq, req, letters>>

\* Mutant: a reply channel dropped unanswered passes for an answer.
MutReceiveReply(c) ==
    /\ stage[c] = "awaiting" /\ fate[c] \in {"handled", "lost"}
    /\ Become(c, "ok")
    /\ UNCHANGED <<rtVars, actorVars, mailVars, req, fate, letters>>

ReceiveReply(c) ==
    /\ stage[c] = "awaiting"
    /\ \/ /\ fate[c] = "handled"
          /\ Become(c, "ok")
          /\ UNCHANGED letters
       \/ /\ fate[c] = "lost"
          /\ Become(c, "errReceive")
          /\ Record(c, "ReplyDropped")
    /\ UNCHANGED <<rtVars, actorVars, mailVars, req, fate>>

\* Mutant: the deadline of a tell ends the call and leaves its send queued.
MutTimeOut(c) ==
    /\ req[c].timed /\ stage[c] \in {"wait", "granted", "awaiting"} /\ MayRun(c)
    /\ Become(c, "errTimeout")
    /\ Record(c, "Timeout")
    /\ UNCHANGED <<rtVars, actorVars, mailVars, req, fate>>

\* The waiting future is dropped: a permit it was handed goes to the next
\* sender.
GiveUp(c, outcome) ==
    /\ stage[c] \in {"wait", "granted", "awaiting"} /\ MayRun(c)
    /\ LET st == [stage EXCEPT ![c] = outcome] IN
       IF stage[c] = "granted"
       THEN stage' = GrantHead(Chan(c), st) /\ waitq' = PopWaiter(Chan(c))
       ELSE /\ stage' = st
            /\ waitq' = [waitq EXCEPT ![Chan(c)] = Without(@, c)]
    /\ UNCHANGED <<rtVars, actorVars, buf, req, fate>>

\* The deadline elapses before the send or the reply.
TimeOut(c) == req[c].timed /\ GiveUp(c, "errTimeout") /\ Record(c, "Timeout")

\* The task that awaits an async tell is aborted, or its select! drops it.
Cancel(c) == IsAsync(c) /\ GiveUp(c, "cancelled") /\ UNCHANGED letters

-----------------------------------------------------------------------------
(* The actor's loop *)

\* Where the loop takes its next message: the priority channel comes first.
Source == IF buf["prio"] # <<>> THEN "prio" ELSE "mail"

Take ==
    /\ loop = "select" /\ DriverFree /\ ~killed /\ buf[Source] # <<>>
    /\ loop' = "handler" /\ cur' = Head(buf[Source]) /\ inner' = Null
    /\ buf' = [buf EXCEPT ![Source] = Tail(@)]
    /\ stage' = GrantHead(Source, stage)
    /\ waitq' = PopWaiter(Source)
    /\ fate' = [fate EXCEPT ![Head(buf[Source])] = "started"]
    /\ UNCHANGED <<rtVars, killed, req, letters>>

\* The handler returns only once the call it made has returned.
HandlerReturns ==
    /\ loop = "handler" /\ DriverFree
    /\ InnerDone
    /\ loop' = "select" /\ cur' = Null /\ inner' = Null
    /\ fate' = [fate EXCEPT ![cur] = "handled"]
    /\ UNCHANGED <<rtVars, killed, mailVars, req, stage, letters>>

\* The task is over: the receivers are dropped with what is queued in them, the
\* envelope being handled is unwound, and queued senders are woken.
GoDown ==
    /\ loop' = "down" /\ cur' = Null /\ inner' = Null
    /\ fate' = [c \in Calls |-> IF fate[c] \in {"queued", "started"}
                                THEN "lost" ELSE fate[c]]
    /\ buf' = [ch \in Mailboxes |-> <<>>]
    /\ waitq' = [ch \in Mailboxes |-> <<>>]
    /\ UNCHANGED <<rtVars, killed, req, stage, letters>>

ObserveKill == loop = "select" /\ DriverFree /\ killed /\ GoDown
Unwind == loop = "handler" /\ inner # Null /\ stage[inner] \in Panics /\ GoDown

Kill ==
    /\ ~killed /\ loop # "down"
    /\ killed' = TRUE
    /\ UNCHANGED <<rtVars, loop, cur, inner, mailVars, callVars>>

-----------------------------------------------------------------------------
CallStep(c) ==
    \/ TrySend(c) \/ AskDisabled(c) \/ WaitHere(c) \/ RefuseToPark(c)
    \/ SpawnWorker(c) \/ BuildRuntime(c) \/ PollFirst(c) \/ PollSend(c)
    \/ Push(c) \/ ReceiveReply(c) \/ TimeOut(c)

LoopStep == Take \/ HandlerReturns \/ ObserveKill \/ Unwind

Next ==
    \/ \E c \in Calls, r \in Requests : Begin(c, r)
    \/ \E c \in Calls : CallStep(c) \/ Cancel(c)
    \/ LoopStep
    \/ Kill

Spec == Init /\ [][Next]_vars

\* Threads are scheduled, a runtime with a free driver polls what is ready,
\* timers fire, and a handler that is not inside a call returns.
Fairness == WF_vars(LoopStep) /\ \A c \in Calls : WF_vars(CallStep(c))

FairSpec == Spec /\ Fairness

-----------------------------------------------------------------------------
(* Properties *)

\* Every variable stays in its set: the stages of a blocking_* call, the states
\* of the loop and of the two mailboxes.
TypeOK ==
    /\ flavor \in {"current_thread", "multi_thread"}
    /\ detect \in BOOLEAN
    /\ hasPrio \in BOOLEAN
    /\ loop \in {"select", "handler", "down"}
    /\ cur \in Calls \cup {Null}
    /\ inner \in Calls \cup {Null}
    /\ killed \in BOOLEAN
    /\ buf \in [Mailboxes -> Seq(Calls)]
    /\ waitq \in [Mailboxes -> Seq(Calls)]
    /\ req \in [Calls -> Requests]
    /\ stage \in [Calls -> Stages]
    /\ fate \in [Calls -> Fates]
    /\ letters \in [Calls -> [Reasons -> Nat]]

\* No blocking call ever waits on the thread that drives a current_thread
\* runtime: it would freeze every actor there, and not even kill() could break
\* the silence.  What the panic of assert_current_thread_can_block is for.
DriverNeverParks ==
    \A c \in Calls : HoldsDriver(c) => stage[c] \in Busy

\* What the caller is told is what happened to its message, on every path: an
\* error or a panic before admission means it was never sent, a tell's timeout
\* that it was never delivered, an answered ask that it was handled.
OutcomeTellsFate ==
    \A c \in Calls :
      /\ stage[c] \in {"errSend", "errRuntime", "errNotEnabled"} \cup Panics
           => fate[c] = "unsent"
      /\ stage[c] \in {"errTimeout", "cancelled"} /\ ~IsAsk(c) => fate[c] = "unsent"
      /\ stage[c] = "errReceive" => fate[c] = "lost"
      /\ stage[c] = "ok" => fate[c] # "unsent"
      /\ stage[c] = "ok" /\ IsAsk(c) => fate[c] = "handled"

\* A failed call leaves one dead letter, of the reason that fits its error, on
\* whichever thread it was waiting; success, a panic and the configuration
\* error leave none.
Fits(r, s) ==
    \/ r = "ActorStopped" /\ s = "errSend"
    \/ r = "Timeout" /\ s = "errTimeout"
    \/ r = "ReplyDropped" /\ s = "errReceive"
    \/ r = "RuntimeUnavailable" /\ s = "errRuntime"
OneLetterPerFailure ==
    \A c \in Calls, r \in Reasons :
      letters[c][r] = IF Fits(r, stage[c]) THEN 1 ELSE 0

\* No slot is handed out twice, and a sender waits in the semaphore's queue
\* only while every slot is taken.
NobodyWaitsForFree(ch) ==
    /\ Len(buf[ch]) + Cardinality(Permits(ch)) <= Cap[ch]
    /\ \A c \in Calls : stage[c] = "wait" /\ Chan(c) = ch =>
         InQueue(waitq[ch], c) /\ Free(ch) = 0

\* While the actor is up its mailboxes keep to their capacities, and no sender
\* sleeps beside a free slot, on whichever thread: a deadline that fires between
\* the grant and the next poll hands the permit on, and so does Take.
NoLostWakeup == loop # "down" => \A ch \in Mailboxes : NobodyWaitsForFree(ch)

-----------------------------------------------------------------------------
(* The inductive invariant behind the three safety properties. *)

\* A mailbox buffers exactly the envelopes queued in it, each once.
BufferHoldsQueued ==
    \A ch \in Mailboxes :
      /\ Distinct(buf[ch])
      /\ \A c \in Calls :
           InQueue(buf[ch], c) <=> fate[c] = "queued" /\ Chan(c) = ch

\* Only waiting senders stand in a semaphore's queue, each once.
QueuedWait(wq, st) ==
    \A ch \in Mailboxes :
      /\ Distinct(wq[ch])
      /\ \A c \in Calls : InQueue(wq[ch], c) => st[c] = "wait" /\ Chan(c) = ch

\* Nobody queues on a semaphore that closed with its receiver.
DownHasNoWaiters == loop = "down" => \A ch \in Mailboxes : waitq[ch] = <<>>

OneHandler ==
    /\ loop = "handler" <=> cur # Null
    /\ \A c \in Calls : fate[c] = "started" <=> cur = c

\* What the caller has seen bounds where its message can be.
StageBoundsFate ==
    \A c \in Calls :
      /\ stage[c] \in {"idle", "worker", "wait", "granted"} \cup Busy =>
           fate[c] = "unsent"
      /\ stage[c] = "awaiting" => IsAsk(c) /\ fate[c] # "unsent"

\* How far a call gets on the only thread that drives the actor.
DriverStages ==
    \A c \in Calls : HoldsDriver(c) =>
      \/ IsAsync(c)
      \/ IsAsk(c) /\ stage[c] = "called"
      \/ ~IsAsk(c) /\ stage[c] \in {"called", "full", "permit"}

\* It holds initially, every step of a call and of the loop preserves it, and
\* it implies DriverNeverParks and OutcomeTellsFate: where a call stands in the
\* queues, in the actor and on its thread.
BlockInv ==
    /\ TypeOK
    /\ BufferHoldsQueued /\ QueuedWait(waitq, stage) /\ DownHasNoWaiters
    /\ OneHandler
    /\ StageBoundsFate /\ OutcomeTellsFate /\ OneLetterPerFailure
    /\ DriverStages

-----------------------------------------------------------------------------
(* Temporal properties *)

\* The deadlocks the docs announce, when detection is off: a handler waits with
\* no deadline for its own actor.
SelfHang ==
    /\ loop = "handler" /\ inner # Null /\ stage[inner] \in Waits
    /\ ~req[inner].timed /\ ~detect

\* Every call returns or panics, whatever thread makes it, but for the self-hang
\* and for an ask whose message was pushed after the actor's last drain.
CallEnds ==
    \A c \in Calls :
      stage[c] \in InCall ~>
        (stage[c] \in Returned \cup Panics \/ SelfHang \/ fate[c] = "leaked")

\* kill() is observed whatever blocking calls are under way, but for the
\* self-hang.
KillObserved == killed ~> (loop = "down" \/ SelfHang)

\* panic_if_self_send_on_full calls what it reports "a guaranteed deadlock, not
\* a heuristic": when it fires, nobody may still give a slot back.
SelfSendPanicIsDeadlock ==
    [][\A c \in Calls :
         stage[c] = "called" /\ stage'[c] = "panicDeadlock" =>
           ~\E d \in Permits("mail") :
               stage[d] = "granted" /\ (req[d].timed \/ IsAsync(d))]_vars
=============================================================================
