---------------------------- MODULE WaitForGraph ----------------------------
(***************************************************************************)
(* The deadlock detector of rsActor (feature deadlock-detection): the      *)
(* process-wide wait-for graph behind its mutex, the ask futures that      *)
(* register an edge in it, and the two owners of each edge, the caller's   *)
(* guard and the token in the envelope, of which the first to be dropped   *)
(* removes it.                                                             *)
(*                                                                         *)
(* Each actor's task runs on a thread of its own and is stopped while it   *)
(* drops an owner.  AskEdge::remove_once takes up to three steps: the      *)
(* relaxed read, the swap under the lock, the removal.  The actor's life   *)
(* is reduced to what decides who waits for whom; ActorRuntime has it in   *)
(* full.                                                                   *)
(***************************************************************************)
EXTENDS Naturals, FiniteSets, Reachability

CONSTANTS
    Actors,
    Asks,       \* the asks that hooks and handlers may issue, one future each
    Caller,     \* Caller[c]: the actor in whose hook ask c is made
    Callee,     \* Callee[c]: the actor it is sent to
    Priority,   \* the asks made through ask_priority
    Room,       \* capacity of each mailbox and of each priority channel
    Null        \* nobody holds the lock

Owners == {"guard", "token"}

ASSUME AskAssumption ==
    /\ Caller \in [Asks -> Actors]
    /\ Callee \in [Asks -> Actors]
    /\ Priority \subseteq Asks

ASSUME FiniteAssumption == IsFiniteSet(Asks)

ASSUME NameAssumption ==
    /\ Room \in Nat \ {0}
    /\ Null \notin Asks \X Owners
    /\ Asks \cap {"idle", "hook"} = {}

VARIABLES
    graph,      \* WAIT_FOR: entries for y in the Vec kept under x
    lock,       \* who holds its mutex
    removed,    \* AskEdge::removed of each edge
    own,        \* own[c][o]: where the drop of that owner of c's edge is
    fut,        \* the ask's future
    env,        \* where its envelope is
    answered,   \* the reply was sent, or its sender was dropped
    up,         \* the actor's life: running, unwinding, down
    stopping,   \* a graceful stop closed its priority channel
    busy        \* the envelope its task processes, "hook", or "idle"

edgeVars == <<graph, lock, removed, own>>
askVars == <<fut, env, answered>>
actorVars == <<up, stopping, busy>>
vars == <<edgeVars, askVars, actorVars>>

Futures == {"new", "refused", "sending", "failing", "awaiting", "left"}
Places == {"none", "caller", "queued", "running", "left"}
InDrop == {"drop", "lock", "erase"}
DropStates == {"none", "held", "done"} \cup InDrop

TypeOK ==
    /\ graph \in [Actors -> [Actors -> Nat]]
    /\ lock \in (Asks \X Owners) \cup {Null}
    /\ removed \in [Asks -> BOOLEAN]
    /\ own \in [Asks -> [Owners -> DropStates]]
    /\ fut \in [Asks -> Futures]
    /\ env \in [Asks -> Places]
    /\ answered \in [Asks -> BOOLEAN]
    /\ up \in [Actors -> {"running", "unwinding", "down"}]
    /\ stopping \in [Actors -> BOOLEAN]
    /\ busy \in [Actors -> Asks \cup {"idle", "hook"}]

Init ==
    /\ graph = [x \in Actors |-> [y \in Actors |-> 0]]
    /\ lock = Null
    /\ removed = [c \in Asks |-> FALSE]
    /\ own = [c \in Asks |-> [o \in Owners |-> "none"]]
    /\ fut = [c \in Asks |-> "new"]
    /\ env = [c \in Asks |-> "none"]
    /\ answered = [c \in Asks |-> FALSE]
    /\ up = [a \in Actors |-> "running"]
    /\ stopping = [a \in Actors |-> FALSE]
    /\ busy = [a \in Actors |-> "idle"]

-----------------------------------------------------------------------------
(* Who runs what *)

\* The actor on whose thread an owner is dropped: the caller drops its guard,
\* and the token of an envelope that never left its send.
ThreadOf(c, o) ==
    IF o = "guard" \/ fut[c] = "failing" THEN Caller[c] ELSE Callee[c]

\* No drop of an edge's owner is under way on a's thread.
ThreadFree(a) ==
    \A c \in Asks, o \in Owners : ThreadOf(c, o) = a => own[c][o] \notin InDrop

\* The code of a hook or a handler of a runs, or awaits.
InHook(a) == busy[a] # "idle" /\ ThreadFree(a)

\* Nothing is left of the futures the hook has made: a handler drops the ones
\* it still holds when it returns.
AsksOver(a) ==
    \A c \in Asks : Caller[c] = a =>
        fut[c] \in {"new", "refused"} \/ own[c]["guard"] = "done"

\* The callee's channel takes ask c: the mailbox until the actor is gone, the
\* priority channel until a graceful stop begins.
Open(c) ==
    /\ up[Callee[c]] # "down"
    /\ c \in Priority => ~stopping[Callee[c]]

HasRoom(c) ==
    Cardinality({d \in Asks : /\ env[d] = "queued"
                              /\ Callee[d] = Callee[c]
                              /\ d \in Priority <=> c \in Priority}) < Room

-----------------------------------------------------------------------------
(* The graph *)

Edges == {e \in Actors \X Actors : graph[e[1]][e[2]] > 0}

\* HashMap::contains_key: remove_edge drops a key with its last entry.
HasEdges(a) == \E y \in Actors : graph[a][y] > 0

\* Mutant: only the callee's own edges are looked at.
MutOneStep(a, b) == a = b \/ graph[b][a] > 0
\* Mutant: the pre-check asks for the caller's key.
MutWrongKey(a, b) == a = b \/ (HasEdges(a) /\ Reaches(Actors, Edges, b, a))
ClosesCycle(a, b) == a = b \/ (HasEdges(b) /\ Reaches(Actors, Edges, b, a))

\* ask, before anything is sent: the edge enters the graph, with both owners.
Register(c) ==
    /\ lock = Null
    /\ fut[c] = "new"
    /\ InHook(Caller[c])
    /\ up[Caller[c]] = "running"
    /\ ~ClosesCycle(Caller[c], Callee[c])
    /\ graph' = [graph EXCEPT ![Caller[c]][Callee[c]] = @ + 1]
    /\ own' = [own EXCEPT ![c] = [o \in Owners |-> "held"]]
    /\ fut' = [fut EXCEPT ![c] = "sending"]
    /\ env' = [env EXCEPT ![c] = "caller"]
    /\ UNCHANGED <<lock, removed, answered, actorVars>>

\* The panic of register_ask_edge: the lock is released and the caller's hook
\* unwinds.
Refuse(c) ==
    /\ lock = Null
    /\ fut[c] = "new"
    /\ InHook(Caller[c])
    /\ up[Caller[c]] = "running"
    /\ ClosesCycle(Caller[c], Callee[c])
    /\ fut' = [fut EXCEPT ![c] = "refused"]
    /\ up' = [up EXCEPT ![Caller[c]] = "unwinding"]
    /\ UNCHANGED <<edgeVars, env, answered, stopping, busy>>

-----------------------------------------------------------------------------
(* AskEdge::remove_once, on behalf of owner o *)

\* The relaxed read before the lock: it may miss a flag that is set.
Peek(c, o) ==
    /\ own[c][o] = "drop"
    /\ \E next \in {"lock", "done"} :
          /\ next = "done" => removed[c]
          /\ own' = [own EXCEPT ![c][o] = next]
    /\ UNCHANGED <<graph, lock, removed, askVars, actorVars>>

\* Mutant: the second owner removes an edge as well.
MutClaim(c, o) ==
    /\ own[c][o] = "lock"
    /\ lock = Null
    /\ own' = [own EXCEPT ![c][o] = "erase"]
    /\ lock' = <<c, o>>
    /\ removed' = [removed EXCEPT ![c] = TRUE]
    /\ UNCHANGED <<graph, askVars, actorVars>>

\* The lock and the swap of the flag.
Claim(c, o) ==
    /\ own[c][o] = "lock"
    /\ lock = Null
    /\ IF removed[c]
       THEN /\ own' = [own EXCEPT ![c][o] = "done"]
            /\ UNCHANGED <<lock, removed>>
       ELSE /\ own' = [own EXCEPT ![c][o] = "erase"]
            /\ lock' = <<c, o>>
            /\ removed' = [removed EXCEPT ![c] = TRUE]
    /\ UNCHANGED <<graph, askVars, actorVars>>

\* remove_edge: one entry for the callee, if there is one; then the unlock.
Erase(c, o) ==
    /\ own[c][o] = "erase"
    /\ lock = <<c, o>>
    /\ graph' = [graph EXCEPT ![Caller[c]][Callee[c]] = IF @ = 0 THEN 0 ELSE @ - 1]
    /\ lock' = Null
    /\ own' = [own EXCEPT ![c][o] = "done"]
    /\ UNCHANGED <<removed, askVars, actorVars>>

\* Mutant: the flag is swapped before the lock is taken.
MutSwapFirst(c, o) ==
    \/ Peek(c, o)
    \/ /\ own[c][o] = "lock"
       /\ own' = [own EXCEPT ![c][o] = IF removed[c] THEN "done" ELSE "erase"]
       /\ removed' = [removed EXCEPT ![c] = TRUE]
       /\ UNCHANGED <<graph, lock, askVars, actorVars>>
    \/ /\ own[c][o] = "erase"
       /\ lock = Null
       /\ graph' = [graph EXCEPT ![Caller[c]][Callee[c]] = IF @ = 0 THEN 0 ELSE @ - 1]
       /\ own' = [own EXCEPT ![c][o] = "done"]
       /\ UNCHANGED <<lock, removed, askVars, actorVars>>
RemoveOnce(c, o) == Peek(c, o) \/ Claim(c, o) \/ Erase(c, o)

-----------------------------------------------------------------------------
(* The caller's future *)

\* The envelope, with the token, goes into the callee's channel.
Send(c) ==
    /\ fut[c] = "sending"
    /\ up[Caller[c]] = "running" /\ ThreadFree(Caller[c])
    /\ Open(c)
    /\ HasRoom(c)
    /\ fut' = [fut EXCEPT ![c] = "awaiting"]
    /\ env' = [env EXCEPT ![c] = "queued"]
    /\ UNCHANGED <<edgeVars, answered, actorVars>>

\* The envelope is dropped where it is: on the caller's thread.
Abandon(c) ==
    /\ fut' = [fut EXCEPT ![c] = "failing"]
    /\ env' = [env EXCEPT ![c] = "left"]
    /\ own' = [own EXCEPT ![c]["token"] = "drop"]
    /\ UNCHANGED <<graph, lock, removed, answered, actorVars>>

\* The future ends and its guard is dropped.
Leave(c) ==
    /\ fut' = [fut EXCEPT ![c] = "left"]
    /\ own' = [own EXCEPT ![c]["guard"] = "drop"]
    /\ UNCHANGED <<graph, lock, removed, env, answered, actorVars>>

\* send() gives the envelope back: the channel is closed.
SendFails(c) ==
    /\ fut[c] = "sending"
    /\ up[Caller[c]] = "running" /\ ThreadFree(Caller[c])
    /\ ~Open(c)
    /\ Abandon(c)

\* A timeout, a select! that dropped the future, or the unwinding of the hook.
GiveUp(c) ==
    /\ ThreadFree(Caller[c])
    /\ \/ fut[c] = "sending" /\ Abandon(c)
       \/ fut[c] = "awaiting" /\ Leave(c)

AfterFailure(c) ==
    /\ fut[c] = "failing"
    /\ ThreadFree(Caller[c])
    /\ Leave(c)

\* The future is polled after the reply came, or was lost.
Resume(c) ==
    /\ fut[c] = "awaiting"
    /\ answered[c]
    /\ up[Caller[c]] = "running" /\ ThreadFree(Caller[c])
    /\ Leave(c)

-----------------------------------------------------------------------------
(* The actors' tasks *)

\* The task drops the envelope: its reply channel first, its token last.
Release(c) ==
    /\ answered' = [answered EXCEPT ![c] = TRUE]
    /\ env' = [env EXCEPT ![c] = "left"]
    /\ own' = [own EXCEPT ![c]["token"] = "drop"]
    /\ UNCHANGED <<graph, lock, removed, fut>>

\* Received by the loop, or after a stop by the drain of the priority channel.
TakeEnvelope(c) ==
    LET b == Callee[c] IN
    /\ up[b] = "running" /\ busy[b] = "idle" /\ ThreadFree(b)
    /\ env[c] = "queued"
    /\ stopping[b] => c \in Priority
    /\ env' = [env EXCEPT ![c] = "running"]
    /\ busy' = [busy EXCEPT ![b] = c]
    /\ UNCHANGED <<edgeVars, fut, answered, up, stopping>>

\* The handler of ask c is over: the reply is sent and the envelope dropped;
\* in an unwinding task both happen without a reply.
Answer(c) ==
    LET b == Callee[c] IN
    /\ busy[b] = c /\ ThreadFree(b)
    /\ AsksOver(b)
    /\ Release(c)
    /\ busy' = [busy EXCEPT ![b] = "idle"]
    /\ UNCHANGED <<up, stopping>>

\* on_start, on_idle, on_stop, or the handler of a message no actor waits for.
HookStart(a) ==
    /\ up[a] = "running" /\ busy[a] = "idle" /\ ThreadFree(a)
    /\ busy' = [busy EXCEPT ![a] = "hook"]
    /\ UNCHANGED <<edgeVars, askVars, up, stopping>>

HookEnd(a) ==
    /\ busy[a] = "hook" /\ ThreadFree(a)
    /\ AsksOver(a)
    /\ busy' = [busy EXCEPT ![a] = "idle"]
    /\ UNCHANGED <<edgeVars, askVars, up, stopping>>

\* The stop signal, or the last drop, is received.
BeginStop(a) ==
    /\ up[a] = "running" /\ busy[a] = "idle" /\ ThreadFree(a)
    /\ ~stopping[a]
    /\ stopping' = [stopping EXCEPT ![a] = TRUE]
    /\ UNCHANGED <<edgeVars, askVars, up, busy>>

\* A panic, JoinHandle::abort, or the runtime's shutdown, at any await.
Unwind(a) ==
    /\ up[a] = "running" /\ ThreadFree(a)
    /\ up' = [up EXCEPT ![a] = "unwinding"]
    /\ UNCHANGED <<edgeVars, askVars, stopping, busy>>

\* The channels close for good.  A killed actor gets here without BeginStop.
Down(a) ==
    /\ up[a] # "down" /\ busy[a] = "idle" /\ ThreadFree(a)
    /\ up' = [up EXCEPT ![a] = "down"]
    /\ UNCHANGED <<edgeVars, askVars, stopping, busy>>

\* The shutdown drain drops an envelope that was never received.
Discard(c) ==
    /\ up[Callee[c]] = "down" /\ ThreadFree(Callee[c])
    /\ env[c] = "queued"
    /\ Release(c)
    /\ UNCHANGED actorVars

EdgeStep == \E c \in Asks : \/ Register(c) \/ Refuse(c)
                            \/ \E o \in Owners : RemoveOnce(c, o)

AskStep == \E c \in Asks : \/ Send(c) \/ SendFails(c) \/ GiveUp(c)
                           \/ AfterFailure(c) \/ Resume(c)

ActorStep ==
    \/ \E c \in Asks : TakeEnvelope(c) \/ Answer(c) \/ Discard(c)
    \/ \E a \in Actors : \/ HookStart(a) \/ HookEnd(a) \/ BeginStop(a)
                         \/ Unwind(a) \/ Down(a)

Next == EdgeStep \/ AskStep \/ ActorStep

Spec == Init /\ [][Next]_vars

\* What the runtime does for ask c by itself.  No step of it can be repeated
\* for ever, so that fairness to their disjunction is fairness to each.
Progress(c) ==
    \/ Send(c) \/ SendFails(c) \/ AfterFailure(c) \/ Resume(c)
    \/ TakeEnvelope(c) \/ Answer(c) \/ Discard(c)
    \/ GiveUp(c) /\ up[Caller[c]] = "unwinding"
    \/ \E o \in Owners : RemoveOnce(c, o)

\* A task that can run is polled, hooks return once their asks are over, and
\* the mutex and the mailboxes are fair to who queues on them.  Nobody has to
\* ask, to give up, to stop or to crash.
Fairness ==
    /\ \A c \in Asks : SF_vars(Progress(c))
    /\ \A a \in Actors : /\ WF_vars(HookEnd(a))
                          /\ SF_vars(Down(a) /\ (stopping[a] \/ up[a] = "unwinding"))

FairSpec == Spec /\ Fairness

-----------------------------------------------------------------------------
(* Properties *)

\* No reply to ask c, and no failure, is on its way to the caller.
Pending(c) == ~answered[c] /\ (Open(c) \/ env[c] \in {"queued", "running"})

\* The caller is held up by ask c.
Waits(c) == Pending(c) /\ fut[c] \in {"sending", "awaiting"}

\* The caller has given up, and is dropping what it held.
GivesUp(c) ==
    Pending(c) /\ fut[c] \in {"failing", "left"} /\ own[c]["guard"] # "done"

EdgesOf(cs) == {<<Caller[c], Callee[c]>> : c \in cs}

AsksBetween(x, y) == {c \in Asks : Caller[c] = x /\ Callee[c] = y}

\* Both owners still hold the edge of ask c; neither has dropped it.
Kept(c) == \A o \in Owners : own[c][o] = "held"
Unremoved(c) == \A o \in Owners : own[c][o] \notin {"none", "done"}

\* Whoever takes the lock finds an entry for every ask that both owners keep,
\* and none for an ask that one owner is done with: no owner takes out the
\* edge of another ask, none leaves its own behind (deadlock.rs:60-64, 71-74).
EdgesMatchAsks ==
    lock = Null => \A x, y \in Actors :
        /\ Cardinality({c \in AsksBetween(x, y) : Kept(c)}) <= graph[x][y]
        /\ graph[x][y] <= Cardinality({c \in AsksBetween(x, y) : Unremoved(c)})

\* No set of actors ever waits on itself: what register_ask_edge lets through
\* cannot deadlock, whichever asks run concurrently or share a handler
\* (register_ask_edge, deadlock.rs:194-220).
NoDeadlockedSet == Acyclic(Actors, EdgesOf({c \in Asks : Waits(c)}))

\* register_ask_edge panics only on a real cycle: every actor on it waits for
\* the next one, or is just giving up (deadlock.rs:17-25, no phantom cycles).
PanicIsDeadlock ==
    [][\A c \in Asks :
          fut[c] = "new" /\ fut'[c] = "refused" =>
              Reaches(Actors, EdgesOf({d \in Asks : Waits(d) \/ GivesUp(d)}),
                      Callee[c], Caller[c])]_vars

\* Every ask that was let through comes back to its caller (ask_inner and
\* ask_priority_inner, actor_ref.rs:804, 1143).
TrackedAskReturns ==
    \A c \in Asks : fut[c] = "sending" ~> own[c]["guard"] = "done"

-----------------------------------------------------------------------------
(* The inductive invariant *)

\* An owner erases exactly while it holds the lock.
EraserHasLock ==
    \A c \in Asks, o \in Owners : own[c][o] = "erase" <=> lock = <<c, o>>

\* The flag is set once an owner has claimed the edge, and not before.
FlagIsClaim ==
    \A c \in Asks :
        removed[c] <=> \E o \in Owners : own[c][o] \in {"erase", "done"}

\* Both owners come with the edge.
OwnersComeTogether ==
    \A c \in Asks, o \in Owners :
        own[c][o] = "none" <=> fut[c] \in {"new", "refused"}

\* What the future and the envelope have in hand.  Until the future is over
\* its guard is held; until the envelope is dropped its token is.
Holding(c) ==
    /\ fut[c] \in {"sending", "failing", "awaiting"} => own[c]["guard"] = "held"
    /\ fut[c] = "left" => own[c]["guard"] # "held"
    /\ fut[c] \in {"new", "refused"} => env[c] = "none"
    /\ fut[c] = "sending" <=> env[c] = "caller"
    /\ env[c] \in {"caller", "queued", "running"} => own[c]["token"] = "held"
    /\ fut[c] = "awaiting" => env[c] \in {"queued", "running"} \/ answered[c]

HandsFull == \A c \in Asks : Holding(c)

\* A task processes an envelope that it has, and that is addressed to it.
HandlerHasEnvelope ==
    \A a \in Actors : busy[a] \in Asks =>
        env[busy[a]] = "running" /\ Callee[busy[a]] = a

\* The edge of ask c was put in and nobody has taken it out.
InGraph(c) ==
    /\ own[c]["guard"] # "none"
    /\ ~removed[c] \/ \E o \in Owners : own[c][o] = "erase"

EntriesCounted ==
    \A x, y \in Actors :
        graph[x][y] = Cardinality({c \in AsksBetween(x, y) : InGraph(c)})

GraphAcyclic == Acyclic(Actors, Edges)

\* A guard lives in a hook of its caller, and a task that is gone is in none.
GuardInHook ==
    /\ \A c \in Asks : own[c]["guard"] \notin {"none", "done"} => busy[Caller[c]] # "idle"
    /\ \A a \in Actors : up[a] = "down" => busy[a] = "idle"

\* What was sent is answered once, and the task that answered takes up nothing
\* else before it has dropped the token.
AnsweredOnce ==
    \A c \in Asks :
        /\ env[c] \in {"queued", "running"} => fut[c] \in {"awaiting", "left"}
        /\ answered[c] =>
              /\ fut[c] \in {"awaiting", "left"} /\ env[c] = "left"
              /\ own[c]["token"] # "held"
              /\ own[c]["token"] \in InDrop => busy[Callee[c]] = "idle"

\* The edges are those of the asks under way, and close no cycle: what every
\* step of the detector relies on and keeps.
WaitInv ==
    /\ TypeOK
    /\ EraserHasLock
    /\ FlagIsClaim
    /\ OwnersComeTogether
    /\ HandsFull
    /\ HandlerHasEnvelope
    /\ EntriesCounted
    /\ GraphAcyclic
    /\ GuardInHook
    /\ AnsweredOnce
=============================================================================
