------------------------------ MODULE SvgPipe ------------------------------
(* rsactor-graph, render.rs dot_to_svg: the caller, the thread that feeds    *)
(* the DOT text to Graphviz and the `dot` process, joined by two pipes of    *)
(* bounded size.  `dot` itself is outside the repository: it reads and       *)
(* writes in any order, and may give up at any moment.                       *)
EXTENDS Naturals

CONSTANTS
    InLen,      \* chunks of DOT text to feed
    OutLen,     \* chunks of SVG that `dot` makes of them
    PipeCap     \* chunks a pipe holds

ASSUME PipeAssumption == InLen \in Nat /\ OutLen \in Nat /\ PipeCap \in Nat \ {0}

VARIABLES
    caller,     \* what dot_to_svg is at, or what it returned
    writer,     \* the feeding thread
    fed,        \* chunks it has written
    inPipe,     \* chunks in the pipe to `dot`
    dot,        \* the process
    made,       \* chunks it has written
    outPipe,    \* chunks in the pipe from it
    got         \* chunks the caller has read

pipeVars == <<caller, writer, fed, inPipe, dot, made, outPipe, got>>

Returned == {"svg", "missing", "io", "broken_pipe", "dot_failed"}
Alive    == {"ready", "emitting"}

PipeInit ==
  /\ caller = "idle" /\ writer = "idle" /\ dot = "off"
  /\ fed = 0 /\ inPipe = 0 /\ made = 0 /\ outPipe = 0 /\ got = 0

\* dot_to_svg is called.
StartCall ==
  /\ caller' = "start"
  /\ UNCHANGED <<writer, fed, inPipe, dot, made, outPipe, got>>

\* No `dot` on PATH, another error, or a running child and its feeder.
SpawnDot ==
  /\ caller = "start"
  /\ \/ caller' \in {"missing", "io"} /\ UNCHANGED <<writer, dot>>
     \/ caller' = "reading" /\ writer' = "writing" /\ dot' = "ready"
  /\ UNCHANGED <<fed, inPipe, made, outPipe, got>>

\* stdin.write_all, one chunk at a time; the pipe closes behind the last.
CanFeed == writer = "writing" /\ fed < InLen /\ dot \in Alive /\ inPipe < PipeCap
Feed ==
  /\ CanFeed
  /\ fed' = fed + 1 /\ inPipe' = inPipe + 1
  /\ UNCHANGED <<caller, writer, dot, made, outPipe, got>>

CanEndFeed == writer = "writing" /\ (fed = InLen \/ dot \notin Alive)
EndFeed ==
  /\ CanEndFeed
  /\ writer' = IF fed = InLen THEN "done" ELSE "broken"
  /\ UNCHANGED <<caller, fed, inPipe, dot, made, outPipe, got>>

CanTake == dot = "ready" /\ inPipe > 0
DotTakes ==
  /\ CanTake
  /\ inPipe' = inPipe - 1
  /\ UNCHANGED <<caller, writer, fed, dot, made, outPipe, got>>

\* Once it has begun to write, `dot` reads nothing until the chunk is out.
CanTurn == dot = "ready" /\ made < OutLen
DotTurns ==
  /\ CanTurn
  /\ dot' = "emitting"
  /\ UNCHANGED <<caller, writer, fed, inPipe, made, outPipe, got>>

CanEmit == dot = "emitting" /\ outPipe < PipeCap
DotEmits ==
  /\ CanEmit
  /\ dot' = "ready" /\ made' = made + 1 /\ outPipe' = outPipe + 1
  /\ UNCHANGED <<caller, writer, fed, inPipe, got>>

\* At the end of its input, with everything written.
CanExit == dot = "ready" /\ writer # "writing" /\ inPipe = 0 /\ made = OutLen
DotExits ==
  /\ CanExit
  /\ dot' = "ok"
  /\ UNCHANGED <<caller, writer, fed, inPipe, made, outPipe, got>>

DotFails ==
  /\ dot = "ready"
  /\ dot' = "failed"
  /\ UNCHANGED <<caller, writer, fed, inPipe, made, outPipe, got>>

\* Fault: no feeding thread; the caller writes everything before it reads.
MutCanRead == caller = "reading" /\ outPipe > 0 /\ writer # "writing"

\* wait_with_output: read to the end, then reap.
CanRead == caller = "reading" /\ outPipe > 0
Read ==
  /\ CanRead
  /\ outPipe' = outPipe - 1 /\ got' = got + 1
  /\ UNCHANGED <<caller, writer, fed, inPipe, dot, made>>

CanReap == caller = "reading" /\ outPipe = 0 /\ dot \notin Alive
Reap ==
  /\ CanReap
  /\ caller' = "joining"
  /\ UNCHANGED <<writer, fed, inPipe, dot, made, outPipe, got>>

\* The feeder's error comes before the exit status.
CanJoin == caller = "joining" /\ writer # "writing"
\* Fault: the exit status of `dot` is not looked at.
MutJoin ==
  /\ CanJoin
  /\ caller' = IF writer = "broken" THEN "broken_pipe" ELSE "svg"
  /\ UNCHANGED <<writer, fed, inPipe, dot, made, outPipe, got>>

Join ==
  /\ CanJoin
  /\ caller' = IF writer = "broken" THEN "broken_pipe"
               ELSE IF dot = "failed" THEN "dot_failed" ELSE "svg"
  /\ UNCHANGED <<writer, fed, inPipe, dot, made, outPipe, got>>

PipeNext == \/ SpawnDot \/ Feed \/ EndFeed \/ Read \/ Reap \/ Join
            \/ DotTakes \/ DotTurns \/ DotEmits \/ DotExits \/ DotFails

(***************************************************************************)
(* Properties                                                              *)
(***************************************************************************)

PipeTypeOK ==
  /\ caller \in {"idle", "start", "reading", "joining"} \cup Returned
  /\ writer \in {"idle", "writing", "done", "broken"}
  /\ dot \in {"off", "ok", "failed"} \cup Alive
  /\ fed \in 0..InLen /\ made \in 0..OutLen
  /\ inPipe \in 0..PipeCap /\ outPipe \in 0..PipeCap /\ got \in Nat

\* What was written is in the pipe or was read, and the parts of the call
\* are at compatible places.
PipeInv ==
  /\ PipeTypeOK
  /\ got + outPipe = made
  /\ caller \in {"idle", "start", "missing", "io"} <=> dot = "off"
  /\ dot = "off" <=> writer = "idle"
  /\ dot = "off" => made = 0
  /\ caller \in {"joining"} \cup Returned => dot \notin Alive /\ outPipe = 0
  /\ writer = "done" => fed = InLen
  /\ writer = "broken" => dot = "failed"
  /\ dot = "emitting" => made < OutLen
  /\ dot = "ok" => made = OutLen /\ inPipe = 0 /\ writer = "done"
  /\ caller = "svg" => dot = "ok" /\ writer = "done"
  /\ caller = "dot_failed" => dot = "failed"

\* From the spawn to the return somebody can always move: the caller reads
\* while the feeder writes, so no full pipe blocks both sides (render.rs,
\* the comment on feeding stdin from another thread).
NeverStuck ==
  caller \in {"reading", "joining"} =>
     \/ CanFeed \/ CanEndFeed \/ CanTake \/ CanTurn \/ CanEmit \/ CanExit
     \/ CanRead \/ CanReap \/ CanJoin

\* An SVG is returned only when `dot` was given the whole text and all of
\* its output was read.
SvgIsComplete == caller = "svg" => fed = InLen /\ got = OutLen
=============================================================================
