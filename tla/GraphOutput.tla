---------------------------- MODULE GraphOutput ----------------------------
(***************************************************************************)
(* rsactor-graph, main.rs run from the finished graph on: narrow it to the *)
(* neighbourhood of an actor, draw it and write it, as JSON, as DOT or     *)
(* through Graphviz.  ActorGraph scans a program for the graph; here it is *)
(* any graph whose edges join its nodes.                                   *)
(***************************************************************************)
EXTENDS GraphView, SvgPipe, Integers

VARIABLES
    command,        \* the command line: [selection, focus, depth, format, groupFns, holds, toFile]
    stage,          \* what the run does next
    out,            \* the finished graph, later its focus
    distance,       \* the nodes the search for the focus has reached, and how far they are
    step,           \* the level it looks at
    exit            \* how the process ended, and what it wrote

viewVars   == <<command, stage, out, distance, step, exit>>
outputVars == <<viewVars, pipeVars>>

Running            == [code |-> "running", wrote |-> "nothing", examples |-> {}]
Ended(code, wrote) == [code |-> code, wrote |-> wrote, examples |-> {}]

End(code, wrote) == stage' = "done" /\ exit' = Ended(code, wrote)

Ids(graph)   == {n.id : n \in graph.nodes}
IsGraph(graph) ==
  /\ {"nodes", "edges"} \subseteq DOMAIN graph
  /\ IsFiniteSet(graph.nodes)
  /\ \A e \in graph.edges : {e.from, e.to} \subseteq Ids(graph)

\* What the options of the command line may be.
CommandOK == command.depth \in Nat /\ command.holds \in {"all", "uncovered", "none"}

NotSearching == distance = <<>> /\ step = 0

OutputInit ==
  /\ CommandOK /\ IsGraph(out)
  /\ stage = "focus" /\ exit = Running /\ NotSearching
  /\ PipeInit

Focus ==
  LET matches == Matching(out, command.focus)
  IN /\ stage = "focus"
     /\ \/ /\ command.focus = <<>> /\ stage' = "render"
           /\ UNCHANGED <<distance, step, exit>>
        \/ /\ command.focus # <<>> /\ Cardinality(matches) = 1
           /\ \E a \in matches : distance' = [id \in {a.id} |-> 0]
           /\ step' = 1 /\ stage' = "search"
           /\ UNCHANGED exit
        \/ /\ command.focus # <<>> /\ Cardinality(matches) # 1
           /\ End("error", "nothing")
           /\ UNCHANGED <<distance, step>>
     /\ UNCHANGED <<command, out, pipeVars>>

\* Breadth first, a level at a time.
Widen ==
  LET next == Unreached(out.edges, distance, step)
  IN /\ stage = "search" /\ step <= command.depth
     /\ distance' = [id \in DOMAIN distance \cup next |-> IF id \in next THEN step ELSE distance[id]]
     /\ step' = step + 1
     /\ UNCHANGED <<command, stage, out, exit, pipeVars>>

KeepNear ==
  /\ stage = "search" /\ step > command.depth
  /\ out' = Narrow(out, distance, command.depth)
  /\ stage' = "render" /\ distance' = <<>> /\ step' = 0
  /\ UNCHANGED <<command, exit, pipeVars>>

\* A write to a file may fail; to stdout it is taken to succeed.
Write(code, what) ==
  \/ End(code, what)
  \/ command.toFile /\ End("error", "nothing")

Render ==
  /\ stage = "render" /\ command.format # "svg"
  /\ Write("ok", command.format)
  /\ UNCHANGED <<command, out, distance, step, pipeVars>>

CallDot ==
  /\ stage = "render" /\ command.format = "svg"
  /\ stage' = "svg" /\ StartCall
  /\ UNCHANGED <<command, out, distance, step, exit>>

Pipe == stage = "svg" /\ PipeNext /\ UNCHANGED viewVars

\* Without `dot` the DOT text is kept, and the run still fails.
SvgReturns ==
  /\ stage = "svg"
  /\ \/ caller = "svg" /\ Write("ok", "svg")
     \/ caller = "missing" /\ Write("error", "dot")
     \/ caller \in {"io", "broken_pipe", "dot_failed"} /\ End("error", "nothing")
  /\ UNCHANGED <<command, out, distance, step, pipeVars>>

\* The end of the process: the only state without another step.
Exited == stage = "done" /\ UNCHANGED outputVars

OutputNext == Focus \/ Widen \/ KeepNear \/ Render \/ CallDot \/ Pipe \/ SvgReturns \/ Exited

OutputSpec == OutputInit /\ [][OutputNext]_outputVars

(***************************************************************************)
(* Properties                                                              *)
(***************************************************************************)

\* Both ends of every edge are nodes of the graph, before and after the
\* focus, and both ends of every arrow are drawn (discover.rs registers a
\* node on first use; view.rs and render.rs drop and merge nodes).
EdgesHaveNodes ==
  LET drawn == ToDot(out, command.groupFns, command.holds)
  IN /\ \A e \in out.edges : {e.from, e.to} \subseteq Ids(out)
     /\ \A a \in drawn.arrows : {a.from, a.to} \subseteq drawn.nodes

\* Every edge has an arrow between the places its ends are drawn at.
EdgesAreDrawn ==
  LET remap == Remap(out, command.groupFns)
      drawn == ToDot(out, command.groupFns, command.holds)
  IN \A e \in out.edges :
        \/ command.holds = "none" /\ e.kind = "holds"
        \/ \E a \in drawn.arrows : /\ a.from = DrawnId(remap, e.from) /\ a.to = DrawnId(remap, e.to)
                                   /\ a.class = ArrowClass(e.kind) \/ e.kind = "holds"

\* Every end is a node, and two nodes joined in the graph are joined in the
\* drawing, whatever is grouped, unless all that joins them is holds edges and
\* those are turned off (render.rs: "uncovered" hides what a send or spawn arrow
\* repeats).
NothingHidden == EdgesHaveNodes /\ EdgesAreDrawn

\* A walk of m edges from start to id, each taken in either direction.
IsWalk(graph, w, m, start, id) ==
  w[0] = start /\ w[m] = id /\ \A i \in 1..m : w[i] \in Neighbours(graph.edges, w[i - 1])

\* The nodes a walk of at most depth edges leads to.
Ball(graph, start, depth) ==
  {id \in Ids(graph) : \E m \in 0..depth : \E w \in [0..m -> Ids(graph)] : IsWalk(graph, w, m, start, id)}

IsFocus(narrow, graph, start, depth) ==
  /\ narrow.nodes = {n \in graph.nodes : n.id \in Ball(graph, start, depth)}
  /\ narrow.edges = {e \in graph.edges : {e.from, e.to} \cap Ball(graph, start, depth - 1) # {}}

\* --focus keeps exactly the nodes at most depth steps away from the one actor
\* that matches, over edges taken in either direction, and the edges on the
\* way (view.rs, "only edges the search walked are kept").
FocusIsNeighbourhood ==
  [][stage = "search" /\ stage' # "search" =>
       \E a \in Actors(out) : /\ Matching(out, command.focus) = {a}
                              /\ IsFocus(out', out, a.id, command.depth)]_outputVars

(***************************************************************************)
(* The inductive invariant                                                 *)
(***************************************************************************)

\* Below the level looked at, the distances are those of the graph.
Measured(start) ==
  /\ DOMAIN distance = Ball(out, start, step - 1)
  /\ \A id \in DOMAIN distance :
       /\ distance[id] \in Nat
       /\ \A d \in 0..(step - 1) : distance[id] <= d <=> id \in Ball(out, start, d)

SearchInv ==
  stage = "search" =>
    /\ step \in 1..(command.depth + 1)
    /\ \E a \in Actors(out) : Matching(out, command.focus) = {a} /\ Measured(a.id)

\* Graphviz is called once, after the focus.
CallInv == PipeInv /\ (stage \in {"focus", "search", "render"} => caller = "idle")

OutputInv == CommandOK /\ IsGraph(out) /\ SearchInv /\ CallInv
=============================================================================
