----------------------------- MODULE GraphView -----------------------------
(* rsactor-graph, view.rs and render.rs: narrowing a graph to the            *)
(* neighbourhood of an actor, and the drawing of a graph.                    *)
EXTENDS Naturals, Sequences, SequencesExt, FiniteSets, TLC

(***************************************************************************)
(* --focus                                                                 *)
(***************************************************************************)

Actors(output) == {n \in output.nodes : n.k = "actor"}

\* The full path of an actor, or its trailing segments.
Matching(output, query) == {a \in Actors(output) : IsSuffix(query, a.path)}

Neighbours(edges, id) == {e.to : e \in {x \in edges : x.from = id}}
                           \cup {e.from : e \in {x \in edges : x.to = id}}

\* One level of the search: what the nodes reached last touch and was not
\* reached before.
Unreached(edges, distance, step) ==
  LET frontier == {id \in DOMAIN distance : distance[id] = step - 1}
  IN (UNION {Neighbours(edges, id) : id \in frontier}) \ DOMAIN distance

\* Fault: every edge among the kept nodes stays.
MutNarrow(output, distance, depth) ==
  LET Kept(id) == id \in DOMAIN distance
  IN [output EXCEPT !.nodes = {n \in @ : Kept(n.id)},
                    !.edges = {e \in @ : Kept(e.from) /\ Kept(e.to)}]

\* Only the edges the search walked are kept: one end is nearer than depth.
Narrow(output, distance, depth) ==
  LET Kept(id) == id \in DOMAIN distance
      Near(id) == Kept(id) /\ distance[id] < depth
  IN [output EXCEPT !.nodes = {n \in @ : Kept(n.id)},
                    !.edges = {e \in @ : Kept(e.from) /\ Kept(e.to) /\ (Near(e.from) \/ Near(e.to))}]

(***************************************************************************)
(* DOT                                                                     *)
(***************************************************************************)

FnNodes(output) == {n \in output.nodes : n.k = "fn"}
SameOwner(output, f) ==
  {g \in FnNodes(output) : g.end.target = f.end.target /\ g.end.owner = f.end.owner}

\* Functions that share an owner with another are drawn as one node.
Grouped(output, f, groupFns) ==
  groupFns /\ f.end.owner # <<>> /\ Cardinality(SameOwner(output, f)) > 1
GroupId(f) == <<"fngroup", f.end.target, f.end.owner>>

\* The drawn id of a node; the `?` of a sender follows it into its group.
Remap(output, groupFns) ==
  LET fns == {f \in FnNodes(output) : Grouped(output, f, groupFns)}
      group == [id \in {f.id : f \in fns} |-> GroupId(CHOOSE f \in fns : f.id = id)]
      lost  == {n \in output.nodes : n.k = "unknown" /\ n.end.sender \in DOMAIN group}
  IN group @@ [id \in {n.id : n \in lost} |-> <<"unknown", group[(CHOOSE n \in lost : n.id = id).end.sender]>>]

DrawnId(remap, id) == IF id \in DOMAIN remap THEN remap[id] ELSE id

ArrowClass(kind) == IF kind \in {"holds", "spawn"} THEN kind ELSE "send"

\* Assumed and inferred judgements are guesses; unresolved ones are not.
Weakness(edge) == IF edge.recv < edge.msg THEN edge.msg ELSE edge.recv
Guessed(edge)  == Weakness(edge) \in {1, 2}

Line(edge) == <<edge.kind, edge.variant, edge.message, edge.reply,
                IF Guessed(edge) THEN Weakness(edge) ELSE 0>>

\* One arrow for all edges of a class between two drawn nodes.
Arrow(from, to, class, edges) ==
  [from |-> from, to |-> to, class |-> class,
   lines |-> {Line(e) : e \in {x \in edges : class # "holds" \/ Guessed(x)}},
   dashed |-> class # "holds" /\ \A e \in edges : Guessed(e)]

\* Fault: a holds edge counts as covered when anything is sent to its target.
MutToDot(output, groupFns, holds) ==
  LET remap == Remap(output, groupFns)
      At(e) == <<DrawnId(remap, e.from), DrawnId(remap, e.to), ArrowClass(e.kind)>>
      places  == {At(e) : e \in output.edges}
      covered == {p[2] : p \in {q \in places : q[3] # "holds"}}
      Drawn(p) == \/ p[3] # "holds" \/ holds = "all"
                  \/ holds = "uncovered" /\ p[2] \notin covered
  IN [nodes  |-> {DrawnId(remap, n.id) : n \in output.nodes},
      arrows |-> {Arrow(p[1], p[2], p[3], {e \in output.edges : At(e) = p}) :
                    p \in {q \in places : Drawn(q)}}]

ToDot(output, groupFns, holds) ==
  LET remap == Remap(output, groupFns)
      At(e) == <<DrawnId(remap, e.from), DrawnId(remap, e.to), ArrowClass(e.kind)>>
      places  == {At(e) : e \in output.edges}
      covered == {<<p[1], p[2]>> : p \in {q \in places : q[3] # "holds"}}
      Drawn(p) == \/ p[3] # "holds" \/ holds = "all"
                  \/ holds = "uncovered" /\ <<p[1], p[2]>> \notin covered
  IN [nodes  |-> {DrawnId(remap, n.id) : n \in output.nodes},
      arrows |-> {Arrow(p[1], p[2], p[3], {e \in output.edges : At(e) = p}) :
                    p \in {q \in places : Drawn(q)}}]
=============================================================================
