----------------------------- MODULE GraphTruth -----------------------------
(* What the graph of ActorGraph says, against what the program does.         *)
EXTENDS ActorGraph, RustNames, Integers

\* The actors an edge leads to.
Reaches(e) ==
  IF \E n \in out.nodes : n.id = e.to /\ n.k = "handlers"
  THEN (CHOOSE n \in out.nodes : n.id = e.to).candidates ELSE {e.to}

\* Every edge that is no field is one of `sends`, exact where it says so.
AreAmong(edges, sends) ==
  \A e \in edges :
     \E t \in sends :
        /\ <<t.at, t.from, t.kind>> = <<e.at, e.from, e.kind>>
        /\ e.recv = Exact => Reaches(e) = t.may
        /\ e.msg = Exact /\ e.kind # "spawn" => e.message = t.message
TrueAmong(edges, sends) == sends # {} => AreAmong(edges, sends)

\* An edge is a send or a spawn that its sender really makes there.  Where it
\* claims to be exact, the actors it leads to are those that can receive the
\* message, and the message is the one sent (README.md: "the tool never draws
\* an edge it had to guess").
EdgesAreTrue ==
  stage = "check" => TrueAmong({e \in out.edges : e.kind # "holds"}, TrueSends(job))

\* Every send and spawn of a body is an edge of the graph or an entry of the
\* report, whatever its receiver came through (README.md: "a call it cannot
\* judge is listed in a report instead of being guessed").
NoSendVanishes ==
  stage = "check" =>
    \A t \in TrueSends(job) : \/ \E e \in out.edges : e.at = t.at
                              \/ \E n \in out.report : n.at = t.at

\* In a crate that rustc accepts, a name resolves to what Rust says it is:
\* through named imports, re-exports, globs and cycles of globs, in whatever
\* order they are written (resolve.rs lookup, with its cycle guard).
NamesAreRust ==
  stage = "collect" /\ pos = 1 =>
    \A c \in DOMAIN ix.crates :
      LET scope == RustScope(ix, c)
      IN Accepted(ix, c, scope) =>
           \A at \in DOMAIN scope :
              LET found == ResolveSegments(ix, c, at[1], <<at[2]>>, FALSE, FALSE).res
              IN scope[at] # {} => found \in scope[at]
=============================================================================
