------------------------------ MODULE RustNames ------------------------------
(* What a type name means in Rust, as a least fixpoint over the modules of   *)
(* one crate: the reference that NameResolution is checked against.  A local *)
(* item or a named import decides a name; only then do glob imports count,   *)
(* all of them at once and through any cycle of modules that import one      *)
(* another.                                                                  *)
EXTENDS NameResolution

Mods(ix, c) == DOMAIN ix.crates[c].modules

\* Every name that a module of the crate could have in scope.
Spelled(ix, c) ==
  UNION {DOMAIN ix.scopes[c][m].types \cup DOMAIN ix.crates[c].modules[m].children
           \cup {ix.scopes[c][m].imports[i].alias : i \in DOMAIN ix.scopes[c][m].imports}
           : m \in Mods(ix, c)} \ {""}

\* Where a path leads, given what each (module, name) is so far bound to.
Follow(ix, c, known, m, path) ==
  LET Start(s) == CASE s = "crate" -> {ModuleRes(c, 1)}
                    [] s = "self"  -> {ModuleRes(c, m)}
                    [] s = "super" -> {ParentRes(ix, c, m)} \ {None}
                    [] OTHER       -> IF <<m, s>> \in DOMAIN known THEN known[<<m, s>>] ELSE {}
      Onward(at, s) == CASE at.k # "Module" -> {}
                         [] s = "super"     -> {ParentRes(ix, c, at.m)} \ {None}
                         [] OTHER -> IF <<at.m, s>> \in DOMAIN known THEN known[<<at.m, s>>] ELSE {}
  IN FoldLeft(LAMBDA ends, s : UNION {Onward(at, s) : at \in ends}, Start(Head(path)), Tail(path))

BoundOnce(ix, c, known, m, name) ==
  LET scope == ix.scopes[c][m]
      kids  == ix.crates[c].modules[m].children
      named == {i \in DOMAIN scope.imports : ~scope.imports[i].glob /\ scope.imports[i].alias = name}
      globs == {i \in DOMAIN scope.imports : scope.imports[i].glob}
      Under(at) == IF at.k = "Module" THEN known[<<at.m, name>>] ELSE {}
  IN CASE name \in DOMAIN kids        -> {ModuleRes(c, kids[name])}
       [] name \in DOMAIN scope.types -> {DeclRes(scope.types[name])}
       [] named # {} -> UNION {Follow(ix, c, known, m, scope.imports[i].path) : i \in named}
       [] OTHER      -> UNION {Under(at) : at \in UNION {Follow(ix, c, known, m, scope.imports[i].path)
                                                          : i \in globs}}

RECURSIVE Settle(_, _, _)
Settle(ix, c, known) ==
  LET next == [at \in DOMAIN known |-> BoundOnce(ix, c, known, at[1], at[2])]
  IN IF next = known THEN known ELSE Settle(ix, c, next)

\* (module, name) |-> what it is; empty for a name not in scope.
RustScope(ix, c) == Settle(ix, c, [at \in Mods(ix, c) \X Spelled(ix, c) |-> {}])

\* A crate that rustc accepts: every import leads to one place, a glob to a
\* module, and no name is ambiguous.
Accepted(ix, c, known) ==
  /\ \A at \in DOMAIN known : Cardinality(known[at]) <= 1
  /\ \A m \in Mods(ix, c) : \A i \in DOMAIN ix.scopes[c][m].imports :
       LET import == ix.scopes[c][m].imports[i]
           ends   == Follow(ix, c, known, m, import.path)
       IN Cardinality(ends) = 1 /\ (import.glob => \A at \in ends : at.k = "Module")
=============================================================================
