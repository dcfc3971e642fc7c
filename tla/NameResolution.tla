--------------------------- MODULE NameResolution ---------------------------
(* rsactor-graph, resolve.rs: what a path written in a module refers to.     *)
(*                                                                           *)
(* `ix` is the index over all loaded crates.  A module is named by its crate *)
(* number and its ModId.  Results are records [k, ...]; None means that the  *)
(* path did not resolve.                                                     *)
EXTENDS CrateTree

(***************************************************************************)
(* Results and built-in names                                              *)
(***************************************************************************)

ModuleRes(c, m)      == [k |-> "Module", c |-> c, m |-> m]
DeclRes(id)          == [k |-> "Decl", id |-> id]
VariantRes(id, name) == [k |-> "Variant", id |-> id, name |-> name]
RsactorRes(name)     == [k |-> "Rsactor", name |-> name]
StdRes(path)         == [k |-> "Std", path |-> path]
ExternalRes(path)    == [k |-> "External", path |-> path]
ValueRes(path)       == [k |-> "Value", path |-> path]

\* What a glob from rsactor brings in.
RsactorNames ==
  {"Actor", "ActorControl", "ActorFailure", "ActorRef", "ActorResult", "ActorWeak",
   "AskHandler", "BoxFuture", "Channel", "DeadLetterReason", "Error", "FailurePhase",
   "Identity", "IdleSubscribeError", "Message", "MetricsSnapshot", "Operation", "Result",
   "SpawnOptions", "TellHandler", "WeakActorControl", "WeakAskHandler", "WeakTellHandler",
   "dead_letter_count", "message_handlers", "reset_dead_letter_count",
   "set_default_mailbox_capacity", "spawn", "spawn_with_mailbox_capacity",
   "spawn_with_options"}

\* The std prelude: the module below `std` that declares each name.
PreludeHome ==
  [AsMut |-> "convert", AsRef |-> "convert", Box |-> "boxed", Clone |-> "clone",
   Copy |-> "marker", Default |-> "default", Drop |-> "ops", Eq |-> "cmp",
   Extend |-> "iter", Fn |-> "ops", FnMut |-> "ops", FnOnce |-> "ops",
   From |-> "convert", Into |-> "convert", IntoIterator |-> "iter", Iterator |-> "iter",
   Option |-> "option", Ord |-> "cmp", PartialEq |-> "cmp", PartialOrd |-> "cmp",
   Result |-> "result", Send |-> "marker", Sized |-> "marker", String |-> "string",
   Sync |-> "marker", ToOwned |-> "borrow", ToString |-> "string",
   TryFrom |-> "convert", TryInto |-> "convert", Unpin |-> "marker", Vec |-> "vec"]

Primitives ==
  {"bool", "char", "str", "i8", "i16", "i32", "i64", "i128", "isize", "u8", "u16", "u32",
   "u64", "u128", "usize", "f32", "f64"}

Prelude(name) ==
  CASE name \in DOMAIN PreludeHome -> StdRes(<<"std", PreludeHome[name], name>>)
    [] name \in Primitives         -> StdRes(<<name>>)
    [] OTHER                       -> None

(***************************************************************************)
(* The index                                                               *)
(***************************************************************************)

TypeKinds  == {"struct", "enum", "union", "trait", "alias"}
ValueKinds == {"fn", "const", "static"}

Named(alias, path, leading) == [glob |-> FALSE, alias |-> alias, path |-> path, leading |-> leading]
Glob(path, leading)         == [glob |-> TRUE, alias |-> "", path |-> path, leading |-> leading]

\* One `use` tree as the list of names it brings in.
RECURSIVE FlattenUse(_, _, _)
FlattenUse(tree, prefix, leading) ==
  LET full(ident) == IF ident = "self" THEN prefix ELSE Append(prefix, ident)
  IN CASE tree.k = "path"   -> FlattenUse(tree.tree, Append(prefix, tree.ident), leading)
       [] tree.k = "name"   -> IF tree.ident = "self" /\ prefix = <<>> THEN <<>>
                               ELSE <<Named(Last(full(tree.ident)), full(tree.ident), leading)>>
       [] tree.k = "rename" -> IF tree.alias = "_" THEN <<>>
                               ELSE <<Named(tree.alias, full(tree.ident), leading)>>
       [] tree.k = "glob"   -> <<Glob(prefix, leading)>>
       [] tree.k = "group"  -> FlattenSeq([i \in DOMAIN tree.items |->
                                             FlattenUse(tree.items[i], prefix, leading)])

ImportsOf(items) ==
  FlattenSeq([i \in DOMAIN items |-> IF items[i].k = "use"
                                     THEN FlattenUse(items[i].tree, <<>>, items[i].leading)
                                     ELSE <<>>])

\* Every declared type, in source order; its position is its DeclId.
DeclsOf(crates) ==
  LET InModule(c, m) ==
        LET items == crates[c].modules[m].items
        IN FlattenSeq([i \in DOMAIN items |->
             IF items[i].k \in TypeKinds
             THEN <<[c |-> c, m |-> m, item |-> items[i], name |-> items[i].name,
                     kind |-> items[i].k, generics |-> items[i].generics]>>
             ELSE <<>>])
  IN FlattenSeq([c \in DOMAIN crates |->
       FlattenSeq([m \in DOMAIN crates[c].modules |-> InModule(c, m)])])

\* Of several declarations of one name in a module the last is the one found.
ScopeOf(crates, decls, c, m) ==
  LET items == crates[c].modules[m].items
      here  == {id \in DOMAIN decls : decls[id].c = c /\ decls[id].m = m}
  IN [types   |-> [n \in {decls[id].name : id \in here} |->
                     CHOOSE id \in here : /\ decls[id].name = n
                                          /\ \A o \in here : decls[o].name = n => o <= id],
      values  |-> {items[i].name : i \in {j \in DOMAIN items : items[j].k \in ValueKinds}},
      imports |-> ImportsOf(items)]

\* A lib wins over any other target of the same crate name; else the first.
CrateByName(crates, name) ==
  LET of   == {c \in DOMAIN crates : crates[c].spec.name = name}
      libs == {c \in of : crates[c].spec.target = "lib"}
      pick == IF libs # {} THEN libs ELSE of
  IN CHOOSE c \in pick : \A o \in pick : c <= o

DeclPath(ix, id) ==
  Append(ModulePath(ix.crates[ix.decls[id].c], ix.decls[id].m), ix.decls[id].name)

LocalDecl(ix, c, m, name) ==
  IF name \in DOMAIN ix.scopes[c][m].types THEN ix.scopes[c][m].types[name] ELSE 0

(***************************************************************************)
(* Lookup.  `active` is the cycle guard: the (module, name) pairs whose    *)
(* lookup is in progress; asking for one of them again finds nothing.      *)
(***************************************************************************)

\* The roots a path may start from besides what is in scope.
ExternRoot(ix, name) ==
  CASE name \in DOMAIN ix.crateByName  -> ModuleRes(ix.crateByName[name], 1)
    [] name = "rsactor"         -> RsactorRes("")
    [] name \in {"std", "core", "alloc"} -> StdRes(<<"std">>)
    [] OTHER                    -> None

ParentRes(ix, c, m) ==
  LET up == ix.crates[c].modules[m].parent IN IF up = 0 THEN None ELSE ModuleRes(c, up)

RECURSIVE Lookup(_, _, _, _, _)

\* One more segment of a path.
Step(ix, res, segment, active) ==
  CASE res.k = "Module"  -> CASE segment = "super" -> ParentRes(ix, res.c, res.m)
                              [] segment = "self"  -> res
                              [] OTHER             -> Lookup(ix, res.c, res.m, segment, active)
    [] res.k = "Decl"    -> IF ix.decls[res.id].kind = "enum" THEN VariantRes(res.id, segment)
                            ELSE None
    [] res.k = "Rsactor" -> RsactorRes(segment)
    [] res.k = "Std"     -> StdRes(Append(res.path, segment))
    [] res.k = "External" -> ExternalRes(Append(res.path, segment))
    [] OTHER             -> None

\* The first of the alternatives that resolves.
OrElse(first, second) == IF first # None THEN first ELSE second

RootOf(ix, c, m, first, leading, active) ==
  CASE leading         -> ExternRoot(ix, first)
    [] first = "crate" -> ModuleRes(c, 1)
    [] first = "self"  -> ModuleRes(c, m)
    [] first = "super" -> ParentRes(ix, c, m)
    [] OTHER -> OrElse(Lookup(ix, c, m, first, active), OrElse(ExternRoot(ix, first), Prelude(first)))

ResolveExact(ix, c, m, path, leading, active) ==
  IF path = <<>> THEN None
  ELSE FoldLeft(LAMBDA res, segment : Step(ix, res, segment, active),
                RootOf(ix, c, m, Head(path), leading, active), Tail(path))

\* A `use` path always starts at a crate or a module, so an unknown root is
\* an external crate.
UnknownRoot(ix, c, m, path, leading, active) ==
  IF path # <<>> /\ (leading \/ Lookup(ix, c, m, Head(path), active) = None)
  THEN ExternalRes(path) ELSE None
ResolveUse(ix, c, m, path, leading, active) ==
  OrElse(ResolveExact(ix, c, m, path, leading, active), UnknownRoot(ix, c, m, path, leading, active))

\* `name` below what an import leads to.
Below(ix, target, name, active) ==
  CASE target.k = "Module" -> Lookup(ix, target.c, target.m, name, active)
    [] target.k = "Decl" /\ ix.decls[target.id].kind = "enum" -> VariantRes(target.id, name)
    [] target.k = "Rsactor" /\ name \in RsactorNames -> RsactorRes(name)
    [] OTHER -> None

FirstImport(ix, c, m, name, active, imports) ==
  LET Through(target, import) == IF import.glob THEN Below(ix, target, name, active) ELSE target
      Import(found, import) ==
        OrElse(found, Through(ResolveUse(ix, c, m, import.path, import.leading, active), import))
  IN FoldLeft(Import, None, imports)

\* Fault: globs are tried before what a module imports by name.
MutLookupInner(ix, c, m, name, active) ==
  LET mod   == ix.crates[c].modules[m]
      scope == ix.scopes[c][m]
      named == SelectSeq(scope.imports, LAMBDA i : ~i.glob /\ i.alias = name)
      globs == SelectSeq(scope.imports, LAMBDA i : i.glob)
  IN CASE name \in DOMAIN mod.children -> ModuleRes(c, mod.children[name])
       [] name \in DOMAIN scope.types  -> DeclRes(scope.types[name])
       [] name \in scope.values        -> ValueRes(Append(ModulePath(ix.crates[c], m), name))
       [] OTHER -> FirstImport(ix, c, m, name, active, globs \o named)

\* Child modules, local items, named imports, then globs.
LookupInner(ix, c, m, name, active) ==
  LET mod   == ix.crates[c].modules[m]
      scope == ix.scopes[c][m]
      named == SelectSeq(scope.imports, LAMBDA i : ~i.glob /\ i.alias = name)
      globs == SelectSeq(scope.imports, LAMBDA i : i.glob)
  IN CASE name \in DOMAIN mod.children -> ModuleRes(c, mod.children[name])
       [] name \in DOMAIN scope.types  -> DeclRes(scope.types[name])
       [] name \in scope.values        -> ValueRes(Append(ModulePath(ix.crates[c], m), name))
       [] OTHER -> FirstImport(ix, c, m, name, active, named \o globs)

Lookup(ix, c, m, name, active) ==
  IF <<c, m, name>> \in active THEN None
  ELSE LookupInner(ix, c, m, name, active \cup {<<c, m, name>>})

(***************************************************************************)
(* Resolution with the last-segment fallback                               *)
(***************************************************************************)

\* Modules reached through globs, from a set of modules.
GlobTargets(ix, at) ==
  LET globs == SelectSeq(ix.scopes[at[1]][at[2]].imports, LAMBDA i : i.glob)
  IN {ResolveUse(ix, at[1], at[2], globs[i].path, globs[i].leading, {}) : i \in DOMAIN globs}

RECURSIVE GlobClosure(_, _, _)
GlobClosure(ix, mods, targets) ==
  LET new == {<<t.c, t.m>> : t \in {u \in targets : u.k = "Module"}} \ mods
  IN IF new = {} THEN mods
     ELSE GlobClosure(ix, mods \cup new, UNION {GlobTargets(ix, at) : at \in new})

\* Some glob in scope leads outside the declaration scope.
GlobReachesOutside(ix, c, m) ==
  \E at \in GlobClosure(ix, {<<c, m>>}, GlobTargets(ix, <<c, m>>)) : \E t \in GlobTargets(ix, at) :
     t.k \notin {"Module", "Rsactor", "Decl"}

\* What the rest of the tool reads: the crates, their declarations, the
\* scopes, and for each module whether its globs lead outside.
BuildIndex(crates) ==
  LET decls == DeclsOf(crates)
      PerModule(Of(_, _)) == [c \in DOMAIN crates |-> [m \in DOMAIN crates[c].modules |-> Of(c, m)]]
      roots == {crates[c].spec.name : c \in DOMAIN crates}
      names == [crates |-> crates, decls |-> decls,
                crateByName |-> [name \in roots |-> CrateByName(crates, name)],
                scopes |-> PerModule(LAMBDA c, m : ScopeOf(crates, decls, c, m))]
  IN [outside |-> PerModule(LAMBDA c, m : GlobReachesOutside(names, c, m))] @@ names

Found(res)     == [res |-> res, inferred |-> FALSE]
NotFound       == [res |-> None, inferred |-> FALSE]

RelativeRoots == {"crate", "self", "super", "Self"}

\* The last segment alone, when one declaration has that name.
LastSegment(ix, c, m, path) ==
  LET named == {id \in DOMAIN ix.decls : ix.decls[id].name = Last(path)}
  IN IF Cardinality(named) = 1 /\ ~ix.outside[c][m]
     THEN [res |-> DeclRes(CHOOSE id \in named : TRUE), inferred |-> TRUE]
     ELSE NotFound

Segments(ix, c, m, path, allowFallback, exact) ==
  CASE exact # None -> Found(exact)
    [] path = <<>>  -> NotFound
    [] Len(path) > 1 /\ Head(path) \notin RelativeRoots /\ Lookup(ix, c, m, Head(path), {}) = None
                    -> Found(ExternalRes(path))
    [] allowFallback -> LastSegment(ix, c, m, path)
    [] OTHER         -> NotFound

ResolveSegments(ix, c, m, path, leading, allowFallback) ==
  Segments(ix, c, m, path, allowFallback, ResolveExact(ix, c, m, path, leading, {}))

\* The imports of one block that decide `path`: those that name its head,
\* whether or not they resolve, else the globs that have it.
Deciders(ix, c, m, path, imports) ==
  LET named == SelectSeq(imports, LAMBDA i : ~i.glob /\ i.alias = Head(path))
      Has(i) == /\ i.glob
                /\ ResolveExact(ix, c, m, Append(i.path, Head(path)), i.leading, {}) # None
  IN IF named # <<>> \/ Len(path) > 1 THEN named ELSE SelectSeq(imports, Has)

\* Those of the innermost block that has some.
Innermost(new, old) == IF new # <<>> THEN new ELSE old
ThroughBlocks(ix, c, m, path, blocks) ==
  FoldLeft(LAMBDA acc, imports : Innermost(Deciders(ix, c, m, path, imports), acc), <<>>, blocks)

BlockGlobOutside(ix, c, m, blocks) ==
  LET Outside(t) == IF t.k = "Module" THEN ix.outside[t.c][t.m]
                                      ELSE t.k \notin {"Rsactor", "Decl"}
  IN \E b \in DOMAIN blocks : \E i \in DOMAIN blocks[b] :
        blocks[b][i].glob /\ Outside(ResolveUse(ix, c, m, blocks[b][i].path, blocks[b][i].leading, {}))

\* The path, or what the import that decides it makes of it, and whether the
\* last segment alone may do.
Rewritten(ix, c, m, path, leading, blocks, by) ==
  CASE by = <<>>  -> [path |-> path, leading |-> leading,
                      alone |-> leading \/ ~BlockGlobOutside(ix, c, m, blocks)]
    [] by[1].glob -> [path |-> by[1].path \o path, leading |-> by[1].leading, alone |-> TRUE]
    [] OTHER      -> [path |-> by[1].path \o Tail(path), leading |-> by[1].leading, alone |-> TRUE]

ResolveRewritten(ix, c, m, to) == ResolveSegments(ix, c, m, to.path, to.leading, to.alone)

ResolveScoped(ix, c, m, path, leading, blocks) ==
  ResolveRewritten(ix, c, m, Rewritten(ix, c, m, path, leading, blocks,
    IF leading \/ blocks = <<>> \/ Head(path) \in {"crate", "self", "super"} THEN <<>>
    ELSE ThroughBlocks(ix, c, m, path, blocks)))
=============================================================================
