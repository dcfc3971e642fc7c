----------------------------- MODULE CrateTree -----------------------------
(* rsactor-graph, crate_tree.rs: loading the module tree of a crate.         *)
(*                                                                           *)
(* A file system `fs` maps a path (a sequence of names, without the `.rs`)   *)
(* to [ok, items]: the parsed items of a file, or ok = FALSE when it cannot  *)
(* be read or parsed.  An item is a record with a kind `k`; only the fields  *)
(* its kind needs are present.  `mod` items carry their name, an optional    *)
(* `#[path]` and either an inline body or a file elsewhere.                  *)
EXTENDS Naturals, Sequences, SequencesExt, FiniteSets, Functions, TLC

None == [k |-> "None"]

\* No node, and no key: ids and keys are sequences, positions too.
Nothing == <<>>

\* A report entry: its category, where it is, and the sender, if any.
Entry(category, at, sender) == [cat |-> category, at |-> at, sender |-> sender]

(***************************************************************************)
(* Attributes                                                              *)
(***************************************************************************)

\* One `cfg` predicate: `test` alone, or `all(..)` split at its commas.
IsCfgTest(item) ==
  \E p \in Range(item.cfg) : \/ ~p.all /\ p.parts = <<"test">>
                             \/ p.all /\ Contains(p.parts, "test")

(***************************************************************************)
(* Where `mod name;` finds its file                                        *)
(***************************************************************************)

IsFile(fs, path) == path \in DOMAIN fs

\* Next to a `mod.rs`, or in a directory named after any other file.
ModuleDirOf(file) == IF Last(file) = "mod" THEN Front(file) ELSE file

LocateModuleFile(fs, item, dirs) ==
  LET flat   == dirs.children \o <<item.name>>
      nested == flat \o <<"mod">>
      named  == dirs.attrBase \o item.path
  IN IF item.path # <<>> THEN IF IsFile(fs, named) THEN named ELSE <<>>
     ELSE IF IsFile(fs, flat) THEN flat
     ELSE IF IsFile(fs, nested) THEN nested ELSE <<>>

\* The items of a file, with a report entry when it cannot be used.
ParseFile(fs, st, file) ==
  IF IsFile(fs, file) /\ fs[file].ok THEN [st |-> st, items |-> fs[file].items]
  ELSE [st |-> [st EXCEPT !.report = @ \cup {Entry("declaration", <<"unread", file>>, Nothing)}],
        items |-> <<>>]

(***************************************************************************)
(* The depth-first load.  `st` is the crate being built: its modules (the  *)
(* index is the ModId, 1 the root), the files already taken and the        *)
(* report.                                                                 *)
(***************************************************************************)

RECURSIVE AddItems(_, _, _, _, _)

AddModule(fs, st, parent, path, file, dirs, items) ==
  LET id == Len(st.modules) + 1
      entered == [st EXCEPT !.modules = Append(@, [path |-> path, file |-> file,
                                                   parent |-> parent, children |-> <<>>,
                                                   items |-> <<>>])]
  IN AddItems(fs, entered, id, dirs, items)

\* A module that was loaded becomes a child of the one that declares it.
Attach(st, id, name, child) == [st EXCEPT !.modules[id].children = (name :> child) @@ @]

InlineModule(fs, st, id, dirs, item) ==
  LET mod   == st.modules[id]
      inner == [children |-> Append(dirs.children, item.name),
                attrBase |-> Append(dirs.attrBase, item.name)]
  IN Attach(AddModule(fs, st, id, Append(mod.path, item.name), mod.file, inner, item.items),
            id, item.name, Len(st.modules) + 1)

FileModule(fs, st, id, dirs, item) ==
  LET mod  == st.modules[id]
      file == LocateModuleFile(fs, item, dirs)
      Fail(why) == [st EXCEPT !.report = @ \cup {Entry("declaration", <<why, mod.file, item.name>>, Nothing)}]
      read == ParseFile(fs, [st EXCEPT !.seen = @ \cup {file}], file)
      inner == [children |-> ModuleDirOf(file), attrBase |-> Front(file)]
  IN IF file = <<>> THEN Fail("not found")
     ELSE IF file \in st.seen THEN Fail("loaded twice")
     ELSE Attach(AddModule(fs, read.st, id, Append(mod.path, item.name), file, inner, read.items),
                 id, item.name, Len(st.modules) + 1)

AddItem(fs, st, id, dirs, item) ==
  CASE IsCfgTest(item)  -> st
    [] item.k # "mod"   -> [st EXCEPT !.modules[id].items = Append(@, item)]
    [] item.k = "mod" /\ item.inline -> InlineModule(fs, st, id, dirs, item)
    [] OTHER            -> FileModule(fs, st, id, dirs, item)

AddItems(fs, st, id, dirs, items) ==
  IF items = <<>> THEN st
  ELSE AddItems(fs, AddItem(fs, st, id, dirs, Head(items)), id, dirs, Tail(items))

\* A crate: its spec (name, target kind, root file), whether its bodies are
\* scanned, and its modules.
LoadCrate(fs, spec, isTarget) ==
  LET read == ParseFile(fs, [modules |-> <<>>, seen |-> {spec.root}, report |-> {}], spec.root)
      dirs == [children |-> Front(spec.root), attrBase |-> Front(spec.root)]
      done == AddModule(fs, read.st, 0, <<>>, spec.root, dirs, read.items)
  IN [spec |-> spec, isTarget |-> isTarget, modules |-> done.modules,
      files |-> done.seen, report |-> done.report]

\* Full path of a module, starting with the crate name.
ModulePath(krate, m) == <<krate.spec.name>> \o krate.modules[m].path
=============================================================================
