----------------------------- MODULE ScanInput -----------------------------
(* rsactor-graph, workspace.rs: which crates a selection scans.              *)
(*                                                                           *)
(* `meta` is what cargo reports: the packages (a sequence), which of them    *)
(* are workspace members, the one at the workspace root and the one that     *)
(* `--manifest-path` names (0 for none).  A package has a name, targets      *)
(* [name, kinds, root] and dependencies [name, isPath].                      *)
EXTENDS Naturals, Sequences, SequencesExt, FiniteSets

Rejected(why) == [ok |-> FALSE, why |-> why]

NamedPackages(meta, name) ==
  {p \in meta.members : meta.packages[p].name = name}

First(ids) == CHOOSE i \in ids : \A j \in ids : i <= j

\* `--package`, else the package of `--manifest-path`, else the root's.
Package(meta, selection) ==
  CASE selection.package # "" -> IF NamedPackages(meta, selection.package) = {} THEN 0
                                 ELSE First(NamedPackages(meta, selection.package))
    [] meta.manifest # 0     -> meta.manifest
    [] OTHER                 -> IF meta.root \in meta.members THEN meta.root ELSE 0

CrateSpec(target, kind) == [name |-> target.name, target |-> kind, root |-> target.root]

OfKind(package, kind) == SelectSeq(package.targets, LAMBDA t : kind \in t.kinds)
Specs(targets, kind) == [i \in DOMAIN targets |-> CrateSpec(targets[i], kind)]

\* One example, or the lib and bins; rsactor's own lib is never scanned.
Targets(package, selection) ==
  LET examples == SelectSeq(OfKind(package, "example"), LAMBDA t : t.name = selection.example)
      scanned  == SelectSeq(package.targets, LAMBDA t : \/ "lib" \in t.kinds /\ package.name # "rsactor"
                                                        \/ "bin" \in t.kinds)
  IN IF selection.example # "" THEN Specs(SubSeq(examples, 1, IF examples = <<>> THEN 0 ELSE 1), "example")
     ELSE [i \in DOMAIN scanned |-> CrateSpec(scanned[i], IF "lib" \in scanned[i].kinds THEN "lib" ELSE "bin")]

SameTarget(a, b) == a.target = b.target /\ a.name = b.name

\* The package's lib for an example, and the libs of the workspace members it
\* depends on by path, each once.
Declarations(meta, package, selection, targets) ==
  LET own == IF selection.example # "" /\ package.name # "rsactor"
             THEN Specs(OfKind(package, "lib"), "lib") ELSE <<>>
      Libs(dep) == IF ~dep.isPath \/ dep.name = "rsactor" \/ NamedPackages(meta, dep.name) = {} THEN <<>>
                   ELSE Specs(OfKind(meta.packages[First(NamedPackages(meta, dep.name))], "lib"), "lib")
      Listed(in, lib)  == \E i \in DOMAIN in : SameTarget(in[i], lib)
      AddLib(acc, lib) == IF Listed(acc, lib) \/ Listed(targets, lib) THEN acc ELSE Append(acc, lib)
  IN FoldLeft(LAMBDA acc, dep : FoldLeft(AddLib, acc, Libs(dep)), own, package.dependencies)

Input(meta, selection) ==
  LET package == meta.packages[Package(meta, selection)]
      targets == Targets(package, selection)
  IN CASE Package(meta, selection) = 0 -> Rejected("package")
       [] selection.example # "" /\ targets = <<>> -> Rejected("example")
       [] OTHER -> [ok |-> TRUE, targets |-> targets,
                    declarations |-> Declarations(meta, package, selection, targets)]

\* The examples offered when nothing was found.
Examples(meta, selection) ==
  LET examples == OfKind(meta.packages[Package(meta, selection)], "example")
  IN IF Package(meta, selection) = 0 THEN <<>> ELSE [i \in DOMAIN examples |-> examples[i].name]
=============================================================================
