----------------------------- MODULE ActorGraph -----------------------------
(* rsactor-graph: one run of the tool, lib.rs scan and main.rs run.          *)
(*                                                                           *)
(* The run goes from the selection to the output: pick the crates, load      *)
(* them, index the names, collect the actors item by item, add the holds     *)
(* edges, walk the bodies of the target crates item by item, assemble, and   *)
(* from there on as in GraphOutput.                                          *)
EXTENDS CallScan, ScanInput, GraphOutput

CONSTANTS
    Jobs,           \* the runs considered; the operators below describe them
    FilesOf(_),     \* the source files of a job
    MetaOf(_),      \* what cargo metadata says
    CommandOf(_),   \* the command line
    TrueSends(_)    \* what the bodies of a job really do: [at, from, to, message, kind]

VARIABLES
    job,            \* the run
    input,          \* the crates to load
    ix,             \* the crates loaded and, once all are, the index over them
    pos,            \* the place in the sequence being gone through
    b,              \* the builder
    trying          \* the examples to scan for the guidance, the current one first

scanVars == <<job, input, ix, pos, b, trying>>
vars     == <<scanVars, outputVars>>

\* What no step of the scan changes.
laterVars == <<job, command, distance, step, pipeVars>>

NoGraph == [nodes |-> {}, edges |-> {}, report |-> {}]

Init ==
  /\ job \in Jobs /\ command = CommandOf(job)
  /\ stage = "select" /\ pos = 1
  /\ input = <<>> /\ ix = [crates |-> <<>>] /\ b = EmptyBuilder({})
  /\ out = NoGraph /\ trying = <<>> /\ exit = Running
  /\ NotSearching /\ PipeInit

(***************************************************************************)
(* The scan                                                                *)
(***************************************************************************)

\* Targets are walked, declarations only read.
Loads(in) == [i \in DOMAIN in.targets |-> [spec |-> in.targets[i], isTarget |-> TRUE]]
               \o [i \in DOMAIN in.declarations |-> [spec |-> in.declarations[i], isTarget |-> FALSE]]

\* The selection of the command line, or of an example, which always exists.
Selection ==
  IF trying = <<>> THEN command.selection ELSE [command.selection EXCEPT !.example = Head(trying)]

Select ==
  LET in == Input(MetaOf(job), Selection)
  IN /\ stage = "select"
     /\ \/ ~in.ok /\ End("error", "nothing") /\ UNCHANGED input
        \/ in.ok /\ stage' = "load" /\ input' = Loads(in) /\ UNCHANGED exit
     /\ UNCHANGED <<ix, pos, b, out, trying, laterVars>>

LoadNext ==
  /\ stage = "load" /\ pos <= Len(input)
  /\ ix' = [crates |-> Append(ix.crates, LoadCrate(FilesOf(job), input[pos].spec, input[pos].isTarget))]
  /\ pos' = pos + 1
  /\ UNCHANGED <<stage, input, b, out, trying, exit, laterVars>>

Indexed_ == BuildIndex(ix.crates)
Index ==
  /\ stage = "load" /\ pos > Len(input)
  /\ ix' = Indexed_
  /\ b' = EmptyBuilder(UNION {ix.crates[c].report : c \in DOMAIN ix.crates})
  /\ stage' = "collect" /\ pos' = 1
  /\ UNCHANGED <<input, out, trying, exit, laterVars>>

AllPlaces  == Places(ix, [c \in DOMAIN ix.crates |-> c])
BodyPlaces == SelectSeq(AllPlaces, LAMBDA p : ix.crates[p.c].isTarget)

CollectNext ==
  LET p == AllPlaces[pos]
  IN /\ stage = "collect" /\ pos <= Len(AllPlaces)
     /\ b' = CollectItem(ix, b, p.c, p.m, p.item)
     /\ pos' = pos + 1
     /\ UNCHANGED <<stage, input, ix, out, trying, exit, laterVars>>

Hold ==
  /\ stage = "collect" /\ pos > Len(AllPlaces)
  /\ b' = HoldsEdges(ix, b)
  /\ stage' = "scan" /\ pos' = 1
  /\ UNCHANGED <<input, ix, out, trying, exit, laterVars>>

ScanNext ==
  LET p == BodyPlaces[pos]
  IN /\ stage = "scan" /\ pos <= Len(BodyPlaces)
     /\ b' = ScanItem(ix, b, p.c, p.m, ModulePath(ix.crates[p.c], p.m), p.item)
     /\ pos' = pos + 1
     /\ UNCHANGED <<stage, input, ix, out, trying, exit, laterVars>>

Finish ==
  /\ stage = "scan" /\ pos > Len(BodyPlaces)
  /\ out' = Assemble(ix, b)
  /\ stage' = "check"
  /\ UNCHANGED <<input, ix, pos, b, trying, exit, laterVars>>

(***************************************************************************)
(* The output                                                              *)
(***************************************************************************)

\* The next example, or the end: the guidance lists those with actors.
TryNext(names, withActors) ==
  /\ IF names = <<>> THEN stage' = "done" /\ exit' = [Ended("error", "nothing") EXCEPT !.examples = withActors]
     ELSE stage' = "select" /\ exit' = [exit EXCEPT !.examples = withActors]
  /\ trying' = names /\ input' = <<>> /\ ix' = [crates |-> <<>>] /\ pos' = 1
  /\ b' = EmptyBuilder({}) /\ out' = NoGraph

\* No actor in the lib and bins: scan the examples for some.
Check ==
  /\ stage = "check" /\ trying = <<>>
  /\ \/ /\ Actors(out) = {} /\ command.selection.example = ""
        /\ TryNext(Examples(MetaOf(job), command.selection), {})
     \/ /\ Actors(out) # {} \/ command.selection.example # ""
        /\ stage' = "focus"
        /\ UNCHANGED <<input, ix, pos, b, out, trying, exit>>
  /\ UNCHANGED laterVars

CheckExample ==
  /\ stage = "check" /\ trying # <<>>
  /\ TryNext(Tail(trying), exit.examples \cup {name \in {Head(trying)} : Actors(out) # {}})
  /\ UNCHANGED laterVars

Output == OutputNext /\ UNCHANGED scanVars

Next == \/ Select \/ LoadNext \/ Index \/ CollectNext \/ Hold \/ ScanNext \/ Finish
        \/ Check \/ CheckExample \/ Output

Spec == Init /\ [][Next]_vars
=============================================================================
