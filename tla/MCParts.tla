------------------------------ MODULE MCParts ------------------------------
(* Four components that share no state, each on an instance of its own:    *)
(* the search of every wait-for graph of three actors, the handles of one  *)
(* actor, the metrics of one actor, and the expansion of one impl block.   *)
(* A behaviour is one of a component, with the three others at rest.       *)
EXTENDS PathSearch, WeakRefs, MetricsCollector, HandlerInput, TLC

CONSTANTS n1, n2, n3, r1, r2, r3

VARIABLE part

partVars == <<part, vars, refVars, metricVars, expVars>>

PartsInit ==
    /\ part \in {"search", "handles", "metrics", "expansion"}
    /\ \/ part = "search"
       \/ graph = [n \in Nodes |-> <<>>] /\ start = n1 /\ target = n2
    /\ \/ part = "expansion" /\ ExpInit
       \/ part # "expansion" /\ block = AtRest /\ place = 1 /\ impls = <<>> /\ verdict = "expanding"
    /\ Init /\ RefsInit /\ MetricsInit

PartsNext ==
    /\ UNCHANGED part
    /\ \/ part = "search"  /\ Next        /\ UNCHANGED <<refVars, metricVars, expVars>>
       \/ part = "handles" /\ RefsNext    /\ UNCHANGED <<vars, metricVars, expVars>>
       \/ part = "metrics" /\ MetricsNext /\ UNCHANGED <<vars, refVars, expVars>>
       \/ part = "expansion" /\ ExpNext   /\ UNCHANGED <<vars, refVars, metricVars>>

PartsSpec == PartsInit /\ [][PartsNext]_partVars

\* The first ActorRef is told apart from the other slots, they are not from
\* one another.
Slots == Permutations(Refs \ {First})
=============================================================================
