--------------------------- MODULE ActorDiscovery ---------------------------
(* rsactor-graph, discover.rs: which types are actors, what they handle,     *)
(* which references they hold, and the assembly of the graph.                *)
(*                                                                           *)
(* `b` is the graph under construction (Builder): actors by DeclId, types    *)
(* with a Deref impl, declared methods and functions, the other nodes, the   *)
(* handler signatures by node id, the edges and the report.                  *)
EXTENDS TypeKeys

EmptyBuilder(report) ==
  [actors |-> <<>>, deref |-> {}, methods |-> <<>>, functions |-> <<>>,
   nodes |-> {}, handlers |-> <<>>, edges |-> {}, report |-> report]

NoActorInfo == [open |-> FALSE, derive |-> FALSE, args |-> None, messages |-> {}]

Report(b, category, at, sender) == [b EXCEPT !.report = @ \cup {Entry(category, at, sender)}]

\* The entry of an actor, created on first use.
Info(b, id)       == IF id \in DOMAIN b.actors THEN b.actors[id] ELSE NoActorInfo
SetInfo(b, id, i) == [b EXCEPT !.actors = (id :> i) @@ @]
Touch(b, id)      == SetInfo(b, id, Info(b, id))

(***************************************************************************)
(* Endpoints and edges                                                     *)
(***************************************************************************)

ActorEnd(id)          == [k |-> "actor", id |-> id]
ExternalActorEnd(path) == [k |-> "external_actor", path |-> path]
FnEnd(target, path, owner) == [k |-> "fn", target |-> target, path |-> path, owner |-> owner]
ExternalEnd           == [k |-> "external"]
HandlersEnd(sig)      == [k |-> "handlers", sig |-> sig]
UnknownEnd(sender)    == [k |-> "unknown", sender |-> sender]

TargetOf(ix, c) == <<ix.crates[c].spec.target, ix.crates[c].spec.name>>

\* TellHandler<M> or AskHandler<M, R>, weak or not.
HandlerSig(name, args) ==
  LET ask == name \in {"AskHandler", "WeakAskHandler"}
  IN [ask |-> ask, message |-> args[1], reply |-> IF ask /\ Len(args) > 1 THEN args[2] ELSE None]

\* No reply and the unit reply are the same.
ReplyKey(ix, ty) == IF ty = None \/ IsUnit(ty) THEN Nothing ELSE Key(ix, ty)
KeyOrNothing(ix, ty) == IF ty = None THEN Nothing ELSE Key(ix, ty)

NodeId(ix, end) ==
  CASE end.k = "actor"          -> <<"actor", TargetOf(ix, ix.decls[end.id].c), DeclPath(ix, end.id)>>
    [] end.k = "external_actor" -> <<"external_actor", end.path>>
    [] end.k = "fn"             -> <<"fn", end.target, end.path>>
    [] end.k = "external"       -> <<"external">>
    [] end.k = "handlers"       -> <<"handlers", end.sig.ask, Key(ix, end.sig.message),
                                     KeyOrNothing(ix, end.sig.reply)>>
    [] end.k = "unknown"        -> <<"unknown", end.sender>>

\* The node of an endpoint, registered on first use.
Register(ix, b, end) ==
  LET id == NodeId(ix, end)
  IN CASE end.k = "actor"    -> Touch(b, end.id)
       [] end.k = "handlers" -> [b EXCEPT !.handlers = @ @@ (id :> end.sig)]
       [] OTHER -> IF \E n \in b.nodes : n.id = id THEN b
                   ELSE [b EXCEPT !.nodes = @ \cup {[k |-> end.k, id |-> id, end |-> end]}]

Structural(kind, variant, recv, at) ==
  [kind |-> kind, variant |-> variant, message |-> Nothing, reply |-> Nothing,
   recv |-> recv, msg |-> Exact, at |-> at]

AddEdge(ix, b, from, to, data) ==
  [Register(ix, Register(ix, b, from), to)
     EXCEPT !.edges = @ \cup {data @@ [from |-> NodeId(ix, from), to |-> NodeId(ix, to)]}]

(***************************************************************************)
(* Which rsactor item an impl or a derive is about                         *)
(***************************************************************************)

\* The path names an rsactor item, or does not resolve at all.
MayBeRsactor(found) == found.res = None \/ (found.res.k = "Rsactor" /\ ~found.inferred)
NamesRsactor(ix, c, m, path) == MayBeRsactor(ResolveSegments(ix, c, m, path, FALSE, TRUE))

DerivesActor(ix, c, m, item) ==
  \E i \in DOMAIN item.derives : /\ Last(item.derives[i]) = "Actor"
                                 /\ NamesRsactor(ix, c, m, item.derives[i])

\* The path that would give an impl its role, and the role.
ClaimedRole(imp) ==
  LET marks == SelectSeq(imp.attrs, LAMBDA a : Last(a) = "message_handlers")
  IN CASE imp.trait # None /\ Last(imp.trait.path) \in {"Actor", "Message"} ->
            [path |-> imp.trait.path, role |-> Last(imp.trait.path)]
       [] imp.trait = None /\ marks # <<>> -> [path |-> Head(marks), role |-> "MessageHandlers"]
       [] OTHER -> [path |-> <<>>, role |-> "none"]

ImplRole(ix, c, m, imp) ==
  IF ClaimedRole(imp).role # "none" /\ NamesRsactor(ix, c, m, ClaimedRole(imp).path) THEN ClaimedRole(imp).role ELSE "none"

(***************************************************************************)
(* Collecting declarations, one item at a time                             *)
(***************************************************************************)

ImplCtx(c, m, imp, self) == Ctx(c, m, imp.generics, self, <<>>)
SelfOf(ix, c, m, imp)    == ResolveTy(ix, ImplCtx(c, m, imp, None), imp.selfTy)

RecordDeref(b, imp, self) ==
  IF imp.trait # None /\ Last(imp.trait.path) \in {"Deref", "DerefMut"} /\ self.k = "Decl"
  THEN [b EXCEPT !.deref = @ \cup {self.id}] ELSE b

FnDecl(c, m, generics, selfArgs, fn) ==
  [c |-> c, m |-> m, implGenerics |-> generics, selfArgs |-> selfArgs, sig |-> fn]

RecordMethods(b, c, m, imp, self) ==
  LET Add(fn, acc) ==
        LET at == <<self.id, fn.name>>
            old == IF at \in DOMAIN acc.methods THEN acc.methods[at] ELSE <<>>
        IN [acc EXCEPT !.methods =
              (at :> Append(old, FnDecl(c, m, imp.generics, self.sub, fn))) @@ @]
  IN IF self.k # "Decl" THEN b
     ELSE FoldLeft(LAMBDA acc, fn : Add(fn, acc), b, SelectSeq(imp.items, LAMBDA i : i.k = "fn"))

IsImplGeneric(ty, generics) == ty.k = "Generic" /\ Contains(generics, ty.id)

Handled(ix, message, reply, item) ==
  [key |-> Key(ix, message),
   reply |-> ReplyKey(ix, reply),
   resolution |-> ResolutionOf(message), cfg |-> item.cfg, at |-> item.at]

AssocType(imp, name) == SelectSeq(imp.items, LAMBDA i : i.k = "type" /\ i.name = name)

AddMessage(ix, b, id, generics, message, reply, item) ==
  LET info == Info(b, id)
  IN SetInfo(b, id, IF IsImplGeneric(message, generics) THEN [info EXCEPT !.open = TRUE]
                    ELSE [info EXCEPT !.messages = @ \cup {Handled(ix, message, reply, item)}])

ScanActorImpl(ix, b, id, cx, imp) ==
  LET args == AssocType(imp, "Args")
  IN SetInfo(b, id, [Info(b, id) EXCEPT !.args =
       IF args = <<>> THEN None ELSE [ty |-> ResolveTy(ix, cx, args[1].ty), at |-> args[1].at]])

ScanMessageImpl(ix, b, id, cx, imp) ==
  LET reply == AssocType(imp, "Reply")
  IN IF Len(imp.trait.args) # 1 THEN Touch(b, id)
     ELSE AddMessage(ix, b, id, imp.generics, ResolveTy(ix, cx, imp.trait.args[1]),
                     IF reply = <<>> THEN None ELSE ResolveTy(ix, cx, reply[1].ty), imp)

\* `#[handler]` methods take self, the message and the ActorRef.
ScanHandlers(ix, b, id, cx, imp) ==
  LET One(acc, fn) ==
        IF Len(fn.inputs) # 3 THEN Report(acc, "declaration", fn.at, Nothing)
        ELSE IF fn.inputs[2].self THEN acc
        ELSE AddMessage(ix, acc, id, imp.generics, ResolveTy(ix, cx, fn.inputs[2].ty),
                        IF fn.output = None THEN None ELSE ResolveTy(ix, cx, fn.output), fn)
  IN FoldLeft(One, Touch(b, id), SelectSeq(imp.items, LAMBDA i : i.k = "fn" /\ i.handler))

ScanImplDecl(ix, b, c, m, imp, self, role) ==
  LET cx == ImplCtx(c, m, imp, self)
  IN CASE role = "none"     -> b
       [] self.k # "Decl"   -> Report(b, "declaration", imp.at, Nothing)
       [] role = "Actor"    -> ScanActorImpl(ix, b, self.id, cx, imp)
       [] role = "Message"  -> ScanMessageImpl(ix, b, self.id, cx, imp)
       [] OTHER             -> ScanHandlers(ix, b, self.id, cx, imp)

CollectImpl(ix, b, c, m, imp, self) ==
  ScanImplDecl(ix, RecordMethods(RecordDeref(b, imp, self), c, m, imp, self), c, m, imp, self,
               ImplRole(ix, c, m, imp))

CollectItem(ix, b, c, m, item) ==
  LET local == LocalDecl(ix, c, m, item.name)
  IN CASE item.k \in {"struct", "enum"} ->
            IF local # 0 /\ DerivesActor(ix, c, m, item)
            THEN SetInfo(b, local, [Info(b, local) EXCEPT !.derive = TRUE]) ELSE b
       [] item.k = "impl" -> CollectImpl(ix, b, c, m, item, SelfOf(ix, c, m, item))
       [] item.k = "fn"   -> [b EXCEPT !.functions =
                                (Append(ModulePath(ix.crates[c], m), item.name)
                                   :> FnDecl(c, m, <<>>, <<>>, item)) @@ @]
       [] OTHER           -> b

\* Every item of the declaration scope, in order, with its place.
Places(ix, crates) ==
  FlattenSeq([n \in DOMAIN crates |-> FlattenSeq([m \in DOMAIN ix.crates[crates[n]].modules |->
    LET items == ix.crates[crates[n]].modules[m].items
    IN [i \in DOMAIN items |-> [c |-> crates[n], m |-> m, item |-> items[i]]]])])

(***************************************************************************)
(* Holds edges                                                             *)
(***************************************************************************)

\* Actor references and handlers anywhere inside a type, in order: their
\* endpoints, or None for a reference whose actor cannot be told.
RECURSIVE HeldIn(_)
HeldIn(ty) ==
  CASE ty.k = "Rsactor" /\ ty.id \in {"ActorRef", "ActorWeak"} /\ ty.sub # <<>> ->
         LET of == ty.sub[1]
         IN CASE of.k = "Decl"     -> <<[to |-> ActorEnd(of.id), res |-> ResolutionOf(of)]>>
              [] of.k = "External" -> <<[to |-> ExternalActorEnd(of.id), res |-> Exact]>>
              [] OTHER             -> <<[to |-> None, res |-> Unresolved]>>
    [] ty.k = "Rsactor" /\ ty.id \in HandlerTraits /\ ty.sub # <<>> ->
         <<[to |-> HandlersEnd(HandlerSig(ty.id, ty.sub)), res |-> ResolutionOf(ty.sub[1])]>>
    [] OTHER -> FlattenSeq([i \in DOMAIN ty.sub |-> HeldIn(ty.sub[i])])

FieldsOfItem(item) ==
  CASE item.k = "struct" -> item.fields
    [] item.k = "enum"   -> FlattenSeq([i \in DOMAIN item.variants |-> item.variants[i].fields])
    [] OTHER             -> <<>>

\* What an actor holds: its fields, then its `type Args`.
HoldingTypes(ix, b, id) ==
  LET decl   == ix.decls[id]
      self   == DeclTy(id, [i \in DOMAIN decl.generics |-> Ty("Generic", decl.generics[i], <<>>)])
      cx     == Ctx(decl.c, decl.m, decl.generics, self, <<>>)
      fields == FieldsOfItem(decl.item)
      args   == b.actors[id].args
  IN [i \in DOMAIN fields |-> [ty |-> ResolveTy(ix, cx, fields[i].ty), at |-> fields[i].at]]
       \o (IF args = None THEN <<>> ELSE <<args>>)

HoldOne(ix, b, id, held, at) ==
  IF held.to = None THEN Report(b, "declaration", at, Nothing)
  ELSE AddEdge(ix, b, ActorEnd(id), held.to, Structural("holds", "", held.res, at))

\* The actors are the ones known when the pass starts; one that is first met
\* as the target of a reference is not itself searched.
HoldsEdges(ix, b) ==
  LET OfType(id, acc, t) == FoldLeft(LAMBDA a, h : HoldOne(ix, a, id, h, t.at), acc, HeldIn(t.ty))
      Holding(id, acc)   == FoldLeft(LAMBDA a, t : OfType(id, a, t), acc, HoldingTypes(ix, acc, id))
  IN FoldSet(Holding, b, DOMAIN b.actors)

(***************************************************************************)
(* The finished graph                                                      *)
(***************************************************************************)

\* The actors in scope that could be behind a type-erased handler.
Candidates(ix, b, sig) ==
  LET reply == ReplyKey(ix, sig.reply)
  IN {NodeId(ix, ActorEnd(id)) : id \in {a \in DOMAIN b.actors :
        \E msg \in b.actors[a].messages : /\ msg.key = Key(ix, sig.message)
                                          /\ sig.ask => msg.reply = reply}}

Assemble(ix, b) ==
  LET outside == \/ \E id \in DOMAIN b.actors : b.actors[id].open
                 \/ \E n \in b.nodes : n.k = "external_actor"
      actor(id) == [k |-> "actor", id |-> NodeId(ix, ActorEnd(id)), end |-> ActorEnd(id),
                    path |-> DeclPath(ix, id), open |-> b.actors[id].open,
                    messages |-> b.actors[id].messages]
      handler(n) == [k |-> "handlers", id |-> n, end |-> HandlersEnd(b.handlers[n]),
                     candidates |-> Candidates(ix, b, b.handlers[n]), outside |-> outside]
  IN [nodes |-> {actor(id) : id \in DOMAIN b.actors}
                  \cup {handler(n) : n \in DOMAIN b.handlers} \cup b.nodes,
      edges |-> b.edges, report |-> b.report]
=============================================================================
