------------------------------ MODULE CallScan ------------------------------
(* rsactor-graph, calls.rs, second part: the type of an expression, the      *)
(* judgement of sends and spawns, and the walk over a body.                  *)
(*                                                                           *)
(* Expressions, patterns and statements are records with a kind `k`, as in   *)
(* the AST.  `base`, `elems`, `block` hold what an expression is made of; a  *)
(* position `at` names a call in the source.                                 *)
EXTENDS BodyTypes

ExprMacros ==
  {"assert", "assert_eq", "assert_ne", "dbg", "debug", "debug_assert", "debug_assert_eq",
   "debug_assert_ne", "eprint", "eprintln", "error", "format", "format_args", "info", "join",
   "panic", "print", "println", "trace", "try_join", "vec", "warn", "write", "writeln"}
DivergingMacros == {"panic", "todo", "unimplemented", "unreachable"}
SpawnFns == {"spawn", "spawn_with_mailbox_capacity", "spawn_with_options"}
Tells == {"tell", "tell_with_timeout", "tell_priority", "blocking_tell", "blocking_tell_priority"}
Asks  == {"ask", "ask_with_timeout", "ask_priority", "blocking_ask", "blocking_ask_priority", "ask_join"}
HandlerSends == {"tell", "tell_with_timeout", "blocking_tell", "ask", "ask_with_timeout", "blocking_ask"}
Adapters  == {"for_each", "map", "filter", "filter_map", "find", "any", "all"}
UfcsRoots == {"ActorRef", "TellHandler", "AskHandler"}
IsSend(method) == method \in Tells \cup Asks

RECURSIVE Strip(_)
Strip(e) == IF e.k = "paren" THEN Strip(e.base) ELSE e

Diverges(e) == \/ Strip(e).k \in {"return", "break", "continue"}
               \/ Strip(e).k = "macro" /\ Strip(e).mac.name \in DivergingMacros

(***************************************************************************)
(* The type of an expression                                               *)
(***************************************************************************)

\* A struct, or the enum of a variant, named as a value.
IsStruct(ix, res) == res.k = "Decl" /\ ix.decls[res.id].kind = "struct"
ValueFound(ix, found) ==
  FoundDecl(found, \/ IsStruct(ix, found.res)
                   \/ found.res.k = "Variant" /\ IsVariant(ix, found.res.id, found.res.name))
PathType(w, path, leading) == ValueFound(w.ix, ResolvePath(w, path, leading))

\* `L { .. }`, `L` or `L(..)` where L resolves exactly to a struct; 0 if not.
ExactStruct(ix, found) == IF IsStruct(ix, found.res) /\ ~found.inferred THEN found.res.id ELSE 0
LiteralStruct(w, e) ==
  LET named == IF e.k = "call" THEN e.func ELSE e
  IN IF named.k = "path" \/ e.k = "struct"
     THEN ExactStruct(w.ix, ResolvePath(w, named.path, named.leading)) ELSE 0

Derived(w, id) == id # 0 /\ Info(w.b, id).derive

\* Other actors whose `type Args` is id.
ArgsOf(w, id) ==
  {other \in DOMAIN w.b.actors \ {id} :
     /\ w.b.actors[other].args # None
     /\ Key(w.ix, w.b.actors[other].args.ty) = Key(w.ix, DeclTy(id, <<>>))}

\* `(ActorRef<Y>, _)` or `ActorRef<Y>`: Y.
ActorRefTarget(ty) ==
  LET first == IF ty.k = "Tuple" /\ ty.sub # <<>> THEN ty.sub[1] ELSE ty
  IN IF first.k = "Rsactor" /\ first.id = "ActorRef" THEN NthArg(first, 1) ELSE None

\* By turbofish, by annotation (None without one), or by a literal of a
\* derived actor that is no other actor's `type Args`.
Noted(w, annotation) == IF annotation = None THEN None ELSE ActorRefTarget(ParamTy(w, annotation))
Literal(w, id) == IF Derived(w, id) /\ ArgsOf(w, id) = {} THEN DeclTy(id, <<>>) ELSE None
SpawnTarget(w, call, annotation) ==
  CASE call.func.k # "path"  -> None
    [] call.func.args # <<>> -> BodyTy(w, call.func.args[1])
    [] OTHER -> OrElse(Noted(w, annotation),
                       Literal(w, IF call.args = <<>> THEN 0 ELSE LiteralStruct(w, call.args[1])))

RECURSIVE ExprType(_, _, _)
TypeOf(w, e) == ExprType(w, e, FALSE)

SpawnedPair(actor) ==
  IF actor = None THEN None
  ELSE Ty("Tuple", "", <<Rsactor("ActorRef", <<actor>>), Unknown(<<"JoinHandle">>)>>)
OwnedMethod(w, owner, name) == IF owner = None THEN None ELSE DeclaredMethod(w, owner, name)
DowngradedOf(ty) == IF ty = None THEN None ELSE Downgraded(ty)

\* Calls whose result type is known.
CalleeReturns(w, call, res) ==
  LET path == call.func.path
  IN CASE res.k = "Value" -> IF res.path \in DOMAIN w.b.functions
                             THEN FnReturn(w, w.b.functions[res.path], None) ELSE None
       [] res.k = "None" \/ (res.k = "Variant" /\ ~IsVariant(w.ix, res.id, res.name)) ->
            OwnedMethod(w, AssocOwner(w, path, call.func.leading), Last(path))
       [] res.k = "Rsactor" /\ res.name \in SpawnFns -> SpawnedPair(SpawnTarget(w, call, None))
       [] res.k = "Rsactor" /\ res.name = "downgrade" /\ Len(path) >= 2
          /\ path[Len(path) - 1] = "ActorRef" /\ call.args # <<>> ->
            DowngradedOf(TypeOf(w, call.args[1]))
       [] IsStruct(w.ix, res) \/ res.k = "Variant" -> DeclTy(res.id, <<>>)
       [] OTHER -> None
CallReturn(w, call) ==
  IF call.func.k # "path" THEN None
  ELSE CalleeReturns(w, call, ResolvePath(w, call.func.path, call.func.leading).res)

PathTypeOf(w, e) ==
  CASE e.path = <<"self">> -> w.self
    [] Len(e.path) = 1 /\ Binding(w, e.path[1]) # {} -> LookupName(w, e.path[1])
    [] OTHER -> PathType(w, e.path, e.leading)

\* The type once a method is called on it, or a field or an element taken.
MethodOf(w, ty, method) == OrElse(MethodReturn(ty, method), DeclaredMethod(w, ty, method))
Questioned(ty) == IF StdName(AutoDeref(ty)) \in {"Option", "Result"} THEN NthArg(AutoDeref(ty), 1) ELSE None
Indexed(ty)    == IF StdName(AutoDeref(ty)) \in Maps THEN NthArg(AutoDeref(ty), 2) ELSE ElemOf(ty)

(***************************************************************************)
(* The type of a branching expression: every branch that does not diverge  *)
(* must agree.  Its bindings live in scopes that do not leave it.          *)
(***************************************************************************)

Divergent == [k |-> "Divergent"]

Merge(ix, branches) ==
  LET live == SelectSeq(branches, LAMBDA t : t # Divergent)
  IN IF live = <<>> THEN Divergent ELSE Agree(ix, live)

\* The branches of an expression: what binds names there, and the statements.
Binder(pat, base) == [k |-> "let", pat |-> pat, base |-> base]
Branch(cond, stmts) == [cond |-> cond, stmts |-> stmts]
Result(e) == <<[k |-> "expr", e |-> e, semi |-> FALSE]>>
Branches(e) ==
  CASE e.k \in {"block", "unsafe"} -> <<Branch(None, e.block)>>
    [] e.k = "if" /\ e.els # None  -> <<Branch(e.cond, e.block), Branch(None, Result(e.els))>>
    [] e.k = "match" -> [i \in DOMAIN e.arms |->
                           Branch(Binder(e.arms[i].pat, e.base), Result(e.arms[i].body))]
    [] OTHER -> <<>>

RECURSIVE BindCondition(_, _), StmtsType(_, _)

BindCondition(w, cond) ==
  LET e == Strip(cond)
  IN CASE e.k = "let" -> BindPat(w, e.pat, TypeOf(w, e.base))
       [] e.k = "and" -> BindCondition(BindCondition(w, e.elems[1]), e.elems[2])
       [] OTHER       -> w

StmtsType(w, stmts) ==
  LET s == Head(stmts)
  IN CASE stmts = <<>>    -> None
       [] s.k = "local"   -> StmtsType(BindCondition(w, Binder(s.pat, s.init)), Tail(stmts))
       [] s.k = "expr" /\ ~s.semi /\ Len(stmts) = 1 -> ExprType(w, s.e, TRUE)
       [] s.k = "expr" /\ s.semi /\ Diverges(s.e) -> Divergent
       [] s.k = "macro" /\ s.mac.name \in DivergingMacros -> Divergent
       [] OTHER           -> StmtsType(w, Tail(stmts))

BranchType(w, branches) ==
  LET In(branch) == StmtsType(BindCondition(Push(w), branch.cond), branch.stmts)
  IN Merge(w.ix, [i \in DOMAIN branches |-> In(branches[i])])

\* `deep` also looks into the branches of an expression.
ExprType(w, written, deep) ==
  LET e    == Strip(written)
      base == TypeOf(w, e.base)
      Through(Op(_)) == IF base = None THEN None ELSE Op(base)
      OrUnknown(ty) == IF ty = None THEN Unknown(<<"_">>) ELSE ty
  IN CASE deep /\ Diverges(e) -> Divergent
       [] deep /\ Branches(e) # <<>> -> BranchType(w, Branches(e))
       [] e.k = "path"   -> PathTypeOf(w, e)
       [] e.k = "field"  -> Through(LAMBDA t : FieldTy(w.ix, t, e.member))
       [] e.k = "mcall"  -> Through(LAMBDA t : MethodOf(w, t, e.method))
       [] e.k = "call"   -> CallReturn(w, e)
       [] e.k \in {"await", "ref"} -> base
       [] e.k = "tuple"  -> Ty("Tuple", "", [i \in DOMAIN e.elems |-> OrUnknown(TypeOf(w, e.elems[i]))])
       [] e.k = "deref"  -> Through(AutoDeref)
       [] e.k = "try"    -> Through(Questioned)
       [] e.k = "index"  -> Through(Indexed)
       [] e.k = "struct" -> PathType(w, e.path, e.leading)
       [] e.k = "cast"   -> BodyTy(w, e.ty)
       [] OTHER          -> None

(***************************************************************************)
(* Messages and receivers                                                  *)
(***************************************************************************)

Judged(ty) == IF ty = None THEN None ELSE [ty |-> ty, res |-> ResolutionOf(ty)]

\* `M::new(..)` without a signature in scope is assumed to make an M.
AssumedMessage(ty) ==
  IF ty = None THEN None ELSE [ty |-> ty, res |-> Weakest(ResolutionOf(ty), Assumed)]
CalledMessage(w, e, ty) ==
  LET path == e.func.path  leading == e.func.leading
  IN IF e.func.k # "path" THEN None
     ELSE OrElse(Judged(OrElse(PathType(w, path, leading), ty)),
                 AssumedMessage(AssocOwner(w, path, leading)))

\* `ty` is the type of the expression `e`.
MessageOf(w, e, ty) ==
  CASE e.k = "path" /\ Len(e.path) = 1 /\ Binding(w, e.path[1]) # {} ->
         Judged(LookupName(w, e.path[1]))
    [] e.k = "path" -> Judged(PathType(w, e.path, e.leading))
    [] e.k = "call" -> CalledMessage(w, e, ty)
    [] OTHER        -> Judged(ty)

\* A declared type that dereferences, or holds a reference anywhere inside,
\* may forward a send.  `seen` stops at a type already being looked into.
RECURSIVE MayWrapActor(_, _, _), MentionsActor(_, _, _)
MayWrapActor(w, id, seen) ==
  LET fields == DeclFields(w.ix, id, <<>>, "")
  IN \/ id \in w.b.deref
     \/ id \notin seen /\ \E i \in DOMAIN fields : MentionsActor(w, fields[i].ty, seen \cup {id})
MentionsActor(w, ty, seen) ==
  \/ ty.k = "Rsactor" /\ ty.id \in {"ActorRef", "ActorWeak"} \cup HandlerTraits
  \/ ty.k = "Decl" /\ MayWrapActor(w, ty.id, seen)
  \/ \E i \in DOMAIN ty.sub : MentionsActor(w, ty.sub[i], seen)

ToActor(end, res, id) == [k |-> "actor", to |-> end, res |-> res, id |-> id]
ToHandlers(sig)       == [k |-> "handlers", sig |-> sig]
Unrelated   == [k |-> "unrelated"]
Unsupported == [k |-> "unsupported"]
UnknownRecv == [k |-> "unknown"]

ClassifyRef(target) ==
  CASE target.k = "None"     -> UnknownRecv
    [] target.k = "Decl"     -> ToActor(ActorEnd(target.id), ResolutionOf(target), target.id)
    [] target.k = "External" -> ToActor(ExternalActorEnd(target.id), Exact, 0)
    [] OTHER                 -> Unsupported

ClassifyHandler(trait, method) ==
  CASE trait.id \in {"WeakTellHandler", "WeakAskHandler"} \/ method \notin HandlerSends -> Unrelated
    [] trait.sub = <<>> -> UnknownRecv
    [] OTHER            -> ToHandlers(HandlerSig(trait.id, trait.sub))

Classify(w, ty, method) ==
  LET at    == AutoDeref(ty)
      trait == HandlerTrait(ty)
  IN CASE ty = None                 -> UnknownRecv
       [] IsRsactor(ty, "ActorRef") -> ClassifyRef(NthArg(at, 1))
       [] trait # None              -> ClassifyHandler(trait, method)
       [] at.k \in {"Std", "Tuple", "Slice", "Iter", "Rsactor"} -> Unrelated
       [] at.k = "Decl" -> IF w.ix.decls[at.id].kind = "alias" \/ MayWrapActor(w, at.id, {})
                           THEN Unsupported ELSE Unrelated
       [] at.k \in {"External", "Generic"} -> Unsupported
       [] OTHER -> UnknownRecv

(***************************************************************************)
(* Sends                                                                   *)
(***************************************************************************)

Note(w, category, at) ==
  [w EXCEPT !.b = Report(@, category, at, NodeId(w.ix, w.sender))]

HandledKeys(b, id) == {msg.key : msg \in Info(b, id).messages}
HandledBySomeActor(b, key) == \E id \in DOMAIN b.actors : key \in HandledKeys(b, id)

AddSend(w, mc, ask, to, recv, message, reply) ==
  [w EXCEPT !.b = AddEdge(w.ix, @, w.sender, to,
     [kind |-> IF ask THEN "ask" ELSE "tell",
      variant |-> IF mc.method \in {"tell", "ask"} THEN "" ELSE mc.method,
      message |-> message.key, reply |-> reply, recv |-> recv, msg |-> message.res, at |-> mc.at])]

SendToActor(w, mc, ask, to, message) ==
  LET known   == to.id \in DOMAIN w.b.actors
      replies == {m.reply : m \in {h \in Info(w.b, to.id).messages : h.key = message.key}}
      w1 == IF known /\ message.key # Nothing /\ ~Info(w.b, to.id).open /\ replies = {}
            THEN Note(w, "cross_check", mc.at) ELSE w
      w2 == IF message.key = Nothing THEN Note(w1, "unresolved_edge", mc.at) ELSE w1
  IN AddSend(w2, mc, ask, to.to, to.res, message,
             IF replies = {} THEN Nothing ELSE CHOOSE r \in replies : TRUE)

SendToHandlers(w, mc, ask, sig, message) ==
  LET w1 == IF message.key \notin {Nothing, Key(w.ix, sig.message)}
            THEN Note(w, "cross_check", mc.at) ELSE w
  IN AddSend(w1, mc, ask, HandlersEnd(sig), ResolutionOf(sig.message), message,
             KeyOrNothing(w.ix, sig.reply))

\* Fault: a send that cannot be judged at all is dropped without a word.
MutSendToUnknown(w, mc, ask, message) ==
  IF message.key # Nothing /\ HandledBySomeActor(w.b, message.key)
  THEN AddSend(Note(w, "unresolved_edge", mc.at), mc, ask, UnknownEnd(NodeId(w.ix, w.sender)),
               Unresolved, message, Nothing)
  ELSE w

\* An unknown receiver of a message that some actor handles keeps an edge.
SendToUnknown(w, mc, ask, message) ==
  IF message.key # Nothing /\ HandledBySomeActor(w.b, message.key)
  THEN AddSend(Note(w, "unresolved_edge", mc.at), mc, ask, UnknownEnd(NodeId(w.ix, w.sender)),
               Unresolved, message, Nothing)
  ELSE Note(w, "unclassified", mc.at)

Sent(ix, judged) ==
  IF judged # None /\ judged.res # Unresolved THEN [key |-> Key(ix, judged.ty), res |-> judged.res]
  ELSE [key |-> Nothing, res |-> Unresolved]

SendTo(w, mc, ask, receiver, message) ==
  CASE receiver.k = "actor"       -> SendToActor(w, mc, ask, receiver, message)
    [] receiver.k = "handlers"    -> SendToHandlers(w, mc, ask, receiver.sig, message)
    [] receiver.k = "unrelated"   -> w
    [] receiver.k = "unsupported" -> Note(w, "unsupported_receiver", mc.at)
    [] receiver.k = "unknown"     -> SendToUnknown(w, mc, ask, message)

\* With the types of the receiver and of the first argument.
Send(w, mc, types) ==
  SendTo(w, mc, mc.method \in Asks, Classify(w, types[1], mc.method),
         Sent(w.ix, IF mc.args = <<>> THEN None ELSE MessageOf(w, Strip(mc.args[1]), types[2])))

(***************************************************************************)
(* Spawns                                                                  *)
(***************************************************************************)

\* "yes" for an rsactor spawn, "unresolved" for a call named like one.
SpawnFound(found, name) ==
  CASE found.res = None -> "unresolved"
    [] ~found.inferred /\ found.res = RsactorRes(name) -> "yes"
    [] OTHER -> "no"
SpawnFn(w, call) ==
  LET path == call.func.path  leading == call.func.leading
  IN CASE call.func.k # "path" \/ Last(path) \notin SpawnFns -> "no"
       [] AssocOwner(w, path, leading) # None \/ Head(path) = "Self" -> "no"
       [] OTHER -> SpawnFound(ResolvePath(w, path, leading), Last(path))

SpawnEdge(w, target, variant, at) ==
  LET Link(end) == [w EXCEPT !.b = AddEdge(w.ix, @, w.sender, end,
                                           Structural("spawn", variant, ResolutionOf(target), at))]
  IN CASE target.k = "Decl"     -> Link(ActorEnd(target.id))
       [] target.k = "External" -> Link(ExternalActorEnd(target.id))
       [] OTHER                 -> Note(w, "unresolved_spawn", at)

\* A call is judged once: with its annotation when `let` saw it first.
Spawn(w, call, judgement, target) ==
  LET name == Last(call.func.path)
      w1   == [w EXCEPT !.handled = @ \cup {call.at}]
  IN CASE judgement = "no" \/ call.at \in w.handled -> w
       [] judgement = "unresolved" \/ target = None -> Note(w1, "unresolved_spawn", call.at)
       [] OTHER -> SpawnEdge(w1, target, IF name = "spawn" THEN "" ELSE name, call.at)

(***************************************************************************)
(* What is reported and not judged                                         *)
(***************************************************************************)

Ufcs(w, call) ==
  LET path == call.func.path
  IN IF /\ call.func.k = "path" /\ Len(path) >= 2
        /\ Last(path) \in Tells \cup Asks \cup HandlerSends
        /\ path[Len(path) - 1] \in UfcsRoots
     THEN Note(w, "ufcs", call.at) ELSE w

\* A macro carries the `.method(` sequences of its tokens.
MacroCandidates(w, mac) ==
  FoldLeft(LAMBDA acc, s : IF s.method \in Tells \cup Asks \cup HandlerSends
                           THEN Note(acc, "macro_candidate", s.at) ELSE acc, w, mac.sends)

(***************************************************************************)
(* The walk over a body: what there is to do, in the order of the visitor. *)
(* None of it depends on a type, so it is the syntax alone that says it.   *)
(***************************************************************************)

PushScope == [k |-> "push"]
PopScope  == [k |-> "pop"]
\* A pattern takes apart an expression, or an element of it; only a `let`
\* statement looks into the branches of its initializer.
BindTo(pat, from, how) ==
  [k |-> "bind", pat |-> pat, how |-> how, of |-> IF from = None THEN <<>> ELSE <<from>>, deep |-> how = "local"]
TrySpawn(call, annotation) == [k |-> "spawn", call |-> call, annotation |-> annotation]

RECURSIVE Events(_), BlockEvents(_)

AllEvents(exprs) == FlattenSeq([i \in DOMAIN exprs |-> Events(exprs[i])])

CallEvents(call) ==
  <<TrySpawn(call, None), [k |-> "ufcs", call |-> call]>> \o AllEvents(<<call.func>> \o call.args)

MethodCallEvents(mc) ==
  LET parts == <<mc.base>> \o mc.args
  IN <<[k |-> "mcall", call |-> mc, of |-> SubSeq(parts, 1, IF mc.args = <<>> THEN 1 ELSE 2), deep |-> FALSE]>>
       \o AllEvents(parts)

ClosureEvents(closure) == <<[k |-> "closure", closure |-> closure]>> \o Events(closure.body) \o <<PopScope>>

ForEvents(loop) ==
  Events(loop.base) \o <<PushScope, BindTo(loop.pat, loop.base, "element")>> \o BlockEvents(loop.block)
    \o <<PopScope>>

\* The bindings of a condition live in the branch it guards.
GuardedEvents(e) == <<PushScope>> \o Events(e.cond) \o BlockEvents(e.block) \o <<PopScope>>
IfEvents(e)      == GuardedEvents(e) \o Events(e.els)

LetEvents(e) == Events(e.base) \o <<BindTo(e.pat, e.base, "value")>>

MatchEvents(e) ==
  LET Guard(pat) == IF pat.k = "guard" THEN Events(pat.guard) ELSE <<>>
      Arm(a)     == <<PushScope, BindTo(a.pat, e.base, "value")>> \o Guard(a.pat) \o Events(a.body) \o <<PopScope>>
  IN Events(e.base) \o FlattenSeq([i \in DOMAIN e.arms |-> Arm(e.arms[i])])

\* Expression macros are parsed and walked as code, others scanned.
MacroEvents(mac) ==
  CASE mac.parsed /\ mac.name \in ExprMacros -> AllEvents(mac.exprs)
    [] mac.parsed /\ mac.name = "matches"    -> Events(mac.exprs[1])
    [] OTHER -> <<[k |-> "macro", mac |-> mac]>>

\* The parts of an expression that has no rule of its own, in source order.
Parts(e) ==
  CASE e.k \in {"path", "lit", "None"} -> <<>>
    [] e.k \in {"tuple", "struct", "and", "other"} -> e.elems
    [] e.k = "index" -> <<e.base, e.elems[1]>>
    [] e.k \in {"break", "continue"} \/ e.base = None -> <<>>
    [] OTHER -> <<e.base>>

Events(e) ==
  CASE e.k = "call"    -> CallEvents(e)
    [] e.k = "mcall"   -> MethodCallEvents(e)
    [] e.k = "closure" -> ClosureEvents(e)
    [] e.k = "for"     -> ForEvents(e)
    [] e.k = "if"      -> IfEvents(e)
    [] e.k = "while"   -> GuardedEvents(e)
    [] e.k = "let"     -> LetEvents(e)
    [] e.k = "match"   -> MatchEvents(e)
    [] e.k = "macro"   -> MacroEvents(e.mac)
    [] e.k \in {"block", "unsafe", "async", "loop"} -> BlockEvents(e.block)
    [] OTHER           -> AllEvents(Parts(e))

\* The initializer is walked and typed before the pattern binds.  A call is
\* first tried with the annotation.
LocalEvents(local) ==
  LET init  == Strip(local.init)
      noted == IF local.pat.k = "type" /\ init.k = "call" THEN <<TrySpawn(init, local.pat.ty)>> ELSE <<>>
  IN noted \o Events(local.init) \o Events(local.els) \o <<BindTo(local.pat, local.init, "local")>>

StmtEvents(s) ==
  CASE s.k = "local" -> LocalEvents(s)
    [] s.k = "expr"  -> Events(s.e)
    [] s.k = "macro" -> MacroEvents(s.mac)
    [] s.k = "item"  -> <<[k |-> "item", item |-> s.item]>>

\* A block-level `use` is visible in the whole block.
BlockEvents(block) ==
  LET items == SelectSeq(block, LAMBDA s : s.k = "item")
      uses  == ImportsOf([i \in DOMAIN items |-> items[i].item])
  IN <<[k |-> "block", imports |-> uses]>> \o FlattenSeq([i \in DOMAIN block |-> StmtEvents(block[i])])
       \o <<[k |-> "end"]>>

\* Parameters, then the body.
FnEvents(fn) ==
  LET params   == SelectSeq(fn.inputs, LAMBDA i : ~i.self)
      Typed_(i) == [k |-> "type", pat |-> i.pat, ty |-> i.ty]
  IN <<PushScope>> \o [i \in DOMAIN params |-> BindTo(Typed_(params[i]), None, "param")]
       \o BlockEvents(fn.body) \o <<PopScope>>

(***************************************************************************)
(* Doing it                                                                *)
(***************************************************************************)

ElementOf(ty)  == IF ty = None THEN None ELSE ElemOf(ty)

\* What a pattern takes apart, from the type of its expression, if it has one.
Taken(how, types) ==
  CASE types = <<>> \/ types[1] = Divergent -> None
    [] how = "element" -> ElementOf(types[1])
    [] OTHER           -> types[1]

\* The hint has one slot: a later adapter overwrites it.
Hint(w, mc, base) ==
  IF mc.method \in Adapters /\ mc.args # <<>> /\ mc.args[1].k = "closure"
  THEN [w EXCEPT !.hint = [id |-> mc.args[1].id, ty |-> ElementOf(base)]] ELSE w

MethodCall(w, mc, types) ==
  LET hinted == Hint(w, mc, types[1])
  IN IF IsSend(mc.method) THEN Send(hinted, mc, types) ELSE hinted

EnterClosure(w, closure) ==
  LET mine  == w.hint.id = closure.id
      types == [i \in DOMAIN closure.inputs |-> IF mine /\ i = 1 THEN w.hint.ty ELSE None]
  IN BindAll(Push(IF mine THEN [w EXCEPT !.hint = NoHint] ELSE w), Paired(closure.inputs, types))

EnterBlock(w, imports) == Push([w EXCEPT !.blocks = Append(@, imports)])
LeaveBlock(w)          == Pop([w EXCEPT !.blocks = Front(@)])

RECURSIVE Perform(_, _)

Walk(w, fn) == FoldLeft(Perform, w, FnEvents(fn)).b

\* What is sent by a function: its path, the sender, the generic parameters
\* in scope and Self.
Scanned_(fn, path, sender, generics, self) ==
  [fn |-> fn, path |-> path, sender |-> sender, generics |-> generics, self |-> self]
AsFunction(ix, c, fn, owner, generics, self) ==
  LET path == Append(owner, fn.name)
  IN Scanned_(fn, path, FnEnd(TargetOf(ix, c), path, owner), generics \o fn.generics, self)

\* The `main` of a binary is outside; other free functions are themselves.
ScanFn(ix, c, m, prefix, fn) ==
  LET isMain == ix.crates[c].spec.target # "lib" /\ m = 1 /\ fn.name = "main"
      scan   == AsFunction(ix, c, fn, prefix, <<>>, None)
  IN <<IF isMain THEN [scan EXCEPT !.sender = ExternalEnd] ELSE scan>>

HasReceiver(fn) == \E i \in DOMAIN fn.inputs : fn.inputs[i].self

\* An actor's methods, and its Actor and Message methods, send as the actor.
ScanImpl(ix, b, c, imp, self, role) ==
  LET methods == SelectSeq(imp.items, LAMBDA i : i.k = "fn")
      actor   == self.k = "Decl" /\ self.id \in DOMAIN b.actors
      owner   == IF self.k = "Decl" THEN DeclPath(ix, self.id) ELSE Key(ix, self)
      Method(fn) ==
        LET scan == AsFunction(ix, c, fn, owner, imp.generics, self)
        IN IF actor /\ (HasReceiver(fn) \/ role \in {"Actor", "Message"})
           THEN [scan EXCEPT !.sender = ActorEnd(self.id)] ELSE scan
  IN [i \in DOMAIN methods |-> Method(methods[i])]

\* A trait's default bodies send as the trait's methods.
ScanTrait(ix, c, prefix, trait) ==
  LET bodies == SelectSeq(trait.items, LAMBDA i : i.k = "fn" /\ i.body # <<>>)
      Default(fn) == [AsFunction(ix, c, fn, Append(prefix, trait.name), trait.generics, None)
                        EXCEPT !.generics = Append(@, "Self")]
  IN [i \in DOMAIN bodies |-> Default(bodies[i])]

ScansOf(ix, b, c, m, prefix, item) ==
  CASE item.k = "fn"    -> ScanFn(ix, c, m, prefix, item)
    [] item.k = "impl"  -> ScanImpl(ix, b, c, item, SelfOf(ix, c, m, item), ImplRole(ix, c, m, item))
    [] item.k = "trait" -> ScanTrait(ix, c, prefix, item)
    [] OTHER            -> <<>>

WalkerFor(ix, b, c, m, scan) == Walker(ix, b, c, m, scan.sender, scan.path, scan.generics, scan.self)

ScanItem(ix, b, c, m, prefix, item) ==
  FoldLeft(LAMBDA acc, scan : Walk(WalkerFor(ix, acc, c, m, scan), scan.fn), b,
           ScansOf(ix, b, c, m, prefix, item))

\* A nested `fn` is its own sender; it sees the imports and not the bindings.
Nested(w, fn) ==
  LET scan == [AsFunction(w.ix, w.c, fn, w.path, <<>>, None) EXCEPT !.sender.owner = Nothing]
  IN Walk([WalkerFor(w.ix, w.b, w.c, w.m, scan) EXCEPT !.blocks = w.blocks], fn)

VisitItem(w, item) ==
  CASE item.k = "fn" -> [w EXCEPT !.b = Nested(w, item)]
    [] item.k \in {"impl", "trait"} -> [w EXCEPT !.b = ScanItem(w.ix, @, w.c, w.m, w.path, item)]
    [] OTHER -> w

OnTypes(w, ev, types) ==
  IF ev.k = "bind" THEN BindPat(w, ev.pat, Taken(ev.how, types)) ELSE MethodCall(w, ev.call, types)

Perform(w, ev) ==
  CASE ev.k = "push"    -> Push(w)
    [] ev.k = "pop"     -> Pop(w)
    [] ev.k = "block"   -> EnterBlock(w, ev.imports)
    [] ev.k = "end"     -> LeaveBlock(w)
    [] ev.k \in {"bind", "mcall"} -> OnTypes(w, ev, [i \in DOMAIN ev.of |-> ExprType(w, ev.of[i], ev.deep)])
    [] ev.k = "spawn"   -> Spawn(w, ev.call, SpawnFn(w, ev.call), SpawnTarget(w, ev.call, ev.annotation))
    [] ev.k = "ufcs"    -> Ufcs(w, ev.call)
    [] ev.k = "closure" -> EnterClosure(w, ev.closure)
    [] ev.k = "macro"   -> MacroCandidates(w, ev.mac)
    [] ev.k = "item"    -> VisitItem(w, ev.item)
=============================================================================
