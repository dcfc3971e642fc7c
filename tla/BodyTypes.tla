----------------------------- MODULE BodyTypes -----------------------------
(* rsactor-graph, calls.rs, first part: the lexical type environment of a    *)
(* function body and the type of an expression in it.                        *)
(*                                                                           *)
(* A walker `w` is one walk over one body: the index and the builder, the    *)
(* place (crate c, module m), the sender, the generic parameters and Self,   *)
(* the scopes (innermost last, a name maps to a type or to None: bound but   *)
(* unknown, so that it still shadows), the imports of the enclosing blocks,  *)
(* the spawn calls already handled and the hint for the closure of an        *)
(* iterator adapter.                                                         *)
EXTENDS ActorDiscovery

NoHint == [id |-> Nothing, ty |-> None]

Walker(ix, b, c, m, sender, path, generics, self) ==
  [ix |-> ix, b |-> b, c |-> c, m |-> m, sender |-> sender, path |-> path,
   generics |-> generics, self |-> self, scopes |-> <<>>, hint |-> NoHint,
   handled |-> {}, blocks |-> <<>>]

ResolvePath(w, path, leading) == ResolveScoped(w.ix, w.c, w.m, path, leading, w.blocks)

BodyTy(w, ty) == ResolveTy(w.ix, Ctx(w.c, w.m, w.generics, w.self, w.blocks), ty)

(***************************************************************************)
(* Scopes                                                                  *)
(***************************************************************************)

Push(w) == [w EXCEPT !.scopes = Append(@, <<>>)]
Pop(w)  == [w EXCEPT !.scopes = Front(@)]

\* Fault: a name of unknown type does not shadow an outer one.
MutBind(w, name, ty) ==
  IF w.scopes = <<>> \/ ty = None THEN w
  ELSE [w EXCEPT !.scopes[Len(w.scopes)] = (name :> ty) @@ @]

Bind(w, name, ty) ==
  IF w.scopes = <<>> THEN w
  ELSE [w EXCEPT !.scopes[Len(w.scopes)] = (name :> ty) @@ @]

Binding(w, name) == {i \in DOMAIN w.scopes : name \in DOMAIN w.scopes[i]}
LookupName(w, name) ==
  w.scopes[CHOOSE i \in Binding(w, name) : \A j \in Binding(w, name) : j <= i][name]

(***************************************************************************)
(* Declared signatures and fields                                          *)
(***************************************************************************)

\* The declared type in front of an associated function call.
FoundDecl(found, accepted) ==
  IF accepted THEN [DeclTy(found.res.id, <<>>) EXCEPT !.inferred = found.inferred] ELSE None
OwnerFound(found) == FoundDecl(found, found.res.k = "Decl")
AssocOwner(w, path, leading) ==
  CASE Len(path) <= 1 -> None
    [] Front(path) = <<"Self">> -> IF w.self.k = "Decl" THEN w.self ELSE None
    [] OTHER -> OwnerFound(ResolvePath(w, Front(path), leading))

VariantsOf(ix, id, name) ==
  IF ix.decls[id].kind = "enum" THEN SelectSeq(ix.decls[id].item.variants, LAMBDA v : v.name = name)
  ELSE <<>>
IsVariant(ix, id, name) == VariantsOf(ix, id, name) # <<>>

\* A stated type with the arguments of the receiver in it.
OnReceiver(f, self, stated) ==
  LET params == [i \in DOMAIN f.selfArgs |-> IF f.selfArgs[i].k = "Generic" THEN f.selfArgs[i].id
                                                                            ELSE ""]
  IN IF self.k = "Decl" THEN Substitute(stated, params, self.sub) ELSE stated

\* A bare generic parameter cannot be known without inference.
Inferable(ty) == IF ty.k \in {"Generic", "ImplTrait"} THEN None ELSE ty

\* What a signature returns on a receiver (None without one).
FnReturn(w, f, receiver) ==
  LET self == IF receiver = None THEN None ELSE AutoDeref(receiver)
      cx   == Ctx(f.c, f.m, f.implGenerics \o f.sig.generics, self, <<>>)
  IN IF f.sig.output = None THEN Unit
     ELSE Inferable(OnReceiver(f, self, ResolveTy(w.ix, cx, f.sig.output)))

\* One answer from several, or none if they disagree or one is unknown.
Agree(ix, types) ==
  IF \A i \in DOMAIN types : types[i] # None /\ Key(ix, types[i]) = Key(ix, types[1])
  THEN types[1] ELSE None

DeclaredMethod(w, owner, name) ==
  LET at == <<AutoDeref(owner).id, name>>
  IN IF AutoDeref(owner).k = "Decl" /\ at \in DOMAIN w.b.methods
     THEN Agree(w.ix, [i \in DOMAIN w.b.methods[at] |-> FnReturn(w, w.b.methods[at][i], owner)])
     ELSE None

\* The fields of a struct, or of the variant named, with args in place of
\* the declaration's parameters; empty when there are none to know.
DeclFields(ix, id, args, variant) ==
  LET decl   == ix.decls[id]
      hits   == VariantsOf(ix, id, variant)
      fields == CASE decl.kind = "struct" /\ variant = "" -> decl.item.fields
                  [] hits # <<>> -> hits[1].fields
                  [] OTHER -> <<>>
      cx     == Ctx(decl.c, decl.m, decl.generics, DeclTy(id, args), <<>>)
  IN [i \in DOMAIN fields |-> [name |-> fields[i].name,
                               ty |-> Substitute(ResolveTy(ix, cx, fields[i].ty), decl.generics, args)]]

FieldsFound(ix, res, ty) ==
  LET args == IF AutoDeref(ty).k = "Decl" THEN AutoDeref(ty).sub ELSE <<>>
  IN IF res.k \in {"Decl", "Variant"}
     THEN DeclFields(ix, res.id, args, IF res.k = "Variant" THEN res.name ELSE "") ELSE <<>>
NamedFields(w, path, leading, ty) == FieldsFound(w.ix, ResolvePath(w, path, leading).res, ty)

FieldNamed(fields, name) ==
  LET hits == SelectSeq(fields, LAMBDA f : f.name = name)
  IN IF hits = <<>> THEN None ELSE hits[1].ty

\* A member is a name, or the position of an unnamed field.
Member(fields, member) ==
  CASE member.name # "" -> FieldNamed(fields, member.name)
    [] OTHER -> IF member.index \in DOMAIN fields THEN fields[member.index].ty ELSE None
FieldTy(ix, base, member) ==
  LET at == AutoDeref(base)
  IN IF at.k = "Decl" THEN Member(DeclFields(ix, at.id, at.sub, ""), member) ELSE None

(***************************************************************************)
(* The built-in table of return types                                      *)
(***************************************************************************)

\* The last segment of a std type's path.
StdName(ty) == CASE ty.k = "Std" -> Last(ty.id) [] ty.k = "Slice" -> "slice" [] OTHER -> ""
NthArg(ty, n) == IF n \in DOMAIN ty.sub THEN ty.sub[n] ELSE None

Maybe(ty, wrapped) == IF ty = None THEN None ELSE wrapped

Maps    == {"HashMap", "BTreeMap"}
Ordered == {"Vec", "VecDeque", "slice"}
Sets    == {"HashSet", "BTreeSet"}

ElemOf(ty) ==
  LET at == AutoDeref(ty)
  IN CASE at.k \in {"Iter", "Slice"} -> at.sub[1]
       [] StdName(at) \in {"Vec", "VecDeque", "Option"} \cup Sets -> NthArg(at, 1)
       [] StdName(at) \in Maps /\ Len(at.sub) = 2 -> Ty("Tuple", "", at.sub)
       [] OTHER -> None

BoxedDyn(name, args) ==
  Ty("Std", <<"std", "boxed", "Box">>, <<Ty("Dyn", "", <<Rsactor(name, args)>>)>>)

Downgraded(ty) ==
  LET trait == HandlerTrait(ty)
  IN CASE IsRsactor(ty, "ActorRef") -> Rsactor("ActorWeak", AutoDeref(ty).sub)
       [] trait.k = "None"          -> None
       [] trait.id = "TellHandler"  -> BoxedDyn("WeakTellHandler", trait.sub)
       [] trait.id = "AskHandler"   -> BoxedDyn("WeakAskHandler", trait.sub)
       [] OTHER                     -> None

Upgraded(ty) ==
  LET trait == HandlerTrait(ty)
  IN CASE IsRsactor(ty, "ActorWeak")    -> OptionOf(Rsactor("ActorRef", AutoDeref(ty).sub))
       [] trait.k = "None"              -> None
       [] trait.id = "WeakTellHandler"  -> OptionOf(BoxedDyn("TellHandler", trait.sub))
       [] trait.id = "WeakAskHandler"   -> OptionOf(BoxedDyn("AskHandler", trait.sub))
       [] OTHER                         -> None

IterReturn(elem, method) ==
  CASE method = "enumerate" -> IterOf(Ty("Tuple", "", <<Ty("Std", <<"usize">>, <<>>), elem>>))
    [] method \in {"filter", "skip", "take", "rev", "cloned", "copied", "peekable", "skip_while",
                   "take_while", "step_by", "into_iter", "iter"} -> IterOf(elem)
    [] method \in {"next", "last", "nth", "find", "min", "max"} -> OptionOf(elem)
    [] OTHER -> None

StdReturn(ty, method) ==
  LET name  == StdName(ty)
      first == NthArg(ty, 1)
  IN CASE name \in {"Option", "Result"} /\ method \in {"unwrap", "expect", "unwrap_or_default"} -> first
       [] name = "Option" /\ method \in {"as_ref", "as_mut", "as_deref", "cloned", "copied"} -> ty
       [] name = "Option" /\ method \in {"iter", "into_iter"} -> Maybe(first, IterOf(first))
       [] name \in Ordered /\ method \in {"get", "get_mut", "first", "last", "first_mut", "last_mut"}
            -> Maybe(first, OptionOf(first))
       [] name \in Ordered \cup Sets /\ method \in {"iter", "iter_mut", "into_iter", "drain"}
            -> Maybe(first, IterOf(first))
       [] name \in Maps /\ method \in {"get", "get_mut"} -> Maybe(NthArg(ty, 2), OptionOf(NthArg(ty, 2)))
       [] name \in Maps /\ method \in {"values", "values_mut", "into_values"}
            -> Maybe(NthArg(ty, 2), IterOf(NthArg(ty, 2)))
       [] name \in Maps /\ method \in {"keys", "into_keys"} -> Maybe(first, IterOf(first))
       [] name \in Maps /\ method \in {"iter", "iter_mut", "into_iter", "drain"} /\ Len(ty.sub) = 2
            -> IterOf(Ty("Tuple", "", ty.sub))
       [] OTHER -> None

MethodReturn(receiver, method) ==
  CASE method \in {"clone", "clone_boxed", "to_owned"} -> receiver
    [] method = "downgrade" -> Downgraded(receiver)
    [] method = "upgrade"   -> Upgraded(receiver)
    [] AutoDeref(receiver).k = "Iter" -> IterReturn(AutoDeref(receiver).sub[1], method)
    [] OTHER -> StdReturn(AutoDeref(receiver), method)

(***************************************************************************)
(* Patterns                                                                *)
(***************************************************************************)

\* An annotation; `Self::Args` is the actor's `type Args`.
ParamTy(w, ty) ==
  LET info == Info(w.b, w.self.id)
      own  == ty.k = "path" /\ ty.path = <<"Self", "Args">> /\ w.self.k = "Decl"
  IN CASE own /\ info.args # None -> info.args.ty
       [] own /\ info.derive /\ info.args = None -> w.self
       [] OTHER -> BodyTy(w, ty)

TupleStructFields(ty, name, fields) ==
  LET at     == AutoDeref(ty)
      one(n) == IF n \in DOMAIN at.sub THEN <<at.sub[n]>> ELSE <<>>
  IN CASE <<name, StdName(at)>> \in {<<"Some", "Option">>, <<"Ok", "Result">>} -> one(1)
       [] <<name, StdName(at)>> = <<"Err", "Result">> -> one(2)
       [] OTHER -> [i \in DOMAIN fields |-> fields[i].ty]

\* The type the i-th of n positional patterns takes: from the back after `..`.
Positional(pats, i, types) ==
  LET rests == {j \in DOMAIN pats : pats[j].k = "rest"}
      at    == IF \E r \in rests : r < i THEN Len(types) - (Len(pats) - i) ELSE i
  IN IF at \in DOMAIN types THEN types[at] ELSE None

\* The patterns inside a pattern, each with the type it takes apart; `fields`
\* are those of the struct or variant it names.
Paired(pats, types)    == [i \in DOMAIN pats |-> [pat |-> pats[i], ty |-> types[i]]]
Alike(pats, ty)       == Paired(pats, [i \in DOMAIN pats |-> ty])
InOrder(pats, types) == Paired(pats, [i \in DOMAIN pats |-> Positional(pats, i, types)])
Inside(w, pat, ty, fields) ==
  CASE pat.k = "ident"   -> IF pat.sub = None THEN <<>> ELSE Alike(<<pat.sub>>, ty)
    [] pat.k = "type"    -> Alike(<<pat.pat>>, ParamTy(w, pat.ty))
    [] pat.k = "tuple"   -> InOrder(pat.elems, IF ty # None /\ AutoDeref(ty).k = "Tuple"
                                               THEN AutoDeref(ty).sub ELSE <<>>)
    [] pat.k = "tstruct" -> InOrder(pat.elems, IF ty = None THEN <<>>
                                               ELSE TupleStructFields(ty, Last(pat.path), fields))
    [] pat.k = "pstruct" -> [i \in DOMAIN pat.fields |->
                               [pat |-> pat.fields[i].pat, ty |-> FieldNamed(fields, pat.fields[i].name)]]
    [] pat.k \in {"ref", "paren", "guard"} -> Alike(<<pat.pat>>, ty)
    [] pat.k = "or"      -> Alike(pat.elems, ty)
    [] pat.k = "slice"   -> Alike(pat.elems, IF ty = None THEN None ELSE ElemOf(ty))
    [] OTHER             -> <<>>

\* Every name of a pattern is bound, to None when its type is not known.
RECURSIVE BindPat(_, _, _)
BindAll(w, typed) == FoldLeft(LAMBDA acc, t : BindPat(acc, t.pat, t.ty), w, typed)
BindPat(w, pat, ty) ==
  BindAll(IF pat.k = "ident" THEN Bind(w, pat.name, ty) ELSE w,
          Inside(w, pat, ty, IF ty = None THEN <<>> ELSE NamedFields(w, pat.path, pat.leading, ty)))
=============================================================================
