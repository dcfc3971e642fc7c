------------------------------ MODULE TypeKeys ------------------------------
(* rsactor-graph, types.rs and the Resolution order of model.rs: types with  *)
(* every path resolved, their comparison keys and how surely they are known. *)
(*                                                                           *)
(* A resolved type is [k, id, sub, inferred]: its kind, the declaration,     *)
(* name or path it is about, the types inside it, and whether the            *)
(* declaration came from the last-segment fallback.  A type as written is    *)
(* [k, path, leading, args] for a path, [k, sub] for `&T`, tuples, slices,   *)
(* `dyn` and `impl`, [k, text] for anything else.                            *)
EXTENDS NameResolution

Ty(k, id, sub)  == [k |-> k, id |-> id, sub |-> sub, inferred |-> FALSE]
DeclTy(id, sub) == Ty("Decl", id, sub)
Rsactor(name, sub) == Ty("Rsactor", name, sub)
Unknown(text)   == Ty("Unknown", text, <<>>)
Unit            == Ty("Tuple", "", <<>>)
IsUnit(ty)      == ty.k = "Tuple" /\ ty.sub = <<>>
OptionOf(ty)    == Ty("Std", <<"std", "option", "Option">>, <<ty>>)
IterOf(ty)      == Ty("Iter", "", <<ty>>)

\* Compound types, and the kinds that look through to what they contain.
Compound == {"Ref", "Tuple", "Slice", "Dyn", "ImplTrait"}

(***************************************************************************)
(* How surely something is known                                           *)
(***************************************************************************)

Exact      == 0
Assumed    == 1
Inferred   == 2
Unresolved == 3

Weakest(a, b) == IF a < b THEN b ELSE a

RECURSIVE ResolutionOf(_)
ResolutionOf(ty) ==
  LET own == CASE ty.k = "Unknown" -> Unresolved
               [] ty.k = "Decl" /\ ty.inferred -> Inferred
               [] OTHER -> Exact
  IN FoldSeq(LAMBDA part, acc : Weakest(acc, ResolutionOf(part)), own, ty.sub)

(***************************************************************************)
(* Resolving a type as written in a context cx: its crate and module, the  *)
(* generic parameters in scope, what Self stands for and the block-level   *)
(* imports.  An alias is expanded to its target at most MaxAlias deep.     *)
(***************************************************************************)

Ctx(c, m, generics, self, blocks) ==
  [c |-> c, m |-> m, generics |-> generics, self |-> self, blocks |-> blocks]

\* Generic parameters replaced by name; without an argument they stay.
RECURSIVE Substitute(_, _, _)
Substitute(ty, params, args) ==
  LET at == {i \in DOMAIN params : params[i] = ty.id}
      i  == CHOOSE j \in at : \A o \in at : j <= o
  IN IF ty.k = "Generic"
     THEN IF at # {} /\ i <= Len(args) THEN args[i] ELSE ty
     ELSE [ty EXCEPT !.sub = [n \in DOMAIN @ |-> Substitute(@[n], params, args)]]

MaxAlias == 8

RECURSIVE Resolve(_, _, _, _)
ExpandAlias(ix, id, args, depth) ==
  LET decl == ix.decls[id]
      cx   == Ctx(decl.c, decl.m, decl.generics, None, <<>>)
  IN Substitute(Resolve(ix, cx, decl.item.ty, depth + 1), decl.generics, args)

\* The type that a path found stands for, with its arguments.
FoundTy(ix, ty, depth, found, args) ==
  LET res == found.res
  IN CASE res.k = "Decl" /\ ix.decls[res.id].kind = "alias" /\ depth < MaxAlias ->
            ExpandAlias(ix, res.id, args, depth)
       [] res.k = "Decl"     -> [DeclTy(res.id, args) EXCEPT !.inferred = found.inferred]
       [] res.k = "Rsactor"  -> Rsactor(res.name, args)
       [] res.k = "Std"      -> Ty("Std", res.path, args)
       [] res.k = "External" -> Ty("External", res.path, args)
       [] OTHER              -> Unknown(ty.path)

ResolvePathTy(ix, cx, ty, depth) ==
  LET alone == ~ty.leading /\ Len(ty.path) = 1
  IN CASE alone /\ ty.path[1] = "Self" /\ cx.self # None -> cx.self
       [] alone /\ Contains(cx.generics, ty.path[1]) -> Ty("Generic", ty.path[1], <<>>)
       [] OTHER -> FoundTy(ix, ty, depth, ResolveScoped(ix, cx.c, cx.m, ty.path, ty.leading, cx.blocks),
                           [i \in DOMAIN ty.args |-> Resolve(ix, cx, ty.args[i], depth)])

Resolve(ix, cx, ty, depth) ==
  CASE ty.k = "path"      -> ResolvePathTy(ix, cx, ty, depth)
    [] ty.k \in Compound  -> Ty(ty.k, "", [i \in DOMAIN ty.sub |-> Resolve(ix, cx, ty.sub[i], depth)])
    [] OTHER              -> Unknown(ty.text)

ResolveTy(ix, cx, ty) == Resolve(ix, cx, ty, 0)

(***************************************************************************)
(* Keys and views of a type                                                *)
(***************************************************************************)

\* What is written of a type when its inner paths are written in full.
RECURSIVE Written(_, _)
Written(ix, ty) ==
  <<ty.k, IF ty.k = "Decl" THEN DeclPath(ix, ty.id) ELSE ty.id,
    [i \in DOMAIN ty.sub |-> Written(ix, ty.sub[i])]>>

\* Two messages are the same when their keys are: a declared type is its
\* path with the arguments dropped, anything else the whole type.
Key(ix, ty) == IF ty.k = "Decl" THEN <<"Decl", DeclPath(ix, ty.id), <<>>>> ELSE Written(ix, ty)

SmartPointers == {<<"std", "boxed", "Box">>, <<"std", "sync", "Arc">>, <<"std", "rc", "Rc">>}

\* Through references and the pointers a method call sees through.
RECURSIVE AutoDeref(_)
AutoDeref(ty) ==
  IF ty.k = "Ref" \/ (ty.k = "Std" /\ Len(ty.sub) = 1 /\ ty.id \in SmartPointers)
  THEN AutoDeref(ty.sub[1]) ELSE ty

IsRsactor(ty, name) == AutoDeref(ty).k = "Rsactor" /\ AutoDeref(ty).id = name

HandlerTraits == {"TellHandler", "AskHandler", "WeakTellHandler", "WeakAskHandler"}

\* The handler trait behind `dyn`, as an rsactor type; None without one.
HandlerTrait(ty) ==
  LET at     == AutoDeref(ty)
      bounds == IF at.k = "Dyn"
                THEN SelectSeq(at.sub, LAMBDA b : b.k = "Rsactor" /\ b.id \in HandlerTraits)
                ELSE <<>>
  IN IF bounds = <<>> THEN None ELSE bounds[1]
=============================================================================
