-------------------------- MODULE HandlerExpansion --------------------------
(***************************************************************************)
(* rsactor-derive: #[message_handlers], which goes through the items of an *)
(* impl block and writes an `impl Message` for each method that carries    *)
(* #[handler], or stops with an error of its own.                          *)
(*                                                                         *)
(* A type is what the macro and the compiler look at in it: its form, the  *)
(* last segment of its path, the identifiers and the lifetimes that occur  *)
(* in it.                                                                  *)
(***************************************************************************)
EXTENDS Naturals, Sequences

CONSTANTS
    Blocks,     \* attributed impl blocks: [args, params, wheres, items]
    Flags       \* features a #[cfg] may name

VARIABLES
    block,      \* the block as written, then without its #[handler] attributes
    place,      \* the item to be looked at
    impls,      \* the impls written so far
    verdict     \* "expanding", "rejected" or "expanded"

expVars == <<block, place, impls, verdict>>

NoType == [form |-> "none", last |-> "", idents |-> {}, lifetimes |-> {}]

ExpInit ==
    /\ block \in Blocks
    /\ place = 1 /\ impls = <<>> /\ verdict = "expanding"

(***************************************************************************)
(* The attribute                                                           *)
(***************************************************************************)

IsHandler(attr) == attr.name = "handler"
Marked(method)  == \E i \in DOMAIN method.attrs : IsHandler(method.attrs[i])

\* The first one counts.
FirstMark(method) ==
    CHOOSE i \in DOMAIN method.attrs :
        /\ IsHandler(method.attrs[i])
        /\ \A j \in DOMAIN method.attrs : IsHandler(method.attrs[j]) => i <= j
Options(method) == method.attrs[FirstMark(method)]

Has(method, option) == \E i \in DOMAIN Options(method).args : Options(method).args[i] = option

OptionsOK(method) ==
    /\ Options(method).form \in {"path", "list"}
    /\ \A i \in DOMAIN Options(method).args : Options(method).args[i] \in {"result", "no_log"}
    /\ ~(Has(method, "result") /\ Has(method, "no_log"))

(***************************************************************************)
(* The signature                                                           *)
(***************************************************************************)

\* `&mut self` or `self: &mut Self`
TakesMut(input) == input.form = "self" /\ input.by \in {"&mut", ":&mut"}

\* By the form and the last segment only.
TakesRef(input) == input.form = "typed" /\ input.ty.form = "ref" /\ input.ty.last = "ActorRef"

Concrete(ty) == "impl" \notin ty.idents

SignatureOK(method) ==
    /\ method.async
    /\ \A p \in method.params : p.kind = "lifetime"
    /\ Len(method.inputs) = 3
    /\ TakesMut(method.inputs[1])
    /\ method.inputs[2].form = "typed" /\ Concrete(method.inputs[2].ty)
    /\ TakesRef(method.inputs[3])
    /\ Concrete(method.output)
    /\ Has(method, "result") => method.output # NoType

(***************************************************************************)
(* The impl                                                                *)
(***************************************************************************)

\* By the last segment only.
LooksLikeResult(ty) == ty.form = "path" /\ ty.last = "Result"

Logs(method) ==
    ~Has(method, "no_log") /\ (Has(method, "result") \/ LooksLikeResult(method.output))

Names(params, kinds) == {p.name : p \in {q \in params : q.kind \in kinds}}
Lifetimes(params)    == Names(params, {"lifetime"})

\* Fault: the predicates are copied whatever lifetimes they name.
MutCarried(method) == method.wheres
Carried(method) == {w \in method.wheres : w.lifetimes \cap Lifetimes(method.params) = {}}

Cfgs(method) == {method.attrs[i].flag : i \in {j \in DOMAIN method.attrs : method.attrs[j].name = "cfg"}}

ImplOf(method) ==
    [message |-> method.inputs[2].ty, reply |-> method.output, calls |-> method.name,
     cfgs |-> Cfgs(method), wheres |-> block.wheres \cup Carried(method), logs |-> Logs(method)]

\* What is left keeps its places.
WithoutMarks(attrs) == [i \in {j \in DOMAIN attrs : ~IsHandler(attrs[j])} |-> attrs[i]]
Unmarked(item) == IF item.kind = "fn" THEN [item EXCEPT !.attrs = WithoutMarks(@)] ELSE item

(***************************************************************************)
(* What any block is                                                       *)
(***************************************************************************)

MethodFields == {"kind", "name", "attrs", "async", "params", "wheres", "inputs", "output"}

\* Rust's own rules, handler or not: no lifetime of a method shadows one of its
\* block, and no predicate has an `impl Trait` in it.
IsRust(method, b) ==
    /\ \A w \in b.wheres : w.lifetimes \cap Lifetimes(method.params) = {}
    /\ \A w \in method.wheres \cup b.wheres : "impl" \notin w.idents

ASSUME BlocksAssumption ==
    \A b \in Blocks :
        /\ {"args", "wheres", "items"} \subseteq DOMAIN b
        /\ \A i \in DOMAIN b.items : b.items[i].kind = "fn" =>
             /\ MethodFields \subseteq DOMAIN b.items[i]
             /\ IsRust(b.items[i], b)

(***************************************************************************)
(* The expansion, item by item                                             *)
(***************************************************************************)

Item == block.items[place]
Expanding == verdict = "expanding" /\ ~block.args /\ place \in DOMAIN block.items
IsMethod  == Item.kind = "fn" /\ Marked(Item)

PassOver ==
    /\ Expanding /\ ~IsMethod
    /\ place' = place + 1
    /\ UNCHANGED <<block, impls, verdict>>

Generate ==
    /\ Expanding /\ IsMethod
    /\ OptionsOK(Item) /\ SignatureOK(Item)
    /\ impls' = Append(impls, ImplOf(Item)) /\ place' = place + 1
    /\ UNCHANGED <<block, verdict>>

Reject ==
    /\ Expanding /\ IsMethod
    /\ ~(OptionsOK(Item) /\ SignatureOK(Item))
    /\ verdict' = "rejected"
    /\ UNCHANGED <<block, place, impls>>

\* The options go on #[handler], not on #[message_handlers].
RejectArgs ==
    /\ verdict = "expanding" /\ block.args
    /\ verdict' = "rejected"
    /\ UNCHANGED <<block, place, impls>>

CleanUp ==
    /\ verdict = "expanding" /\ ~block.args /\ place \notin DOMAIN block.items
    /\ verdict' = "expanded"
    /\ block' = [block EXCEPT !.items = [i \in DOMAIN @ |-> Unmarked(@[i])]]
    /\ UNCHANGED <<place, impls>>

ExpNext == PassOver \/ Generate \/ Reject \/ RejectArgs \/ CleanUp

ExpSpec == ExpInit /\ [][ExpNext]_expVars

(***************************************************************************)
(* What the compiler asks of the result                                    *)
(***************************************************************************)

ActiveIn(cfgs, features) == cfgs \subseteq features

Methods == {block.items[i] : i \in {j \in DOMAIN block.items : block.items[j].kind = "fn"}}

\* No `impl Trait`, and no type or constant that only the method declares.
InScope(part, method) ==
    /\ "impl" \notin part.idents
    /\ part.idents \cap Names(method.params, {"type", "const"}) = {}

\* The method can be called as the impl calls it, on a `&mut self` and with
\* a `&ActorRef<Self>`, in the impl's scope.
Callable(method, impl) ==
    /\ method.async /\ Len(method.inputs) = 3
    /\ method.inputs[1].form = "self" /\ method.inputs[1].by \notin {"mut", ":Box"}
    /\ method.inputs[3].ty.form = "ref" /\ method.inputs[3].ty.last = "ActorRef"
    /\ \A w \in method.wheres :
         w \in impl.wheres \/ w.lifetimes \cap Lifetimes(method.params) # {}

Fits(impl, method) ==
    /\ Callable(method, impl)
    /\ InScope(impl.message, method) /\ InScope(impl.reply, method)
    /\ \A w \in impl.wheres :
         InScope(w, method) /\ w.lifetimes \cap Lifetimes(method.params) = {}
    /\ impl.logs => impl.reply # NoType

\* What generate_message_impl answers for in any block it lets through, with
\* any features on: every impl that is compiled in calls a method that is
\* compiled in, takes from it no type, constant or `impl Trait` and no predicate
\* on its lifetimes, has the other predicates that the call needs, and looks for
\* an error only in a reply that there is; no #[handler] is left over.
\* It lets through what it cannot judge, and this says nothing of it: a message
\* or a reply that names a lifetime of the method, and a reply that is not a
\* Result but has the name, or `result`.  Those the compiler may still refuse.
GeneratedFits ==
    verdict = "expanded" =>
      /\ \A m \in Methods : ~Marked(m)
      /\ \A features \in SUBSET Flags : \A i \in DOMAIN impls :
           ActiveIn(impls[i].cfgs, features) =>
             \E m \in Methods : /\ m.name = impls[i].calls /\ ActiveIn(Cfgs(m), features)
                                /\ Fits(impls[i], m)

(***************************************************************************)
(* The inductive invariant                                                 *)
(***************************************************************************)

\* The block is as written, or is without its marks.
ItemsAreMethods ==
    /\ {"args", "wheres", "items"} \subseteq DOMAIN block
    /\ \A m \in Methods : MethodFields \subseteq DOMAIN m
    /\ verdict # "expanded" => block \in Blocks

Matches(impl, m) == m.name = impl.calls /\ Cfgs(m) = impl.cfgs /\ Fits(impl, m)

EveryImplMatches ==
    /\ impls \in Seq({impls[i] : i \in DOMAIN impls})
    /\ \A i \in DOMAIN impls : \E m \in Methods : Matches(impls[i], m)

NoMarkIsLeft == verdict = "expanded" => \A m \in Methods : ~Marked(m)

ExpInv == ItemsAreMethods /\ EveryImplMatches /\ NoMarkIsLeft
=============================================================================
