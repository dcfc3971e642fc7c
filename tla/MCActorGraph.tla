---------------------------- MODULE MCActorGraph ----------------------------
(* Instances of ActorGraph: three families of runs of the tool.              *)
(*   <<"body", i, j, 0>>   a crate with one function for each way to send,   *)
(*                         after the bindings i and j                        *)
(*   <<"names", i, j, k>>  a crate of three modules that import one another  *)
(*   <<"args", i, j, k>>   a package of several targets and a command line   *)
EXTENDS GraphTruth, RustBodies, Integers

(***************************************************************************)
(* Syntax                                                                  *)
(***************************************************************************)

Path(path)     == [k |-> "path", path |-> path, leading |-> FALSE, args |-> <<>>]
Name(n)        == Path(<<n>>)
Gen(n, args)   == [Name(n) EXCEPT !.args = args]
UnitTy == [k |-> "Tuple", sub |-> <<>>]
RefTo(n)       == Gen("ActorRef", <<Name(n)>>)
Field(n, ty)   == [name |-> n, ty |-> ty, at |-> <<"field", n>>]

Item(k, name)  == [k |-> k, cfg |-> <<>>, name |-> name, generics |-> <<>>]
Struct(name, derives, fields) ==
  [derives |-> derives, fields |-> fields] @@ Item("struct", name)
Fn(name, inputs, output, body) ==
  [inputs |-> inputs, output |-> output, handler |-> FALSE, at |-> <<"fn", name>>, body |-> body]
    @@ Item("fn", name)
Impl(trait, selfTy, items) ==
  [trait |-> trait, attrs |-> <<>>, selfTy |-> selfTy, items |-> items, at |-> <<"impl">>]
    @@ Item("impl", "")
Mod(name, items) == [inline |-> TRUE, items |-> items, path |-> <<>>] @@ Item("mod", name)
FileMod(name, path) == [inline |-> FALSE, items |-> <<>>, path |-> path] @@ Item("mod", name)

Leaf(n)        == [k |-> "name", ident |-> n]
RECURSIVE Tree(_, _)
Tree(path, leaf) == IF path = <<>> THEN leaf
                    ELSE [k |-> "path", ident |-> Head(path), tree |-> Tree(Tail(path), leaf)]
Use(path, leaf) == [tree |-> Tree(path, leaf), leading |-> FALSE] @@ Item("use", "")

Self_ == [self |-> TRUE, pat |-> [k |-> "wild"], ty |-> Name("Self")]
Ident(n) == [k |-> "ident", name |-> n, sub |-> None]
Arg(n, ty) == [self |-> FALSE, pat |-> Ident(n), ty |-> ty]
TuplePat(pats) == [k |-> "tuple", elems |-> pats]
Wild == [k |-> "wild"]
SomeOf(pat) == [k |-> "tstruct", path |-> <<"Some">>, leading |-> FALSE, elems |-> <<pat>>]
StructPat(path, names) ==
  [k |-> "pstruct", path |-> path, leading |-> FALSE,
   fields |-> [i \in DOMAIN names |-> [name |-> names[i], pat |-> Ident(names[i])]]]
Typed(pat, ty) == [k |-> "type", pat |-> pat, ty |-> ty]

Call(path, args, at) == [k |-> "call", func |-> Path(path), args |-> args, at |-> at, spawns |-> ""]
MCall(base, method, args, at) == [k |-> "mcall", base |-> base, method |-> method, args |-> args, at |-> at]
NoAt == <<"none">>
M0(base, method) == MCall(base, method, <<>>, NoAt)
FieldOf(base, name, index) == [k |-> "field", base |-> base, member |-> [name |-> name, index |-> index]]
Wrap(k, base) == [k |-> k, base |-> base]
BlockOf(k, block) == [k |-> k, block |-> block]
If(cond, block, els) == [k |-> "if", cond |-> cond, block |-> block, els |-> els]
Lets(pat, base) == [k |-> "let", pat |-> pat, base |-> base]
MatchOf(base, arms) == [k |-> "match", base |-> base, arms |-> arms]
Arm_(pat, body) == [pat |-> pat, body |-> body]
Closure(id, n, body, truth) ==
  [k |-> "closure", id |-> id, inputs |-> <<Ident(n)>>, body |-> body, truth |-> truth]
Lit == [k |-> "lit"]
MacroOf(name, parsed, exprs, sends) == [name |-> name, parsed |-> parsed, exprs |-> exprs, sends |-> sends]

Let(pat, init)   == [k |-> "local", pat |-> pat, init |-> init, els |-> None]
TupleStruct(path, elems) == [k |-> "tstruct", path |-> path, leading |-> FALSE, elems |-> elems]
LetElse(pat, init, els) == [Let(pat, init) EXCEPT !.els = els]
Do(e)     == [k |-> "expr", e |-> e, semi |-> TRUE]
Yield(e)  == [k |-> "expr", e |-> e, semi |-> FALSE]
ItemStmt(item) == [k |-> "item", item |-> item]
MacroStmt(mac) == [k |-> "macro", mac |-> mac]
Return == [k |-> "return", base |-> None]

(***************************************************************************)
(* The crate of the "body" family                                          *)
(***************************************************************************)

TellM(e, at) == MCall(e, "tell", <<Name("M")>>, at)
r == Name("r")
Elem == Value("elem", "", <<>>)
Spawn_(path, args, turbofish, of, at) ==
  [Call(path, args, at) EXCEPT !.func = [@ EXCEPT !.args = turbofish], !.spawns = of]

UseMake == [from |-> "other", brings |-> "make"] @@ Use(<<"other">>, Leaf("make"))

\* Bindings of `r`, of what `r` is later taken from, and of neither.
Bindings(f, n) ==
  LET at == <<f, "bind", n>>
  IN <<Let(Ident("r"), M0(Name("a"), "clone")),
       Let(Ident("r"), Wrap("ref", Name("b"))),
       Let(Ident("r"), Call(<<"make">>, <<>>, at)),
       Let(Ident("r"), Call(<<"other", "make">>, <<>>, at)),
       Let(Ident("r"), Call(<<"ext", "pick">>, <<>>, at)),
       Let(TuplePat(<<Ident("r"), Wild>>), Spawn_(<<"spawn">>, <<Lit>>, <<Name("A")>>, "A", at)),
       Let(TuplePat(<<Ident("r"), Wild>>), Spawn_(<<"rsactor", "spawn">>, <<Name("B")>>, <<>>, "B", at)),
       Let(Ident("r"), M0(M0(Name("w"), "upgrade"), "unwrap")),
       Let(Ident("r"), If(Lit, <<Yield(M0(Name("a"), "clone"))>>, BlockOf("block", <<Do(Return)>>))),
       Let(Ident("r"), MatchOf(Name("maybe"), <<Arm_(SomeOf(Ident("x")), Name("x")), Arm_(Wild, Name("b"))>>)),
       LetElse(SomeOf(Ident("r")), Name("maybe"), BlockOf("block", <<Do(Return)>>)),
       ItemStmt(UseMake),
       Let(Ident("r"), Wrap("ref", [k |-> "index", base |-> Name("refs"), elems |-> <<Lit>>])),
       Do(BlockOf("block", <<Let(Ident("r"), Name("b"))>>)),
       Let(Typed(Ident("r"), RefTo("B")), Call(<<"ext", "pick">>, <<>>, at)),
       Let(Ident("maybe"), Call(<<"Some">>, <<Name("a")>>, at)),
       Let(Ident("refs"), [k |-> "macro", mac |-> MacroOf("vec", TRUE, <<Name("a")>>, <<>>)]),
       Let(Ident("r"), M0(MCall(Name("peers"), "get", <<Lit>>, NoAt), "unwrap")),
       Let(StructPat(<<"Config">>, <<"r">>), Name("cfg")),
       LetElse(TupleStruct(<<"Slot", "Full">>, <<Ident("r")>>), Name("slot"), BlockOf("block", <<Do(Return)>>)),
       Let(TuplePat(<<Ident("r"), Wild>>), Name("pair")),
       Let(Ident("r"), Wrap("try", Name("res"))),
       Let(Ident("r"), M0(Wrap("paren", Wrap("deref", Wrap("ref", Name("al")))), "clone")),
       Let(Ident("r"), FieldOf(Name("cfg"), "r", 1)),
       Let(Ident("r"), M0(Name("log"), "peer")),
       Let(Ident("r"), M0(M0(M0(Name("b"), "downgrade"), "upgrade"), "unwrap")),
       Let(Ident("r"), FieldOf(Name("held"), "r", 1)),
       Let(Typed(TuplePat(<<Ident("r"), Wild>>), [k |-> "Tuple", sub |-> <<RefTo("B"), [k |-> "infer", text |-> <<"_">>]>>]),
           Spawn_(<<"spawn">>, <<Lit>>, <<>>, "B", at))>>

Inner(f) ==
  [returns |-> Data("()"), given |-> [r |-> Ref("B")], within |-> <<"app", f>>]
    @@ Fn("inner", <<Arg("r", RefTo("B"))>>, None,
          <<Do(MCall(r, "ask", <<Name("N")>>, <<f, "in inner">>))>>)

\* The ways to send, each a piece of body.
SendsOf(f) ==
  LET s1 == <<f, "s1">>  s2 == <<f, "s2">>
      refs == M0(Name("refs"), "iter")
      Each(base, id) == MCall(base, "for_each", <<Closure(<<f, id>>, "r", TellM(r, s1), Elem)>>, NoAt)
      Both(x, y) == MacroOf("join", TRUE, <<x, y>>, <<>>)
  IN <<<<Do(TellM(r, s1))>>,
       <<Do(MCall(Name("b"), "ask", <<Name("N")>>, s1)), Do(TellM(Wrap("paren", r), s2))>>,
       <<Yield([k |-> "for", pat |-> Ident("r"), base |-> refs, block |-> <<Do(TellM(r, s1))>>]),
         Do(TellM(r, s2))>>,
       <<Do(Each(M0(refs, "rev"), "c1")), Do(TellM(r, s2))>>,
       <<Yield(If(Lets(SomeOf(Ident("r")), Name("maybe")), <<Do(TellM(r, s1))>>,
                  BlockOf("block", <<Do(TellM(r, s2))>>)))>>,
       <<Yield(MatchOf(Name("maybe"), <<Arm_(SomeOf(Ident("r")), TellM(r, s1)), Arm_(Wild, TellM(r, s2))>>))>>,
       <<Do(TellM(Name("h"), s1)), Do(TellM(Name("g"), s2))>>,
       <<MacroStmt(Both(TellM(r, s1), MCall(Name("a"), "ask", <<Name("M")>>, s2)))>>,
       <<MacroStmt(MacroOf("select", FALSE, <<TellM(r, s1)>>, <<[method |-> "tell", at |-> s1]>>))>>,
       <<Do(TellM(Name("log"), s1)), Do(TellM(Name("shared"), s2))>>,
       <<Do(Call(<<"ext", "with">>, <<Closure(<<f, "c1">>, "r", TellM(r, s1), Ref("B"))>>, NoAt)),
         Do(TellM(r, s2))>>,
       <<Let(Ident("m"), Name("N")), Do(MCall(Name("b"), "tell", <<Name("m")>>, s1)),
         Let(Ident("m"), Call(<<"ext", "message">>, <<>>, NoAt)), Do(MCall(r, "tell", <<Name("m")>>, s2))>>,
       <<Do(MCall(r, "tell_with_timeout", <<Call(<<"M", "new">>, <<>>, NoAt), Lit>>, s1))>>,
       <<Yield(BlockOf("block", <<Let(Ident("r"), M0(Name("b"), "clone")), Do(TellM(r, s1))>>)),
         Do(TellM(r, s2))>>,
       <<Do(BlockOf("async", <<Do(TellM(r, s1)), ItemStmt(Inner(f))>>))>>,
       <<Yield([k |-> "while", cond |-> Lets(SomeOf(Ident("r")), Name("maybe")),
                block |-> <<Do(TellM(r, s1))>>]), Do(TellM(r, s2))>>,
       <<Do(Call(<<"ActorRef", "tell">>, <<Wrap("ref", r), Name("M")>>, s1))>>,
       <<Do(Spawn_(<<"spawn">>, <<Lit>>, <<Name("B")>>, "B", s1)),
         Do(Spawn_(<<"tokio", "spawn">>, <<BlockOf("async", <<Do(TellM(r, s2))>>)>>, <<>>, "", NoAt))>>,
       <<Do(TellM(FieldOf(Name("shared"), "", 1), s1)), Do(TellM(Call(<<"make">>, <<>>, NoAt), s2))>>,
       <<Do(TellM(M0(M0(Name("w"), "upgrade"), "unwrap"), s1))>>,
       <<Yield([k |-> "for", pat |-> TuplePat(<<Ident("i"), Ident("r")>>), base |-> M0(refs, "enumerate"),
                block |-> <<Do(TellM(r, s1))>>]), Do(TellM(r, s2))>>,
       <<Do(Each(MCall(refs, "filter", <<Closure(<<f, "c1">>, "q", Lit, Elem)>>, NoAt), "c2"))>>,
       <<Yield([k |-> "for", pat |-> TuplePat(<<Wild, Ident("r")>>), base |-> M0(Name("peers"), "iter"),
                block |-> <<Do(TellM(r, s1))>>]), Do(TellM(r, s2))>>,
       <<Do(MCall(Name("ah"), "ask", <<Name("N")>>, s1)),
         Yield(MatchOf(Name("slot"), <<Arm_(TupleStruct(<<"Slot", "Full">>, <<Ident("r")>>), Lit),
                                       Arm_(Wild, TellM(r, s2))>>))>>,
       <<MacroStmt(MacroOf("matches", TRUE, <<TellM(r, s1)>>, <<>>)), MacroStmt(MacroOf("info", TRUE, <<TellM(r, s2)>>, <<>>))>>,
       <<Yield(If([k |-> "and", elems |-> <<Lets(SomeOf(Ident("r")), MCall(Name("peers"), "get", <<Lit>>, NoAt)), Lit>>],
                  <<Do(TellM(r, s1))>>, BlockOf("block", <<Do(TellM(r, s2))>>)))>>>>

Given_ == [r |-> Ref("A"), a |-> Ref("A"), b |-> Ref("B"), refs |-> Containing(<<Ref("B")>>), maybe |-> Containing(<<Ref("B")>>),
           h |-> Handler("M"), g |-> Ref("A"), w |-> Weak("A"), log |-> Data("Logger"),
           shared |-> Wrapping("Shared", Ref("A")), peers |-> Map(Ref("B")), cfg |-> Data("Config"),
           slot |-> Containing(<<Ref("B")>>), pair |-> Containing(<<Ref("A"), Data("u8")>>),
           res |-> Containing(<<Ref("B")>>), al |-> Ref("B"), held |-> Data("Held"), ah |-> Handler("N")]
Inputs == <<Arg("r", RefTo("A")), Arg("a", [k |-> "Ref", sub |-> <<RefTo("A")>>]), Arg("b", RefTo("B")),
            Arg("refs", Gen("Vec", <<RefTo("B")>>)), Arg("maybe", Gen("Option", <<RefTo("B")>>)),
            Arg("h", Gen("Box", <<[k |-> "Dyn", sub |-> <<Gen("TellHandler", <<Name("M")>>)>>]>>)),
            Arg("g", Name("G")), Arg("w", Gen("ActorWeak", <<Name("A")>>)), Arg("log", Name("Logger")),
            Arg("shared", Name("Shared")), Arg("peers", Gen("HashMap", <<Name("u8"), RefTo("B")>>)),
            Arg("cfg", [k |-> "Ref", sub |-> <<Name("Config")>>]), Arg("slot", Name("Slot")),
            Arg("pair", [k |-> "Tuple", sub |-> <<RefTo("A"), Name("u8")>>]),
            Arg("res", Gen("Result", <<RefTo("B"), Name("u8")>>)), Arg("al", Name("RefB")),
            Arg("held", Gen("Held", <<Name("B")>>)),
            Arg("ah", Gen("Box", <<[k |-> "Dyn", sub |-> <<Gen("AskHandler", <<Name("N"), UnitTy>>)>>]>>))>>

Derive == <<<<"Actor">>>>
HandlerFn(name, msg) ==
  [Fn(name, <<Self_, Arg("msg", Name(msg)), Arg("_self", RefTo("B"))>>, None, <<>>) EXCEPT !.handler = TRUE]
Returns(name, ty) == Fn(name, <<Self_>>, ty, <<>>)
MessageImpl(actor, msg) ==
  Impl([path |-> <<"Message">>, args |-> <<Name(msg)>>], Name(actor),
       <<[name |-> "Reply", ty |-> [k |-> "Tuple", sub |-> <<>>], at |-> NoAt] @@ Item("type", "Reply"),
         Fn("handle", <<Self_, Arg("msg", Name(msg))>>, None, <<>>)>>)
\* Declared with signatures; their bodies make nothing the tool could know.
Prelude_ ==
  <<Use(<<"rsactor">>, [k |-> "group", items |-> [i \in 1..8 |-> Leaf(
       <<"Actor", "ActorRef", "ActorWeak", "Message", "TellHandler", "AskHandler", "message_handlers",
         "spawn">>[i])]]),
    Use(<<"std", "collections">>, Leaf("HashMap")),
    Struct("Config", <<>>, <<Field("r", Name("RefB"))>>),
    [generics |-> <<"T">>] @@ Struct("Held", <<>>, <<Field("r", RefTo("T"))>>),
    [variants |-> <<[name |-> "Full", fields |-> <<Field("", RefTo("B"))>>], [name |-> "Empty", fields |-> <<>>]>>,
     derives |-> <<>>] @@ Item("enum", "Slot"),
    [ty |-> RefTo("B")] @@ Item("alias", "RefB"),
    Impl(None, Name("Logger"), <<Returns("peer", RefTo("A"))>>),
    Impl(None, Name("Logger"), <<Returns("peer", RefTo("B"))>>),
    Struct("A", Derive, <<>>), Struct("B", Derive, <<Field("peer", RefTo("A"))>>),
    Struct("M", <<>>, <<>>), Struct("N", <<>>, <<>>), Struct("Logger", <<>>, <<>>),
    Struct("Shared", <<>>, <<Field("", RefTo("A"))>>),
    Impl([path |-> <<"std", "ops", "Deref">>, args |-> <<>>], Name("Shared"), <<>>),
    MessageImpl("A", "M"), MessageImpl("B", "M"),
    [attrs |-> <<<<"message_handlers">>>>] @@ Impl(None, Name("B"), <<HandlerFn("on_n", "N"), Returns("other", None)>>),
    Fn("make", <<>>, RefTo("A"), <<Yield(Call(<<"ext", "pick">>, <<>>, NoAt))>>),
    Mod("other", <<Fn("make", <<>>, [Path(<<"rsactor", "ActorRef">>) EXCEPT !.args = <<Path(<<"super", "B">>)>>],
                      <<>>)>>)>>

Binding_(f, job_, n) == <<Bindings(f, n)[job_[n + 1]]>>
FnNames == [i \in 1..26 |-> <<"f01", "f02", "f03", "f04", "f05", "f06", "f07", "f08", "f09", "f10", "f11", "f12",
                              "f13", "f14", "f15", "f16", "f17", "f18", "f19", "f20", "f21", "f22", "f23", "f24",
                              "f25", "f26">>[i]]
BodyOf(job_, i) ==
  LET f == FnNames[i] IN Binding_(f, job_, 1) \o Binding_(f, job_, 2) \o SendsOf(f)[i]
\* A method of an actor, which sends as the actor.
GoBody(job_) == Binding_("go", job_, 1) \o Binding_("go", job_, 2)
                  \o <<Do(TellM(FieldOf(Name("self"), "peer", 1), <<"go", "s1">>)), Do(TellM(r, <<"go", "s2">>))>>

BodyFile(job_) ==
  Prelude_ \o [i \in DOMAIN FnNames |->
                 [Fn(FnNames[i], Inputs, None, BodyOf(job_, i)) EXCEPT !.generics = <<"G">>]]
            \o <<Impl(None, Name("B"), <<[Fn("go", <<Self_>> \o Inputs, None, GoBody(job_)) EXCEPT !.generics = <<"G">>]>>)>>

App == <<"bin", "app">>
ActorId(name) == <<"actor", App, <<"app", name>>>>
Env(from) ==
  [vars |-> [self |-> Data("B")] @@ Given_, from |-> from,
   fields |-> (<<"Shared", "">> :> Ref("A")) @@ (<<"B", "peer">> :> Ref("A"))
                @@ (<<"Config", "r">> :> Ref("B")) @@ (<<"Held", "r">> :> Ref("B")),
   methods |-> (<<"Logger", "peer">> :> Ref("B")),
   fns |-> (<<"make">> :> Ref("A")) @@ (<<"other", "make">> :> Ref("B")) @@ (<<"ext", "pick">> :> Ref("B"))
             @@ (<<"ext", "message">> :> Data("M")) @@ (<<"M", "new">> :> Data("M"))]
\* A send in the terms of the graph: a handler may be any actor of its message.
AsEdge(t) ==
  [at |-> t.at, from |-> t.from, kind |-> t.kind,
   message |-> <<"Decl", <<"app", t.msg>>, <<>>>>,
   may |-> CASE t.to.v # "handler" -> {ActorId(t.to.of)}
              [] t.to.of = "M"      -> {ActorId("A"), ActorId("B")}
              [] t.to.of = "N"      -> {ActorId("B")}]
\* Who runs which body: the functions in order, then the method.
Bodies(job_) ==
  [i \in DOMAIN FnNames |-> [from |-> <<"fn", App, <<"app", FnNames[i]>>>>, body |-> BodyOf(job_, i)]]
    \o <<[from |-> ActorId("B"), body |-> GoBody(job_)]>>
Run_(from, body) == {AsEdge(t) : t \in SendsIn(Env(from), body)}
BodySends(job_) == UNION {Run_(run.from, run.body) : run \in ToSet(Bodies(job_))}

(***************************************************************************)
(* The crates of the "names" family: the root and its modules p and q      *)
(***************************************************************************)

Crate_ == <<"crate">>
GlobUse(path)  == Use(path, [k |-> "glob"])
As(n, alias)   == [k |-> "rename", ident |-> n, alias |-> alias]

RootUses == <<<<>>, <<GlobUse(<<"p">>)>>, <<GlobUse(<<"self", "q">>)>>, <<GlobUse(<<"p">>), GlobUse(<<"q">>)>>,
              <<Use(<<"p">>, Leaf("T"))>>, <<GlobUse(<<"q">>), Use(<<"q">>, As("U", "T"))>>>>
PUses == <<<<>>, <<GlobUse(<<"super", "q">>)>>, <<Use(<<"super", "q">>, As("T", "U")), GlobUse(Crate_)>>,
           <<Use(<<"crate", "q">>, As("inner", "q2")), GlobUse(<<"q2">>)>>,
           <<GlobUse(<<"super">>), GlobUse(<<"crate", "q">>)>>,
           <<Use(<<"super">>, Leaf("q")), Use(<<"q", "inner">>, Leaf("T"))>>,
           <<Use(<<"super">>, Leaf("T"))>>>>
QUses == <<<<>>, <<GlobUse(<<"super", "p">>)>>, <<GlobUse(<<"self", "inner">>)>>,
           <<Use(<<"super", "p">>, As("T", "Vec")), GlobUse(<<"super">>)>>,
           <<Use(<<"inner">>, [k |-> "group", items |-> <<Leaf("self"), Leaf("T")>>])>>>>
Decls_ == <<{}, {"T"}, {"U"}, {"Vec"}>>

Structs(names) == [i \in DOMAIN SetToSeq(names) |-> Struct(SetToSeq(names)[i], <<>>, <<>>)]
NamesFile(job_) ==
  LET root == job_[2]  p == job_[3]  q == job_[4]
  IN RootUses[root] \o
     <<Mod("p", PUses[(p % 7) + 1] \o Structs(Decls_[(p \div 7) + 1])),
       Mod("q", QUses[(q % 5) + 1] \o Structs(Decls_[(q \div 5) + 1])
                  \o <<Mod("inner", <<Struct("T", <<>>, <<>>), GlobUse(<<"super">>)>>)>>)>>

Probes == {"T", "U", "Vec", "q", "q2"}

(***************************************************************************)
(* The packages of the "args" family                                       *)
(***************************************************************************)

Tells_(f, to) == Do(MCall(Name(to), "tell", <<Name("M")>>, <<f, to>>))
Sender_(f, arg, ty) == Fn(f, <<Arg(arg, ty)>>, None, <<Tells_(f, arg)>>)

\* A chain of actors A -> B -> C, two functions of one type that send to B
\* and to what they cannot tell, an external spawn, and files that are
\* missing, taken twice or only for tests.
MainFile ==
  <<Use(<<"rsactor">>, [k |-> "glob"]), Struct("M", <<>>, <<>>),
    Struct("A", Derive, <<Field("b", RefTo("B"))>>),
    Struct("B", Derive, <<Field("c", Gen("Vec", <<RefTo("C")>>)), Field("d", RefTo("D"))>>),
    Use(<<"dep">>, Leaf("D")),
    Struct("C", Derive, <<Field("h", Gen("Box", <<[k |-> "Dyn", sub |-> <<Gen("TellHandler", <<Name("M")>>)>>]>>))>>),
    MessageImpl("A", "M"), MessageImpl("B", "M"),
    Impl(None, Name("B"), <<Fn("run", <<Self_>>, None,
                               <<Do(MCall(FieldOf(Name("self"), "c", 1), "tell", <<Name("M")>>, <<"run">>)),
                                 Do(MCall([k |-> "index", base |-> FieldOf(Name("self"), "c", 1), elems |-> <<Lit>>],
                                          "tell", <<Name("M")>>, <<"run", "c">>))>>)>>),
    Struct("Helper", <<>>, <<>>),
    Impl(None, Name("Helper"), <<Sender_("one", "b", RefTo("B")), Sender_("two", "b", RefTo("B")),
                                 Sender_("three", "x", Name("Nowhere")), Sender_("four", "x", Name("Nowhere"))>>),
    Fn("main", <<>>, None, <<Do(Spawn_(<<"spawn">>, <<Name("A")>>, <<>>, "A", <<"main">>)),
                             Do(Spawn_(<<"spawn">>, <<Name("B")>>, <<>>, "B", <<"main", "b">>))>>),
    FileMod("util", <<>>), FileMod("gone", <<>>), FileMod("again", <<"util">>),
    [FileMod("tests", <<>>) EXCEPT !.cfg = <<[all |-> FALSE, parts |-> <<"test">>]>>]>>
UtilFile == <<Fn("help", <<Arg("a", [Path(<<"rsactor", "ActorRef">>) EXCEPT !.args = <<Path(<<"crate", "A">>)>>])>>, None,
                 <<Do(TellM(Name("a"), <<"help">>))>>)>>
DepFile  == <<Use(<<"rsactor">>, Leaf("Actor")), Struct("D", Derive, <<>>)>>
DemoFile == <<Use(<<"app">>, [k |-> "glob"]), Use(<<"rsactor">>, [k |-> "glob"]), Struct("X", Derive, <<>>),
              Fn("main", <<>>, None, <<Do(Spawn_(<<"spawn">>, <<Name("X")>>, <<>>, "X", <<"demo">>))>>)>>

File(items) == [ok |-> TRUE, items |-> items]
ArgsFiles ==
  (<<"src", "main">> :> File(MainFile)) @@ (<<"src", "lib">> :> File(<<FileMod("util", <<>>)>>))
    @@ (<<"src", "util">> :> File(UtilFile)) @@ (<<"src", "tests">> :> [ok |-> FALSE, items |-> <<>>])
    @@ (<<"dep", "src", "lib">> :> File(DepFile)) @@ (<<"examples", "demo">> :> File(DemoFile))
    @@ (<<"src", "broken">> :> [ok |-> FALSE, items |-> <<>>])

Target(name, kind, root) == [name |-> name, kinds |-> {kind}, root |-> root]
Package_(name, targets, deps) == [name |-> name, targets |-> targets, dependencies |-> deps]
Dep(name, isPath) == [name |-> name, isPath |-> isPath]
Packages_ ==
  <<Package_("app", <<Target("app", "bin", <<"src", "main">>), Target("applib", "lib", <<"src", "lib">>)>>,
             <<Dep("dep", TRUE), Dep("serde", FALSE)>>),
    Package_("dep", <<Target("dep", "lib", <<"dep", "src", "lib">>)>>, <<>>),
    Package_("empty", <<Target("empty", "bin", <<"src", "broken">>), Target("idle", "example", <<"src", "broken">>),
                        Target("demo", "example", <<"examples", "demo">>)>>, <<Dep("serde", FALSE)>>)>>
Meta(root, manifest) ==
  [members |-> {1, 2, 3}, packages |-> Packages_, manifest |-> manifest, root |-> root]
BinMeta    == [members |-> {1}, manifest |-> 0, root |-> 1,
               packages |-> <<Package_("app", <<Target("app", "bin", <<"src", "main">>)>>, <<>>)>>]

Sel(package, example) == [package |-> package, example |-> example]
Line_(sel, focus, depth, format, group, holds) ==
  [selection |-> sel, focus |-> focus, depth |-> depth, format |-> format, groupFns |-> group,
   holds |-> holds, toFile |-> format = "svg"]
Plain == Line_(Sel("", ""), <<>>, 1, "json", TRUE, "all")
Lines ==
  <<Plain,
    Line_(Sel("app", ""), <<"A">>, 1, "dot", TRUE, "uncovered"),
    Line_(Sel("app", ""), <<"app", "B">>, 1, "dot", FALSE, "none"),
    Line_(Sel("app", ""), <<"C">>, 2, "svg", TRUE, "uncovered"),
    Line_(Sel("app", ""), <<"B">>, 0, "dot", TRUE, "all"),
    Line_(Sel("app", ""), <<"nobody">>, 1, "dot", TRUE, "all"),
    Line_(Sel("empty", ""), <<>>, 1, "dot", TRUE, "all"),
    Line_(Sel("empty", "demo"), <<>>, 1, "svg", TRUE, "all"),
    Line_(Sel("empty", "nope"), <<>>, 1, "dot", TRUE, "all"),
    Line_(Sel("nope", ""), <<>>, 1, "dot", TRUE, "all"),
    Line_(Sel("dep", ""), <<>>, 1, "svg", FALSE, "none"),
    Line_(Sel("app", ""), <<>>, 1, "dot", TRUE, "uncovered"),
    Line_(Sel("app", ""), <<>>, 1, "dot", FALSE, "none")>>

(***************************************************************************)
(* The instances                                                           *)
(***************************************************************************)

MCFiles(job_) == CASE job_[1] = "body"  -> <<"src", "main">> :> File(BodyFile(job_))
                   [] job_[1] = "names" -> <<"src", "main">> :> File(NamesFile(job_))
                   [] job_[1] = "args"  -> ArgsFiles
MCMeta(job_)  == IF job_[1] = "args" THEN Meta(job_[3], job_[4]) ELSE BinMeta
MCArgs(job_)  == IF job_[1] = "args" THEN Lines[job_[2]] ELSE Plain
MCSends(job_) == IF job_[1] = "body" THEN BodySends(job_) ELSE {}

BodyJobs  == {<<"body", i, j, 0>> : i \in 1..28, j \in {3, 5, 10, 11, 13, 14}}
NamesJobs == {<<"names", i, j, k>> : i \in 1..6, j \in {n \in 0..20 : n % 7 # 6}, k \in 0..19}
ArgsJobs  == {<<"args", i, j[1], j[2]>> : i \in 1..13, j \in {<<0, 0>>, <<1, 0>>, <<1, 2>>}}
AllJobs     == BodyJobs \cup NamesJobs \cup ArgsJobs
\* The root takes all of p and of q; p takes a name from the root by name.
CycleJobs == {<<"names", i, 6, k>> : i \in 1..6, k \in 0..19}
=============================================================================
