---------------------------- MODULE HandlerInput ----------------------------
(***************************************************************************)
(* Impl blocks: one handler in every shape of attribute, generics, message *)
(* and reply, or in every shape of signature, between items that are not   *)
(* handlers and after one that is.  Among them are those that the macro    *)
(* lets through and the compiler refuses: a lifetime of the method in the  *)
(* message or the reply, `result` on what is not a Result.                 *)
(***************************************************************************)
EXTENDS HandlerExpansion, SequencesExt

Plain(form, last, idents) ==
    [form |-> form, last |-> last, idents |-> idents, lifetimes |-> {}]
Borrowing(ty) == [ty EXCEPT !.lifetimes = {"a"}]

Msg       == Plain("path", "Msg", {"Msg"})
MsgOfT    == Plain("path", "Msg", {"Msg", "T"})
MsgOfB    == Plain("path", "Msg", {"Msg", "B"})
AnyMsg    == Plain("impl", "", {"impl", "Debug"})
Number    == Plain("path", "u32", {"u32"})
Replies   == {NoType, Number, Plain("path", "Result", {"Result"}),
              Plain("path", "MyResult", {"MyResult"}), Plain("ref", "Result", {"Result"}), AnyMsg}

Handler(form, args) == [name |-> "handler", form |-> form, args |-> args]
Cfg(flag)           == [name |-> "cfg", flag |-> flag]
Doc                 == [name |-> "doc"]

Attrs ==
    {<<Handler("path", <<>>)>>, <<Handler("name", <<>>)>>, <<Doc, Handler("list", <<>>)>>,
     <<Handler("list", <<"no_log", "no_log">>)>>, <<Handler("list", <<"log">>)>>,
     <<Handler("list", <<"no_log", "result">>)>>, <<Cfg("f"), Handler("list", <<"result">>)>>,
     <<Cfg("f"), Handler("path", <<>>), Cfg("g")>>, <<Handler("path", <<>>), Handler("list", <<"log">>)>>,
     <<Cfg("g")>>}

Self(by)   == [form |-> "self", by |-> by]
Typed(ty)  == [form |-> "typed", ty |-> ty]
Ref        == Plain("ref", "ActorRef", {"ActorRef", "Self"})
Usual(ty)  == <<Self("&mut"), Typed(ty), Typed(Ref)>>

Params == {{}, {[name |-> "a", kind |-> "lifetime"]}, {[name |-> "T", kind |-> "type"]},
           {[name |-> "N", kind |-> "const"]}}
Pred(idents, lifetimes) == [idents |-> idents, lifetimes |-> lifetimes]
Wheres == SUBSET {Pred({"B", "Send"}, {}), Pred({"T", "Send"}, {}), Pred({"u32"}, {"a"}),
                  Pred({"u32"}, {"static"})}

Method(attrs, async, params, wheres, inputs, output) ==
    [kind |-> "fn", name |-> "on", attrs |-> attrs, async |-> async, params |-> params,
     wheres |-> wheres, inputs |-> inputs, output |-> output]

\* What the method names is declared by it or by the block.
Declared(m, params) ==
    LET parts == m.wheres \cup {m.inputs[2].ty, m.output} IN
    \A part \in parts :
        /\ part.idents \cap {"T", "B"} \subseteq {p.name : p \in m.params \cup params}
        /\ part.lifetimes \subseteq {"static"} \cup {p.name : p \in m.params}

BlockParams == {{}, {[name |-> "B", kind |-> "type"]}}

Signatures ==
    {<<Self(by), Typed(Msg), Typed(third)>> :
       by \in {"&mut", "&", "mut", ":&mut", ":&", ":Box"},
       third \in {Ref, Plain("&mut", "ActorRef", {}), Plain("path", "ActorRef", {}), Plain("ref", "Msg", {})}}
      \cup {<<Typed(Msg), Typed(Msg), Typed(Ref)>>, <<Self("&mut"), Typed(Msg)>>,
            Append(Usual(Msg), Typed(Msg))}

Handlers ==
    {Method(attrs, TRUE, {}, {}, Usual(Msg), reply) : attrs \in Attrs, reply \in Replies}
      \cup {Method(<<Handler("path", <<>>)>>, TRUE, params, wheres, Usual(msg), reply) :
              params \in Params, wheres \in Wheres,
              msg \in {Msg, MsgOfT, MsgOfB, Borrowing(Msg), AnyMsg}, reply \in {NoType, Borrowing(Number)}}
      \cup {Method(<<Handler("path", <<>>)>>, async, {}, {}, inputs, NoType) :
              async \in BOOLEAN, inputs \in Signatures}

Before == [Method(<<Handler("path", <<>>), Cfg("f")>>, TRUE, {}, {},
                  Usual(Plain("path", "Msg0", {"Msg0"})), NoType) EXCEPT !.name = "first"]
Helper == [Before EXCEPT !.name = "helper", !.attrs = <<Doc>>, !.async = FALSE]

AtRest == [args |-> TRUE, params |-> {}, wheres |-> {}, items |-> <<>>]

BlockOf(params, m) ==
    [args |-> FALSE, params |-> params, wheres |-> {Pred({"Self"}, {})},
     items |-> <<Before, [kind |-> "const"], m, Helper>>]

MCBlocks ==
    {AtRest} \cup UNION {{BlockOf(params, m) : m \in {h \in Handlers : Declared(h, params)}} :
                     params \in BlockParams}
=============================================================================
