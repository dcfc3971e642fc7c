----------------------------- MODULE RustBodies -----------------------------
(* What a function body does in Rust: the reference that CallScan is checked *)
(* against.  The syntax is CallScan's; everything else is its own.  A body   *)
(* is run for all of its branches, with the value of every name known.       *)
(*                                                                           *)
(* A value is [v, of, sub]: a reference to an actor, a handler, data of a    *)
(* named type, or something that contains values.  An environment holds the  *)
(* variables, the functions in scope by path and the methods of types (with  *)
(* the value they return), the fields of the types, and the sender.          *)
EXTENDS Naturals, Sequences, SequencesExt, FiniteSets, TLC

Value(v, of, sub) == [v |-> v, of |-> of, sub |-> sub]
Ref(actor)    == Value("ref", actor, <<>>)
Weak(actor)   == Value("weak", actor, <<>>)
Map(value)    == Value("map", "", <<value>>)
Handler(msg)  == Value("handler", msg, <<>>)
Data(name)    == Value("data", name, <<>>)
Containing(values)    == Value("of", "", values)
Wrapping(name, value) == Value("wrapping", name, <<value>>)
Never == Value("never", "", <<>>)

With(env, name, value) == [env EXCEPT !.vars = (name :> value) @@ @]

\* The names of a pattern.
RECURSIVE Match(_, _, _)
Match(env, pat, value) ==
  CASE pat.k = "ident" -> With(env, pat.name, value)
    [] pat.k = "type"  -> Match(env, pat.pat, value)
    [] pat.k \in {"tuple", "tstruct"} ->
         FoldLeft(LAMBDA acc, i : Match(acc, pat.elems[i], value.sub[i]), env,
                  [i \in DOMAIN pat.elems |-> i])
    [] pat.k = "pstruct" ->
         FoldLeft(LAMBDA acc, f : Match(acc, f.pat, env.fields[<<value.of, f.name>>]), env, pat.fields)
    [] OTHER -> env

\* The last of the names in scope for a path, items and imports of a block
\* before those around it.
WhatReturns(env, path) == IF path \in DOMAIN env.fns THEN env.fns[path] ELSE Data(Head(path))

IsUse(s)   == s.k = "item" /\ s.item.k = "use"
IsLocalFn(s) == s.k = "item" /\ s.item.k = "fn"

\* A block's own imports and functions are in scope from its first line.
Enter(env, block) ==
  LET Declare(acc, s) ==
        CASE IsUse(s)     -> [acc EXCEPT !.fns = (<<s.item.brings>> :> @[<<s.item.from, s.item.brings>>]) @@ @]
          [] IsLocalFn(s) -> [acc EXCEPT !.fns = (<<s.item.name>> :> s.item.returns) @@ @]
          [] OTHER        -> acc
  IN FoldLeft(Declare, env, block)

RECURSIVE Eval(_, _), After(_, _), Sends(_, _), SendsIn(_, _)

\* The value of the last expression of a block.
BlockValue(env, block) ==
  LET inside == FoldLeft(After, Enter(env, block), Front(block))
      end    == Last(block)
  IN CASE block = <<>> -> Data("()")
       [] end.k = "expr" -> Eval(inside, end.e)
       [] OTHER -> Data("()")

\* Of two branches of one type either will do, unless it does not return.
Either(a, b) == IF a = Never THEN b ELSE a

RECURSIVE Condition(_, _)
Condition(env, cond) ==
  CASE cond.k = "let" -> Match(env, cond.pat, Eval(env, cond.base))
    [] cond.k = "and" -> Condition(Condition(env, cond.elems[1]), cond.elems[2])
    [] OTHER          -> env

Method(value, name) ==
  CASE name \in {"unwrap", "next"} -> value.sub[1]
    [] name = "upgrade"   -> Containing(<<Ref(value.of)>>)
    [] name = "downgrade" -> Weak(value.of)
    [] value.v = "map" /\ name \in {"get", "values"} -> Containing(value.sub)
    [] value.v = "map" /\ name = "iter" -> Containing(<<Containing(<<Data("key")>> \o value.sub)>>)
    [] name = "enumerate" -> Containing(<<Containing(<<Data("usize"), value.sub[1]>>)>>)
    [] OTHER              -> value

Eval(env, e) ==
  CASE e.k = "path"  -> IF Len(e.path) = 1 /\ e.path[1] \in DOMAIN env.vars THEN env.vars[e.path[1]]
                        ELSE Data(Head(e.path))
    [] e.k = "field" -> env.fields[<<Eval(env, e.base).of, e.member.name>>]
    [] e.k = "mcall" -> IF <<Eval(env, e.base).of, e.method>> \in DOMAIN env.methods
                        THEN env.methods[<<Eval(env, e.base).of, e.method>>]
                        ELSE Method(Eval(env, e.base), e.method)
    [] e.k = "call"  -> IF Last(e.func.path) = "spawn" THEN Containing(<<Ref(e.spawns), Data("JoinHandle")>>)
                        ELSE IF Last(e.func.path) = "Some" THEN Containing(<<Eval(env, e.args[1])>>)
                        ELSE WhatReturns(env, e.func.path)
    [] e.k = "macro" -> Containing([i \in DOMAIN e.mac.exprs |-> Eval(env, e.mac.exprs[i])])
    [] e.k \in {"index", "try"} -> Eval(env, e.base).sub[1]
    [] e.k \in {"ref", "deref", "await", "paren"} -> Eval(env, e.base)
    [] e.k = "block" -> BlockValue(env, e.block)
    [] e.k = "if"    -> Either(BlockValue(Condition(env, e.cond), e.block), Eval(env, e.els))
    [] e.k = "match" -> LET Arm(i) == Eval(Match(env, e.arms[i].pat, Eval(env, e.base)), e.arms[i].body)
                        IN Either(Arm(1), Arm(2))
    [] e.k = "return" -> Never
    [] OTHER -> Data("()")

After(env, s) == IF s.k = "local" /\ s.init # [k |-> "None"] THEN Match(env, s.pat, Eval(env, s.init)) ELSE env

\* The actor behind a receiver: a reference, or whatever dereferences to one.
RECURSIVE Behind(_)
Behind(value) == IF value.v = "wrapping" THEN Behind(value.sub[1]) ELSE value

\* The sends of an expression, in every branch.
OneSend(env, e) ==
  LET to == Behind(Eval(env, e.base))
  IN IF e.method \in {"tell", "ask", "tell_with_timeout"} /\ to.v \in {"ref", "handler"}
     THEN {[at |-> e.at, from |-> env.from, to |-> to, msg |-> Eval(env, e.args[1]).of,
            kind |-> IF e.method = "ask" THEN "ask" ELSE "tell"]}
     ELSE {}

OneSpawn(env, e) ==
  CASE Last(e.func.path) = "spawn" /\ e.spawns # "" ->
         {[at |-> e.at, from |-> env.from, to |-> Ref(e.spawns), msg |-> "", kind |-> "spawn"]}
    [] e.func.path = <<"ActorRef", "tell">> ->
         {[at |-> e.at, from |-> env.from, to |-> Eval(env, e.args[1]), msg |-> Eval(env, e.args[2]).of,
           kind |-> "tell"]}
    [] OTHER -> {}

AllSends(env, exprs) == UNION {Sends(env, exprs[i]) : i \in DOMAIN exprs}

\* What a closure is given: the elements of what an adapter walks over.
Given(env, closure, value) ==
  IF closure.truth.v = "elem" THEN value.sub[1] ELSE closure.truth
Closures(env, mc) ==
  LET value == Eval(env, mc.base)
      One(c) == Sends(Match(env, c.inputs[1], Given(env, c, value)), c.body)
  IN UNION {IF mc.args[i].k = "closure" THEN One(mc.args[i]) ELSE Sends(env, mc.args[i]) : i \in DOMAIN mc.args}

Sends(env, e) ==
  CASE e.k = "mcall" -> OneSend(env, e) \cup Sends(env, e.base) \cup Closures(env, e)
    [] e.k = "call"  -> OneSpawn(env, e) \cup
                          UNION {IF e.args[i].k = "closure"
                                 THEN Sends(Match(env, e.args[i].inputs[1], e.args[i].truth), e.args[i].body)
                                 ELSE Sends(env, e.args[i]) : i \in DOMAIN e.args}
    [] e.k = "for"   -> Sends(env, e.base)
                          \cup SendsIn(Match(env, e.pat, Eval(env, e.base).sub[1]), e.block)
    [] e.k = "while" -> SendsIn(Condition(env, e.cond), e.block)
    [] e.k = "if"    -> SendsIn(Condition(env, e.cond), e.block) \cup Sends(env, e.els)
    [] e.k = "match" -> UNION {Sends(Match(env, e.arms[i].pat, Eval(env, e.base)), e.arms[i].body)
                                 : i \in DOMAIN e.arms}
    [] e.k \in {"block", "async", "loop"} -> SendsIn(env, e.block)
    [] e.k = "macro" -> AllSends(env, e.mac.exprs)
    [] e.k \in {"await", "ref", "paren", "field", "try"} -> Sends(env, e.base)
    [] OTHER -> {}

\* A nested function has its own variables, none of them of the body around.
SendsOfStmt(env, s) ==
  CASE s.k = "local" /\ s.init # [k |-> "None"] -> Sends(env, s.init)
    [] s.k = "expr"  -> Sends(env, s.e)
    [] s.k = "macro" -> AllSends(env, s.mac.exprs)
    [] IsLocalFn(s)  -> SendsIn([env EXCEPT !.vars = s.item.given,
                                            !.from = <<@[1], @[2], Append(s.item.within, s.item.name)>>,
                                            !.fns = @], s.item.body)
    [] OTHER -> {}

SendsIn(env, block) ==
  LET One(acc, s) == [env |-> After(acc.env, s), sends |-> acc.sends \cup SendsOfStmt(acc.env, s)]
  IN FoldLeft(One, [env |-> Enter(env, block), sends |-> {}], block).sends
=============================================================================
