---------------------------- MODULE Parts_proofs ----------------------------
(***************************************************************************)
(* Theorems about three components that share no state with any other: the *)
(* handles of an actor, for any number of them and any choice of the       *)
(* secondary channels; the metrics of an actor, for any durations, clocks  *)
(* and width of an atomic; and the expansion of #[message_handlers], for   *)
(* any impl blocks.                                                        *)
(***************************************************************************)
EXTENDS WeakRefs, MetricsCollector, HandlerExpansion, TLAPS

-----------------------------------------------------------------------------
(* Handles.  HandlesInv is inductive: each of the three properties says what *)
(* a slot holds at the end of a call, and needs what it holds at every step  *)
(* of the call (SlotOK, HalfOK), what everybody else holds (SidesOK) and     *)
(* that a refusal is for ever (Final, LateOK).                               *)

\* At the start the first ActorRef holds all there is, and no call is under way.
LEMMA HandlesInit == RefsInit => HandlesInv
  <1>. SUFFICES ASSUME RefsInit PROVE HandlesInv
    OBVIOUS
  <1>1. RefsTypeOK
    BY RefsAssumption DEF RefsInit, RefsTypeOK, Primaries, Chans, Steps
  <1>2. First \in Refs /\ Primaries \subseteq has[First]
    BY RefsAssumption DEF RefsInit
  <1>3. ASSUME NEW r \in Refs PROVE SlotOK(r)
    BY <1>3, RefsAssumption DEF RefsInit, SlotOK
  <1>4. ASSUME NEW r \in Refs PROVE SidesOK(r)
    <2>1. \A ch : Strong(ch) <=> ch \in has[First]
      BY <1>2 DEF RefsInit, Strong
    <2>2. use[r] = "ref" => r = First
      BY <1>4 DEF RefsInit
    <2>3. at[r] # "idle"
      BY <1>4 DEF RefsInit
    <2>. QED
      BY <2>1, <2>2, <2>3 DEF SidesOK
  <1>5. ASSUME NEW r \in Refs PROVE LateOK(r) /\ HalfOK(r)
    BY <1>5 DEF RefsInit, LateOK, HalfOK
  <1>6. shut = {} /\ ~deserted /\ ~refused
    BY DEF RefsInit
  <1>. QED
    BY <1>1, <1>3, <1>4, <1>5, <1>6 DEF HandlesInv

\* One step per action, and under it one per conjunct of the invariant.
LEMMA HandlesStep == HandlesInv /\ [RefsNext]_refVars => HandlesInv'
  <1>. SUFFICES ASSUME HandlesInv, [RefsNext]_refVars PROVE HandlesInv'
    OBVIOUS
  <1>1. ASSUME NEW r \in Refs, NEW s \in Refs, Clone(r, s)
         PROVE  HandlesInv'
    <2>1. RefsTypeOK'
      BY <1>1, RefsAssumption DEF HandlesInv, Clone, RefsTypeOK, Primaries, Chans, Steps
    <2>2. \A q \in Refs : SlotOK(q)'
      BY <1>1, RefsAssumption DEF HandlesInv, Clone, SlotOK, Primaries, Chans, Steps, RefsTypeOK
    <2>3. \A q \in Refs : SidesOK(q)'
      BY <1>1, RefsAssumption DEF HandlesInv, Clone, SidesOK, SlotOK, Strong, Primaries,
         Chans, Steps, RefsTypeOK
    <2>4. \A q \in Refs : LateOK(q)'
      BY <1>1, RefsAssumption DEF HandlesInv, Clone, LateOK, HalfOK, SlotOK, Final, Strong,
         Primaries, Chans, Steps, RefsTypeOK
    <2>5. \A q \in Refs : HalfOK(q)'
      BY <1>1, RefsAssumption DEF HandlesInv, Clone, HalfOK, SlotOK, Strong, Primaries, Chans,
         Steps, RefsTypeOK
    <2>6. ("mail" \in shut => "term" \in shut)'
      BY <1>1, RefsAssumption DEF HandlesInv, Clone, Primaries, Chans
    <2>7. (deserted => ~Strong("mail") \/ ~Strong("term"))'
      BY <1>1, RefsAssumption DEF HandlesInv, Clone, Strong, SlotOK, Primaries, Chans, RefsTypeOK
    <2>8. (refused => Final)'
      BY <1>1, RefsAssumption DEF HandlesInv, Clone, Final, HalfOK, Strong, SlotOK, Primaries,
         Chans, RefsTypeOK, Steps
    <2>. QED
      BY <2>1, <2>2, <2>3, <2>4, <2>5, <2>6, <2>7, <2>8 DEF HandlesInv
  <1>2. ASSUME NEW r \in Refs, BeginDrop(r)
         PROVE  HandlesInv'
    <2>1. RefsTypeOK'
      BY <1>2, RefsAssumption DEF HandlesInv, BeginDrop, RefsTypeOK, Primaries, Chans, Steps
    <2>2. \A q \in Refs : SlotOK(q)'
      BY <1>2, RefsAssumption DEF HandlesInv, BeginDrop, SlotOK, Primaries, Chans, Steps, RefsTypeOK
    <2>3. \A q \in Refs : SidesOK(q)'
      BY <1>2, RefsAssumption DEF HandlesInv, BeginDrop, SidesOK, SlotOK, Strong, Primaries,
         Chans, Steps, RefsTypeOK
    <2>4. \A q \in Refs : LateOK(q)'
      BY <1>2, RefsAssumption DEF HandlesInv, BeginDrop, LateOK, HalfOK, SlotOK, Final,
         Strong, Primaries, Chans, Steps, RefsTypeOK
    <2>5. \A q \in Refs : HalfOK(q)'
      BY <1>2, RefsAssumption DEF HandlesInv, BeginDrop, HalfOK, SlotOK, Strong, Primaries,
         Chans, Steps, RefsTypeOK
    <2>6. ("mail" \in shut => "term" \in shut)'
      BY <1>2, RefsAssumption DEF HandlesInv, BeginDrop, Primaries, Chans
    <2>7. (deserted => ~Strong("mail") \/ ~Strong("term"))'
      BY <1>2, RefsAssumption DEF HandlesInv, BeginDrop, Strong, SlotOK, Primaries, Chans,
         RefsTypeOK
    <2>8. (refused => Final)'
      BY <1>2, RefsAssumption DEF HandlesInv, BeginDrop, Final, HalfOK, Strong, SlotOK,
         Primaries, Chans, RefsTypeOK, Steps
    <2>. QED
      BY <2>1, <2>2, <2>3, <2>4, <2>5, <2>6, <2>7, <2>8 DEF HandlesInv
  <1>3. ASSUME NEW r \in Refs, NEW ch \in Chans, DropSender(r, ch)
         PROVE  HandlesInv'
    <2>1. RefsTypeOK'
      BY <1>3, RefsAssumption DEF HandlesInv, DropSender, MayDrop, RefsTypeOK, Primaries,
         Chans, Steps
    <2>2. \A q \in Refs : SlotOK(q)'
      BY <1>3, RefsAssumption DEF HandlesInv, DropSender, MayDrop, SlotOK, Primaries, Chans,
         Steps, RefsTypeOK
    <2>3. \A q \in Refs : SidesOK(q)'
      <3>1. /\ use[r] # "ref" /\ at[r] = "held"
            /\ has' = [has EXCEPT ![r] = @ \ {ch}] /\ UNCHANGED <<use, at>>
        BY <1>3 DEF HandlesInv, DropSender, MayDrop, SlotOK
      <3>2. \A x : Strong(x)' => Strong(x)
        BY <3>1 DEF HandlesInv, RefsTypeOK, Strong
      <3>3. \A q \in Refs : q # r => has'[q] = has[q]
        BY <3>1 DEF HandlesInv, RefsTypeOK
      <3>4. \A q \in Refs : use[q] = "ref" \/ at[q] = "idle" => q # r
        BY <3>1
      <3>5. \A q \in Refs : \A x : q # r /\ x \in has[q] => Strong(x)'
        BY <3>3 DEF Strong
      <3> QED BY <3>1, <3>2, <3>3, <3>4, <3>5 DEF HandlesInv, SidesOK
    <2>4. \A q \in Refs : LateOK(q)'
      BY <1>3, RefsAssumption DEF HandlesInv, DropSender, MayDrop, LateOK, HalfOK, SlotOK,
         Final, Strong, Primaries, Chans, Steps, RefsTypeOK
    <2>5. \A q \in Refs : HalfOK(q)'
      BY <1>3, RefsAssumption DEF HandlesInv, DropSender, MayDrop, HalfOK, SlotOK, Strong,
         Primaries, Chans, Steps, RefsTypeOK
    <2>6. ("mail" \in shut => "term" \in shut)'
      BY <1>3, RefsAssumption DEF HandlesInv, DropSender, MayDrop, Primaries, Chans
    <2>7. (deserted => ~Strong("mail") \/ ~Strong("term"))'
      BY <1>3, RefsAssumption DEF HandlesInv, DropSender, MayDrop, Strong, SlotOK, Primaries,
         Chans, RefsTypeOK
    <2>8. (refused => Final)'
      BY <1>3, RefsAssumption DEF HandlesInv, DropSender, MayDrop, Final, HalfOK, Strong,
         SlotOK, Primaries, Chans, RefsTypeOK, Steps
    <2>. QED
      BY <2>1, <2>2, <2>3, <2>4, <2>5, <2>6, <2>7, <2>8 DEF HandlesInv
  <1>4. ASSUME NEW r \in Refs, Dropped(r)
         PROVE  HandlesInv'
    <2>1. RefsTypeOK'
      BY <1>4, RefsAssumption DEF HandlesInv, Dropped, RefsTypeOK, Primaries, Chans, Steps
    <2>2. \A q \in Refs : SlotOK(q)'
      BY <1>4, RefsAssumption DEF HandlesInv, Dropped, SlotOK, Primaries, Chans, Steps, RefsTypeOK
    <2>3. \A q \in Refs : SidesOK(q)'
      BY <1>4, RefsAssumption DEF HandlesInv, Dropped, SidesOK, SlotOK, Strong, Primaries,
         Chans, Steps, RefsTypeOK
    <2>4. \A q \in Refs : LateOK(q)'
      BY <1>4, RefsAssumption DEF HandlesInv, Dropped, LateOK, HalfOK, SlotOK, Final, Strong,
         Primaries, Chans, Steps, RefsTypeOK
    <2>5. \A q \in Refs : HalfOK(q)'
      BY <1>4, RefsAssumption DEF HandlesInv, Dropped, HalfOK, SlotOK, Strong, Primaries,
         Chans, Steps, RefsTypeOK
    <2>6. ("mail" \in shut => "term" \in shut)'
      BY <1>4, RefsAssumption DEF HandlesInv, Dropped, Primaries, Chans
    <2>7. (deserted => ~Strong("mail") \/ ~Strong("term"))'
      BY <1>4, RefsAssumption DEF HandlesInv, Dropped, Strong, SlotOK, Primaries, Chans, RefsTypeOK
    <2>8. (refused => Final)'
      BY <1>4, RefsAssumption DEF HandlesInv, Dropped, Final, HalfOK, Strong, SlotOK,
         Primaries, Chans, RefsTypeOK, Steps
    <2>. QED
      BY <2>1, <2>2, <2>3, <2>4, <2>5, <2>6, <2>7, <2>8 DEF HandlesInv
  <1>5. ASSUME NEW r \in Refs, CallAlive(r)
         PROVE  HandlesInv'
    <2>1. RefsTypeOK'
      BY <1>5, RefsAssumption DEF HandlesInv, CallAlive, Begun, RefsTypeOK, Primaries, Chans, Steps
    <2>2. \A q \in Refs : SlotOK(q)'
      BY <1>5, RefsAssumption DEF HandlesInv, CallAlive, Begun, SlotOK, Primaries, Chans,
         Steps, RefsTypeOK
    <2>3. \A q \in Refs : SidesOK(q)'
      BY <1>5, RefsAssumption DEF HandlesInv, CallAlive, Begun, SidesOK, SlotOK, Strong,
         Primaries, Chans, Steps, RefsTypeOK
    <2>4. \A q \in Refs : LateOK(q)'
      BY <1>5, RefsAssumption DEF HandlesInv, CallAlive, Begun, LateOK, HalfOK, SlotOK, Final,
         Strong, Primaries, Chans, Steps, RefsTypeOK
    <2>5. \A q \in Refs : HalfOK(q)'
      BY <1>5, RefsAssumption DEF HandlesInv, CallAlive, Begun, HalfOK, SlotOK, Strong,
         Primaries, Chans, Steps, RefsTypeOK
    <2>6. ("mail" \in shut => "term" \in shut)'
      BY <1>5, RefsAssumption DEF HandlesInv, CallAlive, Begun, Primaries, Chans
    <2>7. (deserted => ~Strong("mail") \/ ~Strong("term"))'
      BY <1>5, RefsAssumption DEF HandlesInv, CallAlive, Begun, Strong, SlotOK, Primaries,
         Chans, RefsTypeOK
    <2>8. (refused => Final)'
      BY <1>5, RefsAssumption DEF HandlesInv, CallAlive, Begun, Final, HalfOK, Strong, SlotOK,
         Primaries, Chans, RefsTypeOK, Steps
    <2>. QED
      BY <2>1, <2>2, <2>3, <2>4, <2>5, <2>6, <2>7, <2>8 DEF HandlesInv
  <1>6. ASSUME NEW r \in Refs, NEW call \in {"upgrade", "probe"}, CallWeak(r, call)
         PROVE  HandlesInv'
    <2>1. RefsTypeOK'
      BY <1>6, RefsAssumption DEF HandlesInv, CallWeak, Begun, RefsTypeOK, Primaries, Chans, Steps
    <2>2. \A q \in Refs : SlotOK(q)'
      BY <1>6, RefsAssumption DEF HandlesInv, CallWeak, Begun, SlotOK, Primaries, Chans,
         Steps, RefsTypeOK
    <2>3. \A q \in Refs : SidesOK(q)'
      BY <1>6, RefsAssumption DEF HandlesInv, CallWeak, Begun, SidesOK, SlotOK, Strong,
         Primaries, Chans, Steps, RefsTypeOK
    <2>4. \A q \in Refs : LateOK(q)'
      BY <1>6, RefsAssumption DEF HandlesInv, CallWeak, Begun, LateOK, HalfOK, SlotOK, Final,
         Strong, Primaries, Chans, Steps, RefsTypeOK
    <2>5. \A q \in Refs : HalfOK(q)'
      BY <1>6, RefsAssumption DEF HandlesInv, CallWeak, Begun, HalfOK, SlotOK, Strong,
         Primaries, Chans, Steps, RefsTypeOK
    <2>6. ("mail" \in shut => "term" \in shut)'
      BY <1>6, RefsAssumption DEF HandlesInv, CallWeak, Begun, Primaries, Chans
    <2>7. (deserted => ~Strong("mail") \/ ~Strong("term"))'
      BY <1>6, RefsAssumption DEF HandlesInv, CallWeak, Begun, Strong, SlotOK, Primaries,
         Chans, RefsTypeOK
    <2>8. (refused => Final)'
      BY <1>6, RefsAssumption DEF HandlesInv, CallWeak, Begun, Final, HalfOK, Strong, SlotOK,
         Primaries, Chans, RefsTypeOK, Steps
    <2>. QED
      BY <2>1, <2>2, <2>3, <2>4, <2>5, <2>6, <2>7, <2>8 DEF HandlesInv
  <1>7. ASSUME NEW r \in Refs, TakeMail(r)
         PROVE  HandlesInv'
    <2>1. RefsTypeOK'
      <3>1. CASE Strong("mail") /\ Take(r, "mail") /\ Goto(r, "term")
        BY <1>7, <3>1, RefsAssumption DEF HandlesInv, TakeMail, Take, Goto, Refuse,
           RefsTypeOK, Primaries, Chans, Steps
      <3>2. CASE ~Strong("mail") /\ Goto(r, "term") /\ UNCHANGED has
        BY <1>7, <3>2, RefsAssumption DEF HandlesInv, TakeMail, Take, Goto, Refuse,
           RefsTypeOK, Primaries, Chans, Steps
      <3>3. CASE ~Strong("mail") /\ Refuse(r)
        BY <1>7, <3>3, RefsAssumption DEF HandlesInv, TakeMail, Take, Goto, Refuse,
           RefsTypeOK, Primaries, Chans, Steps
      <3>. QED
        BY <1>7, <3>1, <3>2, <3>3 DEF TakeMail
    <2>2. \A q \in Refs : SlotOK(q)'
      BY <1>7, RefsAssumption DEF HandlesInv, TakeMail, Take, Goto, Refuse, SlotOK, Primaries,
         Chans, Steps, RefsTypeOK
    <2>3. \A q \in Refs : SidesOK(q)'
      BY <1>7, RefsAssumption DEF HandlesInv, TakeMail, Take, Goto, Refuse, SidesOK, SlotOK,
         Strong, Primaries, Chans, Steps, RefsTypeOK
    <2>4. \A q \in Refs : LateOK(q)'
      BY <1>7, RefsAssumption DEF HandlesInv, TakeMail, Take, Goto, Refuse, LateOK, HalfOK,
         SlotOK, Final, Strong, Primaries, Chans, Steps, RefsTypeOK
    <2>5. \A q \in Refs : HalfOK(q)'
      BY <1>7, RefsAssumption DEF HandlesInv, TakeMail, Take, Goto, Refuse, HalfOK, SlotOK,
         Strong, Primaries, Chans, Steps, RefsTypeOK
    <2>6. ("mail" \in shut => "term" \in shut)'
      <3>1. CASE Strong("mail") /\ Take(r, "mail") /\ Goto(r, "term")
        BY <1>7, <3>1, RefsAssumption DEF HandlesInv, TakeMail, Take, Goto, Refuse, Primaries, Chans
      <3>2. CASE ~Strong("mail") /\ Goto(r, "term") /\ UNCHANGED has
        BY <1>7, <3>2, RefsAssumption DEF HandlesInv, TakeMail, Take, Goto, Refuse, Primaries, Chans
      <3>3. CASE ~Strong("mail") /\ Refuse(r)
        BY <1>7, <3>3, RefsAssumption DEF HandlesInv, TakeMail, Take, Goto, Refuse, Primaries, Chans
      <3>. QED
        BY <1>7, <3>1, <3>2, <3>3 DEF TakeMail
    <2>7. (deserted => ~Strong("mail") \/ ~Strong("term"))'
      <3>1. CASE Strong("mail") /\ Take(r, "mail") /\ Goto(r, "term")
        BY <1>7, <3>1, RefsAssumption DEF HandlesInv, TakeMail, Take, Goto, Refuse, Strong,
           SlotOK, Primaries, Chans, RefsTypeOK
      <3>2. CASE ~Strong("mail") /\ Goto(r, "term") /\ UNCHANGED has
        BY <1>7, <3>2, RefsAssumption DEF HandlesInv, TakeMail, Take, Goto, Refuse, Strong,
           SlotOK, Primaries, Chans, RefsTypeOK
      <3>3. CASE ~Strong("mail") /\ Refuse(r)
        BY <1>7, <3>3, RefsAssumption DEF HandlesInv, TakeMail, Take, Goto, Refuse, Strong,
           SlotOK, Primaries, Chans, RefsTypeOK
      <3>. QED
        BY <1>7, <3>1, <3>2, <3>3 DEF TakeMail
    <2>8. (refused => Final)'
      <3>1. CASE Strong("mail") /\ Take(r, "mail") /\ Goto(r, "term")
        BY <1>7, <3>1, RefsAssumption DEF HandlesInv, TakeMail, Take, Goto, Refuse, Final,
           HalfOK, Strong, SlotOK, Primaries, Chans, RefsTypeOK, Steps
      <3>2. CASE ~Strong("mail") /\ Goto(r, "term") /\ UNCHANGED has
        BY <1>7, <3>2, RefsAssumption DEF HandlesInv, TakeMail, Take, Goto, Refuse, Final,
           HalfOK, Strong, SlotOK, Primaries, Chans, RefsTypeOK, Steps
      <3>3. CASE ~Strong("mail") /\ Refuse(r)
        BY <1>7, <3>3, RefsAssumption DEF HandlesInv, TakeMail, Take, Goto, Refuse, Final,
           HalfOK, Strong, SlotOK, Primaries, Chans, RefsTypeOK, Steps
      <3>. QED
        BY <1>7, <3>1, <3>2, <3>3 DEF TakeMail
    <2>. QED
      BY <2>1, <2>2, <2>3, <2>4, <2>5, <2>6, <2>7, <2>8 DEF HandlesInv
  <1>8. ASSUME NEW r \in Refs, TakeTerm(r)
         PROVE  HandlesInv'
    <2>1. RefsTypeOK'
      <3>1. CASE Strong("term") /\ Take(r, "term") /\ Goto(r, IF "mail" \in has[r] THEN "mail_open" ELSE "half")
        BY <1>8, <3>1, RefsAssumption DEF HandlesInv, TakeTerm, Take, Goto, Refuse,
           RefsTypeOK, Primaries, Chans, Steps
      <3>2. CASE ~Strong("term") /\ Refuse(r)
        BY <1>8, <3>2, RefsAssumption DEF HandlesInv, TakeTerm, Take, Goto, Refuse,
           RefsTypeOK, Primaries, Chans, Steps
      <3>. QED
        BY <1>8, <3>1, <3>2 DEF TakeTerm
    <2>2. \A q \in Refs : SlotOK(q)'
      BY <1>8, RefsAssumption DEF HandlesInv, TakeTerm, Take, Goto, Refuse, SlotOK, Primaries,
         Chans, Steps, RefsTypeOK
    <2>3. \A q \in Refs : SidesOK(q)'
      BY <1>8, RefsAssumption DEF HandlesInv, TakeTerm, Take, Goto, Refuse, SidesOK, SlotOK,
         Strong, Primaries, Chans, Steps, RefsTypeOK
    <2>4. \A q \in Refs : LateOK(q)'
      BY <1>8, RefsAssumption DEF HandlesInv, TakeTerm, Take, Goto, Refuse, LateOK, HalfOK,
         SlotOK, Final, Strong, Primaries, Chans, Steps, RefsTypeOK
    <2>5. \A q \in Refs : HalfOK(q)'
      BY <1>8, RefsAssumption DEF HandlesInv, TakeTerm, Take, Goto, Refuse, HalfOK, SlotOK,
         Strong, Primaries, Chans, Steps, RefsTypeOK
    <2>6. ("mail" \in shut => "term" \in shut)'
      <3>1. CASE Strong("term") /\ Take(r, "term") /\ Goto(r, IF "mail" \in has[r] THEN "mail_open" ELSE "half")
        BY <1>8, <3>1, RefsAssumption DEF HandlesInv, TakeTerm, Take, Goto, Refuse, Primaries, Chans
      <3>2. CASE ~Strong("term") /\ Refuse(r)
        BY <1>8, <3>2, RefsAssumption DEF HandlesInv, TakeTerm, Take, Goto, Refuse, Primaries, Chans
      <3>. QED
        BY <1>8, <3>1, <3>2 DEF TakeTerm
    <2>7. (deserted => ~Strong("mail") \/ ~Strong("term"))'
      <3>1. CASE Strong("term") /\ Take(r, "term") /\ Goto(r, IF "mail" \in has[r] THEN "mail_open" ELSE "half")
        BY <1>8, <3>1, RefsAssumption DEF HandlesInv, TakeTerm, Take, Goto, Refuse, Strong,
           SlotOK, Primaries, Chans, RefsTypeOK
      <3>2. CASE ~Strong("term") /\ Refuse(r)
        BY <1>8, <3>2, RefsAssumption DEF HandlesInv, TakeTerm, Take, Goto, Refuse, Strong,
           SlotOK, Primaries, Chans, RefsTypeOK
      <3>. QED
        BY <1>8, <3>1, <3>2 DEF TakeTerm
    <2>8. (refused => Final)'
      <3>1. CASE Strong("term") /\ Take(r, "term") /\ Goto(r, IF "mail" \in has[r] THEN "mail_open" ELSE "half")
        BY <1>8, <3>1, RefsAssumption DEF HandlesInv, TakeTerm, Take, Goto, Refuse, Final,
           HalfOK, Strong, SlotOK, Primaries, Chans, RefsTypeOK, Steps
      <3>2. CASE ~Strong("term") /\ Refuse(r)
        BY <1>8, <3>2, RefsAssumption DEF HandlesInv, TakeTerm, Take, Goto, Refuse, Final,
           HalfOK, Strong, SlotOK, Primaries, Chans, RefsTypeOK, Steps
      <3>. QED
        BY <1>8, <3>1, <3>2 DEF TakeTerm
    <2>. QED
      BY <2>1, <2>2, <2>3, <2>4, <2>5, <2>6, <2>7, <2>8 DEF HandlesInv
  <1>9. ASSUME NEW r \in Refs, Half(r)
         PROVE  HandlesInv'
    <2>1. RefsTypeOK'
      BY <1>9, RefsAssumption DEF HandlesInv, Half, Refuse, RefsTypeOK, Primaries, Chans, Steps
    <2>2. \A q \in Refs : SlotOK(q)'
      BY <1>9, RefsAssumption DEF HandlesInv, Half, Refuse, SlotOK, Primaries, Chans, Steps,
         RefsTypeOK
    <2>3. \A q \in Refs : SidesOK(q)'
      BY <1>9, RefsAssumption DEF HandlesInv, Half, Refuse, SidesOK, SlotOK, Strong,
         Primaries, Chans, Steps, RefsTypeOK
    <2>4. \A q \in Refs : LateOK(q)'
      BY <1>9, RefsAssumption DEF HandlesInv, Half, Refuse, LateOK, HalfOK, SlotOK, Final,
         Strong, Primaries, Chans, Steps, RefsTypeOK
    <2>5. \A q \in Refs : HalfOK(q)'
      BY <1>9, RefsAssumption DEF HandlesInv, Half, Refuse, HalfOK, SlotOK, Strong, Primaries,
         Chans, Steps, RefsTypeOK
    <2>6. ("mail" \in shut => "term" \in shut)'
      BY <1>9, RefsAssumption DEF HandlesInv, Half, Refuse, Primaries, Chans
    <2>7. (deserted => ~Strong("mail") \/ ~Strong("term"))'
      BY <1>9, RefsAssumption DEF HandlesInv, Half, Refuse, Strong, SlotOK, Primaries, Chans,
         RefsTypeOK
    <2>8. (refused => Final)'
      BY <1>9, RefsAssumption DEF HandlesInv, Half, Refuse, Final, HalfOK, Strong, SlotOK,
         Primaries, Chans, RefsTypeOK, Steps
    <2>. QED
      BY <2>1, <2>2, <2>3, <2>4, <2>5, <2>6, <2>7, <2>8 DEF HandlesInv
  <1>10. ASSUME NEW r \in Refs, MailOpen(r)
         PROVE  HandlesInv'
    <2>1. RefsTypeOK'
      BY <1>10, RefsAssumption DEF HandlesInv, MailOpen, Goto, Refuse, RefsTypeOK, Primaries,
         Chans, Steps
    <2>2. \A q \in Refs : SlotOK(q)'
      BY <1>10, RefsAssumption DEF HandlesInv, MailOpen, Goto, Refuse, SlotOK, Primaries,
         Chans, Steps, RefsTypeOK
    <2>3. \A q \in Refs : SidesOK(q)'
      BY <1>10, RefsAssumption DEF HandlesInv, MailOpen, Goto, Refuse, SidesOK, SlotOK,
         Strong, Primaries, Chans, Steps, RefsTypeOK
    <2>4. \A q \in Refs : LateOK(q)'
      BY <1>10, RefsAssumption DEF HandlesInv, MailOpen, Goto, Refuse, LateOK, HalfOK, SlotOK,
         Final, Strong, Primaries, Chans, Steps, RefsTypeOK
    <2>5. \A q \in Refs : HalfOK(q)'
      BY <1>10, RefsAssumption DEF HandlesInv, MailOpen, Goto, Refuse, HalfOK, SlotOK, Strong,
         Primaries, Chans, Steps, RefsTypeOK
    <2>6. ("mail" \in shut => "term" \in shut)'
      BY <1>10, RefsAssumption DEF HandlesInv, MailOpen, Goto, Refuse, Primaries, Chans
    <2>7. (deserted => ~Strong("mail") \/ ~Strong("term"))'
      BY <1>10, RefsAssumption DEF HandlesInv, MailOpen, Goto, Refuse, Strong, SlotOK,
         Primaries, Chans, RefsTypeOK
    <2>8. (refused => Final)'
      BY <1>10, RefsAssumption DEF HandlesInv, MailOpen, Goto, Refuse, Final, HalfOK, Strong,
         SlotOK, Primaries, Chans, RefsTypeOK, Steps
    <2>. QED
      BY <2>1, <2>2, <2>3, <2>4, <2>5, <2>6, <2>7, <2>8 DEF HandlesInv
  <1>11. ASSUME NEW r \in Refs, TermOpen(r)
         PROVE  HandlesInv'
    <2>1. RefsTypeOK'
      BY <1>11, RefsAssumption DEF HandlesInv, TermOpen, Goto, Refuse, Agree, RefsTypeOK,
         Primaries, Chans, Steps
    <2>2. \A q \in Refs : SlotOK(q)'
      BY <1>11, RefsAssumption DEF HandlesInv, TermOpen, Goto, Refuse, Agree, SlotOK,
         Primaries, Chans, Steps, RefsTypeOK
    <2>3. \A q \in Refs : SidesOK(q)'
      BY <1>11, RefsAssumption DEF HandlesInv, TermOpen, Goto, Refuse, Agree, SidesOK, SlotOK,
         Strong, Primaries, Chans, Steps, RefsTypeOK
    <2>4. \A q \in Refs : LateOK(q)'
      BY <1>11, RefsAssumption DEF HandlesInv, TermOpen, Goto, Refuse, Agree, LateOK, HalfOK,
         SlotOK, Final, Strong, Primaries, Chans, Steps, RefsTypeOK
    <2>5. \A q \in Refs : HalfOK(q)'
      BY <1>11, RefsAssumption DEF HandlesInv, TermOpen, Goto, Refuse, Agree, HalfOK, SlotOK,
         Strong, Primaries, Chans, Steps, RefsTypeOK
    <2>6. ("mail" \in shut => "term" \in shut)'
      BY <1>11, RefsAssumption DEF HandlesInv, TermOpen, Goto, Refuse, Agree, Primaries, Chans
    <2>7. (deserted => ~Strong("mail") \/ ~Strong("term"))'
      BY <1>11, RefsAssumption DEF HandlesInv, TermOpen, Goto, Refuse, Agree, Strong, SlotOK,
         Primaries, Chans, RefsTypeOK
    <2>8. (refused => Final)'
      BY <1>11, RefsAssumption DEF HandlesInv, TermOpen, Goto, Refuse, Agree, Final, HalfOK,
         Strong, SlotOK, Primaries, Chans, RefsTypeOK, Steps
    <2>. QED
      BY <2>1, <2>2, <2>3, <2>4, <2>5, <2>6, <2>7, <2>8 DEF HandlesInv
  <1>12. ASSUME NEW r \in Refs, TakePrio(r)
         PROVE  HandlesInv'
    <2>1. RefsTypeOK'
      BY <1>12, RefsAssumption DEF HandlesInv, TakePrio, TakeSide, Goto, RefsTypeOK,
         Primaries, Chans, Steps
    <2>2. \A q \in Refs : SlotOK(q)'
      BY <1>12, RefsAssumption DEF HandlesInv, TakePrio, TakeSide, Goto, SlotOK, Primaries,
         Chans, Steps, RefsTypeOK
    <2>3. \A q \in Refs : SidesOK(q)'
      BY <1>12, RefsAssumption DEF HandlesInv, TakePrio, TakeSide, Goto, SidesOK, SlotOK,
         Strong, Primaries, Chans, Steps, RefsTypeOK
    <2>4. \A q \in Refs : LateOK(q)'
      BY <1>12, RefsAssumption DEF HandlesInv, TakePrio, TakeSide, Goto, LateOK, HalfOK,
         SlotOK, Final, Strong, Primaries, Chans, Steps, RefsTypeOK
    <2>5. \A q \in Refs : HalfOK(q)'
      BY <1>12, RefsAssumption DEF HandlesInv, TakePrio, TakeSide, Goto, HalfOK, SlotOK,
         Strong, Primaries, Chans, Steps, RefsTypeOK
    <2>6. ("mail" \in shut => "term" \in shut)'
      BY <1>12, RefsAssumption DEF HandlesInv, TakePrio, TakeSide, Goto, Primaries, Chans
    <2>7. (deserted => ~Strong("mail") \/ ~Strong("term"))'
      BY <1>12, RefsAssumption DEF HandlesInv, TakePrio, TakeSide, Goto, Strong, SlotOK,
         Primaries, Chans, RefsTypeOK
    <2>8. (refused => Final)'
      BY <1>12, RefsAssumption DEF HandlesInv, TakePrio, TakeSide, Goto, Final, HalfOK,
         Strong, SlotOK, Primaries, Chans, RefsTypeOK, Steps
    <2>. QED
      BY <2>1, <2>2, <2>3, <2>4, <2>5, <2>6, <2>7, <2>8 DEF HandlesInv
  <1>13. ASSUME NEW r \in Refs, TakeIdle(r)
         PROVE  HandlesInv'
    <2>1. RefsTypeOK'
      BY <1>13, RefsAssumption DEF HandlesInv, TakeIdle, TakeSide, Agree, RefsTypeOK,
         Primaries, Chans, Steps
    <2>2. \A q \in Refs : SlotOK(q)'
      BY <1>13, RefsAssumption DEF HandlesInv, TakeIdle, TakeSide, Agree, SlotOK, Primaries,
         Chans, Steps, RefsTypeOK
    <2>3. \A q \in Refs : SidesOK(q)'
      BY <1>13, RefsAssumption DEF HandlesInv, TakeIdle, TakeSide, Agree, SidesOK, SlotOK,
         Strong, Primaries, Chans, Steps, RefsTypeOK
    <2>4. \A q \in Refs : LateOK(q)'
      BY <1>13, RefsAssumption DEF HandlesInv, TakeIdle, TakeSide, Agree, LateOK, HalfOK,
         SlotOK, Final, Strong, Primaries, Chans, Steps, RefsTypeOK
    <2>5. \A q \in Refs : HalfOK(q)'
      BY <1>13, RefsAssumption DEF HandlesInv, TakeIdle, TakeSide, Agree, HalfOK, SlotOK,
         Strong, Primaries, Chans, Steps, RefsTypeOK
    <2>6. ("mail" \in shut => "term" \in shut)'
      BY <1>13, RefsAssumption DEF HandlesInv, TakeIdle, TakeSide, Agree, Primaries, Chans
    <2>7. (deserted => ~Strong("mail") \/ ~Strong("term"))'
      BY <1>13, RefsAssumption DEF HandlesInv, TakeIdle, TakeSide, Agree, Strong, SlotOK,
         Primaries, Chans, RefsTypeOK
    <2>8. (refused => Final)'
      BY <1>13, RefsAssumption DEF HandlesInv, TakeIdle, TakeSide, Agree, Final, HalfOK,
         Strong, SlotOK, Primaries, Chans, RefsTypeOK, Steps
    <2>. QED
      BY <2>1, <2>2, <2>3, <2>4, <2>5, <2>6, <2>7, <2>8 DEF HandlesInv
  <1>14. ASSUME NEW ch \in Primaries, Desert(ch)
         PROVE  HandlesInv'
    <2>1. RefsTypeOK'
      BY <1>14, RefsAssumption DEF HandlesInv, Desert, RefsTypeOK, Primaries, Chans, Steps
    <2>2. \A q \in Refs : SlotOK(q)'
      BY <1>14, RefsAssumption DEF HandlesInv, Desert, SlotOK, Primaries, Chans, Steps, RefsTypeOK
    <2>3. \A q \in Refs : SidesOK(q)'
      BY <1>14, RefsAssumption DEF HandlesInv, Desert, SidesOK, SlotOK, Strong, Primaries,
         Chans, Steps, RefsTypeOK
    <2>4. \A q \in Refs : LateOK(q)'
      BY <1>14, RefsAssumption DEF HandlesInv, Desert, LateOK, HalfOK, SlotOK, Final, Strong,
         Primaries, Chans, Steps, RefsTypeOK
    <2>5. \A q \in Refs : HalfOK(q)'
      BY <1>14, RefsAssumption DEF HandlesInv, Desert, HalfOK, SlotOK, Strong, Primaries,
         Chans, Steps, RefsTypeOK
    <2>6. ("mail" \in shut => "term" \in shut)'
      BY <1>14, RefsAssumption DEF HandlesInv, Desert, Primaries, Chans
    <2>7. (deserted => ~Strong("mail") \/ ~Strong("term"))'
      BY <1>14, RefsAssumption DEF HandlesInv, Desert, Strong, SlotOK, Primaries, Chans, RefsTypeOK
    <2>8. (refused => Final)'
      BY <1>14, RefsAssumption DEF HandlesInv, Desert, Final, HalfOK, Strong, SlotOK,
         Primaries, Chans, RefsTypeOK, Steps
    <2>. QED
      BY <2>1, <2>2, <2>3, <2>4, <2>5, <2>6, <2>7, <2>8 DEF HandlesInv
  <1>15. ASSUME NEW ch \in Sides, SideGone(ch)
         PROVE  HandlesInv'
    <2>1. RefsTypeOK'
      BY <1>15, RefsAssumption DEF HandlesInv, SideGone, RefsTypeOK, Primaries, Chans, Steps
    <2>2. \A q \in Refs : SlotOK(q)'
      BY <1>15, RefsAssumption DEF HandlesInv, SideGone, SlotOK, Primaries, Chans, Steps, RefsTypeOK
    <2>3. \A q \in Refs : SidesOK(q)'
      BY <1>15, RefsAssumption DEF HandlesInv, SideGone, SidesOK, SlotOK, Strong, Primaries,
         Chans, Steps, RefsTypeOK
    <2>4. \A q \in Refs : LateOK(q)'
      BY <1>15, RefsAssumption DEF HandlesInv, SideGone, LateOK, HalfOK, SlotOK, Final,
         Strong, Primaries, Chans, Steps, RefsTypeOK
    <2>5. \A q \in Refs : HalfOK(q)'
      BY <1>15, RefsAssumption DEF HandlesInv, SideGone, HalfOK, SlotOK, Strong, Primaries,
         Chans, Steps, RefsTypeOK
    <2>6. ("mail" \in shut => "term" \in shut)'
      BY <1>15, RefsAssumption DEF HandlesInv, SideGone, Primaries, Chans
    <2>7. (deserted => ~Strong("mail") \/ ~Strong("term"))'
      BY <1>15, RefsAssumption DEF HandlesInv, SideGone, Strong, SlotOK, Primaries, Chans,
         RefsTypeOK
    <2>8. (refused => Final)'
      BY <1>15, RefsAssumption DEF HandlesInv, SideGone, Final, HalfOK, Strong, SlotOK,
         Primaries, Chans, RefsTypeOK, Steps
    <2>. QED
      BY <2>1, <2>2, <2>3, <2>4, <2>5, <2>6, <2>7, <2>8 DEF HandlesInv
  <1>16. ASSUME Leave
         PROVE  HandlesInv'
    <2>1. RefsTypeOK'
      BY <1>16, RefsAssumption DEF HandlesInv, Leave, RefsTypeOK, Primaries, Chans, Steps
    <2>2. \A q \in Refs : SlotOK(q)'
      BY <1>16, RefsAssumption DEF HandlesInv, Leave, SlotOK, Primaries, Chans, Steps, RefsTypeOK
    <2>3. \A q \in Refs : SidesOK(q)'
      BY <1>16, RefsAssumption DEF HandlesInv, Leave, SidesOK, SlotOK, Strong, Primaries,
         Chans, Steps, RefsTypeOK
    <2>4. \A q \in Refs : LateOK(q)'
      BY <1>16, RefsAssumption DEF HandlesInv, Leave, LateOK, HalfOK, SlotOK, Final, Strong,
         Primaries, Chans, Steps, RefsTypeOK
    <2>5. \A q \in Refs : HalfOK(q)'
      BY <1>16, RefsAssumption DEF HandlesInv, Leave, HalfOK, SlotOK, Strong, Primaries,
         Chans, Steps, RefsTypeOK
    <2>6. ("mail" \in shut => "term" \in shut)'
      BY <1>16, RefsAssumption DEF HandlesInv, Leave, Primaries, Chans
    <2>7. (deserted => ~Strong("mail") \/ ~Strong("term"))'
      BY <1>16, RefsAssumption DEF HandlesInv, Leave, Strong, SlotOK, Primaries, Chans, RefsTypeOK
    <2>8. (refused => Final)'
      BY <1>16, RefsAssumption DEF HandlesInv, Leave, Final, HalfOK, Strong, SlotOK,
         Primaries, Chans, RefsTypeOK, Steps
    <2>. QED
      BY <2>1, <2>2, <2>3, <2>4, <2>5, <2>6, <2>7, <2>8 DEF HandlesInv
  <1>17. ASSUME NEW ch \in Primaries \cup Sides, CloseRx(ch)
         PROVE  HandlesInv'
    <2>1. RefsTypeOK'
      BY <1>17, RefsAssumption DEF HandlesInv, CloseRx, RefsTypeOK, Primaries, Chans, Steps
    <2>2. \A q \in Refs : SlotOK(q)'
      BY <1>17, RefsAssumption DEF HandlesInv, CloseRx, SlotOK, Primaries, Chans, Steps, RefsTypeOK
    <2>3. \A q \in Refs : SidesOK(q)'
      BY <1>17, RefsAssumption DEF HandlesInv, CloseRx, SidesOK, SlotOK, Strong, Primaries,
         Chans, Steps, RefsTypeOK
    <2>4. \A q \in Refs : LateOK(q)'
      BY <1>17, RefsAssumption DEF HandlesInv, CloseRx, LateOK, HalfOK, SlotOK, Final, Strong,
         Primaries, Chans, Steps, RefsTypeOK
    <2>5. \A q \in Refs : HalfOK(q)'
      BY <1>17, RefsAssumption DEF HandlesInv, CloseRx, HalfOK, SlotOK, Strong, Primaries,
         Chans, Steps, RefsTypeOK
    <2>6. ("mail" \in shut => "term" \in shut)'
      BY <1>17, RefsAssumption DEF HandlesInv, CloseRx, Primaries, Chans
    <2>7. (deserted => ~Strong("mail") \/ ~Strong("term"))'
      BY <1>17, RefsAssumption DEF HandlesInv, CloseRx, Strong, SlotOK, Primaries, Chans, RefsTypeOK
    <2>8. (refused => Final)'
      BY <1>17, RefsAssumption DEF HandlesInv, CloseRx, Final, HalfOK, Strong, SlotOK,
         Primaries, Chans, RefsTypeOK, Steps
    <2>. QED
      BY <2>1, <2>2, <2>3, <2>4, <2>5, <2>6, <2>7, <2>8 DEF HandlesInv
  <1>18. CASE UNCHANGED refVars
    BY <1>18 DEF refVars, HandlesInv, RefsTypeOK, SlotOK, SidesOK, LateOK, HalfOK, Final, Strong
  <1>. QED
    BY <1>1, <1>2, <1>3, <1>4, <1>5, <1>6, <1>7, <1>8, <1>9, <1>10, <1>11, <1>12, <1>13, <1>14,
       <1>15, <1>16, <1>17, <1>18 DEF RefsNext, CallStep

\* The handles are what they should be at every step of every call on them,
\* whatever the calls, the drops and the loop do meanwhile.
THEOREM HandlesInvariant == RefsSpec => []HandlesInv
  BY HandlesInit, HandlesStep, PTL DEF RefsSpec

\* After a refusal no call says yes: one that began later never gets past
\* the checks (ActorWeak::upgrade, ActorWeak::is_alive, ActorRef::is_alive).
THEOREM DeadStaysDead == RefsSpec => []DeadIsFinal
  <1>1. HandlesInv => DeadIsFinal
    BY DEF HandlesInv, RefsTypeOK, LateOK, DeadIsFinal
  <1>. QED
    BY <1>1, HandlesInvariant, PTL

\* A loop that left because a channel had no sender left no ActorRef behind
\* (run_actor_lifecycle, the None arms; ActorWeak::upgrade).
THEOREM LoopLeavesNobody == RefsSpec => []NobodyLeftBehind
  <1>1. HandlesInv => NobodyLeftBehind
    BY DEF HandlesInv, SlotOK, Strong, Primaries, NobodyLeftBehind
  <1>. QED
    BY <1>1, HandlesInvariant, PTL

\* All the ActorRefs of an actor have the same secondary channels
\* (Clone for ActorRef, ActorWeak::upgrade).
THEOREM HandlesAgree == RefsSpec => []SidesAgree
  <1>1. HandlesInv => SidesAgree
    <2>. SUFFICES ASSUME HandlesInv, NEW r \in Refs, NEW s \in Refs, use[r] = "ref", use[s] = "ref"
                  PROVE  has[r] = has[s]
      BY DEF SidesAgree
    <2>1. has[r] \in SUBSET Chans /\ has[s] \in SUBSET Chans
      BY DEF HandlesInv, RefsTypeOK
    <2>2. \A ch \in Chans : ch \in has[r] <=> ch \in has[s]
      BY DEF HandlesInv, SlotOK, SidesOK, Primaries, Chans
    <2>. QED
      BY <2>1, <2>2
  <1>. QED
    BY <1>1, HandlesInvariant, PTL

-----------------------------------------------------------------------------
(* Arithmetic *)

LEMMA CappedFits == \A n \in Nat : Capped(n) \in 0..MaxU64
  BY MetricsAssumption DEF Capped

LEMMA LargerIsNat ==
    \A m, n \in Nat : Larger(m, n) \in Nat /\ m <= Larger(m, n) /\ n <= Larger(m, n)
  BY DEF Larger

\* Products grow with their factors.
LEMMA ProductGrows == \A n, l, m \in Nat : l <= m => n * l <= n * m
  OBVIOUS

LEMMA OneMore == \A n, m \in Nat : (n + 1) * m = n * m + m /\ n * m \in Nat
  OBVIOUS

\* One more piece of work leaves the sum within the number times the longest.
LEMMA SumWithin ==
    ASSUME NEW s \in Nat, NEW n \in Nat, NEW l \in Nat, NEW d \in Nat, s <= n * l
    PROVE  s + d <= (n + 1) * Larger(l, d)
<1>1. n * l <= n * Larger(l, d)
  BY LargerIsNat, ProductGrows
<1>2. (n + 1) * Larger(l, d) = n * Larger(l, d) + Larger(l, d)
  BY LargerIsNat, OneMore
<1>3. n * l \in Nat /\ n * Larger(l, d) \in Nat
  BY LargerIsNat, OneMore
<1> QED BY <1>1, <1>2, <1>3, LargerIsNat

\* A mean is within the longest.
LEMMA MeanWithin ==
    ASSUME NEW s \in Nat, NEW n \in Nat \ {0}, NEW l \in Nat, s <= n * l
    PROVE  s \div n \in Nat /\ s \div n <= l
  OBVIOUS

LEMMA UpdatedIsNat ==
    ASSUME NEW f \in Fields, NEW old \in Nat, NEW d \in Nat, NEW t \in Nat
    PROVE  Updated(f, old, d, t) \in Nat
  BY MetricsAssumption, LargerIsNat DEF Updated, Wrapped, Biased, Capped

-----------------------------------------------------------------------------
(* The metrics *)

LEMMA AtomicFacts ==
    /\ Activity \in Atomics
    /\ \A k \in Kinds, f \in Counters : <<k, f>> \in Atomics /\ <<k, f>> # Activity
    /\ \A a \in Atomics : a[2] \in Fields
    /\ \A f \in Counters, k \in Kinds : <<k, f>>[2] = f /\ Activity[2] = "activity"
  BY DEF Atomics, Activity, Counters, Fields

LEMMA CounterAtomics ==
    \A k \in Kinds : /\ <<k, "count">> \in Atomics /\ <<k, "total">> \in Atomics
                     /\ <<k, "max">> \in Atomics
  BY DEF Atomics, Counters

LEMMA SourceIsAtomic ==
    ASSUME reading \in Kinds, NEW f \in Fields
    PROVE  Source(f) \in Atomics
  BY AtomicFacts DEF Source, Fields

LEMMA LatestIsNat == MetricsTypeOK => \A a \in Atomics : Latest(a) \in Nat /\ Len(order[a]) \in Nat \ {0}
  BY DEF MetricsTypeOK, Latest

LEMMA FoundIsNat == MetricsTypeOK => \A a \in Atomics : Found(a) \in Nat
  BY DEF MetricsTypeOK, Found

LEMMA MetricsStart == MetricsInit => MetricsInv
<1> SUFFICES ASSUME MetricsInit PROVE MetricsInv
  OBVIOUS
<1>1. \A a \in Atomics : order[a] = <<0>> /\ Len(order[a]) = 1 /\ Latest(a) = 0 /\ shown[a] = 1
  BY DEF MetricsInit, Latest
<1>2. MetricsTypeOK
  <2>1. order \in [Atomics -> Seq(Nat)] /\ shown \in [Atomics -> Nat]
    BY DEF MetricsInit
  <2>2. DOMAIN seen = {}
    BY DEF MetricsInit
  <2> QED BY <1>1, <2>1, <2>2 DEF MetricsInit, MetricsTypeOK
<1>3. CountsWork
  BY <1>1, AtomicFacts DEF MetricsInit, CountsWork, Counters
<1>4. MaximaRise
  <2> SUFFICES ASSUME NEW k \in Kinds, NEW i \in 1..Len(order[<<k, "max">>]),
                      NEW j \in 1..Len(order[<<k, "max">>]), i <= j
               PROVE  order[<<k, "max">>][i] <= order[<<k, "max">>][j]
    BY DEF MaximaRise
  <2>1. order[<<k, "max">>] = <<0>> /\ Len(order[<<k, "max">>]) = 1
    BY <1>1, CounterAtomics
  <2>2. i = 1 /\ j = 1
    BY <2>1
  <2> QED BY <2>1, <2>2
<1>5. LoadsWereFound
  BY DEF MetricsInit, LoadsWereFound
<1> QED BY <1>2, <1>3, <1>4, <1>5 DEF MetricsInv

\* What a recording appends to each atomic.
LEMMA RecordAppends ==
    ASSUME MetricsTypeOK, NEW k \in Kinds, NEW d \in Nat, NEW t \in Nat,
           order' = [a \in Atomics |->
                       IF a \in Touched(k)
                       THEN Append(order[a], Updated(a[2], Latest(a), d, t)) ELSE order[a]]
    PROVE  /\ order' \in [Atomics -> Seq(Nat)]
           /\ \A a \in Atomics :
                /\ \A i \in 1..Len(order[a]) : order'[a][i] = order[a][i]
                /\ Len(order'[a]) \in {Len(order[a]), Len(order[a]) + 1}
                /\ a \in Touched(k) => /\ Len(order'[a]) = Len(order[a]) + 1
                                       /\ Latest(a)' = Updated(a[2], Latest(a), d, t)
                /\ a \notin Touched(k) => order'[a] = order[a] /\ Latest(a)' = Latest(a)
<1>1. \A a \in Atomics : Updated(a[2], Latest(a), d, t) \in Nat
  BY AtomicFacts, LatestIsNat, UpdatedIsNat
<1>2. ASSUME NEW a \in Atomics
      PROVE  /\ order'[a] \in Seq(Nat)
             /\ \A i \in 1..Len(order[a]) : order'[a][i] = order[a][i]
             /\ Len(order'[a]) \in {Len(order[a]), Len(order[a]) + 1}
             /\ a \in Touched(k) => /\ Len(order'[a]) = Len(order[a]) + 1
                                    /\ Latest(a)' = Updated(a[2], Latest(a), d, t)
             /\ a \notin Touched(k) => order'[a] = order[a] /\ Latest(a)' = Latest(a)
  <2>1. order[a] \in Seq(Nat)
    BY DEF MetricsTypeOK
  <2> QED BY <1>1, <2>1 DEF Latest
<1> QED BY <1>2

LEMMA RecordStep ==
    ASSUME MetricsInv, NEW k \in Kinds, Record(k)
    PROVE  MetricsInv'
<1>1. PICK d \in Durations, t \in Clocks :
        /\ order' = [a \in Atomics |->
                       IF a \in Touched(k)
                       THEN Append(order[a], Updated(a[2], Latest(a), Capped(d), t)) ELSE order[a]]
        /\ work' = [work EXCEPT ![k] = Completed(@, Capped(d))]
        /\ last' = {t}
  BY DEF Record
<1> DEFINE n == Capped(d)
<1>2. n \in Nat /\ n <= MaxU64 /\ t \in Nat
  BY CappedFits, MetricsAssumption
<1>3. MetricsTypeOK
  BY DEF MetricsInv
<1>4. UNCHANGED <<shown, reading, seen>> /\ calm' = (reading = "nothing")
  BY DEF Record
<1> HIDE DEF n
<1>5. /\ order' \in [Atomics -> Seq(Nat)]
      /\ \A a \in Atomics :
           /\ \A i \in 1..Len(order[a]) : order'[a][i] = order[a][i]
           /\ Len(order'[a]) \in {Len(order[a]), Len(order[a]) + 1}
           /\ a \in Touched(k) => /\ Len(order'[a]) = Len(order[a]) + 1
                                  /\ Latest(a)' = Updated(a[2], Latest(a), n, t)
           /\ a \notin Touched(k) => order'[a] = order[a] /\ Latest(a)' = Latest(a)
  BY <1>1, <1>2, <1>3, RecordAppends DEF n
<1>6. \A a \in Atomics : Found(a)' = Found(a)
  BY <1>3, <1>4, <1>5 DEF MetricsTypeOK, Found
<1>7. /\ work[k] \in [number : Nat, sum : Nat, longest : Nat]
      /\ work'[k] = Completed(work[k], n)
      /\ \A j \in Kinds \ {k} : work'[j] = work[j]
  BY <1>1, <1>3 DEF MetricsTypeOK, n
<1>8. Completed(work[k], n) \in [number : Nat, sum : Nat, longest : Nat]
  <2>1. Larger(work[k].longest, n) \in Nat
    BY <1>2, <1>7, LargerIsNat
  <2>2. work[k].number + 1 \in Nat /\ work[k].sum + n \in Nat
    BY <1>2, <1>7
  <2> QED BY <2>1, <2>2 DEF Completed
<1>9. MetricsTypeOK'
  <2>1. \A a \in Atomics : shown'[a] \in 1..Len(order'[a])
    BY <1>3, <1>4, <1>5 DEF MetricsTypeOK
  <2>2. work' \in [Kinds -> [number : Nat, sum : Nat, longest : Nat]]
    BY <1>1, <1>3, <1>8 DEF MetricsTypeOK, n
  <2> QED BY <1>1, <1>2, <1>3, <1>4, <1>5, <2>1, <2>2 DEF MetricsTypeOK
<1>10. CountsWork'
  <2>1. \A j \in Kinds : /\ <<j, "count">> \in Atomics /\ <<j, "total">> \in Atomics
                         /\ <<j, "max">> \in Atomics
    BY CounterAtomics
  <2>2. \A f \in Counters : <<k, f>> \in Touched(k) /\ \A j \in Kinds \ {k} : <<j, f>> \notin Touched(k)
    BY AtomicFacts DEF Touched
  <2>3. \A j \in Kinds \ {k} :
          /\ work'[j].number <= MaxU64 => Latest(<<j, "count">>)' = work'[j].number
          /\ work'[j].sum <= MaxU64 => Latest(<<j, "total">>)' = work'[j].sum
          /\ Latest(<<j, "max">>)' = work'[j].longest
          /\ work'[j].sum <= work'[j].number * work'[j].longest
    BY <1>5, <1>7, <2>1, <2>2 DEF MetricsInv, CountsWork, Counters
  <2>4. /\ work'[k].number = work[k].number + 1
        /\ work'[k].sum = work[k].sum + n
        /\ work'[k].longest = Larger(work[k].longest, n)
    BY <1>7 DEF Completed
  <2>5. work'[k].number <= MaxU64 => Latest(<<k, "count">>)' = work'[k].number
    <3>1. Latest(<<k, "count">>)' = Wrapped(Latest(<<k, "count">>) + 1)
      BY <1>5, <2>1, <2>2, AtomicFacts DEF Updated, Counters
    <3>2. work[k].number <= MaxU64 => Latest(<<k, "count">>) = work[k].number
      BY DEF MetricsInv, CountsWork
    <3>3. work[k].number \in Nat
      BY <1>7
    <3> QED BY <2>4, <3>1, <3>2, <3>3, MetricsAssumption DEF Wrapped
  <2>6. work'[k].sum <= MaxU64 => Latest(<<k, "total">>)' = work'[k].sum
    <3>1. Latest(<<k, "total">>)' = Wrapped(Latest(<<k, "total">>) + n)
      BY <1>5, <2>1, <2>2, AtomicFacts DEF Updated, Counters
    <3>2. work[k].sum <= MaxU64 => Latest(<<k, "total">>) = work[k].sum
      BY DEF MetricsInv, CountsWork
    <3>3. work[k].sum \in Nat
      BY <1>7
    <3> QED BY <1>2, <2>4, <3>1, <3>2, <3>3, MetricsAssumption DEF Wrapped
  <2>7. Latest(<<k, "max">>)' = work'[k].longest
    <3>1. Latest(<<k, "max">>)' = Larger(Latest(<<k, "max">>), n)
      BY <1>5, <2>1, <2>2, AtomicFacts DEF Updated, Counters
    <3> QED BY <2>4, <3>1 DEF MetricsInv, CountsWork
  <2>8. work'[k].sum <= work'[k].number * work'[k].longest
    <3>1. work[k].sum <= work[k].number * work[k].longest
      BY DEF MetricsInv, CountsWork
    <3> QED BY <1>2, <1>7, <2>4, <3>1, SumWithin
  <2>9. last' = {t} /\ Latest(Activity)' = Biased(t)
    <3>1. Activity \in Touched(k)
      BY DEF Touched
    <3> QED BY <1>1, <1>5, <3>1, AtomicFacts DEF Updated, Activity
  <2> QED BY <2>3, <2>5, <2>6, <2>7, <2>8, <2>9 DEF CountsWork
<1>11. MaximaRise'
  <2> SUFFICES ASSUME NEW j \in Kinds,
                      NEW l \in 1..Len(order'[<<j, "max">>]), NEW m \in 1..Len(order'[<<j, "max">>]),
                      l <= m
               PROVE  order'[<<j, "max">>][l] <= order'[<<j, "max">>][m]
    BY DEF MaximaRise
  <2> DEFINE a == <<j, "max">>
  <2>1. a \in Atomics /\ a[2] = "max"
    BY CounterAtomics
  <2>0. \A x, y \in 1..Len(order[a]) : x <= y => order[a][x] <= order[a][y]
    BY DEF MetricsInv, MaximaRise
  <2>2. order[a] \in Seq(Nat) /\ order'[a] \in Seq(Nat) /\ Len(order[a]) \in Nat \ {0}
    BY <1>3, <1>5, <2>1, LatestIsNat DEF MetricsTypeOK
  <2> HIDE DEF a
  <2>3. CASE m <= Len(order[a])
    <3>1. l \in 1..Len(order[a]) /\ m \in 1..Len(order[a])
      BY <2>2, <2>3 DEF a
    <3>2. order'[a][l] = order[a][l] /\ order'[a][m] = order[a][m]
      BY <1>5, <2>1, <3>1
    <3> QED BY <2>0, <3>1, <3>2 DEF a
  <2>4. CASE m = Len(order[a]) + 1
    <3>1. Len(order'[a]) = Len(order[a]) + 1 /\ a \in Touched(k)
      BY <1>5, <2>1, <2>2, <2>4 DEF a
    <3>2. order'[a][m] = Larger(Latest(a), n)
      BY <1>5, <2>1, <2>4, <3>1 DEF Latest, Updated
    <3>3. Latest(a) <= order'[a][m]
      BY <1>2, <1>3, <2>1, <3>2, LatestIsNat, LargerIsNat
    <3>4. CASE l = m
      BY <2>2, <3>4 DEF a
    <3>5. CASE l <= Len(order[a])
      <4>1. l \in 1..Len(order[a]) /\ Len(order[a]) \in 1..Len(order[a])
        BY <2>2, <3>5 DEF a
      <4>2. order[a][l] <= Latest(a)
        BY <2>0, <3>5, <4>1 DEF Latest
      <4>3. order'[a][l] = order[a][l]
        BY <1>5, <2>1, <4>1
      <4>4. order[a][l] \in Nat
        BY <2>2, <4>1
      <4>5. Latest(a) \in Nat
        BY <1>3, <2>1, LatestIsNat
      <4>6. m \in 1..Len(order'[a]) /\ order'[a][m] \in Nat
        <5>1. m \in 1..Len(order'[a])
          BY DEF a
        <5> QED BY <2>2, <5>1
      <4>7. order'[a][l] <= order'[a][m]
        BY <3>3, <4>2, <4>3, <4>4, <4>5, <4>6
      <4> QED BY <4>7 DEF a
    <3> QED BY <2>2, <2>4, <3>4, <3>5 DEF a
  <2>5. m \in Nat /\ m <= Len(order[a]) + 1
    <3>1. m \in 1..Len(order'[a])
      BY DEF a
    <3>2. Len(order'[a]) \in {Len(order[a]), Len(order[a]) + 1}
      BY <1>5, <2>1
    <3> QED BY <2>2, <3>1, <3>2
  <2> QED BY <2>2, <2>3, <2>4, <2>5
<1>12. LoadsWereFound'
  <2>1. reading \in Kinds => Found(<<reading, "max">>)' = Found(<<reading, "max">>)
    BY <1>4, <1>6, CounterAtomics DEF Found
  <2> QED BY <1>3, <1>4, <2>1 DEF MetricsInv, MetricsTypeOK, LoadsWereFound
<1> QED BY <1>9, <1>10, <1>11, <1>12 DEF MetricsInv

LEMMA ShowStep ==
    ASSUME MetricsInv, NEW b \in Atomics, Show(b)
    PROVE  MetricsInv'
<1>1. /\ shown[b] < Len(order[b])
      /\ shown' = [shown EXCEPT ![b] = @ + 1]
      /\ calm' = (reading = "nothing")
      /\ UNCHANGED <<order, work, last, reading, seen>>
  BY DEF Show
<1>2. MetricsTypeOK'
  BY <1>1 DEF MetricsInv, MetricsTypeOK
<1>3. CountsWork' /\ MaximaRise'
  BY <1>1 DEF MetricsInv, CountsWork, MaximaRise, Latest
<1>4. LoadsWereFound'
  <2> SUFFICES ASSUME reading # "nothing", "max" \in DOMAIN seen
               PROVE  seen["max"] <= Found(<<reading, "max">>)'
    BY <1>1 DEF LoadsWereFound
  <2> DEFINE a == <<reading, "max">>
  <2>1. a \in Atomics
    BY CounterAtomics DEF MetricsInv, MetricsTypeOK
  <2>2. Found(a)' = order[a][shown'[a]]
    BY <1>1 DEF Found
  <2>3. seen["max"] <= order[a][shown[a]] /\ seen["max"] \in Nat
    BY DEF MetricsInv, MetricsTypeOK, LoadsWereFound, Found
  <2>4. \A i, j \in 1..Len(order[a]) : i <= j => order[a][i] <= order[a][j]
    BY DEF MetricsInv, MetricsTypeOK, MaximaRise
  <2>5. /\ shown[a] \in 1..Len(order[a]) /\ shown'[a] \in 1..Len(order[a])
        /\ shown[a] <= shown'[a]
    <3>1. shown[a] \in 1..Len(order[a]) /\ shown[a] \in Nat
      BY <2>1 DEF MetricsInv, MetricsTypeOK
    <3>2. \A c \in Atomics : shown'[c] \in 1..Len(order'[c])
      BY <1>2 DEF MetricsTypeOK
    <3>3. shown'[a] \in 1..Len(order[a])
      <4> HIDE DEF a
      <4> QED BY <1>1, <2>1, <3>2
    <3>4. shown'[a] = IF a = b THEN shown[a] + 1 ELSE shown[a]
      <4> HIDE DEF a
      <4> QED BY <1>1, <2>1 DEF MetricsInv, MetricsTypeOK
    <3> HIDE DEF a
    <3> QED BY <3>1, <3>3, <3>4
  <2>6. order[a][shown[a]] \in Nat /\ order[a][shown'[a]] \in Nat
    <3>1. order[a] \in Seq(Nat)
      BY <2>1 DEF MetricsInv, MetricsTypeOK
    <3> HIDE DEF a
    <3> QED BY <2>5, <3>1
  <2>7. order[a][shown[a]] <= order[a][shown'[a]]
    BY <2>4, <2>5
  <2> HIDE DEF a
  <2>8. seen["max"] <= order[a][shown'[a]]
    BY <2>3, <2>6, <2>7
  <2> QED BY <1>1, <2>2, <2>8 DEF a
<1> QED BY <1>2, <1>3, <1>4 DEF MetricsInv

\* A read begins, loads a field and ends: the atomics stay as they are.
LEMMA ReadStep ==
    ASSUME MetricsInv,
           \/ \E k \in Kinds : BeginRead(k)
           \/ \E f \in Fields : Load(f)
           \/ EndRead
    PROVE  MetricsInv'
<1>1. UNCHANGED <<order, shown, work, last>>
  BY DEF BeginRead, Load, EndRead
<1>2. CountsWork' /\ MaximaRise'
  BY <1>1 DEF MetricsInv, CountsWork, MaximaRise, Latest
<1>3. CASE \E k \in Kinds : BeginRead(k)
  <2>1. PICK k \in Kinds : reading' = k /\ seen' = <<>> /\ calm' = AllShown
    BY <1>3 DEF BeginRead
  <2>2. DOMAIN seen' = {}
    BY <2>1
  <2>3. MetricsTypeOK'
    BY <1>1, <2>1, <2>2 DEF MetricsInv, MetricsTypeOK, AllShown
  <2>4. LoadsWereFound'
    BY <1>1, <2>1, <2>2 DEF LoadsWereFound, AllShown
  <2> QED BY <1>2, <2>3, <2>4 DEF MetricsInv
<1>4. CASE EndRead
  <2>1. reading' = "nothing" /\ seen' = <<>> /\ calm' = TRUE
    BY <1>4 DEF EndRead
  <2>2. DOMAIN seen' = {}
    BY <2>1
  <2>3. MetricsTypeOK'
    BY <1>1, <2>1, <2>2 DEF MetricsInv, MetricsTypeOK
  <2>4. LoadsWereFound'
    BY <2>1 DEF LoadsWereFound
  <2> QED BY <1>2, <2>3, <2>4 DEF MetricsInv
<1>5. ASSUME NEW f \in Fields, Load(f) PROVE MetricsInv'
  <2>1. /\ reading \in Kinds
        /\ f \notin DOMAIN seen
        /\ seen' = [g \in DOMAIN seen \cup {f} |-> IF g = f THEN Found(Source(f)) ELSE seen[g]]
        /\ UNCHANGED <<reading, calm>>
    BY <1>5 DEF Load, MetricsInv, MetricsTypeOK
  <2>2. Found(Source(f)) \in Nat
    BY <2>1, SourceIsAtomic, FoundIsNat DEF MetricsInv
  <2>3. MetricsTypeOK'
    BY <1>1, <2>1, <2>2 DEF MetricsInv, MetricsTypeOK
  <2>4. \A g \in Fields : Found(Source(g))' = Found(Source(g))
    BY <1>1, <2>1 DEF Found, Source
  <2>5. "max" \in DOMAIN seen' => seen'["max"] <= Found(<<reading, "max">>)'
    <3>1. CASE f = "max"
      <4>1. Source(f) = <<reading, "max">>
        BY <3>1 DEF Source
      <4> QED BY <1>1, <2>1, <2>2, <3>1, <4>1 DEF Found
    <3>2. CASE f # "max"
      BY <1>1, <2>1, <3>2, MetricsAssumption DEF MetricsInv, LoadsWereFound, Found
    <3> QED BY <3>1, <3>2
  <2>6. calm => AllShown /\ \A g \in DOMAIN seen : seen[g] = Found(Source(g))
    BY <2>1, MetricsAssumption DEF MetricsInv, LoadsWereFound
  <2>7. calm' => AllShown' /\ \A g \in DOMAIN seen' : seen'[g] = Found(Source(g))'
    <3>1. AllShown' = AllShown
      BY <1>1 DEF AllShown
    <3>2. \A g \in DOMAIN seen' : g \in Fields
      BY <2>3 DEF MetricsTypeOK
    <3> QED BY <2>1, <2>4, <2>6, <3>1, <3>2
  <2>8. LoadsWereFound'
    BY <2>1, <2>5, <2>7 DEF LoadsWereFound
  <2> QED BY <1>2, <2>3, <2>8 DEF MetricsInv
<1> QED BY <1>3, <1>4, <1>5

\* The atomics tell the work completed as far as it fits, their maxima never
\* fall, and a load returns what was in sight (MetricsCollector).
THEOREM MetricsInvCorrect == MetricsSpec => []MetricsInv
<1>1. ASSUME MetricsInv, [MetricsNext]_metricVars PROVE MetricsInv'
  <2>1. CASE UNCHANGED metricVars
    BY <1>1, <2>1 DEF metricVars, MetricsInv, MetricsTypeOK, CountsWork, MaximaRise,
       LoadsWereFound, AllShown, Found, Latest, Source
  <2> QED BY <1>1, <2>1, RecordStep, ShowStep, ReadStep DEF MetricsNext
<1> QED BY <1>1, MetricsStart, PTL DEF MetricsSpec

\* No snapshot reports a mean above its own maximum, or above one that is read
\* later, however the reads race the recordings (MetricsCollector::snapshot).
THEOREM AverageCorrect == MetricsSpec => []AverageWithinMax
<1>1. MetricsInv => AverageWithinMax
  <2> SUFFICES ASSUME MetricsInv, Done
               PROVE  Average <= seen["max"] /\ Average <= Found(<<reading, "max">>)
    BY DEF AverageWithinMax
  <2>1. seen["count"] \in Nat /\ seen["total"] \in Nat /\ seen["max"] \in Nat
    BY DEF Done, Fields, Counters, MetricsInv, MetricsTypeOK
  <2>2. Quotient \in Nat
    BY <2>1 DEF Quotient
  <2>3. seen["max"] <= Found(<<reading, "max">>)
    BY DEF Done, Fields, Counters, MetricsInv, LoadsWereFound
  <2>4. Found(<<reading, "max">>) \in Nat
    BY CounterAtomics, FoundIsNat DEF Done, MetricsInv, MetricsTypeOK
  <2> QED BY <2>1, <2>2, <2>3, <2>4 DEF Average
<1> QED BY <1>1, MetricsInvCorrect, PTL

\* A snapshot that no recording races is the work completed, as far as it fits
\* the atomics: a mean that is not clamped away, and a time for each activity
\* (MetricsCollector::snapshot, last_activity_millis).
THEOREM QuietReadCorrect == MetricsSpec => []QuietReadIsExact
<1>1. MetricsInv => QuietReadIsExact
  <2> SUFFICES ASSUME MetricsInv, Done, calm
               PROVE  /\ work[reading].number <= MaxU64 => seen["count"] = work[reading].number
                      /\ seen["max"] = work[reading].longest
                      /\ work[reading].number \in 1..MaxU64 /\ work[reading].sum <= MaxU64 =>
                           Average = work[reading].sum \div work[reading].number
                      /\ LastActivity = {Reported(t) : t \in last}
    BY DEF QuietReadIsExact
  <2>1. reading \in Kinds /\ reading # "nothing" /\ DOMAIN seen = Fields
    BY DEF Done, MetricsInv, MetricsTypeOK
  <2>2. \A a \in Atomics : Found(a) = Latest(a)
    BY <2>1 DEF MetricsInv, LoadsWereFound, AllShown, Found, Latest
  <2>3. \A f \in Fields : seen[f] = Latest(Source(f))
    BY <2>1, <2>2, SourceIsAtomic DEF MetricsInv, LoadsWereFound
  <2>4. /\ seen["count"] = Latest(<<reading, "count">>)
        /\ seen["total"] = Latest(<<reading, "total">>)
        /\ seen["max"] = Latest(<<reading, "max">>)
        /\ seen["activity"] = Latest(Activity)
    BY <2>3 DEF Source, Fields, Counters
  <2>5. /\ work[reading].number <= MaxU64 => seen["count"] = work[reading].number
        /\ work[reading].sum <= MaxU64 => seen["total"] = work[reading].sum
        /\ seen["max"] = work[reading].longest
        /\ work[reading].sum <= work[reading].number * work[reading].longest
    BY <2>1, <2>4 DEF MetricsInv, CountsWork
  <2>6. work[reading] \in [number : Nat, sum : Nat, longest : Nat]
    BY <2>1 DEF MetricsInv, MetricsTypeOK
  <2>7. ASSUME work[reading].number \in 1..MaxU64, work[reading].sum <= MaxU64
        PROVE  Average = work[reading].sum \div work[reading].number
    <3>1. Quotient = work[reading].sum \div work[reading].number
      BY <2>5, <2>6, <2>7 DEF Quotient
    <3>2. Quotient \in Nat /\ Quotient <= work[reading].longest
      BY <2>5, <2>6, <2>7, <3>1, MeanWithin
    <3> QED BY <2>5, <2>6, <3>1, <3>2 DEF Average
  <2>8. LastActivity = {Reported(t) : t \in last}
    <3>1. CASE last = {} /\ Latest(Activity) = 0
      BY <2>4, <3>1 DEF LastActivity
    <3>2. ASSUME NEW t \in last, last = {t}, Latest(Activity) = Biased(t)
          PROVE  LastActivity = {Reported(t)}
      BY <2>4, <3>2, MetricsAssumption DEF LastActivity, Reported, Biased, Capped, MetricsInv, MetricsTypeOK
    <3> QED BY <3>1, <3>2 DEF MetricsInv, CountsWork
  <2> QED BY <2>5, <2>7, <2>8
<1> QED BY <1>1, MetricsInvCorrect, PTL

(***************************************************************************)
(* The expansion of #[message_handlers]                                    *)
(***************************************************************************)

\* A sequence is one of its own elements.
LEMMA OwnElements ==
    ASSUME NEW S, NEW s \in Seq(S)
    PROVE  s \in Seq({s[i] : i \in DOMAIN s})
OBVIOUS

LEMMA AppendOwn ==
    ASSUME NEW s, s \in Seq({s[i] : i \in DOMAIN s}), NEW e
    PROVE  /\ Append(s, e) \in Seq({Append(s, e)[i] : i \in DOMAIN Append(s, e)})
           /\ DOMAIN s = 1..Len(s) /\ Len(s) \in Nat
           /\ DOMAIN Append(s, e) = 1..(Len(s) + 1)
           /\ Append(s, e)[Len(s) + 1] = e
           /\ \A i \in DOMAIN s : Append(s, e)[i] = s[i]
<1> DEFINE T == {s[i] : i \in DOMAIN s} \cup {e}
<1>1. s \in Seq(T) /\ e \in T
  OBVIOUS
<1> HIDE DEF T
<1>2. Append(s, e) \in Seq(T)
  BY <1>1
<1>3. Append(s, e) \in Seq({Append(s, e)[i] : i \in DOMAIN Append(s, e)})
  BY <1>2, OwnElements
<1> QED BY <1>1, <1>3

\* What the macro checks of a method is what it answers for in the impl.
LEMMA ImplFits ==
    ASSUME NEW m, OptionsOK(m), SignatureOK(m), IsRust(m, block)
    PROVE  Fits(ImplOf(m), m)
<1> DEFINE impl == ImplOf(m)
<1>1. /\ impl.message = m.inputs[2].ty /\ impl.reply = m.output
      /\ impl.wheres = block.wheres \cup Carried(m) /\ impl.logs = Logs(m)
  BY DEF ImplOf
<1>2. Names(m.params, {"type", "const"}) = {}
  BY DEF SignatureOK, Names
<1>3. Callable(m, impl)
  <2>1. m.inputs[1].form = "self" /\ m.inputs[1].by \notin {"mut", ":Box"}
    BY DEF SignatureOK, TakesMut
  <2>2. m.inputs[3].ty.form = "ref" /\ m.inputs[3].ty.last = "ActorRef"
    BY DEF SignatureOK, TakesRef
  <2>3. \A w \in m.wheres : w \in impl.wheres \/ w.lifetimes \cap Lifetimes(m.params) # {}
    BY <1>1 DEF Carried
  <2> QED BY <2>1, <2>2, <2>3 DEF Callable, SignatureOK
<1>4. InScope(impl.message, m) /\ InScope(impl.reply, m)
  BY <1>1, <1>2 DEF InScope, SignatureOK, Concrete
<1>5. \A w \in impl.wheres : InScope(w, m) /\ w.lifetimes \cap Lifetimes(m.params) = {}
  BY <1>1, <1>2 DEF InScope, Carried, IsRust
<1>6. impl.logs => impl.reply # NoType
  <2>1. ~LooksLikeResult(NoType)
    BY DEF LooksLikeResult, NoType
  <2>2. Has(m, "result") => m.output # NoType
    BY DEF SignatureOK
  <2> QED BY <1>1, <2>1, <2>2 DEF Logs
<1> QED BY <1>3, <1>4, <1>5, <1>6 DEF Fits

\* Taking the marks off a method leaves all that a written impl depends on.
LEMMA UnmarkedMethod ==
    ASSUME NEW m, m.kind = "fn", MethodFields \subseteq DOMAIN m
    PROVE  /\ Unmarked(m).kind = "fn" /\ MethodFields \subseteq DOMAIN Unmarked(m)
           /\ ~Marked(Unmarked(m))
           /\ \A impl : Matches(impl, m) => Matches(impl, Unmarked(m))
<1> DEFINE u == Unmarked(m)
<1>1. /\ DOMAIN u = DOMAIN m /\ u.attrs = WithoutMarks(m.attrs)
      /\ \A f \in DOMAIN m : f # "attrs" => u[f] = m[f]
  BY DEF Unmarked, MethodFields
<1>2. /\ u.kind = "fn" /\ u.name = m.name /\ u.async = m.async /\ u.params = m.params
      /\ u.wheres = m.wheres /\ u.inputs = m.inputs
  BY <1>1 DEF MethodFields
<1>3. ~Marked(u)
  BY <1>1 DEF Marked, WithoutMarks
<1>4. Cfgs(u) = Cfgs(m)
  <2>1. {j \in DOMAIN u.attrs : u.attrs[j].name = "cfg"}
          = {j \in DOMAIN m.attrs : m.attrs[j].name = "cfg"}
    BY <1>1 DEF WithoutMarks, IsHandler
  <2>2. \A j \in DOMAIN u.attrs : u.attrs[j] = m.attrs[j]
    BY <1>1 DEF WithoutMarks
  <2> QED BY <2>1, <2>2 DEF Cfgs
<1> HIDE DEF u
<1>5. ASSUME NEW impl PROVE Matches(impl, m) => Matches(impl, u)
  BY <1>2, <1>4 DEF Matches, Fits, Callable, InScope
<1> QED BY <1>1, <1>2, <1>3, <1>5 DEF u

LEMMA ExpInitInv == ASSUME ExpInit PROVE ExpInv
<1>1. ItemsAreMethods
  BY BlocksAssumption DEF ExpInit, ItemsAreMethods, Methods
<1>2. EveryImplMatches
  BY DEF ExpInit, EveryImplMatches
<1>3. NoMarkIsLeft
  BY DEF ExpInit, NoMarkIsLeft
<1> QED BY <1>1, <1>2, <1>3 DEF ExpInv

LEMMA GenerateStep == ASSUME ExpInv, Generate PROVE ExpInv'
<1>1. /\ Expanding /\ Item.kind = "fn" /\ Marked(Item) /\ OptionsOK(Item) /\ SignatureOK(Item)
      /\ impls' = Append(impls, ImplOf(Item)) /\ UNCHANGED <<block, verdict>>
  BY DEF Generate, IsMethod
<1>2. Methods' = Methods
  BY <1>1 DEF Methods
<1>3. ItemsAreMethods' /\ NoMarkIsLeft'
  BY <1>1, <1>2 DEF ExpInv, ItemsAreMethods, NoMarkIsLeft, Expanding
<1>4. Item \in Methods /\ IsRust(Item, block)
  <2>1. block \in Blocks /\ place \in DOMAIN block.items
    BY <1>1 DEF ExpInv, ItemsAreMethods, Expanding
  <2>2. IsRust(block.items[place], block)
    BY <1>1, <2>1, BlocksAssumption DEF Item
  <2> QED BY <1>1, <2>1, <2>2 DEF Item, Methods
<1>5. Matches(ImplOf(Item), Item)
  <2>1. ImplOf(Item).calls = Item.name /\ ImplOf(Item).cfgs = Cfgs(Item)
    BY DEF ImplOf
  <2> QED BY <1>1, <1>4, <2>1, ImplFits DEF Matches
<1>6. EveryImplMatches'
  <2>1. impls \in Seq({impls[i] : i \in DOMAIN impls})
    BY DEF ExpInv, EveryImplMatches
  <2>2. /\ impls' \in Seq({impls'[i] : i \in DOMAIN impls'})
        /\ DOMAIN impls = 1..Len(impls) /\ Len(impls) \in Nat
        /\ DOMAIN impls' = 1..(Len(impls) + 1)
        /\ impls'[Len(impls) + 1] = ImplOf(Item)
        /\ \A i \in DOMAIN impls : impls'[i] = impls[i]
    BY <1>1, <2>1, AppendOwn
  <2>3. ASSUME NEW i \in DOMAIN impls' PROVE \E m \in Methods : Matches(impls'[i], m)
    <3>1. CASE i = Len(impls) + 1
      BY <1>4, <1>5, <2>2, <3>1
    <3>2. CASE i \in DOMAIN impls
      BY <2>2, <3>2 DEF ExpInv, EveryImplMatches
    <3> QED BY <2>2, <3>1, <3>2
  <2>4. \A impl, m : Matches(impl, m)' = Matches(impl, m)
    BY DEF Matches, Fits, Callable, InScope
  <2> QED BY <1>2, <2>2, <2>3 DEF EveryImplMatches, Matches
<1> QED BY <1>3, <1>6 DEF ExpInv

LEMMA CleanUpStep == ASSUME ExpInv, CleanUp PROVE ExpInv'
<1>1. /\ verdict' = "expanded" /\ UNCHANGED impls
      /\ block' = [block EXCEPT !.items = [i \in DOMAIN @ |-> Unmarked(@[i])]]
      /\ {"args", "wheres", "items"} \subseteq DOMAIN block
  BY DEF CleanUp, ExpInv, ItemsAreMethods
<1>2. /\ DOMAIN block' = DOMAIN block /\ DOMAIN block'.items = DOMAIN block.items
      /\ \A i \in DOMAIN block.items : block'.items[i] = Unmarked(block.items[i])
  BY <1>1
<1>3. /\ \A m \in Methods' : \E n \in Methods : m = Unmarked(n)
      /\ \A n \in Methods : Unmarked(n) \in Methods'
  <2>1. ASSUME NEW i \in DOMAIN block.items
        PROVE  block'.items[i].kind = "fn" <=> block.items[i].kind = "fn"
    <3>1. CASE block.items[i].kind = "fn"
      <4>1. block.items[i] \in Methods
        BY <3>1 DEF Methods
      <4> QED BY <1>2, <3>1, <4>1, UnmarkedMethod DEF ExpInv, ItemsAreMethods
    <3>2. CASE block.items[i].kind # "fn"
      BY <1>2, <3>2 DEF Unmarked
    <3> QED BY <3>1, <3>2
  <2> QED BY <1>2, <2>1 DEF Methods
<1>4. \A n \in Methods : n.kind = "fn" /\ MethodFields \subseteq DOMAIN n
  BY DEF ExpInv, ItemsAreMethods, Methods
<1>5. ItemsAreMethods' /\ NoMarkIsLeft'
  BY <1>1, <1>2, <1>3, <1>4, UnmarkedMethod DEF ItemsAreMethods, NoMarkIsLeft
<1>6. EveryImplMatches'
  <2>1. ASSUME NEW i \in DOMAIN impls PROVE \E m \in Methods' : Matches(impls[i], m)
    <3>1. PICK n \in Methods : Matches(impls[i], n)
      BY DEF ExpInv, EveryImplMatches
    <3>2. Matches(impls[i], Unmarked(n))
      BY <1>4, <3>1, UnmarkedMethod
    <3> QED BY <1>3, <3>2
  <2> QED BY <1>1, <2>1 DEF ExpInv, EveryImplMatches, Matches
<1> QED BY <1>5, <1>6 DEF ExpInv

\* The items that remain keep matching what was written of them.
LEMMA ExpStep == ASSUME ExpInv, [ExpNext]_expVars PROVE ExpInv'
<1>1. CASE Generate
  BY <1>1, GenerateStep
<1>2. CASE CleanUp
  BY <1>2, CleanUpStep
<1>3. CASE PassOver \/ Reject \/ RejectArgs \/ UNCHANGED expVars
  <2>1. UNCHANGED <<block, impls>> /\ (verdict' = verdict \/ verdict' = "rejected")
    BY <1>3 DEF PassOver, Reject, RejectArgs, expVars
  <2>2. verdict' # "expanded" => verdict # "expanded"
    BY <1>3 DEF PassOver, Reject, RejectArgs, Expanding, expVars
  <2>3. Methods' = Methods
    BY <2>1 DEF Methods
  <2>4. ItemsAreMethods' /\ NoMarkIsLeft'
    BY <2>1, <2>2, <2>3 DEF ExpInv, ItemsAreMethods, NoMarkIsLeft
  <2>5. EveryImplMatches'
    BY <2>1, <2>3 DEF ExpInv, EveryImplMatches, Matches
  <2> QED BY <2>4, <2>5 DEF ExpInv
<1> QED BY <1>1, <1>2, <1>3 DEF ExpNext

LEMMA ExpInvMeans == ASSUME ExpInv PROVE GeneratedFits
BY DEF ExpInv, EveryImplMatches, NoMarkIsLeft, GeneratedFits, Matches

\* In every block of Rust that the macro expands, of any size and with whatever
\* messages and replies: each impl is compiled in only with its method, takes no
\* parameter from it and has the predicates its call needs, and no mark is left
\* (GeneratedFits).
THEOREM GeneratedCorrect == ExpSpec => []GeneratedFits
<1>1. ExpSpec => []ExpInv
  BY ExpInitInv, ExpStep, PTL DEF ExpSpec
<1> QED BY <1>1, ExpInvMeans, PTL
=============================================================================
