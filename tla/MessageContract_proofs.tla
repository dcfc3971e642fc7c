----------------------- MODULE MessageContract_proofs -----------------------
(***************************************************************************)
(* What a user of an actor gets from the contract, whatever the calls and  *)
(* the mailboxes: the promises of its header, as an invariant, and that    *)
(* nobody overtakes within a mailbox.  ActorRuntime and BlockingCalls      *)
(* implement the contract, and so keep them.                               *)
(***************************************************************************)
EXTENDS MessageContract, Queues_proofs

\* A queue without its first n.
LEMMA DropQueue ==
    ASSUME NEW S, NEW q \in Seq(S), Distinct(q), NEW n \in 1..Len(q)
    PROVE  LET w == SubSeq(q, n + 1, Len(q))
           IN /\ w \in Seq(S) /\ Distinct(w) /\ Len(w) = Len(q) - n
              /\ \A i \in 1..Len(w) : w[i] = q[i + n]
              /\ \A d : InQueue(w, d) <=> InQueue(q, d) /\ ~\E i \in 1..n : q[i] = d
<1> DEFINE w == SubSeq(q, n + 1, Len(q))
<1>1. /\ w \in Seq(S) /\ Len(q) \in Nat /\ n \in Nat /\ Len(w) = Len(q) - n
      /\ \A i \in 1..Len(w) : w[i] = q[i + n]
  BY SubSeqProperties
<1> HIDE DEF w
<1>2. \A i \in 1..Len(w) : i + n \in 1..Len(q) /\ i + n \notin 1..n
  BY <1>1
<1>3. \A i, j \in 1..Len(q) : q[i] = q[j] => i = j
  BY DEF Distinct
<1>4. Distinct(w)
  <2> SUFFICES ASSUME NEW i \in 1..Len(w), NEW j \in 1..Len(w), w[i] = w[j] PROVE i = j
    BY DEF Distinct
  <2>1. i + n = j + n
    BY <1>1, <1>2, <1>3
  <2> QED BY <1>1, <2>1
<1>5. ASSUME NEW d PROVE InQueue(w, d) <=> InQueue(q, d) /\ ~\E i \in 1..n : q[i] = d
  <2>1. ASSUME InQueue(w, d) PROVE InQueue(q, d) /\ ~\E i \in 1..n : q[i] = d
    <3>1. PICK i \in 1..Len(w) : q[i + n] = d
      BY <1>1, <2>1 DEF InQueue
    <3>2. i + n \in 1..Len(q) /\ i + n \notin 1..n
      BY <1>2
    <3>3. \A j \in 1..n : j \in 1..Len(q)
      BY <1>1
    <3> QED BY <1>3, <3>1, <3>2, <3>3 DEF InQueue
  <2>2. ASSUME InQueue(q, d), ~\E i \in 1..n : q[i] = d PROVE InQueue(w, d)
    <3>1. PICK i \in 1..Len(q) : q[i] = d /\ i \notin 1..n
      BY <2>2 DEF InQueue
    <3>2. i - n \in 1..Len(w) /\ (i - n) + n = i
      BY <1>1, <3>1
    <3>3. w[i - n] = q[(i - n) + n]
      BY <1>1, <3>2
    <3> QED BY <3>1, <3>2, <3>3 DEF InQueue
  <2> QED BY <2>1, <2>2
<1> QED BY <1>1, <1>4, <1>5 DEF w

PromisesInv == TypeOK /\ Promises

LEMMA PromisesInit == Init => PromisesInv
<1> SUFFICES ASSUME Init PROVE PromisesInv
  OBVIOUS
<1>1. TypeOK
  <2>1. <<>> \in Seq(Calls)
    OBVIOUS
  <2> QED BY <2>1 DEF Init, TypeOK
<1>2. AdmittedWaitOnce
  BY EmptyQueue DEF Init, AdmittedWaitOnce
<1> QED BY <1>1, <1>2 DEF Init, PromisesInv, Promises, OneAtATime, LostOnlyWhenDown, AnswersFit

LEMMA AdmitStep ==
    ASSUME PromisesInv, NEW c \in Calls, Admit(c)
    PROVE  PromisesInv'
<1> USE DEF PromisesInv, Promises, TypeOK
<1>1. Append(box[chan[c]], c) \in Seq(Calls)
  BY AppendProperties
<1>2. TypeOK'
  <2>1. box' \in [Mailboxes -> Seq(Calls)]
    BY <1>1 DEF Admit
  <2> QED BY <2>1 DEF Admit
<1>3. (OneAtATime /\ LostOnlyWhenDown)'
  BY DEF Admit, OneAtATime, LostOnlyWhenDown
<1>4. AnswersFit'
  BY DEF Admit, AnswersFit
<1>5. AdmittedWaitOnce'
  <2>3. chan' = chan
    BY DEF Admit
  <2>1. CASE msg'[c] = "admitted"
    <3>1. ~InQueue(box[chan[c]], c)
      BY DEF Admit, AdmittedWaitOnce
    <3>2. /\ box' = [box EXCEPT ![chan[c]] = Append(@, c)]
          /\ msg' = [msg EXCEPT ![c] = "admitted"]
      BY <2>1 DEF Admit
    <3>3. /\ Distinct(Append(box[chan[c]], c))
          /\ \A d : InQueue(Append(box[chan[c]], c), d) <=> InQueue(box[chan[c]], d) \/ d = c
      BY <3>1, AppendQueue DEF AdmittedWaitOnce
    <3> SUFFICES ASSUME NEW m \in Mailboxes
                 PROVE  /\ Distinct(box'[m])
                        /\ \A d \in Calls : InQueue(box'[m], d) <=> msg'[d] = "admitted" /\ chan[d] = m
      BY <2>3 DEF AdmittedWaitOnce
    <3>4. CASE m = chan[c]
      BY <3>2, <3>3, <3>4 DEF AdmittedWaitOnce
    <3>5. CASE m # chan[c]
      BY <3>2, <3>5 DEF AdmittedWaitOnce
    <3> QED BY <3>4, <3>5
  <2>2. CASE msg'[c] # "admitted"
    <3>1. box' = box /\ \A d \in Calls : msg'[d] = "admitted" <=> msg[d] = "admitted"
      BY <2>2 DEF Admit
    <3> QED BY <2>3, <3>1 DEF AdmittedWaitOnce
  <2> QED BY <2>1, <2>2
<1> QED BY <1>2, <1>3, <1>4, <1>5

LEMMA RunStep ==
    ASSUME PromisesInv, NEW m \in Mailboxes, Run(m)
    PROVE  PromisesInv'
<1> DEFINE h == Head(box[m])
<1> USE DEF PromisesInv, Promises, TypeOK
<1>1. /\ h \in Calls /\ InQueue(box[m], h) /\ Distinct(Tail(box[m])) /\ Tail(box[m]) \in Seq(Calls)
      /\ \A d : InQueue(Tail(box[m]), d) <=> InQueue(box[m], d) /\ d # h
  BY TailQueue DEF Run, AdmittedWaitOnce
<1>2. msg[h] = "admitted" /\ chan[h] = m
  BY <1>1 DEF AdmittedWaitOnce
<1>3. /\ up /\ UNCHANGED <<op, chan, out, up>> /\ box' = [box EXCEPT ![m] = Tail(@)]
      /\ msg' = [msg EXCEPT ![h] = IF op[h] = "stop" THEN "done" ELSE "running"]
      /\ \A c \in Calls : msg[c] # "running"
  BY DEF Run
<1> HIDE DEF h
<1>4. TypeOK'
  BY <1>1, <1>3
<1>5. (OneAtATime /\ LostOnlyWhenDown)'
  BY <1>1, <1>3 DEF OneAtATime, LostOnlyWhenDown
<1>6. AnswersFit'
  BY <1>1, <1>2, <1>3 DEF AnswersFit
<1>7. AdmittedWaitOnce'
  <2> SUFFICES ASSUME NEW n \in Mailboxes
               PROVE  /\ Distinct(box'[n])
                      /\ \A d \in Calls : InQueue(box'[n], d) <=> msg'[d] = "admitted" /\ chan[d] = n
    BY <1>3 DEF AdmittedWaitOnce
  <2>1. CASE n = m
    BY <1>1, <1>2, <1>3, <2>1 DEF AdmittedWaitOnce
  <2>2. CASE n # m
    BY <1>1, <1>2, <1>3, <2>2 DEF AdmittedWaitOnce
  <2> QED BY <2>1, <2>2
<1> QED BY <1>4, <1>5, <1>6, <1>7

LEMMA DiscardStep ==
    ASSUME PromisesInv, NEW m \in Mailboxes, Discard(m)
    PROVE  PromisesInv'
<1> USE DEF PromisesInv, Promises, TypeOK
<1>1. PICK n \in 1..Len(box[m]) :
        /\ msg' = [c \in Calls |-> IF \E i \in 1..n : box[m][i] = c THEN "lost" ELSE msg[c]]
        /\ box' = [box EXCEPT ![m] = SubSeq(@, n + 1, Len(@))]
  BY DEF Discard
<1>2. ~up /\ UNCHANGED <<op, chan, out, up>>
  BY DEF Discard
<1>3. LET w == SubSeq(box[m], n + 1, Len(box[m]))
      IN /\ w \in Seq(Calls) /\ Distinct(w)
         /\ \A d : InQueue(w, d) <=> InQueue(box[m], d) /\ ~\E i \in 1..n : box[m][i] = d
  BY DropQueue DEF AdmittedWaitOnce
<1>4. \A c \in Calls : (\E i \in 1..n : box[m][i] = c) => msg[c] = "admitted" /\ chan[c] = m
  <2>1. \A i \in 1..n : i \in 1..Len(box[m])
    OBVIOUS
  <2> QED BY <2>1 DEF AdmittedWaitOnce, InQueue
<1>5. TypeOK'
  BY <1>1, <1>2, <1>3
<1>6. \A c \in Calls : msg'[c] \in {msg[c], "lost"} /\ (msg[c] # "admitted" => msg'[c] = msg[c])
  BY <1>1, <1>4
<1>7. (OneAtATime /\ LostOnlyWhenDown)'
  BY <1>2, <1>6 DEF OneAtATime, LostOnlyWhenDown
<1>8. AnswersFit'
  BY <1>2, <1>6 DEF AnswersFit
<1>9. AdmittedWaitOnce'
  <2> SUFFICES ASSUME NEW k \in Mailboxes
               PROVE  /\ Distinct(box'[k])
                      /\ \A d \in Calls : InQueue(box'[k], d) <=> msg'[d] = "admitted" /\ chan[d] = k
    BY <1>2 DEF AdmittedWaitOnce
  <2>1. CASE k = m
    BY <1>1, <1>3, <2>1 DEF AdmittedWaitOnce
  <2>2. CASE k # m
    BY <1>1, <1>4, <2>2 DEF AdmittedWaitOnce
  <2> QED BY <2>1, <2>2
<1> QED BY <1>5, <1>7, <1>8, <1>9

LEMMA PromisesStep ==
    ASSUME PromisesInv, [Next]_vars
    PROVE  PromisesInv'
<1> USE DEF PromisesInv, Promises, TypeOK, OneAtATime, LostOnlyWhenDown, AnswersFit
<1>1. ASSUME NEW c \in Calls, Withdraw(c) \/ Finish(c) \/ Answer(c) PROVE PromisesInv'
  <2>1. /\ box' = box /\ chan' = chan
        /\ \A d \in Calls : msg'[d] = "admitted" <=> msg[d] = "admitted"
    BY <1>1 DEF Withdraw, Finish, Answer
  <2>2. AdmittedWaitOnce'
    BY <2>1 DEF AdmittedWaitOnce
  <2>3. CASE Withdraw(c)
    BY <2>2, <2>3 DEF Withdraw
  <2>4. CASE Finish(c)
    BY <2>2, <2>4 DEF Finish
  <2>5. CASE Answer(c)
    BY <2>2, <2>5 DEF Answer
  <2> QED BY <1>1, <2>3, <2>4, <2>5
<1>4. ASSUME NEW c \in Calls, Make(c) PROVE PromisesInv'
  <2>1. /\ box' = box /\ msg' = msg /\ msg[c] = "new" /\ out' = out /\ up' = up
        /\ \A d \in Calls \ {c} : chan'[d] = chan[d] /\ op'[d] = op[d]
        /\ op' \in [Calls -> Ops] /\ chan' \in [Calls -> Mailboxes]
    BY <1>4 DEF Make
  <2>2. AdmittedWaitOnce'
    BY <2>1 DEF AdmittedWaitOnce
  <2> QED BY <1>4, <2>1, <2>2 DEF Make
<1>2. CASE GoDown
  <2>1. PICK gone \in SUBSET Mailboxes :
          /\ msg' = [c \in Calls |->
                      IF \/ msg[c] = "running"
                         \/ msg[c] = "admitted" /\ chan[c] \in gone
                      THEN "lost" ELSE msg[c]]
          /\ box' = [m \in Mailboxes |-> IF m \in gone THEN <<>> ELSE box[m]]
    BY <1>2 DEF GoDown
  <2>2. UNCHANGED <<op, chan, out>> /\ up /\ up' = FALSE
    BY <1>2 DEF GoDown
  <2>3. \A c \in Calls : msg'[c] = "admitted" <=> msg[c] = "admitted" /\ chan[c] \notin gone
    BY <2>1
  <2>4. AdmittedWaitOnce'
    BY <2>1, <2>2, <2>3, EmptyQueue DEF AdmittedWaitOnce
  <2>5. TypeOK'
    <3>1. box' \in [Mailboxes -> Seq(Calls)]
      BY <2>1, EmptySeq
    <3>2. msg' \in [Calls -> {"new", "admitted", "running", "done", "lost"}]
      BY <2>1
    <3> QED BY <2>2, <3>1, <3>2
  <2>6. /\ \A c \in Calls : msg'[c] # "running"
        /\ \A c \in Calls : msg'[c] = "new" <=> msg[c] = "new"
        /\ \A c \in Calls : msg[c] = "done" => msg'[c] = "done"
    BY <2>1
  <2> QED BY <2>2, <2>4, <2>5, <2>6
<1>3. CASE UNCHANGED vars
  BY <1>3 DEF vars, AdmittedWaitOnce
<1> QED BY <1>1, <1>2, <1>3, <1>4, AdmitStep, RunStep, DiscardStep DEF Next

LEMMA PromisesInvKept == Spec => []PromisesInv
<1>1. PromisesInv /\ [Next]_vars => PromisesInv'
  BY PromisesStep
<1> QED BY <1>1, PromisesInit, PTL DEF Spec

\* One handler at a time and only while the actor is up, nothing lost while it
\* is up, answers that fit, and every admitted message waiting once in its own
\* mailbox: in every behaviour of the contract.
THEOREM PromisesKept == Spec => []Promises
<1>1. PromisesInv => Promises
  BY DEF PromisesInv
<1> QED BY <1>1, PromisesInvKept, PTL

\* A step takes some first messages out of a mailbox, or adds a new last one.
Shifted(m, k) ==
    \A i \in 1..Len(box'[m]) :
        \/ i + k \in 1..Len(box[m]) /\ box'[m][i] = box[m][i + k]
        \/ ~InQueue(box[m], box'[m][i])

LEMMA BoxesShift ==
    ASSUME PromisesInv, Next, NEW m \in Mailboxes
    PROVE  \E k \in Nat : Shifted(m, k)
<1> USE DEF PromisesInv, Promises, TypeOK
<1>1. CASE box'[m] = box[m]
  <2>1. \A i \in 1..Len(box'[m]) : i + 0 = i
    OBVIOUS
  <2> QED BY <1>1, <2>1 DEF Shifted
<1>2. ASSUME NEW c \in Calls, Admit(c), box'[m] # box[m] PROVE Shifted(m, 0)
  <2>1. box'[m] = Append(box[m], c) /\ m = chan[c]
    BY <1>2 DEF Admit
  <2>2. ~InQueue(box[m], c)
    BY <1>2, <2>1 DEF Admit, AdmittedWaitOnce
  <2>3. /\ Len(box'[m]) = Len(box[m]) + 1 /\ Len(box[m]) \in Nat
        /\ \A i \in 1..Len(box[m]) : box'[m][i] = box[m][i]
        /\ box'[m][Len(box[m]) + 1] = c
    BY <2>1, AppendProperties
  <2>4. \A i \in 1..Len(box'[m]) : i + 0 = i /\ (i \in 1..Len(box[m]) \/ i = Len(box[m]) + 1)
    BY <2>3
  <2> QED BY <2>2, <2>3, <2>4 DEF Shifted
<1>3. ASSUME NEW n \in Mailboxes, Run(n), box'[m] # box[m] PROVE Shifted(m, 1)
  <2>1. box'[m] = Tail(box[m]) /\ box[m] # <<>>
    BY <1>3 DEF Run
  <2>2. /\ Len(box'[m]) = Len(box[m]) - 1 /\ Len(box[m]) \in Nat
        /\ \A i \in 1..Len(box'[m]) : box'[m][i] = box[m][i + 1]
    BY <2>1, HeadTailProperties
  <2>3. \A i \in 1..Len(box'[m]) : i + 1 \in 1..Len(box[m])
    BY <2>2
  <2> QED BY <2>2, <2>3 DEF Shifted
<1>4. ASSUME NEW n \in Mailboxes, Discard(n), box'[m] # box[m] PROVE \E k \in Nat : Shifted(m, k)
  <2>1. PICK k \in 1..Len(box[m]) : box'[m] = SubSeq(box[m], k + 1, Len(box[m]))
    BY <1>4 DEF Discard
  <2>2. /\ Len(box'[m]) = Len(box[m]) - k /\ Len(box[m]) \in Nat
        /\ \A i \in 1..Len(box'[m]) : box'[m][i] = box[m][i + k]
    BY <2>1, DropQueue DEF AdmittedWaitOnce
  <2>3. \A i \in 1..Len(box'[m]) : i + k \in 1..Len(box[m])
    BY <2>2
  <2>4. Shifted(m, k)
    BY <2>2, <2>3 DEF Shifted
  <2> QED BY <2>4
<1>5. ASSUME NEW c \in Calls, Make(c) \/ Withdraw(c) \/ Finish(c) \/ Answer(c)
      PROVE  box' = box
  BY <1>5 DEF Make, Withdraw, Finish, Answer
<1>6. CASE GoDown
  <2>1. box'[m] = box[m] \/ box'[m] = <<>>
    BY <1>6 DEF GoDown
  <2>2. box'[m] = <<>> => Shifted(m, 0)
    BY DEF Shifted
  <2> QED BY <1>1, <2>1, <2>2
<1> QED BY <1>1, <1>2, <1>3, <1>4, <1>5, <1>6 DEF Next

\* What is served was the first of its mailbox.
LEMMA ServedFirst ==
    ASSUME PromisesInv, Next, NEW d \in Calls,
           msg[d] = "admitted", msg'[d] \in {"running", "done"}
    PROVE  box[chan[d]] # <<>> /\ d = Head(box[chan[d]])
<1> USE DEF PromisesInv, Promises, TypeOK
<1>1. ASSUME NEW c \in Calls, Make(c) \/ Admit(c) \/ Withdraw(c) \/ Finish(c) \/ Answer(c)
      PROVE  FALSE
  BY <1>1 DEF Make, Admit, Withdraw, Finish, Answer
<1>2. ASSUME NEW m \in Mailboxes, Discard(m) PROVE FALSE
  BY <1>2 DEF Discard
<1>3. ~GoDown
  BY DEF GoDown
<1>4. PICK m \in Mailboxes : Run(m)
  BY <1>1, <1>2, <1>3 DEF Next
<1>5. Head(box[m]) \in Calls /\ InQueue(box[m], Head(box[m])) /\ box[m] # <<>>
  BY <1>4, TailQueue DEF Run, AdmittedWaitOnce
<1>6. d = Head(box[m])
  BY <1>4, <1>5 DEF Run
<1>7. chan[d] = m
  BY <1>5, <1>6 DEF AdmittedWaitOnce
<1> QED BY <1>5, <1>6, <1>7

\* An admitted message stays for the mailbox it is in.
LEMMA MailboxKept ==
    ASSUME PromisesInv, Next, NEW c \in Calls, msg[c] = "admitted"
    PROVE  chan'[c] = chan[c]
<1> USE DEF PromisesInv, TypeOK
<1>1. ASSUME NEW d \in Calls, Make(d) PROVE chan'[c] = chan[c]
  BY <1>1 DEF Make
<1>2. ASSUME NEW d \in Calls, Admit(d) \/ Withdraw(d) \/ Finish(d) \/ Answer(d) PROVE chan' = chan
  BY <1>2 DEF Admit, Withdraw, Finish, Answer
<1>3. ASSUME NEW m \in Mailboxes, Run(m) \/ Discard(m) PROVE chan' = chan
  BY <1>3 DEF Run, Discard
<1>4. CASE GoDown
  BY <1>4 DEF GoDown
<1> QED BY <1>1, <1>2, <1>3, <1>4 DEF Next

LEMMA OvertakingStep ==
    ASSUME PromisesInv, Next,
           NEW c \in Calls, NEW d \in Calls, Ahead(c, d)
    PROVE  ~Ahead(d, c)' /\ ~(msg[d] = "admitted" /\ msg'[d] \in {"running", "done"})
<1> DEFINE q == box[chan[d]]
<1>1. q \in Seq(Calls) /\ Len(q) \in Nat /\ \A i, j \in 1..Len(q) : q[i] = q[j] => i = j
  BY DEF PromisesInv, Promises, TypeOK, AdmittedWaitOnce, Distinct
<1>2. PICK a, b \in 1..Len(q) : a < b /\ q[a] = c /\ q[b] = d
  BY DEF Ahead
<1>3. InQueue(q, c) /\ InQueue(q, d)
  BY <1>2 DEF InQueue
<1>4. chan[d] \in Mailboxes /\ chan[c] = chan[d] /\ msg[c] = "admitted" /\ msg[d] = "admitted"
  BY <1>3 DEF PromisesInv, Promises, AdmittedWaitOnce, TypeOK
<1>7. chan'[c] = chan[c] /\ chan'[d] = chan[d]
  BY <1>4, MailboxKept
<1>5. ASSUME Ahead(d, c)' PROVE FALSE
  <2> DEFINE r == box'[chan[d]]
  <2>1. PICK i, j \in 1..Len(r) : i < j /\ r[i] = d /\ r[j] = c
    BY <1>4, <1>5, <1>7 DEF Ahead
  <2>2. PICK k \in Nat : Shifted(chan[d], k)
    BY <1>4, BoxesShift
  <2>3. i + k \in 1..Len(q) /\ q[i + k] = d /\ j + k \in 1..Len(q) /\ q[j + k] = c
    BY <1>3, <2>1, <2>2 DEF Shifted
  <2>4. i + k = b /\ j + k = a
    BY <1>1, <1>2, <2>3
  <2>5. i \in Int /\ j \in Int /\ k \in Int /\ a \in Int /\ b \in Int
    BY <1>1, <1>2, <2>1, <2>3, <2>4
  <2> HIDE DEF q, r
  <2> QED BY <1>2, <2>1, <2>4, <2>5
<1>6. ASSUME msg[d] = "admitted", msg'[d] \in {"running", "done"} PROVE FALSE
  <2>1. q # <<>> /\ d = Head(q)
    BY <1>6, ServedFirst
  <2>2. q[1] = d /\ 1 \in 1..Len(q)
    BY <1>1, <2>1, HeadTailProperties
  <2>3. b = 1
    BY <1>1, <1>2, <2>2
  <2> QED BY <1>1, <1>2, <2>3
<1> QED BY <1>5, <1>6

\* Within a mailbox nobody is served before who was admitted earlier and waits.
THEOREM NobodyOvertakes == Spec => NoOvertaking
<1>1. PromisesInv /\ [Next]_vars =>
        [\A c, d \in Calls : Ahead(c, d) =>
            ~Ahead(d, c)' /\ ~(msg[d] = "admitted" /\ msg'[d] \in {"running", "done"})]_vars
  BY OvertakingStep
<1> QED BY <1>1, PromisesInvKept, PTL DEF Spec, NoOvertaking
=============================================================================
