-------------------------- MODULE MetricsCollector --------------------------
(***************************************************************************)
(* The metrics of one actor: counters that the actor's task updates with   *)
(* relaxed atomics, one after the other, and any thread reads in the same  *)
(* way.  Each atomic has a modification order of its own, and nothing      *)
(* relates two of them: how far a reader finds one says nothing of another *)
(* until a happens-before edge, such as the end of the task, shows it all. *)
(***************************************************************************)
EXTENDS Naturals, Sequences

CONSTANTS
    Kinds,          \* "message", "priority" and "idle" work
    Durations,      \* how long one handler may run, in nanoseconds
    Clocks,         \* what the wall clock may say, in milliseconds since the epoch
    MaxU64,         \* the largest value of an atomic
    MaxRecords      \* bound of this model: handlers that complete

ASSUME MetricsAssumption ==
    /\ Durations \subseteq Nat /\ Clocks \subseteq Nat
    /\ MaxU64 \in Nat \ {0} /\ MaxRecords \in Nat
    /\ "nothing" \notin Kinds

VARIABLES
    order,      \* the modification order of each atomic
    shown,      \* how far in it a reader is
    work,       \* history: what was completed of each kind
    last,       \* history: the clock when the last of any kind was, if any
    reading,    \* the kind being read, or "nothing"
    seen,       \* the loads made of it so far
    calm        \* history: nothing was recorded or came into sight meanwhile

metricVars == <<order, shown, work, last, reading, seen, calm>>

Counters == {"count", "total", "max"}
Fields   == Counters \cup {"activity"}

Activity == <<"actor", "activity">>
Atomics  == (Kinds \X Counters) \cup {Activity}

\* The atomic behind a field of the kind being read.
Source(field) == IF field = "activity" THEN Activity ELSE <<reading, field>>

MetricsInit ==
    /\ order = [a \in Atomics |-> <<0>>]
    /\ shown = [a \in Atomics |-> 1]
    /\ work = [k \in Kinds |-> [number |-> 0, sum |-> 0, longest |-> 0]]
    /\ last = {}
    /\ reading = "nothing" /\ seen = <<>> /\ calm = TRUE

\* `as_nanos().min(u64::MAX)`
Capped(n) == IF n > MaxU64 THEN MaxU64 ELSE n

\* fetch_add wraps.
Wrapped(n) == IF n > MaxU64 THEN n - (MaxU64 + 1) ELSE n

Larger(m, n) == IF m > n THEN m ELSE n

\* Fault: no bias, so that zero is a time as well as "never".
MutBiased(millis) == Capped(millis)
\* millis_since_epoch + 1: zero is kept for "never".
Biased(millis) == Capped(Capped(millis) + 1)

\* fetch_add of the count and of the total, fetch_max, and the store of the time.
Updated(field, old, nanos, millis) ==
    IF field = "count" THEN Wrapped(old + 1)
    ELSE IF field = "total" THEN Wrapped(old + nanos)
    ELSE IF field = "max" THEN Larger(old, nanos)
    ELSE Biased(millis)

Latest(a) == order[a][Len(order[a])]

\* The atomics that work of this kind updates.
Touched(kind) == {<<kind, f>> : f \in Counters} \cup {Activity}

Completed(sofar, nanos) ==
    [number |-> sofar.number + 1, sum |-> sofar.sum + nanos,
     longest |-> Larger(sofar.longest, nanos)]

\* record_message, record_priority_message and record_idle_event, called
\* when the handler or on_idle has returned.
Record(kind) ==
    /\ Len(order[Activity]) <= MaxRecords
    /\ \E d \in Durations, t \in Clocks :
         /\ order' = [a \in Atomics |->
                        IF a \in Touched(kind)
                        THEN Append(order[a], Updated(a[2], Latest(a), Capped(d), t))
                        ELSE order[a]]
         /\ work' = [work EXCEPT ![kind] = Completed(@, Capped(d))]
         /\ last' = {t}
    /\ calm' = (reading = "nothing")
    /\ UNCHANGED <<shown, reading, seen>>

\* A later value of one atomic comes into sight, never an earlier one.
Show(a) ==
    /\ shown[a] < Len(order[a])
    /\ shown' = [shown EXCEPT ![a] = @ + 1]
    /\ calm' = (reading = "nothing")
    /\ UNCHANGED <<order, work, last, reading, seen>>

AllShown == \A a \in Atomics : shown[a] = Len(order[a])

\* snapshot reads every kind in this way; an accessor reads one.
BeginRead(kind) ==
    /\ reading = "nothing"
    /\ reading' = kind /\ seen' = <<>> /\ calm' = AllShown
    /\ UNCHANGED <<order, shown, work, last>>

Found(a) == order[a][shown[a]]

Load(field) ==
    /\ reading # "nothing" /\ field \notin DOMAIN seen
    /\ seen' = [f \in DOMAIN seen \cup {field} |->
                  IF f = field THEN Found(Source(field)) ELSE seen[f]]
    /\ UNCHANGED <<order, shown, work, last, reading, calm>>

Done == reading # "nothing" /\ DOMAIN seen = Fields

EndRead ==
    /\ Done
    /\ reading' = "nothing" /\ seen' = <<>> /\ calm' = TRUE
    /\ UNCHANGED <<order, shown, work, last>>

\* checked_div
Quotient == IF seen["count"] = 0 THEN 0 ELSE seen["total"] \div seen["count"]

\* Fault: not clamped to the maximum.
MutAverage == Quotient
\* clamped to the maximum
Average == IF Quotient > seen["max"] THEN seen["max"] ELSE Quotient

\* "never", or milliseconds since the epoch
LastActivity == IF seen["activity"] = 0 THEN {} ELSE {seen["activity"] - 1}

MetricsNext ==
    \/ \E k \in Kinds : Record(k) \/ BeginRead(k)
    \/ \E a \in Atomics : Show(a)
    \/ \E f \in Fields : Load(f)
    \/ EndRead

MetricsSpec == MetricsInit /\ [][MetricsNext]_metricVars

(***************************************************************************)
(* Properties                                                              *)
(***************************************************************************)

\* However a read races the recordings, the average it returns is at most the
\* maximum it returns and every maximum the reader finds later (collector.rs,
\* snapshot: "the `avg <= max` invariant always holds").
AverageWithinMax ==
    Done => Average <= seen["max"] /\ Average <= Found(<<reading, "max">>)

\* The largest time that can be stored is one less than the largest value.
Reported(millis) == IF millis < MaxU64 THEN millis ELSE MaxU64 - 1

\* A read that no recording races gives the work completed: its number, its
\* longest, its mean as long as number and sum fit, and the time of the last
\* of any kind, the epoch itself included (collector.rs, the note on the bias).
QuietReadIsExact ==
    Done /\ calm =>
      LET done == work[reading]
      IN /\ done.number <= MaxU64 => seen["count"] = done.number
         /\ seen["max"] = done.longest
         /\ done.number \in 1..MaxU64 /\ done.sum <= MaxU64 =>
              Average = done.sum \div done.number
         /\ LastActivity = {Reported(t) : t \in last}

(***************************************************************************)
(* The inductive invariant                                                 *)
(***************************************************************************)

MetricsTypeOK ==
    /\ order \in [Atomics -> Seq(Nat)]
    /\ shown \in [Atomics -> Nat]
    /\ \A a \in Atomics : shown[a] \in 1..Len(order[a])
    /\ work \in [Kinds -> [number : Nat, sum : Nat, longest : Nat]]
    /\ last \subseteq Nat
    /\ reading \in Kinds \cup {"nothing"}
    /\ calm \in BOOLEAN
    /\ DOMAIN seen \subseteq Fields
    /\ \A f \in DOMAIN seen : seen[f] \in Nat

\* The last value of each atomic tells the work completed, as far as it fits.
CountsWork ==
    /\ \A k \in Kinds :
         /\ work[k].number <= MaxU64 => Latest(<<k, "count">>) = work[k].number
         /\ work[k].sum <= MaxU64 => Latest(<<k, "total">>) = work[k].sum
         /\ Latest(<<k, "max">>) = work[k].longest
         /\ work[k].sum <= work[k].number * work[k].longest
    /\ \/ last = {} /\ Latest(Activity) = 0
       \/ \E t \in last : last = {t} /\ Latest(Activity) = Biased(t)

\* A maximum never falls.
MaximaRise ==
    \A k \in Kinds : \A i, j \in 1..Len(order[<<k, "max">>]) :
        i <= j => order[<<k, "max">>][i] <= order[<<k, "max">>][j]

\* What was loaded was found then: all of it is still there in a calm read,
\* and the maximum at least.
LoadsWereFound ==
    reading # "nothing" =>
        /\ "max" \in DOMAIN seen => seen["max"] <= Found(<<reading, "max">>)
        /\ calm => AllShown /\ \A f \in DOMAIN seen : seen[f] = Found(Source(f))

MetricsInv == MetricsTypeOK /\ CountsWork /\ MaximaRise /\ LoadsWereFound
=============================================================================
