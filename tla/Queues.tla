------------------------------- MODULE Queues -------------------------------
(* The queues of the mailboxes: a channel's buffer of envelopes, and the    *)
(* semaphore's list of senders waiting for a slot.  Nobody stands in one    *)
(* twice.                                                                   *)
EXTENDS Naturals, Sequences, SequencesExt

InQueue(q, c) == \E i \in 1..Len(q) : q[i] = c
Distinct(q) == \A i, j \in 1..Len(q) : q[i] = q[j] => i = j

\* A queued sender leaves the semaphore's queue, where it stands once.
Without(q, c) ==
    IF \E i \in 1..Len(q) : q[i] = c
    THEN RemoveAt(q, CHOOSE i \in 1..Len(q) : q[i] = c) ELSE q
=============================================================================
