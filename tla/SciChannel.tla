------------------------------ MODULE SciChannel ------------------------------
(***************************************************************************)
(* What the SCI service promises its two sides, with none of its machinery:*)
(* a queue of accepted events from which the host takes the oldest, one at *)
(* a time, and from which the service may drop events.  Nothing is         *)
(* reordered, nothing is handed over twice and nothing is invented.        *)
(***************************************************************************)
EXTENDS Integers, Sequences, SequencesExt

VARIABLES
    pending,    \* accepted events the host has not taken, oldest first
    accepted,   \* number of events accepted so far; the next is accepted + 1
    delivered,  \* what the host has taken, in order
    flushed     \* the events the service dropped

vars == <<pending, accepted, delivered, flushed>>

Init == pending = <<>> /\ accepted = 0 /\ delivered = <<>> /\ flushed = {}

Accept ==
    /\ accepted' = accepted + 1
    /\ pending' = Append(pending, accepted + 1)
    /\ UNCHANGED <<delivered, flushed>>

Deliver ==
    /\ pending # <<>>
    /\ delivered' = Append(delivered, Head(pending))
    /\ pending' = Tail(pending)
    /\ UNCHANGED <<accepted, flushed>>

\* The oldest event, or every event but the oldest n, is dropped: a flush
\* empties the queue and the mailbox in two steps.
DropHead ==
    /\ pending # <<>>
    /\ flushed' = flushed \cup {Head(pending)}
    /\ pending' = Tail(pending)
    /\ UNCHANGED <<accepted, delivered>>

DropTail ==
    \E n \in {0, 1} :
        /\ n < Len(pending)
        /\ flushed' = flushed \cup ToSet(SubSeq(pending, n + 1, Len(pending)))
        /\ pending' = SubSeq(pending, 1, n)
        /\ UNCHANGED <<accepted, delivered>>

Next == Accept \/ Deliver \/ DropHead \/ DropTail

Spec == Init /\ [][Next]_vars
=============================================================================
