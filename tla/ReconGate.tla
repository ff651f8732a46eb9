----------------------------- MODULE ReconGate -----------------------------
(***************************************************************************)
(* What the recon promises to the calc that waits for recon_ready, without *)
(* any of the means: no polls, counts, timestamps, caches or restarts.     *)
(*                                                                         *)
(* A batch is published only when Delta holds every change of the gated    *)
(* tables up to its head, but for tables it doubts, and when every change  *)
(* it does not list has been confirmed before; a watermark moves only to a *)
(* published batch.                                                        *)
(* IngestReconRefines shows that the job implements this.                  *)
(***************************************************************************)
EXTENDS Integers

CONSTANTS
    Tables,  \* the active tables of the database
    Gated,   \* those whose content a published batch promises
    Keys     \* primary keys a table's rows may have

VARIABLES
    head,       \* the source's latest version
    changed,    \* the version that last changed each key, in the source
    delivered,  \* the same in Delta
    published,  \* the batches the calc may have seen
    doubted,    \* gated tables whose content is not promised any more
    confirmed,  \* by table, the version up to which nothing is looked at again
    dbConfirmed \* the same for the database; -1 before the first batch

vars == <<head, changed, delivered, published, doubted, confirmed, dbConfirmed>>

Init ==
    /\ head = 0
    /\ changed = [t \in Tables |-> [k \in Keys |-> 0]]
    /\ delivered = changed
    /\ published = {}
    /\ doubted = {}
    /\ confirmed = [t \in Tables |-> 0]
    /\ dbConfirmed \in {-1, 0}

\* Delta holds what the source changed in t up to v, and not again since.
Complete(t, v) == \A k \in Keys : changed[t][k] <= v => delivered[t][k] = changed[t][k]

Change(t, k) ==
    /\ head' = head + 1
    /\ changed' = [changed EXCEPT ![t][k] = head + 1]
    /\ UNCHANGED <<delivered, published, doubted, confirmed, dbConfirmed>>

\* Delta catches up with some earlier state of a table, and never goes back.
Deliver(t) ==
    /\ delivered' \in [Tables -> [Keys -> 0..head]]
    /\ \A k \in Keys : /\ delivered[t][k] <= delivered'[t][k]
                       /\ delivered'[t][k] <= changed[t][k]
    /\ \A u \in Tables \ {t} : delivered'[u] = delivered[u]
    /\ UNCHANGED <<head, changed, published, doubted, confirmed, dbConfirmed>>

\* Tables passed on times that stand in for those of their commits and MERGEs: from now
\* on a batch promises nothing of them.
Doubt(S) ==
    /\ doubted' = doubted \cup S
    /\ UNCHANGED <<head, changed, delivered, published, confirmed, dbConfirmed>>

Publish(h, S) ==
    /\ h <= head
    /\ \A t \in Gated \ doubted : Complete(t, h)
    /\ \A t \in Tables \ S, k \in Keys : changed[t][k] <= h => changed[t][k] <= confirmed[t]
    /\ published' = published \cup {[head |-> h, tables |-> S]}
    /\ UNCHANGED <<head, changed, delivered, doubted, confirmed, dbConfirmed>>

Confirm(b, t) ==
    /\ t \in b.tables
    /\ confirmed[t] <= b.head
    /\ confirmed' = [confirmed EXCEPT ![t] = b.head]
    /\ UNCHANGED <<head, changed, delivered, published, doubted, dbConfirmed>>

\* The database follows the last table of a batch.
ConfirmDb(b) ==
    /\ \A t \in b.tables : confirmed[t] = b.head
    /\ dbConfirmed' = b.head
    /\ UNCHANGED <<head, changed, delivered, published, doubted, confirmed>>

Next ==
    \/ \E t \in Tables, k \in Keys : Change(t, k)
    \/ \E t \in Tables : Deliver(t)
    \/ \E S \in SUBSET Gated : Doubt(S)
    \/ \E h \in 0..head, S \in SUBSET Tables : Publish(h, S)
    \/ \E b \in published : ConfirmDb(b) \/ \E t \in Tables : Confirm(b, t)

Spec == Init /\ [][Next]_vars

-----------------------------------------------------------------------------
(* What the calc may rely on *)

\* Whatever happens after a batch was published, Delta holds its changes, but of doubted
\* tables: a key that still carries a version up to the head carries it in Delta as well.
PublishedComplete == \A b \in published, t \in Gated \ doubted : Complete(t, b.head)

\* A change that nobody looks at any more has been published, and is in Delta
\* unless its table is doubted.
ConfirmedComplete == \A t \in Gated \ doubted : Complete(t, confirmed[t])

=============================================================================
