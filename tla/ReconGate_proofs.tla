-------------------------- MODULE ReconGate_proofs --------------------------
(***************************************************************************)
(* What follows from ReconGate alone: the guards of its steps are enough   *)
(* for the calc, whatever the source and the pipeline do afterwards.       *)
(***************************************************************************)
EXTENDS ReconGate, TLAPS

\* Versions are numbers, Delta is behind the source, and a watermark stands at 0 or at
\* the head of a published batch.
GateInv ==
    /\ head \in Nat
    /\ changed \in [Tables -> [Keys -> Nat]]
    /\ delivered \in [Tables -> [Keys -> Nat]]
    /\ \A t \in Tables, k \in Keys : delivered[t][k] <= changed[t][k] /\ changed[t][k] <= head
    /\ \A b \in published : b.head \in Nat /\ b.head <= head
    /\ confirmed \in [Tables -> Nat]
    /\ \A t \in Tables : confirmed[t] = 0 \/ \E b \in published : confirmed[t] = b.head
    /\ PublishedComplete

\* A complete table stays complete: a new change lies above the head, and Delta only
\* catches up.
LEMMA CompleteStays ==
    ASSUME GateInv, Gated \subseteq Tables, [Next]_vars,
           NEW t \in Gated, NEW v \in Nat, v <= head, Complete(t, v)
    PROVE  \A k \in Keys : changed'[t][k] <= v => delivered'[t][k] = changed'[t][k]
<1> USE DEF GateInv
<1>1. ASSUME NEW u \in Tables, NEW j \in Keys, Change(u, j), NEW k \in Keys,
             changed'[t][k] <= v
      PROVE  delivered'[t][k] = changed'[t][k]
  <2>1. changed'[t][k] = changed[t][k] \/ changed'[t][k] = head + 1
    BY <1>1 DEF Change
  <2> QED
    BY <1>1, <2>1 DEF Change, Complete
<1>2. ASSUME NEW u \in Tables, Deliver(u), NEW k \in Keys, changed'[t][k] <= v
      PROVE  delivered'[t][k] = changed'[t][k]
  <2>1. changed' = changed /\ delivered[t][k] = changed[t][k]
    BY <1>2 DEF Deliver, Complete
  <2>2. t \in Tables /\ changed[t][k] \in Nat
    OBVIOUS
  <2>3. CASE t # u
    <3>1. delivered'[t] = delivered[t]
      BY <1>2, <2>2, <2>3 DEF Deliver
    <3> QED
      BY <2>1, <3>1
  <2>4. CASE t = u
    <3>1. delivered' \in [Tables -> [Keys -> 0..head]]
      BY <1>2 DEF Deliver
    <3>2. delivered[t][k] <= delivered'[t][k] /\ delivered'[t][k] <= changed[t][k]
      BY <1>2, <2>4 DEF Deliver
    <3>3. delivered'[t][k] \in 0..head
      BY <2>2, <3>1
    <3>4. changed[t][k] <= delivered'[t][k] /\ delivered'[t][k] <= changed[t][k]
      BY <2>1, <3>2
    <3>5. delivered'[t][k] \in Int /\ changed[t][k] \in Int
      BY <2>2, <3>3
    <3>6. \A x, y \in Int : x <= y /\ y <= x => x = y
      OBVIOUS
    <3>7. delivered'[t][k] = changed[t][k]
      BY <3>4, <3>5, <3>6
    <3> QED
      BY <2>1, <3>7
  <2> QED
    BY <2>3, <2>4
<1>3. CASE UNCHANGED <<changed, delivered>>
  BY <1>3 DEF Complete
<1>4. \/ \E u \in Tables, j \in Keys : Change(u, j)
      \/ \E u \in Tables : Deliver(u)
      \/ UNCHANGED <<changed, delivered>>
  BY DEF Next, Doubt, Publish, Confirm, ConfirmDb, vars
<1> QED
  BY <1>1, <1>2, <1>3, <1>4

LEMMA GateInit == Init => GateInv
BY DEF Init, GateInv, PublishedComplete

LEMMA GateStep ==
    ASSUME GateInv, Gated \subseteq Tables, [Next]_vars
    PROVE  GateInv'
<1> USE DEF GateInv
<1>1. \A b \in published, t \in Gated \ doubted, k \in Keys :
          changed'[t][k] <= b.head => delivered'[t][k] = changed'[t][k]
  BY CompleteStays DEF PublishedComplete
<1>2. ASSUME NEW t \in Tables, NEW k \in Keys, Change(t, k) PROVE GateInv'
  <2>1. head' = head + 1 /\ changed' = [changed EXCEPT ![t][k] = head + 1]
        /\ UNCHANGED <<delivered, published, doubted, confirmed>>
    BY <1>2 DEF Change
  <2>2. \A u \in Tables, j \in Keys :
            changed'[u][j] = changed[u][j] \/ changed'[u][j] = head + 1
    BY <2>1
  <2>3. changed' \in [Tables -> [Keys -> Nat]]
    BY <2>1
  <2>4. \A u \in Tables, j \in Keys : /\ delivered[u][j] \in Nat /\ changed[u][j] \in Nat
                                      /\ delivered[u][j] <= changed[u][j]
                                      /\ changed[u][j] <= head
    OBVIOUS
  <2>5. \A u \in Tables, j \in Keys : /\ delivered'[u][j] <= changed'[u][j]
                                      /\ changed'[u][j] <= head'
    BY <2>1, <2>2, <2>4
  <2>6. PublishedComplete'
    BY <1>1, <2>1 DEF PublishedComplete, Complete
  <2> QED
    BY <2>1, <2>3, <2>5, <2>6
<1>3. ASSUME NEW t \in Tables, Deliver(t) PROVE GateInv'
  <2>1. UNCHANGED <<head, changed, published, doubted, confirmed>>
        /\ delivered' \in [Tables -> [Keys -> Nat]]
    BY <1>3 DEF Deliver
  <2>2. \A u \in Tables, j \in Keys : delivered'[u][j] <= changed[u][j]
    BY <1>3 DEF Deliver
  <2>3. PublishedComplete'
    BY <1>1, <2>1 DEF PublishedComplete, Complete
  <2> QED
    BY <2>1, <2>2, <2>3
<1>4. ASSUME NEW h \in 0..head, NEW S \in SUBSET Tables, Publish(h, S) PROVE GateInv'
  <2> DEFINE new == [head |-> h, tables |-> S]
  <2>1. UNCHANGED <<head, changed, delivered, doubted, confirmed>>
        /\ published' = published \cup {new}
    BY <1>4 DEF Publish
  <2>2. new.head = h /\ \A t \in Gated \ doubted : Complete(t, h)
    BY <1>4 DEF Publish
  <2> HIDE DEF new
  <2>3. PublishedComplete'
    BY <1>1, <2>1, <2>2 DEF PublishedComplete, Complete
  <2> QED
    BY <2>1, <2>2, <2>3
<1>5. ASSUME NEW b \in published, ConfirmDb(b) \/ \E t \in Tables : Confirm(b, t)
      PROVE  GateInv'
  <2>1. UNCHANGED <<head, changed, delivered, published, doubted>>
    BY <1>5 DEF ConfirmDb, Confirm
  <2>2. confirmed' = confirmed \/ \E t \in Tables : confirmed' = [confirmed EXCEPT ![t] = b.head]
    BY <1>5 DEF ConfirmDb, Confirm
  <2>3. confirmed' \in [Tables -> Nat]
        /\ \A t \in Tables : confirmed'[t] = confirmed[t] \/ confirmed'[t] = b.head
    BY <2>2
  <2>4. PublishedComplete'
    BY <1>1, <2>1 DEF PublishedComplete, Complete
  <2> QED
    BY <2>1, <2>3, <2>4
<1>6. ASSUME NEW S \in SUBSET Gated, Doubt(S) PROVE GateInv'
  BY <1>6 DEF Doubt, PublishedComplete, Complete
<1>7. CASE UNCHANGED vars
  BY <1>7 DEF vars, PublishedComplete, Complete
<1> QED
  BY <1>2, <1>3, <1>4, <1>5, <1>6, <1>7 DEF Next

\* A published batch stays complete in Delta for the gated tables, the doubted excepted.
THEOREM PublishedStaysComplete ==
    ASSUME Gated \subseteq Tables
    PROVE  Spec => []PublishedComplete
<1>1. GateInv /\ [Next]_vars => GateInv'
  BY GateStep
<1>2. GateInv => PublishedComplete
  BY DEF GateInv
<1> QED
  BY GateInit, <1>1, <1>2, PTL DEF Spec

\* So does what a watermark of one of them has passed: it was published.
THEOREM ConfirmedStaysComplete ==
    ASSUME Gated \subseteq Tables
    PROVE  Spec => []ConfirmedComplete
<1>1. GateInv /\ [Next]_vars => GateInv'
  BY GateStep
<1>2. GateInv => ConfirmedComplete
  <2> SUFFICES ASSUME GateInv, NEW t \in Gated \ doubted, NEW k \in Keys,
                      changed[t][k] <= confirmed[t]
               PROVE  delivered[t][k] = changed[t][k]
    BY DEF ConfirmedComplete, Complete
  <2>1. t \in Tables
    OBVIOUS
  <2>2. CASE confirmed[t] = 0
    BY <2>1, <2>2 DEF GateInv
  <2>3. ASSUME NEW b \in published, confirmed[t] = b.head PROVE delivered[t][k] = changed[t][k]
    BY <2>1, <2>3 DEF GateInv, PublishedComplete, Complete
  <2> QED
    BY <2>1, <2>2, <2>3 DEF GateInv
<1> QED
  BY GateInit, <1>1, <1>2, PTL DEF Spec

=============================================================================
