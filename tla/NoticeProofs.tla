----------------------------- MODULE NoticeProofs -----------------------------
(***************************************************************************)
(* What merchants are told: NoticeInv is inductive beside IInv and         *)
(* DepthInv.  First the table of deliveries as a set D of rows that the    *)
(* dispatcher's and enqueue()'s writes keep in order, then what the        *)
(* statuses say of the notifications: the sweep confirms and announces an  *)
(* invoice in one commit, the dispatcher settles it in the commit of the   *)
(* acknowledgement, and in between other sessions may overwrite it.        *)
(***************************************************************************)
EXTENDS DepthProofs

Firsts(D, i, type) == {d \in D : d.invoice = i /\ d.type = type /\ d.attempt = 1}

SameChain(d, e) == d.invoice = e.invoice /\ d.type = e.type /\ d.round = e.round

\* AttemptsInSequence of a set of rows.
Chained(D) ==
  \A d \in D :
    /\ d.attempt \in 1..MaxAttempts
    /\ \A e \in D : SameChain(d, e) /\ e.attempt = d.attempt => e = d
    /\ d.attempt > 1 =>
         \E e \in D : SameChain(d, e) /\ e.attempt = d.attempt - 1 /\ e.status = "failed"

\* RoundsCounted of a set of rows.
Counted(D) == \A d \in D : d.round \in 1..Cardinality(Firsts(D, d.invoice, d.type))

Orderly(D) ==
  /\ D \subseteq DeliveryRow
  /\ IsFiniteSet(D)
  /\ Chained(D)
  /\ Counted(D)

\* Enqueued for the rows of D.
FirstRows(D, S, type) ==
  {[invoice |-> i, type |-> type, attempt |-> 1,
    round |-> 1 + Cardinality(Firsts(D, i, type)),
    status |-> "pending", due |-> TRUE] : i \in S}

\* First attempts are countable.
LEMMA FirstsCounted ==
  ASSUME NEW D, IsFiniteSet(D), NEW i, NEW type
  PROVE  IsFiniteSet(Firsts(D, i, type)) /\ Cardinality(Firsts(D, i, type)) \in Nat
<1>1. Firsts(D, i, type) \in SUBSET D
  BY DEF Firsts
<1>2. IsFiniteSet(Firsts(D, i, type))
  BY <1>1, FS_Subset
<1> QED
  BY <1>2, FS_CardinalityType

\* Giving a row another status or due time keeps the chains, as long as a
\* failed attempt stays failed.
LEMMA RowReplaced ==
  ASSUME NEW D, Orderly(D), NEW d \in D, NEW r \in DeliveryRow,
         SameChain(d, r), r.attempt = d.attempt,
         d.status = "failed" => r.status = "failed"
  PROVE  Orderly((D \ {d}) \cup {r})
<1> DEFINE E == (D \ {d}) \cup {r}
<1>1. D \subseteq DeliveryRow /\ IsFiniteSet(D) /\ Chained(D) /\ Counted(D)
  BY DEF Orderly
<1>2. r \in D => r = d
  BY <1>1 DEF Chained
<1>3. E \subseteq DeliveryRow /\ IsFiniteSet(E)
  <2>1. IsFiniteSet(D \ {d})
    BY <1>1, FS_Difference
  <2> QED
    BY <1>1, <2>1, FS_AddElement
<1>4. Chained(E)
  <2> SUFFICES ASSUME NEW c \in E
               PROVE  /\ c.attempt \in 1..MaxAttempts
                      /\ \A e \in E : SameChain(c, e) /\ e.attempt = c.attempt => e = c
                      /\ c.attempt > 1 =>
                           \E e \in E : SameChain(c, e) /\ e.attempt = c.attempt - 1
                                        /\ e.status = "failed"
    BY DEF Chained
  <2>1. PICK old \in D : /\ SameChain(old, c) /\ old.attempt = c.attempt
                         /\ old = IF c = r THEN d ELSE c
    BY DEF SameChain
  <2>2. c.attempt \in 1..MaxAttempts
    BY <1>1, <2>1 DEF Chained
  <2>3. ASSUME NEW e \in E, SameChain(c, e), e.attempt = c.attempt PROVE e = c
    <3>1. PICK was \in D : /\ SameChain(was, e) /\ was.attempt = e.attempt
                           /\ was = IF e = r THEN d ELSE e
      BY DEF SameChain
    <3>2. was = old
      BY <1>1, <2>1, <2>3, <3>1 DEF Chained, SameChain
    <3> QED
      BY <1>2, <2>1, <3>1, <3>2
  <2>4. ASSUME c.attempt > 1
        PROVE  \E e \in E : SameChain(c, e) /\ e.attempt = c.attempt - 1 /\ e.status = "failed"
    <3>1. PICK e \in D : SameChain(old, e) /\ e.attempt = old.attempt - 1 /\ e.status = "failed"
      BY <1>1, <2>1, <2>4 DEF Chained
    <3>2. CASE e = d
      BY <2>1, <3>1, <3>2 DEF SameChain
    <3>3. CASE e # d
      BY <2>1, <3>1, <3>3 DEF SameChain
    <3> QED
      BY <3>2, <3>3
  <2> QED
    BY <2>2, <2>3, <2>4
<1>5. ASSUME NEW i, NEW type
      PROVE  Cardinality(Firsts(E, i, type)) = Cardinality(Firsts(D, i, type))
  <2>1. CASE d \notin Firsts(D, i, type)
    <3>1. Firsts(E, i, type) = Firsts(D, i, type)
      BY <2>1 DEF Firsts, SameChain
    <3> QED
      BY <3>1
  <2>2. CASE d \in Firsts(D, i, type)
    <3> DEFINE F == Firsts(D, i, type)
    <3>1. Firsts(E, i, type) = (F \ {d}) \cup {r}
      BY <2>2 DEF Firsts, SameChain
    <3>2. IsFiniteSet(F) /\ Cardinality(F) \in Nat
      BY <1>1, FirstsCounted
    <3>3. IsFiniteSet(F \ {d}) /\ Cardinality(F \ {d}) = Cardinality(F) - 1
      BY <2>2, <3>2, FS_RemoveElement
    <3>4. r \notin F \ {d}
      BY <1>2 DEF Firsts
    <3>5. Cardinality((F \ {d}) \cup {r}) = Cardinality(F \ {d}) + 1
      BY <3>3, <3>4, FS_AddElement
    <3>6. Cardinality((F \ {d}) \cup {r}) = Cardinality(F)
      <4> HIDE DEF F
      <4> QED
        BY <3>2, <3>3, <3>5
    <3> QED
      BY <3>1, <3>6
  <2> QED
    BY <2>1, <2>2
<1>6. Counted(E)
  <2> SUFFICES ASSUME NEW c \in E
               PROVE  c.round \in 1..Cardinality(Firsts(E, c.invoice, c.type))
    BY DEF Counted
  <2>1. PICK old \in D : SameChain(old, c)
    BY DEF SameChain
  <2>2. old.round \in 1..Cardinality(Firsts(D, old.invoice, old.type))
    BY <1>1 DEF Counted
  <2> QED
    BY <1>5, <2>1, <2>2 DEF SameChain
<1> QED
  BY <1>3, <1>4, <1>6 DEF Orderly

\* A retry row continues a chain that ends in a failed attempt.
LEMMA RetryAdded ==
  ASSUME NEW D, Orderly(D), NEW d \in D, d.status = "failed", d.attempt < MaxAttempts,
         NEW r \in DeliveryRow, SameChain(d, r), r.attempt = d.attempt + 1,
         \A e \in D : ~(SameChain(r, e) /\ e.attempt = r.attempt)
  PROVE  Orderly(D \cup {r})
<1> DEFINE E == D \cup {r}
<1>1. D \subseteq DeliveryRow /\ IsFiniteSet(D) /\ Chained(D) /\ Counted(D)
  BY DEF Orderly
<1>2. d.attempt \in Nat \ {0}
  BY <1>1, AttemptsAssumption DEF Chained
<1>3. E \subseteq DeliveryRow /\ IsFiniteSet(E)
  BY <1>1, FS_AddElement
<1>4. Chained(E)
  <2>1. r.attempt \in 1..MaxAttempts /\ r.attempt - 1 = d.attempt
    BY <1>2, AttemptsAssumption
  <2>2. ASSUME NEW c \in D PROVE ~(SameChain(c, r) /\ r.attempt = c.attempt)
    BY <2>2 DEF SameChain
  <2>3. SameChain(r, d)
    BY DEF SameChain
  <2> QED
    BY <1>1, <2>1, <2>2, <2>3 DEF Chained
<1>5. ASSUME NEW i, NEW type PROVE Firsts(E, i, type) = Firsts(D, i, type)
  <2>1. r.attempt # 1
    BY <1>2
  <2> QED
    BY <2>1 DEF Firsts
<1>6. Counted(E)
  BY <1>1, <1>5 DEF Counted, SameChain
<1> QED
  BY <1>3, <1>4, <1>6 DEF Orderly

\* enqueue() begins chains of their own: the round is above all earlier ones.
LEMMA FirstsAdded ==
  ASSUME NEW D, Orderly(D), NEW S \in SUBSET InvoiceIds, NEW type \in NoticeType
  PROVE  /\ Orderly(D \cup FirstRows(D, S, type))
         /\ \A i, t : t # type => Firsts(D \cup FirstRows(D, S, type), i, t) = Firsts(D, i, t)
<1> DEFINE R == FirstRows(D, S, type)
           E == D \cup R
           row(i) == [invoice |-> i, type |-> type, attempt |-> 1,
                      round |-> 1 + Cardinality(Firsts(D, i, type)),
                      status |-> "pending", due |-> TRUE]
           f == [i \in S |-> row(i)]
<1>1. D \subseteq DeliveryRow /\ IsFiniteSet(D) /\ Chained(D) /\ Counted(D)
  BY DEF Orderly
<1>2. \A i : IsFiniteSet(Firsts(D, i, type)) /\ Cardinality(Firsts(D, i, type)) \in Nat
  BY <1>1, FirstsCounted
<1>3. R = {row(i) : i \in S}
  BY DEF FirstRows
<1>4. \A i \in S : row(i) \in DeliveryRow
  BY <1>2 DEF DeliveryRow
<1>5. IsFiniteSet(R)
  <2>1. f \in Surjection(S, R)
    BY <1>3 DEF Surjection
  <2>2. IsFiniteSet(S)
    BY FS_Subset, FiniteAssumption
  <2> QED
    BY <2>1, <2>2, FS_Surjection
<1>6. \A r \in R : /\ r \in DeliveryRow /\ r.invoice \in S /\ r.type = type /\ r.attempt = 1
                   /\ r.round = 1 + Cardinality(Firsts(D, r.invoice, type))
                   /\ r = row(r.invoice)
  BY <1>3, <1>4
<1> HIDE DEF R, row, f
<1>7. E \subseteq DeliveryRow /\ IsFiniteSet(E)
  BY <1>1, <1>5, <1>6, FS_Union
<1>8. \A d \in D, r \in R : ~SameChain(d, r)
  <2> SUFFICES ASSUME NEW d \in D, NEW r \in R, SameChain(d, r) PROVE FALSE
    OBVIOUS
  <2>1. d.round \in 1..Cardinality(Firsts(D, r.invoice, type))
    BY <1>1, <1>6 DEF Counted, SameChain
  <2> QED
    BY <1>2, <1>6, <2>1 DEF SameChain
<1>9. Chained(E)
  <2>1. 1 \in 1..MaxAttempts
    BY AttemptsAssumption
  <2>2. \A d \in D, r \in R : ~SameChain(r, d)
    BY <1>8 DEF SameChain
  <2>3. \A q, r \in R : SameChain(q, r) => q = r
    BY <1>6 DEF SameChain
  <2> QED
    BY <1>1, <1>6, <1>8, <2>1, <2>2, <2>3 DEF Chained
<1>10. \A i, t : t # type => Firsts(E, i, t) = Firsts(D, i, t)
  BY <1>6 DEF Firsts
<1>11. ASSUME NEW i \in S
       PROVE  Cardinality(Firsts(E, i, type)) = Cardinality(Firsts(D, i, type)) + 1
  <2>1. row(i) \in R /\ row(i).invoice = i /\ row(i).type = type /\ row(i).attempt = 1
    BY <1>3 DEF row
  <2>2. Firsts(E, i, type) = Firsts(D, i, type) \cup {row(i)}
    BY <1>6, <2>1 DEF Firsts
  <2>3. row(i) \notin Firsts(D, i, type)
    BY <1>8, <2>1 DEF Firsts, SameChain
  <2> QED
    BY <1>2, <2>2, <2>3, FS_AddElement
<1>12. ASSUME NEW i, i \notin S PROVE Firsts(E, i, type) = Firsts(D, i, type)
  BY <1>6, <1>12 DEF Firsts
<1>13. Counted(E)
  <2> SUFFICES ASSUME NEW c \in E
               PROVE  c.round \in 1..Cardinality(Firsts(E, c.invoice, c.type))
    BY DEF Counted
  <2>1. CASE c \in R
    <3>1. /\ c.round = 1 + Cardinality(Firsts(D, c.invoice, type)) /\ c.invoice \in S
          /\ c.type = type
      BY <1>6, <2>1
    <3> QED
      BY <1>2, <1>11, <3>1
  <2>2. CASE c \in D
    <3>1. c.round \in 1..Cardinality(Firsts(D, c.invoice, c.type))
      BY <1>1, <2>2 DEF Counted
    <3> QED
      BY <1>2, <1>10, <1>11, <1>12, <3>1
  <2> QED
    BY <2>1, <2>2
<1> QED
  BY <1>7, <1>9, <1>10, <1>13 DEF Orderly, R

-----------------------------------------------------------------------------
\* The table is in order, and what enqueue() adds to it, in these terms.
LEMMA TableOrderly ==
  ASSUME TypeInv, DeliveryInv
  PROVE  /\ Orderly(deliveries)
         /\ \A S, type : Enqueued(S, type) = FirstRows(deliveries, S, type)
<1>1. deliveries \subseteq DeliveryRow /\ IsFiniteSet(deliveries)
  BY DEF TypeInv, TypeOK, StoreTypeOK
<1>2. Chained(deliveries)
  <2> SUFFICES ASSUME NEW d \in deliveries
               PROVE  /\ d.attempt \in 1..MaxAttempts
                      /\ \A e \in deliveries :
                           SameChain(d, e) /\ e.attempt = d.attempt => e = d
                      /\ d.attempt > 1 =>
                           \E e \in deliveries : SameChain(d, e) /\ e.attempt = d.attempt - 1
                                                 /\ e.status = "failed"
    BY DEF Chained
  <2>1. /\ d.attempt \in 1..MaxAttempts
        /\ \A e \in Notices(d.invoice, d.type) :
             e.round = d.round /\ e.attempt = d.attempt => e = d
        /\ d.attempt > 1 =>
             \E e \in Notices(d.invoice, d.type) :
               e.round = d.round /\ e.attempt = d.attempt - 1 /\ e.status = "failed"
    BY DEF DeliveryInv, AttemptsInSequence
  <2> QED
    BY <2>1 DEF Notices, SameChain
<1>3. \A i, type : {e \in Notices(i, type) : e.attempt = 1} = Firsts(deliveries, i, type)
  BY DEF Notices, Firsts
<1>4. Counted(deliveries)
  BY <1>3 DEF Counted, DeliveryInv, RoundsCounted
<1>5. \A S, type : Enqueued(S, type) = FirstRows(deliveries, S, type)
  BY <1>3 DEF Enqueued, FirstRows
<1> QED
  BY <1>1, <1>2, <1>4, <1>5 DEF Orderly

\* Back from the terms of sets, after a step.
LEMMA NextOrderly ==
  ASSUME Orderly(deliveries')
  PROVE  AttemptsInSequence' /\ RoundsCounted'
<1>1. Chained(deliveries') /\ Counted(deliveries')
  BY DEF Orderly
<1>2. AttemptsInSequence'
  <2> SUFFICES ASSUME NEW d \in deliveries'
               PROVE  /\ d.attempt \in 1..MaxAttempts
                      /\ \A e \in Notices(d.invoice, d.type)' :
                           e.round = d.round /\ e.attempt = d.attempt => e = d
                      /\ d.attempt > 1 =>
                           \E e \in Notices(d.invoice, d.type)' :
                             e.round = d.round /\ e.attempt = d.attempt - 1 /\ e.status = "failed"
    BY DEF AttemptsInSequence
  <2>1. /\ d.attempt \in 1..MaxAttempts
        /\ \A e \in deliveries' : SameChain(d, e) /\ e.attempt = d.attempt => e = d
        /\ d.attempt > 1 =>
             \E e \in deliveries' : SameChain(d, e) /\ e.attempt = d.attempt - 1
                                    /\ e.status = "failed"
    BY <1>1 DEF Chained
  <2> QED
    BY <2>1 DEF Notices, SameChain
<1>3. RoundsCounted'
  <2>1. \A i, type : {e \in Notices(i, type)' : e.attempt = 1} = Firsts(deliveries', i, type)
    BY DEF Notices, Firsts
  <2> QED
    BY <1>1, <2>1 DEF Counted, RoundsCounted
<1> QED
  BY <1>2, <1>3

\* Two notifications of one commit are of different types, so neither sees
\* the other's first attempt.
LEMMA BothEnqueued ==
  ASSUME NEW D, Orderly(D), NEW S \in SUBSET InvoiceIds, NEW T \in SUBSET InvoiceIds,
         NEW s \in NoticeType, NEW t \in NoticeType, s # t
  PROVE  Orderly((D \cup FirstRows(D, S, s)) \cup FirstRows(D, T, t))
<1>1. PICK E : E = D \cup FirstRows(D, S, s)
  OBVIOUS
<1>2. Orderly(E) /\ \A i : Firsts(E, i, t) = Firsts(D, i, t)
  BY <1>1, FirstsAdded
<1>3. FirstRows(E, T, t) = FirstRows(D, T, t)
  BY <1>2 DEF FirstRows
<1> QED
  BY <1>1, <1>2, <1>3, FirstsAdded

\* Steps of the other loops only add rows, so the posted row stays due.
LEMMA DeliveriesGrow ==
  ASSUME DeliveryInv, deliveries \subseteq deliveries', Orderly(deliveries'), UNCHANGED disp
  PROVE  DeliveryInv'
<1>1. PostedStillDue'
  BY DEF DeliveryInv, PostedStillDue, Due
<1> QED
  BY <1>1, NextOrderly DEF DeliveryInv

\* What the dispatcher may do to the row d: give it a status or let its
\* backoff elapse.
LEMMA RowWritten ==
  ASSUME TypeInv, DeliveryInv, NEW d \in deliveries
  PROVE  /\ d.status = "pending" =>
              \A status \in {"delivered", "failed"} : Orderly(Finish(d, status))
         /\ Orderly((deliveries \ {d}) \cup {[d EXCEPT !.due = TRUE]})
<1>1. Orderly(deliveries) /\ d \in DeliveryRow
  BY TableOrderly DEF Orderly
<1>2. ASSUME d.status = "pending", NEW status \in {"delivered", "failed"}
      PROVE  Orderly(Finish(d, status))
  <2>1. PICK r : r = [d EXCEPT !.status = status]
    OBVIOUS
  <2>2. r \in DeliveryRow /\ SameChain(d, r) /\ r.attempt = d.attempt
    BY <1>1, <2>1 DEF DeliveryRow, SameChain
  <2> QED
    BY <1>1, <1>2, <2>1, <2>2, RowReplaced DEF Finish
<1>3. Orderly((deliveries \ {d}) \cup {[d EXCEPT !.due = TRUE]})
  <2>1. PICK r : r = [d EXCEPT !.due = TRUE]
    OBVIOUS
  <2>2. r \in DeliveryRow /\ SameChain(d, r) /\ r.attempt = d.attempt /\ r.status = d.status
    BY <1>1, <2>1 DEF DeliveryRow, SameChain
  <2> QED
    BY <1>1, <2>1, <2>2, RowReplaced
<1> QED
  BY <1>2, <1>3

\* The dispatcher keeps the chains: it only ever continues the last attempt.
LEMMA DispatchDeliveries ==
  ASSUME TypeInv, DeliveryInv, Sending
  PROVE  DeliveryInv'
<1>1. DispNext
  BY DEF Sending
<1>2. Orderly(deliveries) /\ disp.posted \subseteq Due /\ Due \subseteq deliveries
  BY TableOrderly DEF DeliveryInv, PostedStillDue, Due
<1>3. ASSUME Orderly(deliveries'), disp' = NoAnswer PROVE DeliveryInv'
  BY <1>3, NextOrderly DEF DeliveryInv, PostedStillDue, NoAnswer
<1>4. ASSUME NEW d \in Due, RefuseDelivery(d) PROVE DeliveryInv'
  <2>1. d \in deliveries /\ d.status = "pending" /\ disp.posted = {} /\ disp' = disp
        /\ deliveries' = Finish(d, "failed")
    BY <1>4 DEF RefuseDelivery, Due
  <2>2. Orderly(deliveries')
    BY <2>1, RowWritten
  <2>3. PostedStillDue'
    BY <2>1 DEF DeliveryInv, PostedStillDue
  <2> QED
    BY <2>2, <2>3, NextOrderly DEF DeliveryInv
<1>5. ASSUME NEW d \in Due, NEW ok \in BOOLEAN, PostDelivery(d, ok) PROVE DeliveryInv'
  <2>1. /\ disp' = [posted |-> {d}, ok |-> ok,
                    settles |-> /\ ok
                                /\ d.type = "invoice.confirmed"
                                /\ invoices[d.invoice].status = "CONFIRMED"]
        /\ deliveries' = deliveries
    BY <1>5 DEF PostDelivery, tables
  <2>2. PostedStillDue'
    BY <2>1 DEF PostedStillDue, Due
  <2> QED
    BY <1>2, <2>1, <2>2, NextOrderly DEF DeliveryInv
<1>6. ASSUME NEW d \in disp.posted, CommitDelivered(d) PROVE DeliveryInv'
  <2>1. d \in deliveries /\ d.status = "pending" /\ d \in DeliveryRow
        /\ disp' = NoAnswer /\ (disp.settles => d.type = "invoice.confirmed")
    BY <1>2, <1>6 DEF CommitDelivered, Due, DeliveryInv, PostedStillDue, Orderly
  <2>2. PICK E : E = Finish(d, "delivered")
    OBVIOUS
  <2>3. Orderly(E)
    BY <2>1, <2>2, RowWritten
  <2>4. CASE ~disp.settles
    <3>1. deliveries' = E
      BY <1>6, <2>2, <2>4 DEF CommitDelivered
    <3> QED
      BY <1>3, <2>1, <2>3, <3>1
  <2>5. CASE disp.settles
    <3>1. deliveries' = E \cup Enqueued({d.invoice}, "invoice.settled")
      BY <1>6, <2>2, <2>5 DEF CommitDelivered
    <3>2. \A i : Firsts(E, i, "invoice.settled") = Firsts(deliveries, i, "invoice.settled")
      BY <2>1, <2>2, <2>5 DEF Firsts, Finish, DeliveryRow
    <3>3. Enqueued({d.invoice}, "invoice.settled") = FirstRows(E, {d.invoice}, "invoice.settled")
      BY <3>2, TableOrderly DEF FirstRows
    <3>4. {d.invoice} \in SUBSET InvoiceIds /\ "invoice.settled" \in NoticeType
      BY <2>1 DEF DeliveryRow, NoticeType
    <3> QED
      BY <1>3, <2>1, <2>3, <3>1, <3>3, <3>4, FirstsAdded
  <2> QED
    BY <2>4, <2>5
<1>7. ASSUME NEW d \in disp.posted, CommitFailed(d) PROVE DeliveryInv'
  <2>1. d \in deliveries /\ d.status = "pending" /\ d \in DeliveryRow /\ disp' = NoAnswer
    BY <1>2, <1>7 DEF CommitFailed, Due, Orderly
  <2>2. PICK E : E = Finish(d, "failed")
    OBVIOUS
  <2>3. Orderly(E)
    BY <2>1, <2>2, RowWritten
  <2>4. CASE ~(d.attempt < MaxAttempts)
    <3>1. deliveries' = E
      BY <1>7, <2>2, <2>4 DEF CommitFailed
    <3> QED
      BY <1>3, <2>1, <2>3, <3>1
  <2>5. CASE d.attempt < MaxAttempts
    <3>1. PICK f : f = [d EXCEPT !.status = "failed"]
      OBVIOUS
    <3>2. PICK r : r = [d EXCEPT !.attempt = @ + 1, !.due = FALSE]
      OBVIOUS
    <3>3. deliveries' = E \cup {r}
      BY <1>7, <2>2, <2>5, <3>2 DEF CommitFailed
    <3>4. f \in E /\ f.status = "failed" /\ SameChain(f, d) /\ f.attempt = d.attempt
      BY <2>1, <2>2, <3>1 DEF Finish, SameChain, DeliveryRow
    <3>5. r.attempt = d.attempt + 1 /\ SameChain(f, r) /\ SameChain(d, r) /\ r \in DeliveryRow
      <4>1. d.attempt + 1 \in Nat
        BY <2>1 DEF DeliveryRow
      <4>2. r \in DeliveryRow
        BY <2>1, <3>2, <4>1 DEF DeliveryRow
      <4>3. r.attempt = d.attempt + 1 /\ SameChain(d, r)
        BY <2>1, <3>2 DEF SameChain, DeliveryRow
      <4> QED
        BY <3>4, <4>2, <4>3 DEF SameChain
    <3>6. ASSUME NEW e \in E, SameChain(r, e), e.attempt = r.attempt PROVE FALSE
      <4>1. d.attempt \in 1..MaxAttempts /\ MaxAttempts \in Nat
        BY <1>2, <2>1, AttemptsAssumption DEF Orderly, Chained
      <4>2. e \in deliveries
        BY <2>1, <2>2, <3>5, <3>6, <4>1 DEF Finish, DeliveryRow
      <4>3. e.attempt > 1 /\ e.attempt - 1 = d.attempt
        BY <3>5, <3>6, <4>1
      <4>4. PICK c \in deliveries :
              SameChain(e, c) /\ c.attempt = e.attempt - 1 /\ c.status = "failed"
        BY <1>2, <4>2, <4>3 DEF Orderly, Chained
      <4>5. SameChain(d, c) /\ c.attempt = d.attempt
        BY <3>5, <3>6, <4>3, <4>4 DEF SameChain
      <4>6. c = d
        BY <1>2, <2>1, <4>4, <4>5 DEF Orderly, Chained
      <4> QED
        BY <2>1, <4>4, <4>6
    <3>7. f.attempt < MaxAttempts /\ r.attempt = f.attempt + 1
      BY <2>5, <3>4, <3>5
    <3>8. Orderly(E \cup {r})
      BY <2>3, <3>4, <3>5, <3>6, <3>7, RetryAdded
    <3> QED
      BY <1>3, <2>1, <3>3, <3>8
  <2> QED
    BY <2>4, <2>5
<1>8. CASE AbortDispatch
  BY <1>2, <1>3, <1>8 DEF AbortDispatch, tables
<1>9. ASSUME NEW d \in deliveries, ElapseBackoff(d) PROVE DeliveryInv'
  <2>1. deliveries' = (deliveries \ {d}) \cup {[d EXCEPT !.due = TRUE]} /\ disp' = disp
        /\ ~d.due
    BY <1>9 DEF ElapseBackoff
  <2>2. Orderly(deliveries')
    BY <2>1, RowWritten
  <2>3. PostedStillDue'
    BY <2>1 DEF DeliveryInv, PostedStillDue, Due
  <2> QED
    BY <2>2, <2>3, NextOrderly DEF DeliveryInv
<1> QED
  BY <1>1, <1>4, <1>5, <1>6, <1>7, <1>8, <1>9 DEF DispNext

\* The sweep's and the reconciler's commits enqueue, and nothing else writes
\* the table.
LEMMA LoopDeliveries ==
  ASSUME TypeInv, PayeesExist, PassStillGood, DeliveryInv,
         World \/ Requesting \/ Processing \/ Sweeping \/ Verifying
  PROVE  DeliveryInv' /\ UNCHANGED disp
<1>0. Orderly(deliveries) /\ UNCHANGED disp
  BY TableOrderly DEF World, Requesting, Processing, Sweeping, Verifying, sessions
<1> SUFFICES DeliveryInv'
  BY <1>0
<1>1. ASSUME UNCHANGED deliveries PROVE DeliveryInv'
  BY <1>0, <1>1, DeliveriesGrow
<1>2. CASE World \/ Requesting \/ Processing
  <2>1. CASE World
    <3>1. UNCHANGED deliveries
      BY <2>1 DEF World, ChainNext, MineBlock, Reorg, tables
    <3> QED
      BY <1>1, <3>1
  <2>2. CASE Requesting
    <3>1. UNCHANGED deliveries
      BY <2>2 DEF Requesting, IntakeNext, Creating, Arriving, CreateInvoice, ElapseTtl,
                  IngestEvents
    <3> QED
      BY <1>1, <3>1
  <2>3. CASE Processing
    BY <1>1, <2>3 DEF Processing, ProcNext, MatchEvent, MissEvent, CreditEvent, SkipEvent,
                      AbortProcessor, tables
  <2> QED
    BY <1>2, <2>1, <2>2, <2>3
<1>3. CASE Sweeping
  <2>1. CASE CommitSweep
    <3>1. /\ swp.expiring \in SUBSET InvoiceIds /\ swp.confirming \in SUBSET InvoiceIds
          /\ {"invoice.expired", "invoice.confirmed"} \subseteq NoticeType
      BY DEF TypeInv, TypeOK, SweepTypeOK, NoticeType
    <3>2. deliveries' = (deliveries \cup FirstRows(deliveries, swp.expiring, "invoice.expired"))
                          \cup FirstRows(deliveries, swp.confirming, "invoice.confirmed")
      BY <2>1, TableOrderly DEF CommitSweep
    <3>3. Orderly(deliveries')
      BY <1>0, <3>1, <3>2, BothEnqueued
    <3> QED
      BY <1>0, <3>2, <3>3, DeliveriesGrow
  <2> QED
    BY <1>1, <1>3, <2>1 DEF Sweeping, SweepNext, SelectAwaiting, SelectConfirming, AbortSweep,
                            tables
<1>4. CASE Verifying
  <2>1. CASE CommitPass
    <3>1. /\ recon.rescue \in SUBSET InvoiceIds /\ Reopened \in SUBSET InvoiceIds
          /\ {"invoice.confirmed", "invoice.reorgged"} \subseteq NoticeType
      BY DEF TypeInv, TypeOK, ReconTypeOK, NoticeType, PayeesExist, PassStillGood,
             LivePayments, Reopened, Undone
    <3>2. deliveries' = (deliveries \cup FirstRows(deliveries, recon.rescue, "invoice.confirmed"))
                          \cup FirstRows(deliveries, Reopened, "invoice.reorgged")
      BY <2>1, TableOrderly DEF CommitPass
    <3>3. Orderly(deliveries')
      BY <1>0, <3>1, <3>2, BothEnqueued
    <3> QED
      BY <1>0, <3>2, <3>3, DeliveriesGrow
  <2> QED
    BY <1>1, <1>4, <2>1 DEF Verifying, ReconNext, Rescue, ListPayments, KeepPayment,
                            LosePayment, BreakOff, AbortPass, tables
<1> QED
  BY <1>2, <1>3, <1>4

-----------------------------------------------------------------------------
Acknowledged(i) == \E d \in Notices(i, "invoice.confirmed") : d.status = "delivered"

\* Steps that write no delivery and confirm or settle nothing: what they load
\* into a session must be as the statuses say.
LEMMA StatusNotices ==
  ASSUME TypeInv, NoticeInv, DeliveryInv', UNCHANGED <<deliveries, disp>>, SweepStillGood',
         \A i \in recon'.rescue : Told(i),
         \A i \in InvoiceIds :
           /\ invoices'[i].status \in {"CONFIRMED", "SETTLED"} =>
                invoices'[i].status = invoices[i].status
           /\ /\ ~Reorged(i)
              /\ \/ invoices'[i].status \notin {"CONFIRMED", "SETTLED"}
                 \/ i \in swp'.expiring \cup swp'.confirming \cup {proc'.invoice}
              => ~Told(i)
  PROVE  NoticeInv'
<1>1. \A i, type : Notices(i, type)' = Notices(i, type)
  BY DEF Notices
<1>2. \A i : (Told(i)' <=> Told(i)) /\ (Reorged(i)' <=> Reorged(i))
  BY <1>1 DEF Told, Reorged
<1>3. \A d \in disp.posted : d.invoice \in InvoiceIds
  BY DEF TypeInv, TypeOK, DispTypeOK, DeliveryRow
<1>4. ConfirmedIsTold'
  BY <1>2 DEF NoticeInv, ConfirmedIsTold, InStatus
<1>5. SettledWasAcknowledged'
  BY <1>1 DEF NoticeInv, SettledWasAcknowledged, InStatus
<1>6. UntoldUntilConfirmed'
  BY <1>2 DEF UntoldUntilConfirmed
<1>7. LateAnswerSettled'
  BY <1>2, <1>3 DEF NoticeInv, LateAnswerSettled
<1>8. DeliveredMeansSettled'
  BY <1>1 DEF NoticeInv, DeliveredMeansSettled, InStatus
<1> QED
  BY <1>4, <1>5, <1>6, <1>7, <1>8 DEF NoticeInv

\* No status, and no session that is about to write one, changes.
LEMMA NoticesKept ==
  ASSUME TypeInv, NoticeInv, DeliveryInv', UNCHANGED <<deliveries, disp, invoices, swp>>,
         proc'.invoice \in {proc.invoice, NoInvoice},
         recon'.rescue \subseteq recon.rescue \cup {i \in InvoiceIds : Told(i)}
  PROVE  NoticeInv'
<1>1. SweepStillGood'
  BY DEF NoticeInv, SweepStillGood, Reorged, Notices
<1>2. \A i \in recon'.rescue : Told(i)
  BY DEF NoticeInv, ConfirmedIsTold
<1>3. \A i \in InvoiceIds : i # NoInvoice
  BY IdsAssumption DEF NoInvoice
<1>4. \A i \in InvoiceIds :
        /\ ~Reorged(i)
        /\ \/ invoices'[i].status \notin {"CONFIRMED", "SETTLED"}
           \/ i \in swp'.expiring \cup swp'.confirming \cup {proc'.invoice}
        => ~Told(i)
  BY <1>3 DEF NoticeInv, UntoldUntilConfirmed
<1> QED
  BY <1>1, <1>2, <1>4, StatusNotices

\* The chain and the API: a new invoice was never announced.
LEMMA WorldNotices ==
  ASSUME TypeInv, NoticeInv, DeliveryInv', World \/ Requesting
  PROVE  NoticeInv'
<1>0. UNCHANGED sessions /\ UNCHANGED <<proc, swp, disp, recon>>
  BY DEF World, Requesting, sessions
<1>1. ASSUME UNCHANGED <<invoices, deliveries>> PROVE NoticeInv'
  BY <1>0, <1>1, NoticesKept
<1>2. CASE World
  BY <1>1, <1>2 DEF World, ChainNext, MineBlock, Reorg, tables
<1>3. ASSUME NEW i \in InvoiceIds, NEW r \in Requests, CreateInvoice(i, r) PROVE NoticeInv'
  <2>1. /\ invoices[i].status = "absent" /\ invoices'[i].status = "AWAITING_PAYMENT"
        /\ \A j \in InvoiceIds \ {i} : invoices'[j] = invoices[j]
        /\ UNCHANGED deliveries
    BY <1>3 DEF CreateInvoice, TypeInv, TypeOK, StoreTypeOK, AbsentInvoice
  <2>2. SweepStillGood'
    <3>1. \A j : Reorged(j)' <=> Reorged(j)
      BY <2>1 DEF Reorged, Notices
    <3>2. swp.confirming \subseteq InvoiceIds
      BY DEF TypeInv, TypeOK, SweepTypeOK
    <3> QED
      BY <1>0, <2>1, <3>1, <3>2 DEF NoticeInv, SweepStillGood
  <2>3. \A j \in recon'.rescue : Told(j)
    BY <1>0 DEF NoticeInv, ConfirmedIsTold
  <2> QED
    BY <1>0, <2>1, <2>2, <2>3, StatusNotices DEF NoticeInv, UntoldUntilConfirmed
<1>4. CASE Requesting
  BY <1>1, <1>3, <1>4 DEF Requesting, IntakeNext, Creating, Arriving, ElapseTtl, IngestEvents
<1> QED
  BY <1>2, <1>4

\* The processor matches an open invoice, never announced before its first
\* rollback, and keeps it so until the credit.
LEMMA ProcessorNotices ==
  ASSUME TypeInv, MoneyInv, NoticeInv, DeliveryInv', Processing
  PROVE  NoticeInv'
<1>0. ProcNext /\ UNCHANGED <<swp, disp, recon>>
  BY DEF Processing
<1>1. ASSUME UNCHANGED <<invoices, deliveries>>, proc'.invoice \in {proc.invoice, NoInvoice}
      PROVE  NoticeInv'
  BY <1>0, <1>1, NoticesKept
<1>2. \A j : deliveries' = deliveries => (Reorged(j)' <=> Reorged(j))
  BY DEF Reorged, Notices
<1>3. \A j \in recon'.rescue : Told(j)
  BY <1>0 DEF NoticeInv, ConfirmedIsTold
<1>4. \A j \in InvoiceIds : j # NoInvoice
  BY IdsAssumption DEF NoInvoice
<1>5. ASSUME NEW l \in Logs, NEW i \in InvoiceIds, MatchEvent(l, i) PROVE NoticeInv'
  <2>1. invoices[i].status = "AWAITING_PAYMENT" /\ proc'.invoice = i
        /\ UNCHANGED <<invoices, deliveries>>
    BY <1>5 DEF MatchEvent, Matching, InStatus, tables
  <2>2. SweepStillGood'
    BY <1>0, <1>2, <2>1 DEF NoticeInv, SweepStillGood
  <2> QED
    BY <1>0, <1>3, <2>1, <2>2, StatusNotices DEF NoticeInv, UntoldUntilConfirmed
<1>6. CASE CreditEvent
  <2>1. /\ proc.invoice \in InvoiceIds
        /\ invoices'[proc.invoice].status = "CONFIRMING"
        /\ \A j \in InvoiceIds \ {proc.invoice} : invoices'[j] = invoices[j]
        /\ proc'.invoice = NoInvoice /\ UNCHANGED deliveries
    BY <1>6, CreditWrites DEF CreditEvent, ProcIdle
  <2>2. SweepStillGood'
    <3>1. swp.confirming \subseteq InvoiceIds
      BY DEF TypeInv, TypeOK, SweepTypeOK
    <3> QED
      BY <1>0, <1>2, <2>1, <3>1 DEF NoticeInv, SweepStillGood
  <2> QED
    BY <1>0, <1>3, <1>4, <2>1, <2>2, StatusNotices DEF NoticeInv, UntoldUntilConfirmed
<1>7. ASSUME NEW l \in Logs, MissEvent(l) PROVE NoticeInv'
  BY <1>1, <1>7 DEF MissEvent, ProcIdle, tables
<1>8. CASE SkipEvent \/ AbortProcessor
  BY <1>1, <1>8 DEF SkipEvent, AbortProcessor, ProcIdle, tables
<1> QED
  BY <1>0, <1>5, <1>6, <1>7, <1>8 DEF ProcNext

\* The rows enqueue() adds.
LEMMA EnqueuedRows ==
  ASSUME NEW U, NEW t
  PROVE  /\ \A d \in Enqueued(U, t) : /\ d.type = t /\ d.status = "pending" /\ d.due
                                      /\ d.invoice \in U
         /\ \A i \in U : \E d \in Enqueued(U, t) : d.invoice = i /\ d.type = t
<1> DEFINE row(i) == [invoice |-> i, type |-> t, attempt |-> 1,
                      round |-> 1 + Cardinality({d \in Notices(i, t) : d.attempt = 1}),
                      status |-> "pending", due |-> TRUE]
<1>1. Enqueued(U, t) = {row(i) : i \in U}
  BY DEF Enqueued
<1>2. \A i : row(i).type = t /\ row(i).status = "pending" /\ row(i).due /\ row(i).invoice = i
  OBVIOUS
<1> HIDE DEF row
<1>3. ASSUME NEW d \in Enqueued(U, t)
      PROVE  d.type = t /\ d.status = "pending" /\ d.due /\ d.invoice \in U
  <2>1. PICK i \in U : d = row(i)
    BY <1>1
  <2> QED
    BY <1>2, <2>1
<1> QED
  BY <1>1, <1>2, <1>3

\* What the two enqueues of a commit mean for each invoice.
LEMMA EnqueuedNotices ==
  ASSUME NEW S, NEW T, NEW s, s # "invoice.confirmed",
         deliveries' = deliveries \cup Enqueued(S, "invoice.confirmed") \cup Enqueued(T, s)
  PROVE  \A i :
           /\ Told(i)' <=> Told(i) \/ i \in S
           /\ Reorged(i)' <=> Reorged(i) \/ (s = "invoice.reorgged" /\ i \in T)
           /\ Acknowledged(i)' <=> Acknowledged(i)
<1>1. /\ \A d \in Enqueued(S, "invoice.confirmed") :
           d.type = "invoice.confirmed" /\ d.status = "pending" /\ d.invoice \in S
      /\ \A d \in Enqueued(T, s) : d.type = s /\ d.status = "pending" /\ d.invoice \in T
  BY EnqueuedRows
<1>2. /\ \A i \in S : \E d \in Enqueued(S, "invoice.confirmed") :
                      d.invoice = i /\ d.type = "invoice.confirmed"
      /\ \A i \in T : \E d \in Enqueued(T, s) : d.invoice = i /\ d.type = s
  BY EnqueuedRows
<1>3. "invoice.confirmed" # "invoice.reorgged" /\ "pending" # "delivered"
  OBVIOUS
<1> SUFFICES ASSUME NEW i
             PROVE  /\ Told(i)' <=> Told(i) \/ i \in S
                    /\ Reorged(i)' <=> Reorged(i) \/ (s = "invoice.reorgged" /\ i \in T)
                    /\ Acknowledged(i)' <=> Acknowledged(i)
  OBVIOUS
<1>4. Told(i)' <=> Told(i) \/ i \in S
  BY <1>1, <1>2 DEF Told, Notices
<1>5. Reorged(i)' <=> Reorged(i) \/ (s = "invoice.reorgged" /\ i \in T)
  BY <1>1, <1>2, <1>3 DEF Reorged, Notices
<1>6. Acknowledged(i)' <=> Acknowledged(i)
  BY <1>1, <1>3 DEF Acknowledged, Notices
<1> QED
  BY <1>4, <1>5, <1>6

\* The statuses the sweep's commit leaves.
LEMMA SweepStatuses ==
  ASSUME TypeInv, SweepStillGood, CommitSweep
  PROVE  \A i \in InvoiceIds :
           invoices'[i].status = IF i \in swp.expiring THEN "EXPIRED"
                                 ELSE IF i \in swp.confirming THEN "CONFIRMED"
                                 ELSE invoices[i].status
<1> SUFFICES ASSUME NEW i \in InvoiceIds
             PROVE  invoices'[i].status = IF i \in swp.expiring THEN "EXPIRED"
                                          ELSE IF i \in swp.confirming THEN "CONFIRMED"
                                          ELSE invoices[i].status
  OBVIOUS
<1>1. CASE i \in swp.confirming
  <2>1. i \notin swp.expiring /\ swp.rows[i].status = "CONFIRMING"
    BY <1>1 DEF SweepStillGood
  <2>2. Confirmed(swp.rows[i]).status = "CONFIRMED"
    BY DEF Confirmed, InvoiceRow, TypeInv, TypeOK, SweepTypeOK
  <2>3. invoices'[i] = Flush(invoices[i], swp.rows[i], Confirmed(swp.rows[i]))
    BY <1>1, <2>1 DEF CommitSweep
  <2> QED
    BY <1>1, <2>1, <2>2, <2>3 DEF Flush, Column
<1>2. CASE i \notin swp.confirming
  BY <1>2, SweepWrites
<1> QED
  BY <1>1, <1>2

\* The sweep confirms and announces in one commit; what it confirms was never
\* announced before, unless it was rolled back.
LEMMA SweepNotices ==
  ASSUME TypeInv, MoneyInv, DepthInv, NoticeInv, DeliveryInv', Sweeping
  PROVE  NoticeInv'
<1>0. SweepNext /\ UNCHANGED <<proc, disp, recon>>
  BY DEF Sweeping
<1>1. \A i \in recon'.rescue : Told(i)
  BY <1>0 DEF NoticeInv, ConfirmedIsTold
<1>2. /\ swp.expiring \subseteq InvoiceIds /\ swp.confirming \subseteq InvoiceIds
  BY DEF TypeInv, TypeOK, SweepTypeOK
<1>3. ASSUME UNCHANGED tables, SweepStillGood',
             \A i \in swp'.expiring \cup swp'.confirming :
               \/ i \in swp.expiring \cup swp.confirming
               \/ invoices[i].status \notin {"CONFIRMED", "SETTLED"}
      PROVE  NoticeInv'
  BY <1>0, <1>1, <1>3, StatusNotices DEF NoticeInv, UntoldUntilConfirmed, tables
<1>4. ASSUME NEW latest, SelectAwaiting(latest) PROVE NoticeInv'
  <2>1. /\ swp'.expiring \subseteq InStatus("AWAITING_PAYMENT")
        /\ swp'.expiring \subseteq swp'.awaiting
        /\ swp'.confirming = {} /\ UNCHANGED tables
    BY <1>4 DEF SelectAwaiting, SweepIdle
  <2>2. SweepStillGood'
    BY <2>1 DEF SweepStillGood
  <2>3. \A i \in swp'.expiring : invoices[i].status = "AWAITING_PAYMENT"
    BY <2>1 DEF InStatus
  <2> QED
    BY <1>3, <2>1, <2>2, <2>3
<1>5. CASE SelectConfirming
  <2>1. /\ swp'.pc = "depth" /\ swp'.expiring = swp.expiring /\ swp'.confirming = Deep
        /\ swp'.rows = [i \in InvoiceIds |-> IF i \in Deep THEN invoices[i] ELSE AbsentInvoice]
        /\ UNCHANGED tables /\ swp.expiring \subseteq swp.awaiting
    BY <1>5 DEF SelectConfirming, SweepIdle, NoticeInv, SweepStillGood
  <2>2. /\ \A i \in Deep : i \in InvoiceIds /\ invoices[i].status = "CONFIRMING"
        /\ Deep \cap swp.awaiting = {}
    BY DEF Deep, InStatus
  <2>3. SweepStillGood'
    BY <2>1, <2>2 DEF SweepStillGood, tables
  <2> QED
    BY <1>3, <2>1, <2>2, <2>3
<1>6. CASE AbortSweep
  <2>1. SweepStillGood' /\ swp'.expiring \cup swp'.confirming = {} /\ UNCHANGED tables
    BY <1>6 DEF AbortSweep, SweepIdle, SweepStillGood
  <2> QED
    BY <1>3, <2>1
<1>7. CASE CommitSweep
  <2>1. /\ swp'.pc = "idle" /\ swp'.expiring = {} /\ swp'.confirming = {}
        /\ deliveries' = deliveries \cup Enqueued(swp.confirming, "invoice.confirmed")
                                   \cup Enqueued(swp.expiring, "invoice.expired")
    BY <1>7 DEF CommitSweep, SweepIdle
  <2>2. \A i : /\ Told(i)' <=> Told(i) \/ i \in swp.confirming
               /\ Reorged(i)' <=> Reorged(i)
               /\ Acknowledged(i)' <=> Acknowledged(i)
    BY <2>1, EnqueuedNotices
  <2>3. /\ swp.expiring \cap swp.confirming = {}
        /\ \A i \in swp.confirming : /\ swp.rows[i].status = "CONFIRMING"
                                     /\ Reorged(i) \/ invoices[i].status = "CONFIRMING"
    BY DEF NoticeInv, SweepStillGood
  <2>4. \A i \in InvoiceIds :
          invoices'[i].status = IF i \in swp.expiring THEN "EXPIRED"
                                ELSE IF i \in swp.confirming THEN "CONFIRMED"
                                ELSE invoices[i].status
    BY <1>7, SweepStatuses DEF NoticeInv
  <2>5. ASSUME NEW i \in swp.confirming, ~Reorged(i) PROVE ~Told(i) /\ i # proc.invoice
    <3>1. i \in InvoiceIds /\ invoices[i].status = "CONFIRMING"
      BY <1>2, <2>3, <2>5
    <3>2. Paying(i) # {}
      BY <3>1 DEF DepthInv, ConfirmingIsPaid, InStatus
    <3>3. i = proc.invoice => Paying(i) = {}
      <4>1. proc.invoice # NoInvoice => proc.log # NoLog
        BY DEF TypeInv, TypeOK, ProcTypeOK
      <4>2. i # NoInvoice
        BY <3>1, IdsAssumption DEF NoInvoice
      <4> QED
        BY <4>1, <4>2 DEF MoneyInv, MatchStillGood
    <3> QED
      BY <2>5, <3>1, <3>2, <3>3 DEF NoticeInv, UntoldUntilConfirmed
  <2>6. \A i \in InvoiceIds : Acknowledged(i) => Told(i)
    BY DEF Acknowledged, Told
  <2>7. ConfirmedIsTold'
    BY <1>0, <1>1, <2>2, <2>4 DEF NoticeInv, ConfirmedIsTold, InStatus
  <2>8. SettledWasAcknowledged'
    BY <2>2, <2>4 DEF NoticeInv, SettledWasAcknowledged, Acknowledged, InStatus
  <2>9. UntoldUntilConfirmed'
    <3> SUFFICES ASSUME NEW i \in InvoiceIds, ~Reorged(i),
                        \/ invoices'[i].status \notin {"CONFIRMED", "SETTLED"}
                        \/ i = proc.invoice
                 PROVE  ~Told(i) /\ i \notin swp.confirming
      BY <1>0, <2>1, <2>2 DEF UntoldUntilConfirmed
    <3>1. i \notin swp.confirming
      BY <2>3, <2>4, <2>5
    <3> QED
      BY <2>4, <3>1 DEF NoticeInv, UntoldUntilConfirmed
  <2>10. LateAnswerSettled'
    <3> SUFFICES ASSUME NEW d \in disp.posted, disp.ok, ~disp.settles,
                        d.type = "invoice.confirmed", ~Reorged(d.invoice)
                 PROVE  invoices'[d.invoice].status # "CONFIRMED"
      BY <1>0, <2>2 DEF LateAnswerSettled
    <3>1. d \in deliveries /\ d.invoice \in InvoiceIds
      BY DEF NoticeInv, DeliveryInv, PostedStillDue, Due, TypeInv, TypeOK, DispTypeOK, DeliveryRow
    <3>2. Told(d.invoice) /\ invoices[d.invoice].status # "CONFIRMED"
      BY <3>1 DEF Told, Notices, NoticeInv, LateAnswerSettled
    <3> QED
      BY <2>4, <2>5, <3>1, <3>2
  <2>11. SweepStillGood'
    BY <2>1 DEF SweepStillGood
  <2>12. DeliveredMeansSettled'
    <3> SUFFICES ASSUME NEW i \in InvoiceIds, invoices'[i].status = "CONFIRMED", Acknowledged(i)
                 PROVE  Reorged(i)
      BY <2>2 DEF DeliveredMeansSettled, Acknowledged, Reorged, InStatus
    <3>1. CASE i \in swp.confirming
      BY <2>5, <2>6, <3>1
    <3>2. CASE i \notin swp.confirming
      <4>1. invoices[i].status = "CONFIRMED"
        BY <2>4, <3>2
      <4> QED
        BY <4>1 DEF NoticeInv, DeliveredMeansSettled, Acknowledged, Reorged, InStatus
    <3> QED
      BY <3>1, <3>2
  <2> QED
    BY <2>7, <2>8, <2>9, <2>10, <2>11, <2>12 DEF NoticeInv
<1> QED
  BY <1>0, <1>4, <1>5, <1>6, <1>7 DEF SweepNext

\* The dispatcher replaces rows by rows of the same notification, adds retries
\* of a type and the settlement, and reopens nothing.
LEMMA DispatchRows ==
  ASSUME TypeInv, DeliveryInv, Sending
  PROVE  \A i :
           /\ Told(i)' <=> Told(i)
           /\ Reorged(i)' <=> Reorged(i)
           /\ (\A d \in Notices(i, "invoice.confirmed") : d.status = "failed") =>
                (\A d \in Notices(i, "invoice.confirmed")' : d.status = "failed")
           /\ Acknowledged(i) => Acknowledged(i)'
           /\ Acknowledged(i)' =>
                \/ Acknowledged(i)
                \/ \E d \in disp.posted : /\ d.invoice = i /\ d.type = "invoice.confirmed"
                                          /\ CommitDelivered(d)
<1> DEFINE Same(d, e) == e.invoice = d.invoice /\ e.type = d.type
           Delivering(d) == d \in disp.posted /\ CommitDelivered(d)
           Grown == \A d \in deliveries : \E e \in deliveries' :
                      Same(d, e) /\ (d.status = "delivered" => e.status = "delivered")
           Known == \A e \in deliveries' :
                      \/ e.type = "invoice.settled"
                      \/ \E d \in deliveries :
                           /\ Same(d, e)
                           /\ \/ e.status = d.status
                              \/ d.status = "pending" /\ (e.status = "delivered" => Delivering(d))
<1>1. deliveries \subseteq DeliveryRow /\ disp.posted \subseteq Due
  BY DEF TypeInv, TypeOK, StoreTypeOK, DeliveryInv, PostedStillDue
<1>2. DispNext
  BY DEF Sending
<1>3. ASSUME NEW d \in deliveries, d.status = "pending", NEW status \in {"delivered", "failed"},
             NEW R, deliveries' = Finish(d, status) \cup R,
             \A e \in R : e.type = "invoice.settled" \/ (Same(d, e) /\ e.status # "delivered"),
             status = "delivered" => Delivering(d)
      PROVE  Grown /\ Known
  <2>1. PICK r : r = [d EXCEPT !.status = status]
    OBVIOUS
  <2>2. r.invoice = d.invoice /\ r.type = d.type /\ r.status = status
    BY <1>1, <2>1 DEF DeliveryRow
  <2>3. deliveries' = ((deliveries \ {d}) \cup {r}) \cup R
    BY <1>3, <2>1 DEF Finish
  <2> QED
    BY <1>3, <2>2, <2>3
<1>4. ASSUME UNCHANGED deliveries PROVE Grown /\ Known
  BY <1>4
<1>5. Grown /\ Known
  <2>1. ASSUME NEW d \in Due, RefuseDelivery(d) PROVE Grown /\ Known
    <3>1. d \in deliveries /\ d.status = "pending"
      BY <2>1 DEF Due
    <3>2. PICK R : R = {} /\ deliveries' = Finish(d, "failed") \cup R
      BY <2>1 DEF RefuseDelivery
    <3>3. \A e \in R : e.type = "invoice.settled"
      BY <3>2
    <3> QED
      BY <1>3, <3>1, <3>2, <3>3
  <2>2. ASSUME NEW d \in Due, NEW ok \in BOOLEAN, PostDelivery(d, ok) PROVE Grown /\ Known
    BY <1>4, <2>2 DEF PostDelivery, tables
  <2>3. ASSUME NEW d \in disp.posted, CommitDelivered(d) PROVE Grown /\ Known
    <3>1. d \in deliveries /\ d.status = "pending" /\ Delivering(d)
      BY <1>1, <2>3 DEF Due
    <3>2. PICK R : /\ deliveries' = Finish(d, "delivered") \cup R
                   /\ R \in {{}, Enqueued({d.invoice}, "invoice.settled")}
      BY <2>3 DEF CommitDelivered
    <3>3. \A e \in R : e.type = "invoice.settled"
      BY <3>2, EnqueuedRows
    <3> QED
      BY <1>3, <3>1, <3>2, <3>3
  <2>4. ASSUME NEW d \in disp.posted, CommitFailed(d) PROVE Grown /\ Known
    <3>1. d \in deliveries /\ d.status = "pending" /\ d \in DeliveryRow
      BY <1>1 DEF Due
    <3>2. PICK r : r = [d EXCEPT !.attempt = @ + 1, !.due = FALSE]
      OBVIOUS
    <3>3. r.invoice = d.invoice /\ r.type = d.type /\ r.status = "pending"
      BY <3>1, <3>2 DEF DeliveryRow
    <3>4. PICK R : R = IF d.attempt < MaxAttempts THEN {r} ELSE {}
      OBVIOUS
    <3>5. deliveries' = Finish(d, "failed") \cup R /\ R \subseteq {r}
      BY <2>4, <3>2, <3>4 DEF CommitFailed
    <3> QED
      BY <1>3, <3>1, <3>3, <3>5
  <2>5. CASE AbortDispatch
    BY <1>4, <2>5 DEF AbortDispatch, tables
  <2>6. ASSUME NEW d \in deliveries, ElapseBackoff(d) PROVE Grown /\ Known
    <3>1. PICK r : r = [d EXCEPT !.due = TRUE]
      OBVIOUS
    <3>2. r.invoice = d.invoice /\ r.type = d.type /\ r.status = d.status
      BY <1>1, <3>1 DEF DeliveryRow
    <3>3. deliveries' = (deliveries \ {d}) \cup {r}
      BY <2>6, <3>1 DEF ElapseBackoff
    <3> QED
      BY <3>2, <3>3
  <2> QED
    BY <1>2, <2>1, <2>2, <2>3, <2>4, <2>5, <2>6 DEF DispNext
<1> SUFFICES ASSUME NEW i
             PROVE  /\ Told(i)' <=> Told(i)
                    /\ Reorged(i)' <=> Reorged(i)
                    /\ (\A d \in Notices(i, "invoice.confirmed") : d.status = "failed") =>
                         (\A d \in Notices(i, "invoice.confirmed")' : d.status = "failed")
                    /\ Acknowledged(i) => Acknowledged(i)'
                    /\ Acknowledged(i)' =>
                         \/ Acknowledged(i)
                         \/ \E d \in disp.posted : /\ d.invoice = i /\ d.type = "invoice.confirmed"
                                                   /\ CommitDelivered(d)
  OBVIOUS
<1>6. /\ Told(i) <=> \E d \in deliveries : d.invoice = i /\ d.type = "invoice.confirmed"
      /\ Told(i)' <=> \E d \in deliveries' : d.invoice = i /\ d.type = "invoice.confirmed"
  BY DEF Told, Notices
<1>7. /\ Reorged(i) <=> \E d \in deliveries : d.invoice = i /\ d.type = "invoice.reorgged"
      /\ Reorged(i)' <=> \E d \in deliveries' : d.invoice = i /\ d.type = "invoice.reorgged"
  BY DEF Reorged, Notices
<1>8. /\ Acknowledged(i) <=> \E d \in deliveries : /\ d.invoice = i /\ d.type = "invoice.confirmed"
                                                   /\ d.status = "delivered"
      /\ Acknowledged(i)' <=> \E d \in deliveries' :
                                /\ d.invoice = i /\ d.type = "invoice.confirmed"
                                /\ d.status = "delivered"
  BY DEF Acknowledged, Notices
<1>9. Told(i)' <=> Told(i)
  BY <1>5, <1>6
<1>10. Reorged(i)' <=> Reorged(i)
  BY <1>5, <1>7
<1>11. Acknowledged(i) => Acknowledged(i)'
  BY <1>5, <1>8
<1>12. Acknowledged(i)' => \/ Acknowledged(i)
                           \/ \E d \in disp.posted : /\ d.invoice = i
                                                     /\ d.type = "invoice.confirmed"
                                                     /\ CommitDelivered(d)
  BY <1>5, <1>8
<1>13. ASSUME \A d \in Notices(i, "invoice.confirmed") : d.status = "failed"
       PROVE  \A d \in Notices(i, "invoice.confirmed")' : d.status = "failed"
  BY <1>5, <1>13 DEF Notices
<1> QED
  BY <1>9, <1>10, <1>11, <1>12, <1>13

\* An acknowledged confirmation settles the invoice in the same commit, unless
\* it is not CONFIRMED, or no longer, for want of its payment.
LEMMA DispatchNotices ==
  ASSUME TypeInv, NoticeInv, DeliveryInv', Sending
  PROVE  NoticeInv'
<1>0. DispNext /\ UNCHANGED <<proc, swp, recon>>
  BY DEF Sending
<1>1. \A i : /\ Told(i)' <=> Told(i)
             /\ Reorged(i)' <=> Reorged(i)
             /\ Acknowledged(i) => Acknowledged(i)'
             /\ Acknowledged(i)' =>
                  \/ Acknowledged(i)
                  \/ \E d \in disp.posted : /\ d.invoice = i /\ d.type = "invoice.confirmed"
                                            /\ CommitDelivered(d)
  BY DispatchRows DEF NoticeInv
<1>2. \A d \in disp.posted : /\ d \in deliveries /\ d.invoice \in InvoiceIds
                             /\ disp.settles => d.type = "invoice.confirmed" /\ Told(d.invoice)
  BY DEF NoticeInv, DeliveryInv, PostedStillDue, Due, TypeInv, TypeOK, DispTypeOK, DeliveryRow,
         Told, Notices
<1>3. LateAnswerSettled'
  <2>1. ASSUME NEW d \in Due, NEW ok \in BOOLEAN, PostDelivery(d, ok) PROVE LateAnswerSettled'
    BY <2>1 DEF PostDelivery, LateAnswerSettled, tables
  <2>2. ASSUME disp'.posted = {} PROVE LateAnswerSettled'
    BY <2>2 DEF LateAnswerSettled
  <2>3. ASSUME NEW d \in Due, RefuseDelivery(d) PROVE LateAnswerSettled'
    BY <2>2, <2>3 DEF RefuseDelivery
  <2>4. ASSUME NEW d, CommitDelivered(d) \/ CommitFailed(d) PROVE LateAnswerSettled'
    BY <2>2, <2>4 DEF CommitDelivered, CommitFailed, NoAnswer
  <2>5. CASE AbortDispatch
    BY <2>2, <2>5 DEF AbortDispatch, NoAnswer
  <2>6. ASSUME NEW d \in deliveries, ElapseBackoff(d) PROVE LateAnswerSettled'
    BY <1>1, <2>6 DEF ElapseBackoff, NoticeInv, LateAnswerSettled
  <2> QED
    BY <1>0, <2>1, <2>3, <2>4, <2>5, <2>6 DEF DispNext
<1>4. CASE ~\E d \in disp.posted : CommitDelivered(d)
  <2>1. UNCHANGED invoices
    BY <1>0, <1>4 DEF DispNext, RefuseDelivery, PostDelivery, CommitFailed, AbortDispatch,
                      ElapseBackoff, tables
  <2>2. \A i : Acknowledged(i)' <=> Acknowledged(i)
    BY <1>1, <1>4
  <2>3. ConfirmedIsTold' /\ UntoldUntilConfirmed' /\ SweepStillGood'
    BY <1>0, <1>1, <2>1 DEF NoticeInv, ConfirmedIsTold, UntoldUntilConfirmed, SweepStillGood,
                            InStatus
  <2>4. SettledWasAcknowledged' /\ DeliveredMeansSettled'
    BY <1>1, <2>1, <2>2 DEF NoticeInv, SettledWasAcknowledged, DeliveredMeansSettled,
                            Acknowledged, Reorged, InStatus
  <2> QED
    BY <1>3, <2>3, <2>4 DEF NoticeInv
<1>5. ASSUME NEW d \in disp.posted, CommitDelivered(d) PROVE NoticeInv'
  <2>1. \A i \in InvoiceIds :
          invoices'[i].status = IF disp.settles /\ i = d.invoice
                                  THEN "SETTLED" ELSE invoices[i].status
    BY <1>5, SettleWrites
  <2>2. disp.ok /\ d.invoice \in InvoiceIds /\ (disp.settles => Told(d.invoice))
    BY <1>2, <1>5 DEF CommitDelivered
  <2>3. ConfirmedIsTold'
    BY <1>0, <1>1, <2>1 DEF NoticeInv, ConfirmedIsTold, InStatus
  <2>4. UntoldUntilConfirmed'
    BY <1>0, <1>1, <2>1 DEF NoticeInv, UntoldUntilConfirmed
  <2>5. SweepStillGood'
    <3> SUFFICES ASSUME NEW i \in swp.confirming
                 PROVE  /\ swp.rows[i].status = "CONFIRMING"
                        /\ Reorged(i) \/ invoices'[i].status = "CONFIRMING"
      BY <1>0, <1>1 DEF NoticeInv, SweepStillGood
    <3>1. /\ i \in InvoiceIds /\ swp.rows[i].status = "CONFIRMING"
          /\ Reorged(i) \/ invoices[i].status = "CONFIRMING"
      BY DEF NoticeInv, SweepStillGood, TypeInv, TypeOK, SweepTypeOK
    <3> QED
      BY <2>1, <2>2, <3>1 DEF NoticeInv, UntoldUntilConfirmed
  <2>6. SettledWasAcknowledged'
    <3>1. ASSUME disp.settles PROVE Acknowledged(d.invoice)'
      <4>1. PICK r : r = [d EXCEPT !.status = "delivered"]
        OBVIOUS
      <4>2. r.invoice = d.invoice /\ r.type = "invoice.confirmed" /\ r.status = "delivered"
        BY <1>2, <3>1, <4>1 DEF TypeInv, TypeOK, DispTypeOK, DeliveryRow
      <4>3. r \in deliveries'
        BY <1>5, <3>1, <4>1 DEF CommitDelivered, Finish
      <4> QED
        BY <4>2, <4>3 DEF Acknowledged, Notices
    <3> QED
      BY <1>1, <2>1, <3>1 DEF NoticeInv, SettledWasAcknowledged, Acknowledged, InStatus
  <2>7. DeliveredMeansSettled'
    <3> SUFFICES ASSUME NEW i \in InvoiceIds, invoices'[i].status = "CONFIRMED", Acknowledged(i)'
                 PROVE  Reorged(i)
      BY <1>1 DEF DeliveredMeansSettled, Acknowledged, Reorged, InStatus
    <3>1. invoices[i].status = "CONFIRMED" /\ ~(disp.settles /\ i = d.invoice)
      BY <2>1
    <3>2. CASE Acknowledged(i)
      BY <3>1, <3>2 DEF NoticeInv, DeliveredMeansSettled, Acknowledged, Reorged, InStatus
    <3>3. CASE ~Acknowledged(i)
      <4>1. PICK c \in disp.posted : c.invoice = i /\ c.type = "invoice.confirmed"
        BY <1>1, <3>3
      <4>2. c = d
        BY <4>1 DEF TypeInv, TypeOK, DispTypeOK
      <4> QED
        BY <2>2, <3>1, <4>1, <4>2 DEF NoticeInv, LateAnswerSettled
    <3> QED
      BY <3>2, <3>3
  <2> QED
    BY <1>3, <2>3, <2>4, <2>5, <2>6, <2>7 DEF NoticeInv
<1> QED
  BY <1>4, <1>5

\* The reconciler announces anew what was announced before, and reopens
\* invoices together with their reorganisation notices.
LEMMA PassNotices ==
  ASSUME TypeInv, MoneyInv, NoticeInv, DeliveryInv', Verifying
  PROVE  NoticeInv'
<1>0. ReconNext /\ UNCHANGED <<proc, swp, disp>>
  BY DEF Verifying
<1>1. ASSUME UNCHANGED tables,
             recon'.rescue \subseteq recon.rescue \cup {i \in InvoiceIds : Told(i)}
      PROVE  NoticeInv'
  BY <1>0, <1>1, NoticesKept DEF tables
<1>2. ASSUME NEW latest, NEW S, Rescue(latest, S) PROVE NoticeInv'
  <2>1. recon'.rescue = S /\ UNCHANGED tables
    BY <1>2 DEF Rescue, ReconIdle
  <2>2. \A i \in S : i \in InvoiceIds /\ Told(i)
    BY <1>2 DEF Rescue, Rescuable, Unnotified, InStatus, NoticeInv, ConfirmedIsTold
  <2> QED
    BY <1>1, <2>1, <2>2
<1>3. ASSUME NEW S, ListPayments(S) PROVE NoticeInv'
  <2>1. recon'.rescue = recon.rescue /\ UNCHANGED tables
    BY <1>3 DEF ListPayments, TypeInv, TypeOK, ReconTypeOK
  <2> QED
    BY <1>1, <2>1
<1>4. ASSUME NEW l \in recon.todo, KeepPayment(l) \/ LosePayment(l) PROVE NoticeInv'
  <2>1. recon'.rescue = recon.rescue /\ UNCHANGED tables
    BY <1>4 DEF KeepPayment, LosePayment, TypeInv, TypeOK, ReconTypeOK
  <2> QED
    BY <1>1, <2>1
<1>5. CASE BreakOff
  <2>1. recon'.rescue = recon.rescue /\ UNCHANGED tables
    BY <1>5 DEF BreakOff, TypeInv, TypeOK, ReconTypeOK
  <2> QED
    BY <1>1, <2>1
<1>6. CASE AbortPass
  <2>1. recon'.rescue = {} /\ UNCHANGED tables
    BY <1>6 DEF AbortPass, ReconIdle
  <2> QED
    BY <1>1, <2>1
<1>7. CASE CommitPass
  <2>1. /\ \A i \in InvoiceIds \ Reopened : invoices'[i].status = invoices[i].status
        /\ \A i \in Reopened : i \in InvoiceIds /\ invoices'[i].status = "AWAITING_PAYMENT"
    BY <1>7, PassWrites
  <2>2. /\ recon'.rescue = {}
        /\ deliveries' = deliveries \cup Enqueued(recon.rescue, "invoice.confirmed")
                                    \cup Enqueued(Reopened, "invoice.reorgged")
    BY <1>7 DEF CommitPass, ReconIdle
  <2>3. \A i : /\ Told(i)' <=> Told(i) \/ i \in recon.rescue
               /\ Reorged(i)' <=> Reorged(i) \/ i \in Reopened
               /\ Acknowledged(i)' <=> Acknowledged(i)
    BY <2>2, EnqueuedNotices
  <2>4. \A i : Told(i)' <=> Told(i)
    BY <2>3 DEF NoticeInv, ConfirmedIsTold
  <2>5. ConfirmedIsTold'
    BY <2>1, <2>2, <2>4 DEF NoticeInv, ConfirmedIsTold, InStatus
  <2>6. SettledWasAcknowledged'
    BY <2>1, <2>3 DEF NoticeInv, SettledWasAcknowledged, Acknowledged, InStatus
  <2>7. UntoldUntilConfirmed'
    BY <1>0, <2>1, <2>3, <2>4 DEF NoticeInv, UntoldUntilConfirmed
  <2>8. LateAnswerSettled'
    <3>1. \A d \in disp.posted : d.invoice \in InvoiceIds
      BY DEF TypeInv, TypeOK, DispTypeOK, DeliveryRow
    <3> QED
      BY <1>0, <2>1, <2>3, <3>1 DEF NoticeInv, LateAnswerSettled
  <2>9. SweepStillGood'
    <3>1. swp.confirming \subseteq InvoiceIds
      BY DEF TypeInv, TypeOK, SweepTypeOK
    <3> QED
      BY <1>0, <2>1, <2>3, <3>1 DEF NoticeInv, SweepStillGood
  <2>10. DeliveredMeansSettled'
    <3> SUFFICES ASSUME NEW i \in InvoiceIds, invoices'[i].status = "CONFIRMED", Acknowledged(i)
                 PROVE  Reorged(i)'
      BY <2>3 DEF DeliveredMeansSettled, Acknowledged, Reorged, InStatus
    <3>1. invoices[i].status = "CONFIRMED"
      BY <2>1
    <3>2. Reorged(i)
      BY <3>1 DEF NoticeInv, DeliveredMeansSettled, Acknowledged, Reorged, InStatus
    <3> QED
      BY <2>3, <3>2
  <2> QED
    BY <2>5, <2>6, <2>7, <2>8, <2>9, <2>10 DEF NoticeInv
<1> QED
  BY <1>0, <1>2, <1>3, <1>4, <1>5, <1>6, <1>7 DEF ReconNext

-----------------------------------------------------------------------------
\* The empty table is in order and tells nobody anything.
LEMMA InitNotices == Init => NoticeInv
<1> SUFFICES ASSUME Init PROVE NoticeInv
  OBVIOUS
<1>1. /\ deliveries = {} /\ disp.posted = {} /\ ~disp.settles /\ recon.rescue = {}
      /\ swp.pc = "idle" /\ swp.expiring = {} /\ swp.confirming = {}
      /\ \A i \in InvoiceIds : invoices[i].status = "absent"
  BY DEF Init, StoreInit, DispInit, NoAnswer, ReconInit, ReconIdle, SweepInit, SweepIdle,
         AbsentInvoice
<1>2. \A i, type : Notices(i, type) = {}
  BY <1>1 DEF Notices
<1> QED
  BY <1>1, <1>2 DEF NoticeInv, DeliveryInv, AttemptsInSequence, RoundsCounted, PostedStillDue,
                    ConfirmedIsTold, SettledWasAcknowledged, UntoldUntilConfirmed,
                    LateAnswerSettled, SweepStillGood, DeliveredMeansSettled, Told, InStatus

\* Every step of every loop keeps it.
LEMMA StepNotices == IInv /\ DepthInv /\ NoticeInv /\ [Next]_vars => NoticeInv'
<1> SUFFICES ASSUME IInv, DepthInv, NoticeInv, [Next]_vars PROVE NoticeInv'
  OBVIOUS
<1>0. TypeInv /\ MoneyInv /\ PayeesExist /\ PassStillGood /\ DeliveryInv
  BY DEF IInv, MoneyInv, NoticeInv
<1>1. CASE World \/ Requesting
  BY <1>0, <1>1, LoopDeliveries, WorldNotices
<1>2. CASE Processing
  BY <1>0, <1>2, LoopDeliveries, ProcessorNotices
<1>3. CASE Sweeping
  BY <1>0, <1>3, LoopDeliveries, SweepNotices
<1>4. CASE Sending
  BY <1>0, <1>4, DispatchDeliveries, DispatchNotices
<1>5. CASE Verifying
  BY <1>0, <1>5, LoopDeliveries, PassNotices
<1>6. CASE UNCHANGED vars
  <2>1. UNCHANGED <<deliveries, disp, invoices, swp, proc, recon>>
    BY <1>6 DEF vars, tables, sessions
  <2>2. DeliveryInv'
    BY <1>0, <2>1, TableOrderly, DeliveriesGrow
  <2> QED
    BY <1>0, <2>1, <2>2, NoticesKept
<1> QED
  BY <1>1, <1>2, <1>3, <1>4, <1>5, <1>6 DEF Next

\* In every behaviour the statuses, the notifications and what the open
\* sessions are about to write of them fit together.
THEOREM NoticeInvariance == Spec => []NoticeInv
BY InitNotices, StepNotices, Invariance, DepthInvariance, PTL DEF Spec

\* No crash, rescue or rollback forks, repeats or skips an attempt.
THEOREM AttemptsOrdered == Spec => []AttemptsInSequence
<1>1. NoticeInv => AttemptsInSequence
  BY DEF NoticeInv, DeliveryInv
<1> QED
  BY <1>1, NoticeInvariance, PTL

\* Every SETTLED invoice has a confirmation its merchant acknowledged.
THEOREM SettledAcknowledged == Spec => []SettledWasAcknowledged
<1>1. NoticeInv => SettledWasAcknowledged
  BY DEF NoticeInv
<1> QED
  BY <1>1, NoticeInvariance, PTL

\* An acknowledged confirmation leaves no invoice CONFIRMED, except one that
\* was rolled back before.
THEOREM DeliveredSettles == Spec => []DeliveredMeansSettled
<1>1. NoticeInv => DeliveredMeansSettled
  BY DEF NoticeInv
<1> QED
  BY <1>1, NoticeInvariance, PTL
=============================================================================
