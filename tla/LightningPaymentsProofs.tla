---------------------- MODULE LightningPaymentsProofs ----------------------
(***************************************************************************)
(* IInv is an inductive invariant of LightningPayments, for every set of   *)
(* hashes, attempts, amounts and fees and every bound.  The payment screen *)
(* implements LightningPayments, for every number of screens, dialogs and  *)
(* repeated PIN entries; so everything proved of payments holds of         *)
(* payments made through the screen.                                       *)
(***************************************************************************)
EXTENDS SendPaymentScreen, SequenceTheorems, TLAPS

\* What happened to an attempt is never taken back: a settled or failed attempt
\* stays so and a signed HTLC stays signed, with the same task.
Grows ==
    \A a \in Attempts :
        /\ st[a] = "succeeded" =>
             st'[a] = "succeeded" /\ task'[a] = task[a] /\ fee'[a] = fee[a]
        /\ st[a] = "failed" => st'[a] = "failed" /\ task'[a] = task[a]
        /\ Signed(a) => Signed(a)' /\ task'[a] = task[a]

\* What holds of every element of a queue holds of every element of its tail.
LEMMA TailElements ==
    ASSUME NEW S, NEW q \in Seq(S), q # <<>>, NEW G,
           \A i \in 1..Len(q) : q[i] \in G
    PROVE  Tail(q) \in Seq(S) /\ \A i \in 1..Len(Tail(q)) : Tail(q)[i] \in G
  <1>1. /\ Tail(q) \in Seq(S)
        /\ Len(Tail(q)) = Len(q) - 1
        /\ \A i \in 1..Len(Tail(q)) : Tail(q)[i] = q[i + 1]
    BY HeadTailProperties
  <1>2. ASSUME NEW i \in 1..Len(Tail(q))
        PROVE  Tail(q)[i] \in G
    <2>1. Len(q) \in Nat
      OBVIOUS
    <2>2. i + 1 \in 1..Len(q)
      BY <1>1, <2>1
    <2>3. Tail(q)[i] = q[i + 1]
      BY <1>1
    <2> QED
      BY <2>2, <2>3
  <1> QED
    BY <1>1, <1>2

\* Every value a mailbox holds is a message with the fields of its type.
LEMMA MessageTypes ==
    ASSUME NEW m \in Messages
    PROVE  /\ m.type = "ChannelSignatureSent" => m.htlcs \in SUBSET Attempts
           /\ m.type = "PaymentFailed" => m.hash \in Hashes
           /\ m.type = "PaymentSucceeded" => m.hash \in Hashes /\ m.amount \in Nat
  BY DEF Messages

\* A justified message stays justified while attempts only progress.
LEMMA MessageStaysOK ==
    ASSUME NEW m \in Messages, Grows, MessageOK(m)
    PROVE  MessageOK(m)'
  <1>1. m.type = "ChannelSignatureSent" => \A a \in m.htlcs : Signed(a)'
    BY MessageTypes DEF Grows, MessageOK
  <1>2. m.type = "PaymentFailed" =>
          \E a \in Attempts : st'[a] = "failed" /\ task'[a].hash = m.hash
    BY DEF Grows, MessageOK
  <1>3. m.type = "PaymentSucceeded" =>
          \E a \in Attempts : SettledBy(a, m.hash, m.amount)'
    BY DEF Grows, MessageOK, SettledBy, HtlcAmount
  <1> QED
    BY <1>1, <1>2, <1>3 DEF MessageOK

\* The mailbox stays justified when it is unchanged, when an event is handled,
\* when a justified event is published, and when a crash empties it.
LEMMA MailboxStaysOK ==
    ASSUME mailbox \in Seq(Messages), MailboxOK, Grows,
           \/ mailbox' = mailbox
           \/ mailbox # <<>> /\ mailbox' = Tail(mailbox)
           \/ mailbox' = <<>>
           \/ \E m \in Messages : mailbox' = Append(mailbox, m) /\ MessageOK(m)'
    PROVE  mailbox' \in Seq(Messages) /\ MailboxOK'
  <1> DEFINE Good == {m \in Messages : MessageOK(m)'}
  <1>1. \A i \in 1..Len(mailbox) : mailbox[i] \in Good
    <2>1. \A m \in Messages : MessageOK(m) => MessageOK(m)'
      BY MessageStaysOK
    <2> QED
      BY <2>1 DEF MailboxOK
  <1> HIDE DEF Good
  <1>2. CASE mailbox' = mailbox
    BY <1>1, <1>2 DEF MailboxOK, Good
  <1>3. CASE mailbox # <<>> /\ mailbox' = Tail(mailbox)
    <2>1. Tail(mailbox) \in Seq(Messages) /\ \A i \in 1..Len(Tail(mailbox)) : Tail(mailbox)[i] \in Good
      BY <1>1, <1>3, TailElements
    <2> QED
      BY <1>3, <2>1 DEF MailboxOK, Good
  <1>4. CASE mailbox' = <<>>
    BY <1>4 DEF MailboxOK
  <1>5. ASSUME NEW m \in Messages, mailbox' = Append(mailbox, m), MessageOK(m)'
        PROVE  mailbox' \in Seq(Messages) /\ MailboxOK'
    <2>1. mailbox' \in Seq(Messages) /\ Len(mailbox') = Len(mailbox) + 1
      BY <1>5
    <2>2. m \in Good
      BY <1>5 DEF Good
    <2>3. \A i \in 1..Len(mailbox') :
            (i \in 1..Len(mailbox) /\ mailbox'[i] = mailbox[i])
              \/ mailbox'[i] = m
      BY <1>5, <2>1
    <2>4. \A i \in 1..Len(mailbox') : mailbox'[i] \in Good
      BY <1>1, <2>2, <2>3
    <2> QED
      BY <2>1, <2>4 DEF MailboxOK, Good
  <1> QED
    BY <1>2, <1>3, <1>4, <1>5

\* A justified object stays justified while its status and amount do not change.
LEMMA EntityStaysOK ==
    ASSUME NEW e \in Entities, NEW h \in Hashes, Grows, EntityOK(e, h),
           entity'[e].status = entity[e].status,
           entity'[e].amountPaid = entity[e].amountPaid
    PROVE  EntityOK(e, h)'
  <1>1. entity'[e].status = "PAID" =>
          \E a \in Attempts : SettledBy(a, h, entity[e].amountPaid)'
    BY DEF Grows, EntityOK, SettledBy, HtlcAmount
  <1>2. entity'[e].status = "PENDING" =>
          \E a \in Attempts : Signed(a)' /\ task'[a].hash = h
    BY DEF Grows, EntityOK
  <1>3. entity'[e].status = "FAILED" =>
          \E a \in Attempts : st'[a] = "failed" /\ task'[a].hash = h
    BY DEF Grows, EntityOK
  <1> QED
    BY <1>1, <1>2, <1>3 DEF EntityOK, SettledBy, HtlcAmount

-----------------------------------------------------------------------------

\* A wallet without payments, with any HTLCs of a restored backup, satisfies IInv.
LEMMA InitIInv == Init => IInv
  <1> SUFFICES ASSUME Init PROVE IInv
    OBVIOUS
  <1> USE ConstantsAssumption
  <1>1. PICK hash \in [Restored -> Hashes], amount \in [Restored -> Amounts],
             f \in [Restored -> Fees] :
          /\ task = [a \in Attempts |->
                       IF a \in Restored
                       THEN [hash |-> hash[a], amount |-> amount[a], p |-> Null]
                       ELSE Null]
          /\ fee = [a \in Attempts |-> IF a \in Restored THEN f[a] ELSE NotSigned]
    BY DEF Init
  <1>2. \A a \in Restored : /\ task[a] \in Task
                            /\ task[a].p = Null
                            /\ fee[a] \in Fees
    BY <1>1 DEF Task
  <1>3. /\ task \in [Attempts -> Task \cup {Null}]
        /\ fee \in [Attempts -> Fees \cup {NotSigned}]
    BY <1>1, <1>2
  <1>4. BlankPayment \in Payment /\ BlankPayment.status = "INIT" /\ ~BlankPayment.hasInvoiceId
    BY DEF BlankPayment, Payment, PaymentStatus
  <1>5. \A a \in Attempts : /\ st[a] = IF a \in Restored THEN "orphan" ELSE "unused"
                            /\ a \notin Restored => fee[a] = NotSigned
    BY <1>1 DEF Init
  <1>6. TypeOK
    <2>1. /\ st \in [Attempts -> AttemptState]
          /\ commitment \in SUBSET Attempts
      BY DEF Init, AttemptState
    <2>2. /\ row \in [Hashes -> Entities \cup {Null}]
          /\ entity \in [Entities -> Payment]
      BY <1>4 DEF Init
    <2>3. mailbox \in Seq(Messages) /\ crashes \in 0..MaxCrashes
      BY DEF Init
    <2> QED
      BY <1>2, <1>3, <1>5, <2>1, <2>2, <2>3 DEF TypeOK
  <1>7. AttemptsOK
    BY <1>2, <1>4, <1>5 DEF Init, AttemptsOK, Signed, Entities, NotSigned
  <1>8. RowsOK
    BY <1>4 DEF Init, RowsOK, Exists, Entities
  <1>9. CapturedOK
    BY <1>2, <1>5 DEF CapturedOK
  <1>10. MailboxOK
    BY DEF Init, MailboxOK
  <1>11. EntitiesOK
    BY <1>4 DEF Init, EntitiesOK, EntityOK
  <1>12. RecordedBeforeSent
    BY <1>5 DEF RecordedBeforeSent, Sent
  <1> QED
    BY <1>6, <1>7, <1>8, <1>9, <1>10, <1>11, <1>12 DEF IInv

\* Steps that leave the table and the tasks alone.
LEMMA TableUnchanged ==
    ASSUME IInv, UNCHANGED <<task, row, entity>>, Grows,
           \A a \in Attempts : st'[a] = "unused" <=> st[a] = "unused",
           Sent' \subseteq Sent
    PROVE  RowsOK' /\ CapturedOK' /\ EntitiesOK' /\ RecordedBeforeSent'
  <1>1. \A e \in Entities, h \in Hashes : Owns(e, h)' <=> Owns(e, h)
    BY DEF Owns
  <1>2. RowsOK'
    BY <1>1 DEF IInv, TypeOK, RowsOK, Exists, Status, Owns
  <1>3. CapturedOK'
    BY DEF IInv, TypeOK, CapturedOK, Owns
  <1>4. EntitiesOK'
    <2> SUFFICES ASSUME NEW e \in Entities, NEW h \in Hashes, Owns(e, h)
                 PROVE  EntityOK(e, h)'
      BY <1>1 DEF EntitiesOK
    <2> QED
      BY EntityStaysOK DEF IInv, EntitiesOK
  <1>5. RecordedBeforeSent'
    BY DEF IInv, RecordedBeforeSent, Exists
  <1> QED
    BY <1>2, <1>3, <1>4, <1>5

-----------------------------------------------------------------------------
(* The application's threads.                                              *)

\* sendLNPayment on the UI thread preserves IInv: the object it captures is one
\* with an invoice_id, because rows of unknown HTLCs are PENDING or PAID.
LEMMA SendLNPaymentStep ==
    ASSUME IInv, NEW a \in Attempts, NEW h \in Hashes, NEW amount \in Amounts,
           SendLNPayment(a, h, amount)
    PROVE  IInv'
  <1> USE ConstantsAssumption
  <1> DEFINE t == [hash |-> h, amount |-> amount, p |-> row[h]]
  <1>1. /\ t \in Task
        /\ t.hash = h /\ t.p = row[h]
        /\ st' = [st EXCEPT ![a] = "queued"]
        /\ task' = [task EXCEPT ![a] = t]
        /\ st[a] = "unused"
    BY DEF SendLNPayment, getPayment, IInv, TypeOK, Task
  <1> HIDE DEF t
  <1>2. UNCHANGED <<fee, commitment, row, entity, mailbox, crashes>>
    BY DEF SendLNPayment
  <1>3. \A b \in Attempts : /\ b # a => st'[b] = st[b] /\ task'[b] = task[b]
                            /\ st'[a] = "queued" /\ task'[a] = t
    BY <1>1 DEF IInv, TypeOK
  <1>4. Grows
    BY <1>1, <1>2, <1>3 DEF IInv, AttemptsOK, Grows, Signed
  <1>5. MailboxOK'
    BY <1>2, <1>4, MailboxStaysOK DEF IInv, TypeOK
  <1>6. TypeOK'
    BY <1>1, <1>2, <1>3 DEF IInv, TypeOK, AttemptState
  <1>7. AttemptsOK'
    BY <1>1, <1>2, <1>3 DEF IInv, AttemptsOK, Signed
  <1>8. \A e \in Entities, k \in Hashes :
          Owns(e, k)' <=> Owns(e, k) \/ (e = a /\ k = h)
    BY <1>1, <1>3 DEF Owns
  <1>9. RowsOK'
    BY <1>2, <1>8 DEF IInv, TypeOK, RowsOK, Exists, Status, Owns
  <1>10. Exists(h) => row[h] \in Attempts /\ entity[row[h]].hasInvoiceId /\ Owns(row[h], h)
    BY DEF SendLNPayment, HasStatus, IInv, TypeOK, RowsOK, Owns
  <1>11. CapturedOK'
    <2> SUFFICES ASSUME NEW b \in Attempts, st'[b] # "unused", task'[b].p # Null
                 PROVE  /\ task'[b].p \in Attempts
                        /\ Owns(task[b].p, task[b].hash)'
                        /\ entity'[task'[b].p].hasInvoiceId
      BY DEF CapturedOK
    <2>1. CASE b = a
      BY <1>1, <1>2, <1>3, <1>10, <2>1 DEF Exists, Owns
    <2>2. CASE b # a
      BY <1>1, <1>2, <1>3, <2>2 DEF IInv, CapturedOK, Owns
    <2> QED
      BY <2>1, <2>2
  <1>12. EntitiesOK'
    <2> SUFFICES ASSUME NEW e \in Entities, NEW k \in Hashes, Owns(e, k)'
                 PROVE  EntityOK(e, k)'
      BY DEF EntitiesOK
    <2>1. CASE Owns(e, k)
      BY <1>2, <1>4, <2>1, EntityStaysOK DEF IInv, EntitiesOK
    <2>2. CASE e = a
      BY <1>1, <1>2, <2>2 DEF IInv, AttemptsOK, EntityOK
    <2> QED
      BY <1>8, <2>1, <2>2
  <1>13. RecordedBeforeSent'
    BY <1>2, <1>3 DEF IInv, RecordedBeforeSent, Sent, Exists
  <1> QED
    BY <1>5, <1>6, <1>7, <1>9, <1>11, <1>12, <1>13 DEF IInv

\* Execute stores an object with an invoice_id, and it keeps the status and the
\* amount paid of every object but a fresh one.
LEMMA ExecuteStores ==
    ASSUME IInv, NEW a \in Attempts, Execute(a)
    PROVE  \E e \in Attempts :
             /\ row' = [row EXCEPT ![task[a].hash] = e]
             /\ Owns(e, task[a].hash)
             /\ entity' \in [Entities -> Payment]
             /\ entity'[e].hasInvoiceId
             /\ entity[e].status = "INIT" => entity'[e].status = "INIT"
             /\ \A d \in Entities :
                  /\ d # e => entity'[d] = entity[d]
                  /\ \/ entity'[d].status = "INIT"
                     \/ /\ entity'[d].status = entity[d].status
                        /\ entity'[d].amountPaid = entity[d].amountPaid
  <1> USE ConstantsAssumption
  <1>1. /\ task[a] \in Task /\ task[a].amount \in Nat /\ task[a].hash \in Hashes
        /\ st[a] = "queued"
        /\ a \in Entities
        /\ entity \in [Entities -> Payment]
    BY DEF Execute, IInv, TypeOK, Task, Entities
  <1>2. CASE /\ task[a].p = Null
             /\ entity' = [entity EXCEPT ![a] = newPayment(task[a].amount)]
             /\ row' = [row EXCEPT ![task[a].hash] = a]
    <2>1. /\ newPayment(task[a].amount) \in Payment
          /\ newPayment(task[a].amount).status = "INIT"
          /\ newPayment(task[a].amount).hasInvoiceId
      BY <1>1 DEF newPayment, Payment, PaymentStatus
    <2>2. Owns(a, task[a].hash)
      BY <1>1 DEF Owns
    <2> QED
      BY <1>1, <1>2, <2>1, <2>2
  <1>3. CASE /\ task[a].p # Null
             /\ entity' = [entity EXCEPT ![task[a].p].amountSent = task[a].amount]
             /\ row' = [row EXCEPT ![task[a].hash] = task[a].p]
    <2>1. /\ task[a].p \in Attempts
          /\ Owns(task[a].p, task[a].hash)
          /\ entity[task[a].p].hasInvoiceId
      BY <1>1, <1>3 DEF IInv, CapturedOK
    <2> DEFINE e == task[a].p
    <2>2. e \in Entities /\ entity[e] \in Payment
      BY <1>1, <2>1 DEF Entities
    <2>3. /\ entity'[e] = [entity[e] EXCEPT !.amountSent = task[a].amount]
          /\ \A d \in Entities : d # e => entity'[d] = entity[d]
      BY <1>1, <1>3, <2>2
    <2>4. /\ entity'[e] \in Payment
          /\ entity'[e].hasInvoiceId = entity[e].hasInvoiceId
          /\ entity'[e].status = entity[e].status
          /\ entity'[e].amountPaid = entity[e].amountPaid
      BY <1>1, <2>2, <2>3 DEF Payment
    <2>5. entity' \in [Entities -> Payment]
      BY <1>1, <1>3, <2>2, <2>3, <2>4
    <2> QED
      BY <1>3, <2>1, <2>3, <2>4, <2>5, ZenonT(40)
  <1> QED
    BY <1>2, <1>3 DEF Execute

\* The executor's task preserves IInv, with whatever object it captured.
LEMMA ExecuteStep ==
    ASSUME IInv, NEW a \in Attempts, Execute(a)
    PROVE  IInv'
  <1> USE ConstantsAssumption
  <1>1. PICK e \in Attempts :
             /\ row' = [row EXCEPT ![task[a].hash] = e]
             /\ Owns(e, task[a].hash)
             /\ entity' \in [Entities -> Payment]
             /\ entity'[e].hasInvoiceId
             /\ entity[e].status = "INIT" => entity'[e].status = "INIT"
             /\ \A d \in Entities :
                  /\ d # e => entity'[d] = entity[d]
                  /\ \/ entity'[d].status = "INIT"
                     \/ /\ entity'[d].status = entity[d].status
                        /\ entity'[d].amountPaid = entity[d].amountPaid
    BY ExecuteStores
  <1>2. /\ st' = [st EXCEPT ![a] = "routing"]
        /\ st[a] = "queued"
        /\ UNCHANGED <<task, fee, commitment, mailbox, crashes>>
    BY DEF Execute
  <1>3. /\ st'[a] = "routing"
        /\ \A b \in Attempts : b # a => st'[b] = st[b]
        /\ task[a] \in Task /\ task[a].hash \in Hashes
        /\ Entities = Attempts \cup Hashes
    BY <1>2 DEF IInv, TypeOK, Task, Entities
  <1>4. Grows
    BY <1>2, <1>3 DEF Grows, Signed
  <1>5. MailboxOK'
    BY <1>2, <1>4, MailboxStaysOK DEF IInv, TypeOK
  <1>6. TypeOK'
    BY <1>1, <1>2, <1>3 DEF IInv, TypeOK, AttemptState
  <1>7. AttemptsOK'
    BY <1>1, <1>2, <1>3 DEF IInv, AttemptsOK, Signed
  <1>8. \A d \in Entities, k \in Hashes : Owns(d, k)' <=> Owns(d, k)
    BY <1>2, <1>3 DEF Owns
  <1>9. \A d \in Entities : entity[d].hasInvoiceId => entity'[d].hasInvoiceId
    BY <1>1
  <1>10. RowsOK'
    <2> SUFFICES ASSUME NEW k \in Hashes
                 PROVE  /\ Exists(k)' => Owns(row[k], k)'
                        /\ ~entity'[k].hasInvoiceId
                        /\ Exists(k)' /\ ~entity'[row'[k]].hasInvoiceId
                             => Status(k)' \in {"PENDING", "PAID"}
      BY DEF RowsOK
    <2>1. k # e /\ entity'[k] = entity[k]
      BY <1>1, <1>3
    <2>2. CASE k = task[a].hash
      <3>1. row'[k] = e
        BY <1>1, <2>2 DEF IInv, TypeOK
      <3>2. Owns(row'[k], k)
        BY <1>1, <2>2, <3>1
      <3> QED
        BY <1>1, <1>2, <1>3, <2>1, <3>1, <3>2 DEF IInv, RowsOK, Owns
    <2>3. CASE k # task[a].hash
      <3>1. row'[k] = row[k]
        BY <1>1, <1>3, <2>3 DEF IInv, TypeOK
      <3>2. Exists(k) => row[k] \in Entities
        BY <1>3 DEF Exists, IInv, TypeOK
      <3>3. Exists(k) /\ ~entity'[row[k]].hasInvoiceId => entity'[row[k]] = entity[row[k]]
        BY <1>1, <3>2
      <3> QED
        BY <1>2, <1>3, <2>1, <3>1, <3>2, <3>3 DEF IInv, RowsOK, Owns, Exists, Status
    <2> QED
      BY <2>2, <2>3
  <1>11. CapturedOK'
    BY <1>2, <1>3, <1>8, <1>9 DEF IInv, CapturedOK, Owns
  <1>12. EntitiesOK'
    <2> SUFFICES ASSUME NEW d \in Entities, NEW k \in Hashes, Owns(d, k)
                 PROVE  EntityOK(d, k)'
      BY <1>8 DEF EntitiesOK
    <2>1. CASE entity'[d].status = "INIT"
      BY <2>1 DEF EntityOK
    <2>2. CASE /\ entity'[d].status = entity[d].status
               /\ entity'[d].amountPaid = entity[d].amountPaid
      BY <1>4, <2>2, EntityStaysOK DEF IInv, EntitiesOK
    <2> QED
      BY <1>1, <2>1, <2>2
  <1>13. RecordedBeforeSent'
    <2> SUFFICES ASSUME NEW b \in Sent'
                 PROVE  Exists(task[b].hash)' /\ entity'[row'[task'[b].hash]].hasInvoiceId
      BY DEF RecordedBeforeSent
    <2>1. b \in Attempts /\ task'[b] = task[b]
      BY <1>2 DEF Sent
    <2>2. CASE task[b].hash = task[a].hash
      <3>1. row'[task[b].hash] = e /\ e # Null
        BY <1>1, <1>3, <2>2 DEF IInv, TypeOK
      <3> QED
        BY <1>1, <2>1, <3>1 DEF Exists
    <2>3. CASE task[b].hash # task[a].hash
      <3>1. b \in Sent
        BY <1>2, <1>3, <2>1, <2>3 DEF Sent
      <3>2. task[b].hash \in Hashes
        BY <3>1 DEF Sent, IInv, TypeOK, Task
      <3>3. row'[task[b].hash] = row[task[b].hash]
        BY <1>1, <2>3, <3>2 DEF IInv, TypeOK
      <3>4. Exists(task[b].hash) /\ entity[row[task[b].hash]].hasInvoiceId
        BY <3>1 DEF IInv, RecordedBeforeSent
      <3>5. row[task[b].hash] \in Entities
        BY <3>2, <3>4 DEF Exists, IInv, TypeOK
      <3> QED
        BY <1>9, <2>1, <3>3, <3>4, <3>5 DEF Exists
    <2> QED
      BY <2>2, <2>3
  <1> QED
    BY <1>5, <1>6, <1>7, <1>10, <1>11, <1>12, <1>13 DEF IInv

-----------------------------------------------------------------------------
(* The node.                                                               *)

\* The node signing an HTLC preserves IInv.
LEMMA OfferStep ==
    ASSUME IInv, NEW a \in Attempts, NEW f \in Fees, Offer(a, f)
    PROVE  IInv'
  <1> USE ConstantsAssumption
  <1>1. /\ st[a] = "routing"
        /\ st' = [st EXCEPT ![a] = "offered"]
        /\ fee' = [fee EXCEPT ![a] = f]
        /\ commitment' = commitment \cup {a}
        /\ mailbox' = Append(mailbox, SignatureSent(commitment \cup {a}))
        /\ UNCHANGED <<task, row, entity, crashes>>
    BY DEF Offer, Publish
  <1>2. /\ st'[a] = "offered" /\ fee'[a] = f /\ f # NotSigned
        /\ \A b \in Attempts : b # a => st'[b] = st[b] /\ fee'[b] = fee[b]
    BY <1>1 DEF IInv, TypeOK, NotSigned
  <1>3. Grows
    BY <1>1, <1>2 DEF Grows, Signed
  <1>4. AttemptsOK'
    BY <1>1, <1>2 DEF IInv, AttemptsOK, Signed
  <1>5. mailbox' \in Seq(Messages) /\ MailboxOK'
    <2> DEFINE m == SignatureSent(commitment \cup {a})
    <2>1. m \in Messages /\ m.type = "ChannelSignatureSent" /\ m.htlcs = commitment \cup {a}
      BY DEF IInv, TypeOK, SignatureSent, Messages
    <2>2. \A b \in commitment \cup {a} : fee'[b] # NotSigned
      BY <1>2 DEF IInv, TypeOK, AttemptsOK, Signed
    <2>3. \E n \in Messages : mailbox' = Append(mailbox, n) /\ MessageOK(n)'
      <3>1. PICK n \in Messages : n = m
        BY <2>1
      <3>2. MessageOK(n)'
        BY <2>1, <2>2, <3>1 DEF MessageOK, Signed
      <3> QED
        BY <1>1, <3>1, <3>2
    <2> QED
      BY <1>3, <2>3, MailboxStaysOK DEF IInv, TypeOK
  <1>6. TypeOK'
    BY <1>1, <1>2, <1>5 DEF IInv, TypeOK, AttemptState
  <1>7. Sent' \subseteq Sent
    BY <1>1, <1>2 DEF Sent
  <1> QED
    BY <1>1, <1>2, <1>3, <1>4, <1>5, <1>6, <1>7, TableUnchanged DEF IInv

\* The node trying another route preserves IInv.
LEMMA RerouteStep ==
    ASSUME IInv, NEW a \in Attempts, Reroute(a)
    PROVE  IInv'
  <1>1. /\ st[a] = "offered"
        /\ st' = [st EXCEPT ![a] = "routing"]
        /\ UNCHANGED <<task, fee, commitment, row, entity, mailbox, crashes>>
    BY DEF Reroute
  <1>2. /\ st'[a] = "routing"
        /\ \A b \in Attempts : b # a => st'[b] = st[b]
    BY <1>1 DEF IInv, TypeOK
  <1>3. Grows
    BY <1>1, <1>2 DEF Grows, Signed
  <1>4. AttemptsOK'
    BY <1>1, <1>2 DEF IInv, AttemptsOK, Signed
  <1>5. MailboxOK'
    BY <1>1, <1>3, MailboxStaysOK DEF IInv, TypeOK
  <1>6. TypeOK'
    BY <1>1, <1>2 DEF IInv, TypeOK, AttemptState
  <1>7. Sent' \subseteq Sent
    BY <1>1, <1>2 DEF Sent
  <1> QED
    BY <1>1, <1>2, <1>3, <1>4, <1>5, <1>6, <1>7, TableUnchanged DEF IInv

\* The node signing a commitment again preserves IInv.
LEMMA SignAgainStep ==
    ASSUME IInv, NEW done \in SUBSET commitment, SignAgain(done)
    PROVE  IInv'
  <1>1. /\ commitment' = commitment \ done
        /\ mailbox' = Append(mailbox, SignatureSent(commitment'))
        /\ UNCHANGED <<st, task, fee, row, entity, crashes>>
    BY DEF SignAgain, Publish
  <1>2. Grows
    BY <1>1 DEF Grows, Signed
  <1>3. AttemptsOK'
    BY <1>1 DEF IInv, AttemptsOK, Signed
  <1>4. mailbox' \in Seq(Messages) /\ MailboxOK'
    <2>1. /\ SignatureSent(commitment') \in Messages
          /\ SignatureSent(commitment').type = "ChannelSignatureSent"
          /\ SignatureSent(commitment').htlcs = commitment'
      BY <1>1 DEF IInv, TypeOK, SignatureSent, Messages
    <2>2. PICK n \in Messages : n = SignatureSent(commitment')
      BY <2>1
    <2>3. \A b \in commitment' : fee'[b] # NotSigned
      BY <1>1 DEF IInv, TypeOK, AttemptsOK, Signed
    <2>4. MessageOK(n)'
      BY <2>1, <2>2, <2>3 DEF MessageOK, Signed
    <2> QED
      BY <1>1, <1>2, <2>2, <2>4, MailboxStaysOK DEF IInv, TypeOK
  <1>5. TypeOK'
    BY <1>1, <1>4 DEF IInv, TypeOK
  <1>6. Sent' \subseteq Sent
    BY <1>1 DEF Sent
  <1> QED
    BY <1>1, <1>2, <1>3, <1>4, <1>5, <1>6, TableUnchanged DEF IInv

\* An attempt is resolved with outcome s, and an event that this justifies is
\* published.
LEMMA ResolveStep ==
    ASSUME IInv, NEW a \in Attempts, NEW s \in {"failed", "succeeded"},
           NEW m \in Messages, MessageOK(m)',
           st[a] \in {"routing", "offered", "orphan"},
           s = "succeeded" => st[a] # "routing",
           st' = [st EXCEPT ![a] = s],
           mailbox' = Append(mailbox, m),
           UNCHANGED <<task, fee, commitment, row, entity, crashes>>
    PROVE  IInv'
  <1>1. /\ st'[a] = s
        /\ \A b \in Attempts : b # a => st'[b] = st[b]
    BY DEF IInv, TypeOK
  <1>2. Grows
    BY <1>1 DEF Grows, Signed
  <1>3. AttemptsOK'
    BY <1>1 DEF IInv, AttemptsOK, Signed
  <1>4. mailbox' \in Seq(Messages) /\ MailboxOK'
    BY <1>2, MailboxStaysOK DEF IInv, TypeOK
  <1>5. TypeOK'
    BY <1>1, <1>4 DEF IInv, TypeOK, AttemptState
  <1>6. Sent' \subseteq Sent
    BY <1>1 DEF Sent
  <1> QED
    BY <1>1, <1>2, <1>3, <1>4, <1>5, <1>6, TableUnchanged DEF IInv

\* The node failing an attempt preserves IInv.
LEMMA FailStep ==
    ASSUME IInv, NEW a \in Attempts, Fail(a)
    PROVE  IInv'
  <1> DEFINE m == [type |-> "PaymentFailed", hash |-> task[a].hash]
  <1>1. /\ m \in Messages /\ m.type = "PaymentFailed" /\ m.hash = task[a].hash
        /\ st'[a] = "failed" /\ task' = task
    BY DEF Fail, IInv, TypeOK, Task, Messages
  <1>2. PICK n \in Messages : n = m
    BY <1>1
  <1>3. MessageOK(n)'
    BY <1>1, <1>2 DEF MessageOK
  <1> QED
    BY <1>2, <1>3, ResolveStep DEF Fail, Publish

\* The node settling an attempt preserves IInv.
LEMMA SucceedStep ==
    ASSUME IInv, NEW a \in Attempts, Succeed(a)
    PROVE  IInv'
  <1> USE ConstantsAssumption
  <1> DEFINE m == [type |-> "PaymentSucceeded", hash |-> task[a].hash,
                   amount |-> HtlcAmount(a)]
  <1>1. HtlcAmount(a) \in Nat /\ task[a].hash \in Hashes
    BY DEF Succeed, HtlcAmount, IInv, TypeOK, AttemptsOK, Task
  <1>2. /\ m \in Messages /\ m.type = "PaymentSucceeded"
        /\ m.hash = task[a].hash /\ m.amount = HtlcAmount(a)
    BY <1>1 DEF Messages
  <1>3. st'[a] = "succeeded" /\ task' = task /\ fee' = fee
    BY DEF Succeed, IInv, TypeOK
  <1>4. PICK n \in Messages : n = m
    BY <1>2
  <1>5. MessageOK(n)'
    BY <1>2, <1>3, <1>4 DEF MessageOK, SettledBy, HtlcAmount
  <1> QED
    BY <1>4, <1>5, ResolveStep DEF Succeed, Publish

\* The death of the process preserves IInv: what it erases justified nothing.
LEMMA CrashStep ==
    ASSUME IInv, Crash
    PROVE  IInv'
  <1>1. /\ \A a \in Attempts :
             st'[a] = CASE st[a] \in {"queued", "routing"} -> "lost"
                        [] st[a] = "offered" -> "orphan"
                        [] OTHER -> st[a]
        /\ st' \in [Attempts -> AttemptState]
        /\ mailbox' = <<>>
        /\ crashes' \in 0..MaxCrashes
        /\ UNCHANGED <<task, fee, commitment, row, entity>>
    BY ConstantsAssumption DEF Crash, IInv, TypeOK, AttemptState
  <1>2. Grows
    BY <1>1 DEF Grows, Signed
  <1>3. AttemptsOK'
    BY <1>1 DEF IInv, AttemptsOK, Signed
  <1>4. mailbox' \in Seq(Messages) /\ MailboxOK'
    BY <1>1, <1>2, MailboxStaysOK DEF IInv, TypeOK
  <1>5. \A a \in Attempts : st'[a] = "unused" <=> st[a] = "unused"
    BY <1>1
  <1>6. TypeOK'
    BY <1>1, <1>4, <1>5 DEF IInv, TypeOK
  <1>7. Sent' \subseteq Sent
    BY <1>1 DEF Sent
  <1> QED
    BY <1>1, <1>2, <1>3, <1>4, <1>5, <1>6, <1>7, TableUnchanged DEF IInv

-----------------------------------------------------------------------------
(* NodeSupervisor.                                                         *)

\* Handling an event leaves the attempts alone, so they grow trivially and the
\* mailbox stays justified.
LEMMA ReceiveGrows ==
    ASSUME IInv, NEW t, Event(t), UNCHANGED <<st, task, fee, commitment>>
    PROVE  /\ Grows
           /\ mailbox' \in Seq(Messages) /\ MailboxOK'
           /\ Head(mailbox) \in Messages /\ MessageOK(Head(mailbox))
           /\ Head(mailbox).type = t
  <1>1. Grows
    BY DEF Grows, Signed
  <1>2. mailbox # <<>> /\ mailbox' = Tail(mailbox) /\ Head(mailbox).type = t
    BY DEF Event
  <1>3. mailbox' \in Seq(Messages) /\ MailboxOK'
    BY <1>1, <1>2, MailboxStaysOK DEF IInv, TypeOK
  <1>4. Head(mailbox) \in Messages /\ MessageOK(Head(mailbox))
    <2>1. mailbox \in Seq(Messages) /\ Len(mailbox) \in Nat /\ Len(mailbox) # 0
      BY <1>2 DEF IInv, TypeOK
    <2>2. 1 \in 1..Len(mailbox) /\ Head(mailbox) = mailbox[1]
      BY <2>1
    <2> QED
      BY <2>1, <2>2 DEF IInv, MailboxOK
  <1> QED
    BY <1>1, <1>2, <1>3, <1>4

\* One stored object is updated to a justified content with the same
\* invoice_id, and the row's status is one that an unknown HTLC may have.
LEMMA UpdateStep ==
    ASSUME IInv, NEW t, Event(t), UNCHANGED <<st, task, fee, commitment, row, crashes>>,
           NEW h \in Hashes, Exists(h), NEW q \in Payment,
           entity' = [entity EXCEPT ![row[h]] = q],
           q.hasInvoiceId = entity[row[h]].hasInvoiceId,
           ~q.hasInvoiceId => q.status \in {"PENDING", "PAID"},
           EntityOK(row[h], h)'
    PROVE  IInv'
  <1> USE ConstantsAssumption
  <1> DEFINE r == row[h]
  <1>1. /\ r \in Entities /\ Owns(r, h)
        /\ entity'[r] = q
        /\ \A e \in Entities : e # r => entity'[e] = entity[e]
        /\ entity' \in [Entities -> Payment]
    BY DEF Exists, IInv, TypeOK, RowsOK
  <1>2. /\ \A e \in Entities : entity'[e].hasInvoiceId = entity[e].hasInvoiceId
        /\ Entities = Attempts \cup Hashes
    BY <1>1 DEF Entities
  <1>3. Grows /\ mailbox' \in Seq(Messages) /\ MailboxOK'
    BY ReceiveGrows
  <1>4. TypeOK'
    BY <1>1, <1>3 DEF IInv, TypeOK
  <1>5. AttemptsOK'
    <2> SUFFICES ASSUME NEW a \in Attempts, st[a] = "unused"
                 PROVE  entity'[a].status = "INIT"
      BY DEF IInv, AttemptsOK, Signed
    <2>1. a # r
      BY <1>1 DEF Owns
    <2> QED
      BY <1>1, <1>2, <2>1 DEF IInv, AttemptsOK
  <1>6. \A e \in Entities, k \in Hashes : Owns(e, k)' <=> Owns(e, k)
    BY DEF Owns
  <1>7. RowsOK'
    <2> SUFFICES ASSUME NEW k \in Hashes
                 PROVE  /\ Exists(k)' => Owns(row[k], k)'
                        /\ ~entity'[k].hasInvoiceId
                        /\ Exists(k)' /\ ~entity'[row'[k]].hasInvoiceId
                             => Status(k)' \in {"PENDING", "PAID"}
      BY DEF RowsOK
    <2>1. Exists(k) => row[k] \in Entities
      BY DEF Exists, IInv, TypeOK
    <2>2. Exists(k)' => Owns(row[k], k)'
      BY DEF IInv, RowsOK, Exists, Owns
    <2>3. ~entity'[k].hasInvoiceId
      BY <1>2 DEF IInv, RowsOK
    <2>4. CASE row[k] = r
      BY <1>1, <2>2, <2>3, <2>4 DEF Status, Exists
    <2>5. CASE row[k] # r
      BY <1>1, <2>1, <2>2, <2>3, <2>5 DEF IInv, RowsOK, Status, Exists
    <2> QED
      BY <2>4, <2>5
  <1>8. CapturedOK'
    BY <1>2 DEF IInv, CapturedOK, Owns
  <1>9. EntitiesOK'
    <2> SUFFICES ASSUME NEW e \in Entities, NEW k \in Hashes, Owns(e, k)
                 PROVE  EntityOK(e, k)'
      BY <1>6 DEF EntitiesOK
    <2>1. CASE e = r
      <3>1. k = h
        BY <1>1, <2>1 DEF Owns
      <3> QED
        BY <2>1, <3>1 DEF EntityOK
    <2>2. CASE e # r
      BY <1>1, <1>3, <2>2, EntityStaysOK DEF IInv, EntitiesOK
    <2> QED
      BY <2>1, <2>2
  <1>10. RecordedBeforeSent'
    <2> SUFFICES ASSUME NEW b \in Sent
                 PROVE  Exists(task[b].hash) /\ entity'[row[task[b].hash]].hasInvoiceId
      BY DEF RecordedBeforeSent, Sent, Exists
    <2>1. Exists(task[b].hash) /\ entity[row[task[b].hash]].hasInvoiceId
      BY DEF IInv, RecordedBeforeSent
    <2>2. row[task[b].hash] \in Entities
      BY <2>1 DEF Sent, IInv, TypeOK, Task, Exists
    <2> QED
      BY <1>2, <2>1, <2>2
  <1> QED
    BY <1>3, <1>4, <1>5, <1>7, <1>8, <1>9, <1>10 DEF IInv

\* An event that changes no row.
LEMMA IgnoreStep ==
    ASSUME IInv, NEW t, Event(t),
           UNCHANGED <<st, task, fee, commitment, row, entity, crashes>>
    PROVE  IInv'
  <1>1. Grows /\ mailbox' \in Seq(Messages) /\ MailboxOK'
    BY ReceiveGrows
  <1>2. AttemptsOK'
    BY DEF IInv, AttemptsOK, Signed
  <1>3. TypeOK'
    BY <1>1 DEF IInv, TypeOK
  <1>4. Sent' \subseteq Sent
    BY DEF Sent
  <1> QED
    BY <1>1, <1>2, <1>3, <1>4, TableUnchanged DEF IInv

\* NodeSupervisor's PaymentFailed handler preserves IInv, also when it throws.
LEMMA PaymentFailedStep ==
    ASSUME IInv, HandlePaymentFailed \/ DropPaymentFailed
    PROVE  IInv'
  <1>1. CASE DropPaymentFailed
    BY <1>1, IgnoreStep DEF DropPaymentFailed
  <1>2. CASE HandlePaymentFailed
    <2> DEFINE h == Head(mailbox).hash
    <2>1. /\ Event("PaymentFailed")
          /\ Exists(h) /\ entity[row[h]].hasInvoiceId
          /\ entity' = [entity EXCEPT ![row[h]] = updatePaymentFailed(@)]
          /\ UNCHANGED <<st, task, fee, commitment, row, crashes>>
      BY <1>2 DEF HandlePaymentFailed
    <2>2. /\ h \in Hashes
          /\ \E a \in Attempts : st[a] = "failed" /\ task[a].hash = h
          /\ Grows
      BY <2>1, ReceiveGrows, MessageTypes DEF MessageOK
    <2>3. row[h] \in Entities /\ entity[row[h]] \in Payment /\ Owns(row[h], h)
      BY <2>1, <2>2 DEF Exists, IInv, TypeOK, RowsOK
    <2>4. PICK k \in Hashes : k = h
      BY <2>2
    <2>5. PICK q : q = updatePaymentFailed(entity[row[k]])
      OBVIOUS
    <2>6. /\ q \in Payment
          /\ q.hasInvoiceId = entity[row[k]].hasInvoiceId
          /\ q.status = IF entity[row[k]].status = "PAID" THEN "PAID" ELSE "FAILED"
          /\ q.amountPaid = entity[row[k]].amountPaid
      BY <2>3, <2>4, <2>5 DEF updatePaymentFailed, Payment, PaymentStatus
    <2>7. entity' = [entity EXCEPT ![row[k]] = q] /\ entity'[row[k]] = q
      BY <2>1, <2>3, <2>4, <2>5 DEF IInv, TypeOK
    <2>8. EntityOK(row[k], k)'
      <3>1. CASE entity[row[k]].status = "PAID"
        <4>1. EntityOK(row[k], k)
          BY <2>3, <2>4 DEF IInv, EntitiesOK
        <4>2. \E a \in Attempts : SettledBy(a, k, q.amountPaid)
          BY <2>6, <3>1, <4>1 DEF EntityOK
        <4> QED
          BY <2>1, <2>6, <2>7, <3>1, <4>2 DEF EntityOK, SettledBy, HtlcAmount
      <3>2. CASE entity[row[k]].status # "PAID"
        BY <2>1, <2>2, <2>4, <2>6, <2>7, <3>2 DEF EntityOK
      <3> QED
        BY <3>1, <3>2
    <2> QED
      BY <2>1, <2>4, <2>6, <2>7, <2>8, UpdateStep
  <1> QED
    BY <1>1, <1>2

\* NodeSupervisor's PaymentSucceeded handler preserves IInv.
LEMMA PaymentSucceededStep ==
    ASSUME IInv, HandlePaymentSucceeded
    PROVE  IInv'
  <1> DEFINE h == Head(mailbox).hash
             paid == Head(mailbox).amount
  <1>1. /\ Event("PaymentSucceeded")
        /\ UNCHANGED <<st, task, fee, commitment, row, crashes>>
        /\ ~Exists(h) => entity' = entity
        /\ Exists(h) => entity' = [entity EXCEPT ![row[h]] =
                                     updatePaymentPaid(@, paid, paid - @.amountSent)]
    BY DEF HandlePaymentSucceeded
  <1>2. CASE ~Exists(h)
    BY <1>1, <1>2, IgnoreStep
  <1>3. CASE Exists(h)
    <2>1. /\ h \in Hashes /\ paid \in Nat
          /\ \E a \in Attempts : SettledBy(a, h, paid)
      BY <1>1, ReceiveGrows, MessageTypes DEF MessageOK
    <2>2. row[h] \in Entities /\ entity[row[h]] \in Payment
      BY <1>3, <2>1 DEF Exists, IInv, TypeOK
    <2>3. PICK k \in Hashes : k = h
      BY <2>1
    <2>4. PICK q : q = updatePaymentPaid(entity[row[k]], paid, paid - entity[row[k]].amountSent)
      OBVIOUS
    <2>5. paid - entity[row[k]].amountSent \in Int
      BY <2>1, <2>2, <2>3 DEF Payment
    <2>6. /\ q \in Payment
          /\ q.hasInvoiceId = entity[row[k]].hasInvoiceId
          /\ q.status = "PAID"
          /\ q.amountPaid = paid
      BY <2>1, <2>2, <2>3, <2>4, <2>5 DEF updatePaymentPaid, Payment, PaymentStatus
    <2>7. entity' = [entity EXCEPT ![row[k]] = q] /\ entity'[row[k]] = q
      BY <1>1, <1>3, <2>2, <2>3, <2>4 DEF IInv, TypeOK
    <2>8. EntityOK(row[k], k)'
      BY <1>1, <2>1, <2>3, <2>6, <2>7 DEF EntityOK, SettledBy, HtlcAmount
    <2> QED
      BY <1>1, <1>3, <2>3, <2>6, <2>7, <2>8, UpdateStep
  <1> QED
    BY <1>2, <1>3

\* The signature event, for one object e: an unknown hash gets a PENDING object,
\* an INIT object that is stored under a signed hash becomes PENDING, and every
\* other object is left alone.
LEMMA SignatureSentEffect ==
    ASSUME IInv, HandleSignatureSent
    PROVE  LET hashes == {task[a].hash : a \in Head(mailbox).htlcs}
               unknown == {h \in hashes : ~Exists(h)}
           IN /\ Event("ChannelSignatureSent")
              /\ Grows /\ mailbox' \in Seq(Messages) /\ MailboxOK'
              /\ UNCHANGED <<st, task, fee, commitment, crashes>>
              /\ unknown \subseteq Hashes
              /\ \A h \in hashes : \E a \in Attempts : Signed(a) /\ task[a].hash = h
              /\ row' = [h \in Hashes |-> IF h \in unknown THEN h ELSE row[h]]
              /\ entity' \in [Entities -> Payment]
              /\ \A e \in Entities :
                   /\ e \in unknown =>
                        entity'[e].status = "PENDING" /\ ~entity'[e].hasInvoiceId
                   /\ e \notin unknown =>
                        \/ entity'[e] = entity[e]
                        \/ /\ entity[e].status = "INIT"
                           /\ entity'[e].status = "PENDING"
                           /\ entity'[e].hasInvoiceId = entity[e].hasInvoiceId
                           /\ \E h \in hashes : Exists(h) /\ row[h] = e
  <1> USE ConstantsAssumption
  <1> DEFINE signed == Head(mailbox).htlcs
             hashes == {task[a].hash : a \in signed}
             unknown == {h \in hashes : ~Exists(h)}
             init == {row[h] : h \in {k \in hashes : HasStatus(k, "INIT")}}
  <1>1. Event("ChannelSignatureSent") /\ UNCHANGED <<st, task, fee, commitment, crashes>>
    BY DEF HandleSignatureSent
  <1>2. PICK first \in [unknown -> signed] :
            /\ \A h \in unknown : task[first[h]].hash = h
            /\ row' = [h \in Hashes |-> IF h \in unknown THEN h ELSE row[h]]
            /\ entity' = [e \in Entities |->
                   IF e \in unknown THEN unknownPayment(HtlcAmount(first[e]))
                   ELSE IF e \in init THEN updatePaymentPending(entity[e])
                   ELSE entity[e]]
    BY DEF HandleSignatureSent
  <1>3. /\ Grows /\ mailbox' \in Seq(Messages) /\ MailboxOK'
        /\ signed \subseteq Attempts
        /\ \A a \in signed : Signed(a)
    BY <1>1, ReceiveGrows, MessageTypes DEF MessageOK
  <1>4. \A a \in signed : /\ task[a] \in Task /\ task[a].hash \in Hashes
                          /\ HtlcAmount(a) \in Nat
    <2> SUFFICES ASSUME NEW a \in signed
                 PROVE  task[a] \in Task /\ task[a].hash \in Hashes /\ HtlcAmount(a) \in Nat
      OBVIOUS
    <2>1. a \in Attempts /\ fee[a] # NotSigned
      BY <1>3 DEF Signed
    <2>2. task[a] \in Task /\ fee[a] \in Fees
      BY <2>1 DEF IInv, TypeOK, AttemptsOK
    <2>3. task[a].hash \in Hashes /\ task[a].amount \in Nat /\ fee[a] \in Nat
      BY <2>2 DEF Task
    <2>4. HtlcAmount(a) \in Nat
      BY <2>3 DEF HtlcAmount
    <2> QED
      BY <2>2, <2>3, <2>4
  <1>5. /\ hashes \subseteq Hashes
        /\ \A h \in hashes : \E a \in Attempts : Signed(a) /\ task[a].hash = h
    BY <1>3, <1>4
  <1>6. ASSUME NEW n \in Nat
        PROVE  /\ unknownPayment(n) \in Payment
               /\ unknownPayment(n).status = "PENDING"
               /\ ~unknownPayment(n).hasInvoiceId
    BY DEF unknownPayment, Payment, PaymentStatus
  <1>7. ASSUME NEW e \in Entities
        PROVE  /\ entity'[e] \in Payment
               /\ e \in unknown =>
                    entity'[e].status = "PENDING" /\ ~entity'[e].hasInvoiceId
               /\ e \notin unknown =>
                    \/ entity'[e] = entity[e]
                    \/ /\ entity[e].status = "INIT"
                       /\ entity'[e].status = "PENDING"
                       /\ entity'[e].hasInvoiceId = entity[e].hasInvoiceId
                       /\ \E h \in hashes : Exists(h) /\ row[h] = e
    <2>1. CASE e \in unknown
      <3>1. first[e] \in signed
        BY <2>1
      <3>2. HtlcAmount(first[e]) \in Nat
        BY <1>4, <3>1
      <3>3. entity'[e] = unknownPayment(HtlcAmount(first[e]))
        BY <1>2, <2>1
      <3> QED
        BY <1>6, <2>1, <3>2, <3>3
    <2>2. CASE e \notin unknown /\ e \in init
      <3>1. entity'[e] = updatePaymentPending(entity[e]) /\ entity[e] \in Payment
        BY <1>2, <2>2 DEF IInv, TypeOK
      <3>2. PICK h \in hashes : HasStatus(h, "INIT") /\ row[h] = e
        BY <2>2
      <3>3. entity[e].status = "INIT" /\ Exists(h)
        BY <3>2 DEF HasStatus, Status
      <3>4. /\ updatePaymentPending(entity[e]) \in Payment
            /\ updatePaymentPending(entity[e]).status = "PENDING"
            /\ updatePaymentPending(entity[e]).hasInvoiceId = entity[e].hasInvoiceId
        BY <3>1, <3>3 DEF updatePaymentPending, Payment, PaymentStatus
      <3> QED
        BY <2>2, <3>1, <3>2, <3>3, <3>4
    <2>3. CASE e \notin unknown /\ e \notin init
      BY <1>2, <2>3 DEF IInv, TypeOK
    <2> QED
      BY <2>1, <2>2, <2>3
  <1>8. entity' \in [Entities -> Payment]
    BY <1>2, <1>7
  <1> QED
    BY <1>1, <1>2, <1>3, <1>5, <1>7, <1>8

\* NodeSupervisor's ChannelSignatureSent handler preserves IInv.
LEMMA SignatureSentStep ==
    ASSUME IInv, HandleSignatureSent
    PROVE  IInv'
  <1> USE ConstantsAssumption
  <1> DEFINE hashes == {task[a].hash : a \in Head(mailbox).htlcs}
             unknown == {h \in hashes : ~Exists(h)}
  <1>1. /\ Grows /\ mailbox' \in Seq(Messages) /\ MailboxOK'
        /\ UNCHANGED <<st, task, fee, commitment, crashes>>
        /\ unknown \subseteq Hashes
        /\ \A h \in hashes : \E a \in Attempts : Signed(a) /\ task[a].hash = h
        /\ row' = [h \in Hashes |-> IF h \in unknown THEN h ELSE row[h]]
        /\ entity' \in [Entities -> Payment]
        /\ \A e \in Entities :
             /\ e \in unknown =>
                  entity'[e].status = "PENDING" /\ ~entity'[e].hasInvoiceId
             /\ e \notin unknown =>
                  \/ entity'[e] = entity[e]
                  \/ /\ entity[e].status = "INIT"
                     /\ entity'[e].status = "PENDING"
                     /\ entity'[e].hasInvoiceId = entity[e].hasInvoiceId
                     /\ \E h \in hashes : Exists(h) /\ row[h] = e
    BY SignatureSentEffect
  <1>2. \A h \in unknown : h \in hashes /\ ~Exists(h)
    OBVIOUS
  <1>3. \A h \in hashes : h \in unknown \/ Exists(h)
    OBVIOUS
  <1> HIDE DEF hashes, unknown
  <1>4. Entities = Attempts \cup Hashes
    BY DEF Entities
  <1>5. hashes \subseteq Hashes
    BY <1>1 DEF IInv, TypeOK, AttemptsOK, Signed, Task
  <1>6. \A e \in Attempts : e \notin unknown
    BY <1>1
  <1>7. TypeOK'
    <2>1. row' \in [Hashes -> Entities \cup {Null}]
      BY <1>1, <1>4 DEF IInv, TypeOK
    <2> QED
      BY <1>1, <2>1 DEF IInv, TypeOK
  <1>8. \A e \in Entities, h \in Hashes : Owns(e, h)' <=> Owns(e, h)
    BY <1>1 DEF Owns
  <1>9. AttemptsOK'
    <2> SUFFICES ASSUME NEW a \in Attempts, st[a] = "unused"
                 PROVE  entity'[a].status = "INIT"
      BY <1>1 DEF IInv, AttemptsOK, Signed
    <2>1. ~\E h \in hashes : Exists(h) /\ row[h] = a
      BY <1>5 DEF IInv, RowsOK, Owns
    <2> QED
      BY <1>1, <1>4, <1>6, <2>1 DEF IInv, AttemptsOK
  <1>10. RowsOK'
    <2> SUFFICES ASSUME NEW k \in Hashes
                 PROVE  /\ Exists(k)' => Owns(row[k], k)'
                        /\ ~entity'[k].hasInvoiceId
                        /\ Exists(k)' /\ ~entity'[row'[k]].hasInvoiceId
                             => Status(k)' \in {"PENDING", "PAID"}
      BY DEF RowsOK
    <2>1. ~entity'[k].hasInvoiceId
      BY <1>1, <1>4 DEF IInv, RowsOK
    <2>2. CASE k \in unknown
      BY <1>1, <1>4, <2>1, <2>2 DEF Owns, Status
    <2>3. CASE k \notin unknown
      <3>1. row'[k] = row[k]
        BY <1>1, <2>3
      <3>2. Exists(k)' => Owns(row[k], k)'
        BY <1>1, <3>1 DEF IInv, RowsOK, Exists, Owns
      <3>3. ASSUME Exists(k), ~entity'[row[k]].hasInvoiceId
            PROVE  entity'[row[k]].status \in {"PENDING", "PAID"}
        <4>1. row[k] \in Entities /\ Owns(row[k], k)
          BY <3>3 DEF Exists, IInv, TypeOK, RowsOK
        <4>2. row[k] \notin unknown
          BY <1>1, <1>6, <2>3, <4>1 DEF Owns
        <4> QED
          BY <1>1, <3>3, <4>1, <4>2 DEF IInv, RowsOK, Status
      <3> QED
        BY <2>1, <3>1, <3>2, <3>3 DEF Exists, Status
    <2> QED
      BY <2>2, <2>3
  <1>11. CapturedOK'
    <2> SUFFICES ASSUME NEW a \in Attempts, st[a] # "unused", task[a].p # Null
                 PROVE  /\ task[a].p \in Attempts
                        /\ Owns(task[a].p, task[a].hash)'
                        /\ entity'[task[a].p].hasInvoiceId
      BY <1>1 DEF CapturedOK
    <2>1. /\ task[a].p \in Attempts
          /\ Owns(task[a].p, task[a].hash)
          /\ entity[task[a].p].hasInvoiceId
      BY DEF IInv, CapturedOK
    <2> QED
      BY <1>1, <1>4, <1>6, <2>1 DEF Owns
  <1>12. EntitiesOK'
    <2> SUFFICES ASSUME NEW e \in Entities, NEW h \in Hashes, Owns(e, h)
                 PROVE  EntityOK(e, h)'
      BY <1>8 DEF EntitiesOK
    <2>1. CASE entity'[e] = entity[e]
      BY <1>1, <2>1, EntityStaysOK DEF IInv, EntitiesOK
    <2>2. CASE entity'[e].status = "PENDING" /\ h \in hashes
      BY <1>1, <2>2 DEF EntityOK, Signed
    <2>3. e \in unknown => e = h
      BY <1>1, <1>6 DEF Owns
    <2>4. ASSUME NEW k \in hashes, Exists(k), row[k] = e
          PROVE  k = h
      BY <1>5, <2>4 DEF IInv, RowsOK, Owns
    <2> QED
      BY <1>1, <1>2, <2>1, <2>2, <2>3, <2>4
  <1>13. RecordedBeforeSent'
    <2> SUFFICES ASSUME NEW b \in Sent
                 PROVE  Exists(task[b].hash)' /\ entity'[row'[task[b].hash]].hasInvoiceId
      BY <1>1 DEF RecordedBeforeSent, Sent
    <2>1. Exists(task[b].hash) /\ entity[row[task[b].hash]].hasInvoiceId
      BY DEF IInv, RecordedBeforeSent
    <2>2. task[b].hash \in Hashes
      BY DEF Sent, IInv, TypeOK, Task
    <2>3. row[task[b].hash] \in Entities /\ Owns(row[task[b].hash], task[b].hash)
      BY <2>1, <2>2 DEF Exists, IInv, TypeOK, RowsOK
    <2>4. row'[task[b].hash] = row[task[b].hash] /\ row[task[b].hash] \notin unknown
      BY <1>1, <1>2, <1>6, <2>1, <2>2, <2>3 DEF Owns
    <2> QED
      BY <1>1, <2>1, <2>3, <2>4 DEF Exists
  <1> QED
    BY <1>1, <1>7, <1>9, <1>10, <1>11, <1>12, <1>13 DEF IInv

-----------------------------------------------------------------------------
(* The theorems.                                                           *)

\* IInv holds in every state of every behaviour.
THEOREM InductiveInvariant == Spec => []IInv
  <1>1. IInv /\ [Next]_vars => IInv'
    <2> SUFFICES ASSUME IInv, [Next]_vars PROVE IInv'
      OBVIOUS
    <2>1. CASE \E a \in Attempts, h \in Hashes, amount \in Amounts : SendLNPayment(a, h, amount)
      BY <2>1, SendLNPaymentStep
    <2>2. CASE \E a \in Attempts : Execute(a)
      BY <2>2, ExecuteStep
    <2>3. CASE \E a \in Attempts, f \in Fees : Offer(a, f)
      BY <2>3, OfferStep
    <2>4. CASE \E a \in Attempts : Reroute(a)
      BY <2>4, RerouteStep
    <2>5. CASE \E done \in SUBSET commitment : SignAgain(done)
      BY <2>5, SignAgainStep
    <2>6. CASE \E a \in Attempts : Fail(a)
      BY <2>6, FailStep
    <2>7. CASE \E a \in Attempts : Succeed(a)
      BY <2>7, SucceedStep
    <2>8. CASE Receive
      BY <2>8, SignatureSentStep, PaymentFailedStep, PaymentSucceededStep DEF Receive
    <2>9. CASE Crash
      BY <2>9, CrashStep
    <2>10. CASE UNCHANGED vars
      BY <2>10 DEF vars, IInv, TypeOK, AttemptsOK, RowsOK, CapturedOK, MailboxOK, EntitiesOK,
                   RecordedBeforeSent, Sent, Exists, Status, Owns, Signed, SettledBy,
                   MessageOK, EntityOK, HtlcAmount
    <2> QED
      BY <2>1, <2>2, <2>3, <2>4, <2>5, <2>6, <2>7, <2>8, <2>9, <2>10 DEF Next
  <1> QED
    BY <1>1, InitIInv, PTL DEF Spec

\* Every variable of the payment path keeps its type, in particular the amount
\* recorded as paid is never negative.
THEOREM TypeCorrect == Spec => []TypeOK
  <1>1. IInv => TypeOK
    BY DEF IInv
  <1> QED
    BY <1>1, InductiveInvariant, PTL

\* Every payment this app handed to the node has a row with an invoice_id.
THEOREM SentIsRecorded == Spec => []RecordedBeforeSent
  <1>1. IInv => RecordedBeforeSent
    BY DEF IInv
  <1> QED
    BY <1>1, InductiveInvariant, PTL

\* A row never claims what did not happen.
THEOREM StatusNeverLies == Spec => []StatusIsJustified
  <1>1. IInv => StatusIsJustified
    <2> SUFFICES ASSUME IInv, NEW h \in Hashes, Exists(h)
                 PROVE  PaidIsJustified(h) /\ PendingIsJustified(h) /\ FailedIsJustified(h)
      BY DEF StatusIsJustified, PaidIsJustified, PendingIsJustified, FailedIsJustified, HasStatus
    <2>1. EntityOK(row[h], h)
      BY DEF IInv, TypeOK, RowsOK, EntitiesOK, Exists
    <2> QED
      BY <2>1 DEF EntityOK, PaidIsJustified, PendingIsJustified, FailedIsJustified,
                  HasStatus, Status, SettledBy, Signed
  <1> QED
    BY <1>1, InductiveInvariant, PTL

\* No event that NodeSupervisor handles takes a payment out of PAID.
THEOREM PaidSurvivesEvents == Spec => SupervisorKeepsPaid
  <1>1. IInv /\ [Next]_vars =>
          [\A h \in Hashes : Receive /\ HasStatus(h, "PAID") => HasStatus(h, "PAID")']_vars
    <2> SUFFICES ASSUME IInv, NEW h \in Hashes, Receive, HasStatus(h, "PAID")
                 PROVE  HasStatus(h, "PAID")'
      OBVIOUS
    <2> USE ConstantsAssumption
    <2>1. /\ row[h] \in Entities /\ Owns(row[h], h) /\ Exists(h)
          /\ entity[row[h]] \in Payment /\ entity[row[h]].status = "PAID"
      BY DEF HasStatus, Exists, Status, IInv, TypeOK, RowsOK
    <2>2. CASE HandleSignatureSent
      <3> DEFINE hashes == {task[a].hash : a \in Head(mailbox).htlcs}
                 unknown == {k \in hashes : ~Exists(k)}
      <3>1. /\ unknown \subseteq Hashes
            /\ row' = [k \in Hashes |-> IF k \in unknown THEN k ELSE row[k]]
            /\ \A e \in Entities : e \notin unknown =>
                   entity'[e] = entity[e] \/ entity[e].status = "INIT"
        BY <2>2, SignatureSentEffect
      <3>2. h \notin unknown /\ row[h] \notin unknown
        BY <2>1, <3>1 DEF Owns
      <3> QED
        BY <2>1, <3>1, <3>2 DEF HasStatus, Exists, Status
    <2>3. CASE HandlePaymentFailed
      <3>1. row' = row /\ (entity'[row[h]] = entity[row[h]] \/
                           entity'[row[h]] = updatePaymentFailed(entity[row[h]]))
        BY <2>1, <2>3 DEF HandlePaymentFailed, IInv, TypeOK
      <3> QED
        BY <2>1, <3>1 DEF updatePaymentFailed, HasStatus, Exists, Status
    <2>4. CASE DropPaymentFailed
      BY <2>1, <2>4 DEF DropPaymentFailed, HasStatus, Exists, Status
    <2>5. CASE HandlePaymentSucceeded
      <3>1. row' = row /\ (entity'[row[h]] = entity[row[h]] \/
              \E x, y : entity'[row[h]] = updatePaymentPaid(entity[row[h]], x, y))
        BY <2>1, <2>5 DEF HandlePaymentSucceeded, IInv, TypeOK
      <3>2. ASSUME NEW x, NEW y
            PROVE  updatePaymentPaid(entity[row[h]], x, y).status = "PAID"
        BY <2>1 DEF updatePaymentPaid, Payment
      <3> QED
        BY <2>1, <3>1, <3>2 DEF HasStatus, Exists, Status
    <2> QED
      BY <2>2, <2>3, <2>4, <2>5 DEF Receive
  <1> QED
    BY <1>1, InductiveInvariant, PTL DEF Spec, SupervisorKeepsPaid

-----------------------------------------------------------------------------
(* A PENDING row is never stranded while the process lives.                *)

\* The two ways for a hash to be in progress: an attempt that is not resolved,
\* or an outcome that NodeSupervisor has yet to handle.
Unresolved == {"queued", "routing", "offered", "orphan"}

Busy(h) == \E a \in Attempts : st[a] \in Unresolved /\ task[a].hash = h

Outcome(m, h) == m.type # "ChannelSignatureSent" /\ m.hash = h

Awaited(h) == \E i \in 1..Len(mailbox) : Outcome(mailbox[i], h)

LEMMA InProgressParts == \A h : InProgress(h) <=> Busy(h) \/ Awaited(h)
  BY DEF InProgress, Busy, Awaited, Outcome, Unresolved

LEMMA InProgressPartsNext == \A h : InProgress(h)' <=> Busy(h)' \/ Awaited(h)'
  BY DEF InProgress, Busy, Awaited, Outcome, Unresolved

\* A published event joins the events that are awaited.
LEMMA PublishKeeps ==
    ASSUME mailbox \in Seq(Messages), NEW m \in Messages, mailbox' = Append(mailbox, m)
    PROVE  \A h : Awaited(h) \/ Outcome(m, h) => Awaited(h)'
  <1>1. /\ Len(mailbox) \in Nat /\ Len(mailbox') = Len(mailbox) + 1
        /\ \A i \in 1..Len(mailbox) : i \in 1..Len(mailbox') /\ mailbox'[i] = mailbox[i]
        /\ Len(mailbox') \in 1..Len(mailbox') /\ mailbox'[Len(mailbox')] = m
    OBVIOUS
  <1> QED
    BY <1>1 DEF Awaited, Outcome

\* A handled event is the only one that is no longer awaited.
LEMMA HandleKeeps ==
    ASSUME mailbox \in Seq(Messages), mailbox # <<>>, mailbox' = Tail(mailbox)
    PROVE  \A h : Awaited(h) /\ ~Outcome(Head(mailbox), h) => Awaited(h)'
  <1> SUFFICES ASSUME NEW h, Awaited(h), ~Outcome(Head(mailbox), h)
               PROVE  Awaited(h)'
    OBVIOUS
  <1>1. /\ Len(mailbox) \in Nat /\ Len(Tail(mailbox)) = Len(mailbox) - 1
        /\ \A i \in 1..Len(Tail(mailbox)) : Tail(mailbox)[i] = mailbox[i + 1]
        /\ Head(mailbox) = mailbox[1]
    BY HeadTailProperties
  <1>2. PICK i \in 1..Len(mailbox) : Outcome(mailbox[i], h)
    BY DEF Awaited
  <1>3. i # 1
    BY <1>1, <1>2
  <1>4. i - 1 \in 1..Len(Tail(mailbox)) /\ (i - 1) + 1 = i
    BY <1>1, <1>2, <1>3
  <1>5. Outcome(Tail(mailbox)[i - 1], h)
    BY <1>1, <1>2, <1>4
  <1> QED
    BY <1>4, <1>5 DEF Awaited, Outcome

\* Without events of restored HTLCs, a wallet without payments has no row.
LEMMA InitLive == Init => LiveInv
  <1> SUFFICES ASSUME Init PROVE LiveInv
    OBVIOUS
  <1>1. PICK f \in [Restored -> Fees] :
            fee = [a \in Attempts |-> IF a \in Restored THEN f[a] ELSE NotSigned]
    BY DEF Init
  <1>2. \A a \in Attempts : Signed(a) <=> a \in Restored
    BY <1>1, ConstantsAssumption DEF Signed, NotSigned
  <1>3. \A h \in Hashes : ~Exists(h)
    BY DEF Init, Exists
  <1> QED
    BY <1>2, <1>3, ConstantsAssumption DEF LiveInv

\* A step that leaves the table alone keeps LiveInv if what was in progress
\* stays so, and if what it signs is a payment that was sent.
LEMMA TableUnchangedLive ==
    ASSUME LiveInv, UNCHANGED <<row, entity, crashes>>,
           \A a \in Restored : task'[a] = task[a],
           \A h \in Hashes : InProgress(h) => InProgress(h)',
           Sent \subseteq Sent',
           \A a \in Attempts : /\ Signed(a) => Signed(a)'
                               /\ Signed(a)' => Signed(a) \/ a \in Sent'
    PROVE  LiveInv'
  <1>1. \A a \in Restored : Signed(a)'
    BY ConstantsAssumption DEF LiveInv
  <1>2. ASSUME crashes' = 0, NEW a \in Attempts, Signed(a)'
        PROVE  a \in Sent' \cup Restored
    BY <1>2 DEF LiveInv
  <1>3. ASSUME crashes' = 0, NEW h \in Hashes, OwnOnly(h)', Exists(h)',
               Status(h)' \in {"INIT", "PENDING"}
        PROVE  InProgress(h)'
    <2>1. OwnOnly(h) /\ Exists(h) /\ Status(h) \in {"INIT", "PENDING"}
      BY <1>3 DEF OwnOnly, Exists, Status
    <2> QED
      BY <1>3, <2>1 DEF LiveInv
  <1> QED
    BY <1>1, <1>2, <1>3 DEF LiveInv

\* A new attempt puts its hash in progress, and nothing else changes.
LEMMA SendLNPaymentLive ==
    ASSUME IInv, LiveInv, NEW a \in Attempts, NEW h \in Hashes, NEW amount \in Amounts,
           SendLNPayment(a, h, amount)
    PROVE  LiveInv'
  <1>1. /\ st[a] = "unused" /\ fee[a] = NotSigned
        /\ st' = [st EXCEPT ![a] = "queued"]
        /\ \A b \in Attempts : b # a => task'[b] = task[b]
        /\ UNCHANGED <<fee, row, entity, mailbox, crashes>>
    BY DEF SendLNPayment, IInv, TypeOK, AttemptsOK
  <1>2. /\ \A b \in Attempts : b # a => st'[b] = st[b]
        /\ a \notin Restored
        /\ \A b \in Attempts : Signed(b)' <=> Signed(b)
    BY <1>1 DEF IInv, TypeOK, LiveInv, Signed
  <1>3. Sent \subseteq Sent'
    BY <1>1, <1>2 DEF Sent
  <1>4. \A k \in Hashes : InProgress(k) => InProgress(k)'
    <2>1. \A k \in Hashes : Busy(k) => Busy(k)'
      BY <1>1, <1>2 DEF Busy, Unresolved
    <2>2. \A k \in Hashes : Awaited(k) => Awaited(k)'
      BY <1>1 DEF Awaited
    <2> QED
      BY <2>1, <2>2, InProgressParts, InProgressPartsNext
  <1> QED
    BY <1>1, <1>2, <1>3, <1>4, TableUnchangedLive, ConstantsAssumption

\* The executor's row is in progress, as its attempt is now routing.
LEMMA ExecuteLive ==
    ASSUME IInv, LiveInv, NEW a \in Attempts, Execute(a)
    PROVE  LiveInv'
  <1>1. PICK e \in Attempts :
             /\ row' = [row EXCEPT ![task[a].hash] = e]
             /\ Owns(e, task[a].hash)
             /\ \A d \in Entities : d # e => entity'[d] = entity[d]
    BY ExecuteStores
  <1>2. /\ st' = [st EXCEPT ![a] = "routing"] /\ st[a] = "queued"
        /\ UNCHANGED <<task, fee, commitment, mailbox, crashes>>
    BY DEF Execute
  <1>3. /\ st'[a] = "routing"
        /\ \A b \in Attempts : b # a => st'[b] = st[b]
        /\ task[a].hash \in Hashes
    BY <1>2 DEF IInv, TypeOK, Task
  <1>4. \A b \in Attempts : Signed(b)' <=> Signed(b)
    BY <1>2 DEF Signed
  <1>5. Sent \subseteq Sent'
    BY <1>2, <1>3 DEF Sent
  <1>6. \A h \in Hashes : InProgress(h) => InProgress(h)'
    <2>1. \A h \in Hashes : Busy(h) => Busy(h)'
      BY <1>2, <1>3 DEF Busy, Unresolved
    <2>2. \A h \in Hashes : Awaited(h) => Awaited(h)'
      BY <1>2 DEF Awaited
    <2> QED
      BY <2>1, <2>2, InProgressParts, InProgressPartsNext
  <1>7. \A h : h = task[a].hash => InProgress(h)'
    BY <1>2, <1>3, InProgressPartsNext DEF Busy, Unresolved
  <1>8. ASSUME crashes' = 0, NEW h \in Hashes, OwnOnly(h)', Exists(h)',
               Status(h)' \in {"INIT", "PENDING"}
        PROVE  InProgress(h)'
    <2>1. CASE h = task[a].hash
      BY <1>7, <2>1
    <2>2. CASE h # task[a].hash
      <3>1. row'[h] = row[h]
        BY <1>1, <1>3, <2>2 DEF IInv, TypeOK
      <3>2. Exists(h) /\ row[h] \in Entities /\ Owns(row[h], h)
        BY <1>8, <3>1 DEF Exists, IInv, TypeOK, RowsOK
      <3>3. row[h] # e
        BY <1>1, <1>3, <2>2, <3>2, ConstantsAssumption DEF Owns
      <3>4. Status(h) = Status(h)' /\ OwnOnly(h)
        BY <1>1, <1>2, <1>8, <3>1, <3>2, <3>3 DEF Status, OwnOnly
      <3> QED
        BY <1>2, <1>6, <1>8, <3>2, <3>4 DEF LiveInv
    <2> QED
      BY <2>1, <2>2
  <1>9. \A b \in Restored : Signed(b)'
    BY <1>4, ConstantsAssumption DEF LiveInv
  <1>10. crashes' = 0 => \A b \in Attempts : Signed(b)' => b \in Sent' \cup Restored
    BY <1>2, <1>4, <1>5 DEF LiveInv
  <1> QED
    BY <1>8, <1>9, <1>10 DEF LiveInv

\* What the node does with an attempt keeps LiveInv: while it is not resolved
\* its hash is busy, and its outcome is published when it is.
LEMMA NodeLive ==
    ASSUME IInv, LiveInv, NEW a \in Attempts,
           NEW s \in {"routing", "offered", "failed", "succeeded"},
           st[a] \in {"routing", "offered", "orphan"},
           st' = [st EXCEPT ![a] = s],
           \/ mailbox' = mailbox /\ s \in {"routing", "offered"}
           \/ \E m \in Messages : /\ mailbox' = Append(mailbox, m)
                                  /\ s \in {"routing", "offered"} \/ Outcome(m, task[a].hash),
           \A b \in Attempts : b # a => fee'[b] = fee[b],
           Signed(a) => Signed(a)',
           UNCHANGED <<task, row, entity, crashes>>
    PROVE  LiveInv'
  <1>1. /\ st'[a] = s
        /\ \A b \in Attempts : b # a => st'[b] = st[b]
    BY DEF IInv, TypeOK
  <1>2. Sent \subseteq Sent' /\ (a \in Restored \/ a \in Sent')
    BY <1>1 DEF Sent
  <1>3. \A b \in Attempts : /\ Signed(b) => Signed(b)'
                            /\ Signed(b)' => Signed(b) \/ b \in Sent'
    BY <1>2 DEF Signed, LiveInv
  <1>4. ASSUME NEW h \in Hashes, InProgress(h)
        PROVE  InProgress(h)'
    <2>1. Awaited(h) => Awaited(h)'
      <3>1. CASE mailbox' = mailbox
        BY <3>1 DEF Awaited
      <3>2. CASE \E m \in Messages : mailbox' = Append(mailbox, m)
        BY <3>2, PublishKeeps DEF IInv, TypeOK
      <3> QED
        BY <3>1, <3>2
    <2>2. ASSUME NEW b \in Attempts, st[b] \in Unresolved, task[b].hash = h
          PROVE  InProgress(h)'
      <3>1. CASE b # a \/ s \in {"routing", "offered"}
        <4>1. Busy(h)'
          BY <1>1, <2>2, <3>1 DEF Busy, Unresolved
        <4> QED
          BY <4>1, InProgressPartsNext
      <3>2. CASE b = a /\ s \in {"failed", "succeeded"}
        <4>1. PICK m \in Messages : mailbox' = Append(mailbox, m) /\ Outcome(m, h)
          BY <2>2, <3>2
        <4>2. Awaited(h)'
          BY <4>1, PublishKeeps DEF IInv, TypeOK
        <4> QED
          BY <4>2, InProgressPartsNext
      <3> QED
        BY <3>1, <3>2
    <2> QED
      BY <1>4, <2>1, <2>2, InProgressParts, InProgressPartsNext DEF Busy
  <1> QED
    BY <1>2, <1>3, <1>4, TableUnchangedLive, ConstantsAssumption

\* The node signing, rerouting, failing or settling an attempt keeps LiveInv.
LEMMA OfferLive ==
    ASSUME IInv, LiveInv, NEW a \in Attempts, NEW f \in Fees, Offer(a, f)
    PROVE  LiveInv'
  <1> USE ConstantsAssumption
  <1>1. /\ st[a] = "routing"
        /\ st' = [st EXCEPT ![a] = "offered"]
        /\ fee' = [fee EXCEPT ![a] = f]
        /\ mailbox' = Append(mailbox, SignatureSent(commitment \cup {a}))
        /\ UNCHANGED <<task, row, entity, crashes>>
    BY DEF Offer, Publish
  <1>2. fee'[a] = f /\ f # NotSigned /\ \A b \in Attempts : b # a => fee'[b] = fee[b]
    BY <1>1 DEF IInv, TypeOK, NotSigned
  <1>3. SignatureSent(commitment \cup {a}) \in Messages
    BY DEF IInv, TypeOK, SignatureSent, Messages
  <1> QED
    BY <1>1, <1>2, <1>3, NodeLive DEF Signed

LEMMA RerouteLive ==
    ASSUME IInv, LiveInv, NEW a \in Attempts, Reroute(a)
    PROVE  LiveInv'
  BY NodeLive DEF Reroute, Signed

LEMMA FailLive ==
    ASSUME IInv, LiveInv, NEW a \in Attempts, Fail(a)
    PROVE  LiveInv'
  <1> DEFINE m == [type |-> "PaymentFailed", hash |-> task[a].hash]
  <1>1. m \in Messages /\ Outcome(m, task[a].hash)
    BY DEF Fail, IInv, TypeOK, Task, Messages, Outcome
  <1> QED
    BY <1>1, NodeLive DEF Fail, Publish, Signed

LEMMA SucceedLive ==
    ASSUME IInv, LiveInv, NEW a \in Attempts, Succeed(a)
    PROVE  LiveInv'
  <1> USE ConstantsAssumption
  <1> DEFINE m == [type |-> "PaymentSucceeded", hash |-> task[a].hash,
                   amount |-> HtlcAmount(a)]
  <1>1. HtlcAmount(a) \in Nat /\ task[a].hash \in Hashes
    BY DEF Succeed, HtlcAmount, IInv, TypeOK, AttemptsOK, Task
  <1>2. m \in Messages /\ Outcome(m, task[a].hash)
    BY <1>1 DEF Messages, Outcome
  <1> QED
    BY <1>2, NodeLive DEF Succeed, Publish, Signed

\* Signing again publishes an event that is no outcome.
LEMMA SignAgainLive ==
    ASSUME IInv, LiveInv, NEW done \in SUBSET commitment, SignAgain(done)
    PROVE  LiveInv'
  <1>1. /\ mailbox' = Append(mailbox, SignatureSent(commitment \ done))
        /\ UNCHANGED <<st, task, fee, row, entity, crashes>>
    BY DEF SignAgain, Publish
  <1>2. SignatureSent(commitment \ done) \in Messages
    BY DEF IInv, TypeOK, SignatureSent, Messages
  <1>3. \A h \in Hashes : Awaited(h) => Awaited(h)'
    BY <1>1, <1>2, PublishKeeps DEF IInv, TypeOK
  <1>4. \A h \in Hashes : InProgress(h) => InProgress(h)'
    BY <1>1, <1>3, InProgressParts, InProgressPartsNext DEF Busy
  <1>5. Sent \subseteq Sent'
    BY <1>1 DEF Sent
  <1> QED
    BY <1>1, <1>4, <1>5, TableUnchangedLive, ConstantsAssumption DEF Signed

\* Handling an event keeps LiveInv, if every hash of the app's own that is INIT
\* or PENDING after it was so before it, and this event is not its outcome.
LEMMA HandleLive ==
    ASSUME IInv, LiveInv, mailbox # <<>>, mailbox' = Tail(mailbox),
           UNCHANGED <<st, task, fee, crashes>>,
           \A h \in Hashes :
              OwnOnly(h) /\ crashes = 0 /\ Exists(h)' /\ Status(h)' \in {"INIT", "PENDING"} =>
                 /\ Exists(h) /\ Status(h) \in {"INIT", "PENDING"}
                 /\ ~Outcome(Head(mailbox), h)
    PROVE  LiveInv'
  <1>1. ASSUME crashes' = 0, NEW h \in Hashes, OwnOnly(h)', Exists(h)',
               Status(h)' \in {"INIT", "PENDING"}
        PROVE  InProgress(h)'
    <2>1. crashes = 0 /\ OwnOnly(h)
      BY <1>1 DEF OwnOnly
    <2>2. InProgress(h) /\ ~Outcome(Head(mailbox), h)
      BY <1>1, <2>1 DEF LiveInv
    <2>3. Awaited(h) => Awaited(h)'
      BY <2>2, HandleKeeps DEF IInv, TypeOK
    <2>4. Busy(h) => Busy(h)'
      BY DEF Busy
    <2> QED
      BY <2>2, <2>3, <2>4, InProgressParts, InProgressPartsNext
  <1>2. Sent' = Sent /\ \A a : Signed(a)' <=> Signed(a)
    BY DEF Sent, Signed
  <1> QED
    BY <1>1, <1>2 DEF LiveInv

\* A signature brings no row for a hash of the app's own: what is signed was
\* sent, and what was sent has a row.
LEMMA SignatureSentLive ==
    ASSUME IInv, LiveInv, HandleSignatureSent
    PROVE  LiveInv'
  <1> USE ConstantsAssumption
  <1> DEFINE hashes == {task[a].hash : a \in Head(mailbox).htlcs}
             unknown == {h \in hashes : ~Exists(h)}
  <1>1. /\ Event("ChannelSignatureSent")
        /\ UNCHANGED <<st, task, fee, commitment, crashes>>
        /\ unknown \subseteq Hashes
        /\ \A h \in hashes : \E a \in Attempts : Signed(a) /\ task[a].hash = h
        /\ row' = [h \in Hashes |-> IF h \in unknown THEN h ELSE row[h]]
        /\ \A e \in Entities : e \notin unknown =>
             entity'[e] = entity[e] \/ entity[e].status = "INIT"
    BY SignatureSentEffect
  <1>2. \A h \in unknown : h \in hashes /\ ~Exists(h)
    OBVIOUS
  <1> HIDE DEF hashes, unknown
  <1>3. ASSUME NEW h \in Hashes, OwnOnly(h), crashes = 0, Exists(h)',
               Status(h)' \in {"INIT", "PENDING"}
        PROVE  /\ Exists(h) /\ Status(h) \in {"INIT", "PENDING"}
               /\ ~Outcome(Head(mailbox), h)
    <2>1. h \notin unknown
      <3> SUFFICES ASSUME h \in unknown PROVE FALSE
        OBVIOUS
      <3>1. PICK a \in Attempts : Signed(a) /\ task[a].hash = h
        BY <1>1, <1>2
      <3>2. a \in Sent
        BY <1>3, <3>1 DEF LiveInv, OwnOnly
      <3>3. Exists(h)
        BY <3>1, <3>2 DEF IInv, RecordedBeforeSent
      <3> QED
        BY <1>2, <3>3
    <2>2. row'[h] = row[h]
      BY <1>1, <2>1
    <2>3. Exists(h) /\ row[h] \in Entities /\ Owns(row[h], h)
      BY <1>3, <2>2 DEF Exists, IInv, TypeOK, RowsOK
    <2>4. row[h] \notin unknown
      BY <1>1, <2>1, <2>3 DEF Owns
    <2>5. Status(h) \in {"INIT", "PENDING"}
      BY <1>1, <1>3, <2>2, <2>3, <2>4 DEF Status
    <2> QED
      BY <1>1, <2>3, <2>5 DEF Event, Outcome
  <1>4. mailbox # <<>> /\ mailbox' = Tail(mailbox) /\ UNCHANGED <<st, task, fee, crashes>>
    BY <1>1 DEF Event
  <1> QED
    BY <1>3, <1>4, HandleLive

\* An outcome of hash h that writes PAID or FAILED to its row leaves the others.
LEMMA OutcomeLive ==
    ASSUME IInv, LiveInv, mailbox # <<>>, mailbox' = Tail(mailbox),
           UNCHANGED <<st, task, fee, row, crashes>>,
           NEW h \in Hashes, Exists(h),
           \A k \in Hashes : Outcome(Head(mailbox), k) => k = h,
           NEW q \in Payment, q.status \in {"PAID", "FAILED"},
           entity' = [entity EXCEPT ![row[h]] = q]
    PROVE  LiveInv'
  <1> USE ConstantsAssumption
  <1>1. row[h] \in Entities /\ Owns(row[h], h)
    BY DEF Exists, IInv, TypeOK, RowsOK
  <1>2. ASSUME NEW k \in Hashes, Exists(k)', Status(k)' \in {"INIT", "PENDING"}
        PROVE  /\ Exists(k) /\ Status(k) \in {"INIT", "PENDING"}
               /\ ~Outcome(Head(mailbox), k)
    <2>1. Exists(k) /\ row[k] \in Entities /\ Owns(row[k], k)
      BY <1>2 DEF Exists, IInv, TypeOK, RowsOK
    <2>2. k # h
      BY <1>1, <1>2 DEF Status, IInv, TypeOK
    <2>3. row[k] # row[h]
      BY <1>1, <2>1, <2>2 DEF Owns
    <2>4. entity'[row[k]] = entity[row[k]]
      BY <2>1, <2>3 DEF IInv, TypeOK
    <2> QED
      BY <1>2, <2>1, <2>2, <2>4 DEF Status
  <1> QED
    BY <1>2, HandleLive

LEMMA PaymentFailedLive ==
    ASSUME IInv, LiveInv, HandlePaymentFailed
    PROVE  LiveInv'
  <1>1. /\ Event("PaymentFailed") /\ Exists(Head(mailbox).hash)
        /\ entity' = [entity EXCEPT ![row[Head(mailbox).hash]] = updatePaymentFailed(@)]
        /\ UNCHANGED <<st, task, fee, commitment, row, crashes>>
    BY DEF HandlePaymentFailed
  <1>2. PICK h \in Hashes : h = Head(mailbox).hash
    BY <1>1, ReceiveGrows, MessageTypes
  <1>3. row[h] \in Entities /\ entity[row[h]] \in Payment
    BY <1>1, <1>2 DEF Exists, IInv, TypeOK
  <1>4. PICK q : q = updatePaymentFailed(entity[row[h]])
    OBVIOUS
  <1>5. q \in Payment /\ q.status \in {"PAID", "FAILED"}
    BY <1>3, <1>4 DEF updatePaymentFailed, Payment, PaymentStatus
  <1>6. entity' = [entity EXCEPT ![row[h]] = q]
    BY <1>1, <1>2, <1>3, <1>4 DEF IInv, TypeOK
  <1>7. /\ Exists(h) /\ mailbox # <<>> /\ mailbox' = Tail(mailbox)
        /\ \A k \in Hashes : Outcome(Head(mailbox), k) => k = h
    BY <1>1, <1>2 DEF Outcome, Event
  <1> QED
    BY <1>1, <1>5, <1>6, <1>7, OutcomeLive

\* A PaymentFailed of the app's own hash is not dropped: its row has an invoice.
LEMMA DropPaymentFailedLive ==
    ASSUME IInv, LiveInv, DropPaymentFailed
    PROVE  LiveInv'
  <1>1. /\ Event("PaymentFailed")
        /\ Exists(Head(mailbox).hash) => ~entity[row[Head(mailbox).hash]].hasInvoiceId
        /\ UNCHANGED <<st, task, fee, commitment, row, entity, crashes>>
    BY DEF DropPaymentFailed
  <1>2. PICK a \in Attempts : st[a] = "failed" /\ task[a].hash = Head(mailbox).hash
    BY <1>1, ReceiveGrows DEF MessageOK
  <1>3. ASSUME NEW h \in Hashes, OwnOnly(h)
        PROVE  ~Outcome(Head(mailbox), h)
    <2> SUFFICES ASSUME Head(mailbox).hash = h PROVE FALSE
      BY DEF Outcome
    <2>1. a \in Sent
      BY <1>2, <1>3 DEF OwnOnly, Sent
    <2> QED
      BY <1>1, <1>2, <2>1 DEF IInv, RecordedBeforeSent
  <1>4. \A h \in Hashes : (Exists(h)' <=> Exists(h)) /\ Status(h)' = Status(h)
    BY <1>1 DEF Exists, Status
  <1> QED
    BY <1>1, <1>3, <1>4, HandleLive DEF Event

LEMMA PaymentSucceededLive ==
    ASSUME IInv, LiveInv, HandlePaymentSucceeded
    PROVE  LiveInv'
  <1> DEFINE paid == Head(mailbox).amount
  <1>1. /\ Event("PaymentSucceeded")
        /\ UNCHANGED <<st, task, fee, commitment, row, crashes>>
    BY DEF HandlePaymentSucceeded
  <1>2. PICK h \in Hashes : h = Head(mailbox).hash
    BY <1>1, ReceiveGrows, MessageTypes
  <1>3. CASE ~Exists(h)
    <2>1. entity' = entity
      BY <1>2, <1>3 DEF HandlePaymentSucceeded
    <2>2. \A k \in Hashes : (Exists(k)' <=> Exists(k)) /\ Status(k)' = Status(k)
      BY <1>1, <2>1 DEF Exists, Status
    <2>3. \A k \in Hashes : Exists(k) => ~Outcome(Head(mailbox), k)
      BY <1>2, <1>3 DEF Outcome
    <2> QED
      BY <1>1, <2>2, <2>3, HandleLive DEF Event
  <1>4. CASE Exists(h)
    <2>1. row[h] \in Entities /\ entity[row[h]] \in Payment
      BY <1>4 DEF Exists, IInv, TypeOK
    <2>2. PICK q : q = updatePaymentPaid(entity[row[h]], paid, paid - entity[row[h]].amountSent)
      OBVIOUS
    <2>3. q \in Payment /\ q.status \in {"PAID", "FAILED"}
      <3>1. paid \in Nat
        BY <1>1, ReceiveGrows, MessageTypes
      <3>2. paid - entity[row[h]].amountSent \in Int
        BY <2>1, <3>1 DEF Payment
      <3> QED
        BY <2>1, <2>2, <3>1, <3>2 DEF updatePaymentPaid, Payment, PaymentStatus
    <2>4. entity' = [entity EXCEPT ![row[h]] = q]
      BY <1>2, <1>4, <2>1, <2>2 DEF HandlePaymentSucceeded, IInv, TypeOK
    <2>5. /\ mailbox # <<>> /\ mailbox' = Tail(mailbox)
          /\ \A k \in Hashes : Outcome(Head(mailbox), k) => k = h
      BY <1>1, <1>2 DEF Outcome, Event
    <2> QED
      BY <1>1, <1>4, <2>3, <2>4, <2>5, OutcomeLive
  <1> QED
    BY <1>3, <1>4

\* LiveInv holds in every state of every behaviour.
LEMMA LiveInvariant == Spec => []LiveInv
  <1>1. IInv /\ LiveInv /\ [Next]_vars => LiveInv'
    <2> SUFFICES ASSUME IInv, LiveInv, [Next]_vars PROVE LiveInv'
      OBVIOUS
    <2>1. CASE \E a \in Attempts, h \in Hashes, amount \in Amounts : SendLNPayment(a, h, amount)
      BY <2>1, SendLNPaymentLive
    <2>2. CASE \E a \in Attempts : Execute(a)
      BY <2>2, ExecuteLive
    <2>3. CASE \E a \in Attempts, f \in Fees : Offer(a, f)
      BY <2>3, OfferLive
    <2>4. CASE \E a \in Attempts : Reroute(a)
      BY <2>4, RerouteLive
    <2>5. CASE \E done \in SUBSET commitment : SignAgain(done)
      BY <2>5, SignAgainLive
    <2>6. CASE \E a \in Attempts : Fail(a)
      BY <2>6, FailLive
    <2>7. CASE \E a \in Attempts : Succeed(a)
      BY <2>7, SucceedLive
    <2>8. CASE Receive
      BY <2>8, SignatureSentLive, PaymentFailedLive, DropPaymentFailedLive,
         PaymentSucceededLive DEF Receive
    <2>9. CASE Crash
      <3>1. crashes' # 0 /\ \A a \in Attempts : Signed(a)' <=> Signed(a)
        BY <2>9 DEF Crash, IInv, TypeOK, Signed
      <3> QED
        BY <3>1, ConstantsAssumption DEF LiveInv
    <2>10. CASE UNCHANGED vars
      BY <2>10 DEF vars, LiveInv, Signed, Sent, OwnOnly, Exists, Status, InProgress
    <2> QED
      BY <2>1, <2>2, <2>3, <2>4, <2>5, <2>6, <2>7, <2>8, <2>9, <2>10 DEF Next
  <1> QED
    BY <1>1, InitLive, InductiveInvariant, PTL DEF Spec

\* As long as the process lives, a PENDING row of a payment hash that only this
\* app's payments are for can still be resolved, whatever HTLCs a restored
\* backup brought for other hashes.
THEOREM OwnPendingIsLive ==
    Spec => [](crashes = 0 =>
                 \A h \in Hashes : OwnOnly(h) /\ HasStatus(h, "PENDING") => InProgress(h))
  <1>1. LiveInv => (crashes = 0 =>
                      \A h \in Hashes : OwnOnly(h) /\ HasStatus(h, "PENDING") => InProgress(h))
    BY DEF LiveInv, HasStatus
  <1> QED
    BY <1>1, LiveInvariant, PTL

\* Without a restored backup, no PENDING row is stranded while the process lives.
THEOREM PendingStaysLive ==
    ASSUME Restored = {}
    PROVE  Spec => [](crashes = 0 => PendingIsLive)
  <1>1. LiveInv => (crashes = 0 => PendingIsLive)
    BY DEF LiveInv, HasStatus, PendingIsLive, OwnOnly
  <1> QED
    BY <1>1, LiveInvariant, PTL

-----------------------------------------------------------------------------
(* The payment screen.                                                     *)

\* No screen and no dialog exists when the app is installed.
LEMMA ScreenInitIInv == ScreenInit => ScreenIInv
  BY ScreenAssumption
     DEF ScreenInit, ScreenIInv, ScreenTypeOK, Screen, Dialog, ScreensOK, DialogsOK,
         FreshScreen, FreshDialog,
         Steps, Verdicts

\* sendLNPayment changes only the flag and the step of its screen, and the screen
\* does not become unused.
LEMMA SubmitScreen ==
    ASSUME ScreenIInv, NEW s \in Screens, NEW amount,
           NEW refused \in SUBSET {"error", "closed"}, Submit(s, amount, refused),
           screen[s].step # "unused"
    PROVE  \E step \in Steps \ {"unused"} :
             screen' = [screen EXCEPT ![s].processing = TRUE, ![s].step = step]
  <1>1. screen[s].step \in Steps \ {"unused"}
    BY DEF ScreenIInv, ScreenTypeOK, Screen
  <1> QED
    BY <1>1 DEF Submit, Steps

\* What such a change leaves intact, whether the flag is set or reset.
LEMMA ScreenUpdate ==
    ASSUME ScreenIInv, NEW s \in Screens, NEW step \in Steps \ {"unused"},
           screen[s].step # "unused",
           \/ screen' = [screen EXCEPT ![s].processing = TRUE, ![s].step = step]
           \/ screen' = [screen EXCEPT ![s].processing = FALSE, ![s].step = step]
    PROVE  /\ screen' \in [Screens -> Screen]
           /\ \A r \in Screens : /\ screen'[r].hash = screen[r].hash
                                 /\ screen[r].step # "unused" <=> screen'[r].step # "unused"
           /\ ScreensOK'
  <1>1. /\ screen \in [Screens -> Screen]
        /\ \A r \in Screens : screen[r].step # "unused" => screen[r].hash \in Hashes
    BY DEF ScreenIInv, ScreenTypeOK, ScreensOK
  <1>2. /\ screen' \in [Screens -> Screen]
        /\ \A r \in Screens : /\ screen'[r].hash = screen[r].hash
                              /\ screen[r].step # "unused" <=> screen'[r].step # "unused"
    <2>1. CASE screen' = [screen EXCEPT ![s].processing = TRUE, ![s].step = step]
      <3>1. screen[s] \in Screen
        BY <1>1
      <3>2. [screen[s] EXCEPT !.processing = TRUE, !.step = step] \in Screen
        BY <3>1 DEF Screen
      <3>3. screen' = [screen EXCEPT
                         ![s] = [screen[s] EXCEPT !.processing = TRUE, !.step = step]]
        BY <1>1, <2>1, Zenon
      <3>4. screen' \in [Screens -> Screen]
        BY <1>1, <3>2, <3>3
      <3> QED
        BY <1>1, <2>1, <3>4 DEF Screen
    <2>2. CASE screen' = [screen EXCEPT ![s].processing = FALSE, ![s].step = step]
      BY <1>1, <2>2, ZenonT(40) DEF Screen
    <2> QED
      BY <2>1, <2>2
  <1>3. ScreensOK'
    <2>1. \A r \in Screens : screen'[r].step # "unused" => screen'[r].hash \in Hashes
      BY <1>1, <1>2
    <2> QED
      BY <2>1 DEF ScreensOK
  <1> QED
    BY <1>2, <1>3

\* Dismissing the dialogs of a screen closes some of them and changes nothing else.
LEMMA DismissedOK ==
    ASSUME ScreenIInv, NEW s \in Screens, dialog' = Dismissed(s)
    PROVE  /\ dialog' \in [Dialogs -> Dialog]
           /\ \A d \in Dialogs : /\ dialog'[d].open = FALSE \/ dialog'[d] = dialog[d]
                                 /\ dialog'[d].pending = dialog[d].pending
                                 /\ dialog'[d].screen = dialog[d].screen
                                 /\ dialog'[d].amount = dialog[d].amount
  <1>1. dialog \in [Dialogs -> Dialog]
    BY DEF ScreenIInv, ScreenTypeOK
  <1>2. ASSUME NEW d \in Dialogs
        PROVE  /\ dialog'[d] \in Dialog
               /\ dialog'[d].open = FALSE \/ dialog'[d] = dialog[d]
               /\ dialog'[d].pending = dialog[d].pending
               /\ dialog'[d].screen = dialog[d].screen
               /\ dialog'[d].amount = dialog[d].amount
    <2>1. dialog'[d] = dialog[d] \/ dialog'[d] = [dialog[d] EXCEPT !.open = FALSE]
      BY DEF Dismissed
    <2> QED
      BY <1>1, <2>1 DEF Dialog
  <1>3. dialog' \in [Dialogs -> Dialog]
    BY <1>2 DEF Dismissed
  <1> QED
    BY <1>2, <1>3

\* Every step of the screen, of the other threads and of a crash preserves
\* ScreenIInv.
LEMMA ScreenStep == ScreenIInv /\ [ScreenNext]_allVars => ScreenIInv'
  <1> SUFFICES ASSUME ScreenIInv, [ScreenNext]_allVars
               PROVE  ScreenIInv'
    OBVIOUS
  <1> USE ScreenAssumption
  <1>1. ASSUME NEW s \in Screens, NEW h \in Hashes, OpenScreen(s, h)
        PROVE  ScreenIInv'
    BY <1>1 DEF OpenScreen, ScreenIInv, ScreenTypeOK, Screen, Dialog, ScreensOK,
                DialogsOK, Steps
  <1>2. ASSUME NEW s \in Screens, InvoiceRead(s)
        PROVE  ScreenIInv'
    <2>1. PICK step \in {"error", "form"} : screen' = [screen EXCEPT ![s].step = step]
      BY <1>2 DEF InvoiceRead
    <2>2. UNCHANGED dialog
      BY <1>2 DEF InvoiceRead
    <2>3. screen[s].step = "reading"
      BY <1>2 DEF InvoiceRead
    <2> QED
      BY <2>1, <2>2, <2>3 DEF ScreenIInv, ScreenTypeOK, Screen, Dialog, ScreensOK,
                              DialogsOK, Steps
  <1>3. ASSUME NEW s \in Screens, Pause(s)
        PROVE  ScreenIInv'
    <2>1. dialog' = Dismissed(s) /\ UNCHANGED screen
      BY <1>3 DEF Pause
    <2>2. DialogsOK'
      BY <2>1, DismissedOK DEF ScreenIInv, DialogsOK
    <2> QED
      BY <2>1, <2>2, DismissedOK DEF ScreenIInv, ScreenTypeOK, ScreensOK
  <1>4. ASSUME NEW s \in Screens, Leave(s)
        PROVE  ScreenIInv'
    <2>1. /\ screen[s].step # "unused"
          /\ screen' = [screen EXCEPT ![s].step = "closed"]
          /\ dialog' = Dismissed(s)
      BY <1>4 DEF Leave, Visible
    <2>2. screen' \in [Screens -> Screen]
      BY <2>1 DEF ScreenIInv, ScreenTypeOK, Screen, Steps
    <2>3. \A r \in Screens : /\ screen'[r].hash = screen[r].hash
                             /\ screen[r].step # "unused" <=> screen'[r].step # "unused"
      BY <2>1 DEF ScreenIInv, ScreenTypeOK, Screen
    <2>4. ScreensOK'
      BY <2>3 DEF ScreenIInv, ScreensOK
    <2>5. ASSUME NEW d \in Dialogs
          PROVE  /\ dialog'[d].open \/ dialog'[d].pending > 0 => dialog'[d].screen # Null
                 /\ dialog'[d].screen # Null => /\ screen'[dialog'[d].screen].step # "unused"
                                                /\ dialog'[d].amount \in Amounts
      <3>1. dialog[d].screen # Null => dialog[d].screen \in Screens
        BY DEF ScreenIInv, ScreenTypeOK, Dialog
      <3>2. dialog[d].open \/ dialog[d].pending > 0 => dialog[d].screen # Null
        BY DEF ScreenIInv, DialogsOK
      <3>3. dialog[d].screen # Null => /\ screen[dialog[d].screen].step # "unused"
                                       /\ dialog[d].amount \in Amounts
        BY DEF ScreenIInv, DialogsOK
      <3>4. /\ dialog'[d].open = FALSE \/ dialog'[d] = dialog[d]
            /\ dialog'[d].pending = dialog[d].pending
            /\ dialog'[d].screen = dialog[d].screen
            /\ dialog'[d].amount = dialog[d].amount
        BY <2>1, DismissedOK
      <3>5. dialog'[d].open \/ dialog'[d].pending > 0 => dialog'[d].screen # Null
        <4>1. CASE dialog'[d] = dialog[d]
          BY <3>2, <4>1
        <4>2. CASE dialog'[d].open = FALSE
          <5>1. dialog[d].pending > 0 => dialog[d].screen # Null
            BY <3>2
          <5>2. dialog'[d].pending > 0 => dialog'[d].screen # Null
            BY <3>4, <5>1
          <5>3. ~dialog'[d].open
            BY <4>2
          <5> QED
            BY <5>2, <5>3
        <4> QED
          BY <3>4, <4>1, <4>2
      <3>6. dialog'[d].screen # Null => /\ screen'[dialog'[d].screen].step # "unused"
                                       /\ dialog'[d].amount \in Amounts
        BY <2>3, <3>1, <3>3, <3>4
      <3> QED
        BY <3>5, <3>6
    <2>6. DialogsOK'
      BY <2>5 DEF DialogsOK
    <2> QED
      BY <2>1, <2>2, <2>4, <2>6, DismissedOK DEF ScreenIInv, ScreenTypeOK
  <1>5. ASSUME NEW s \in Screens, NEW amount \in Amounts, ConfirmPayment(s, amount)
        PROVE  ScreenIInv'
    <2>1. /\ screen[s].step # "unused"
          /\ Submit(s, amount, {"error", "closed"})
          /\ UNCHANGED dialog
      BY <1>5 DEF ConfirmPayment
    <2>2. PICK step \in Steps \ {"unused"} :
            screen' = [screen EXCEPT ![s].processing = TRUE, ![s].step = step]
      BY <2>1, SubmitScreen
    <2> QED
      BY <2>1, <2>2, ScreenUpdate DEF ScreenIInv, ScreenTypeOK, Screen, Dialog,
                                      ScreensOK, DialogsOK
  <1>6. ASSUME NEW s \in Screens, NEW d \in Dialogs, NEW amount \in Amounts,
               AskForPin(s, d, amount)
        PROVE  ScreenIInv'
    BY <1>6, ZenonT(40) DEF AskForPin, FreshDialog, ScreenIInv, ScreenTypeOK, Screen, Dialog,
                ScreensOK, DialogsOK, Steps,
                Verdicts
  <1>7. ASSUME NEW d \in Dialogs, EnterLastDigit(d)
        PROVE  ScreenIInv'
    BY <1>7 DEF EnterLastDigit, ScreenIInv, ScreenTypeOK, Screen, Dialog, ScreensOK,
                DialogsOK
  <1>8. ASSUME NEW d \in Dialogs, PinConfirm(d)
        PROVE  ScreenIInv'
    <2> DEFINE s == dialog[d].screen
    <2>1. s \in Screens /\ screen[s].step # "unused"
      BY <1>8 DEF PinConfirm, ScreenIInv, ScreenTypeOK, Dialog, DialogsOK
    <2>2. PICK verdict \in Verdicts :
            dialog' = [dialog EXCEPT ![d].pending = @ - 1, ![d].open = FALSE,
                                     ![d].verdict = verdict]
      BY <1>8 DEF PinConfirm, Verdicts
    <2>3. \E step \in Steps \ {"unused"} :
            \/ screen' = [screen EXCEPT ![s].processing = TRUE, ![s].step = step]
            \/ screen' = [screen EXCEPT ![s].processing = FALSE, ![s].step = step]
      <3>1. CASE Submit(s, dialog[d].amount, {"error"})
        BY <2>1, <3>1, SubmitScreen
      <3>2. CASE screen' = [screen EXCEPT ![s].processing = FALSE]
        <4>1. screen[s].step \in Steps \ {"unused"}
          BY <2>1 DEF ScreenIInv, ScreenTypeOK, Screen
        <4>2. screen' = [screen EXCEPT ![s].processing = FALSE, ![s].step = screen[s].step]
          BY <2>1, <3>2 DEF ScreenIInv, ScreenTypeOK, Screen
        <4> QED
          BY <4>1, <4>2
      <3> QED
        BY <1>8, <3>1, <3>2 DEF PinConfirm
    <2>4. /\ screen' \in [Screens -> Screen]
          /\ \A r \in Screens : screen[r].step # "unused" <=> screen'[r].step # "unused"
          /\ ScreensOK'
      BY <2>1, <2>3, ScreenUpdate
    <2>5. /\ dialog[d].pending > 0
          /\ dialog[d].pending \in 0..MaxConfirms
      BY <1>8 DEF PinConfirm, ScreenIInv, ScreenTypeOK, Dialog
    <2>6. dialog' \in [Dialogs -> Dialog]
      <3>1. dialog \in [Dialogs -> Dialog]
        BY DEF ScreenIInv, ScreenTypeOK
      <3>2. dialog[d].pending - 1 \in 0..MaxConfirms
        BY <2>5
      <3>3. [dialog[d] EXCEPT !.pending = @ - 1, !.open = FALSE, !.verdict = verdict] \in Dialog
        BY <3>1, <3>2 DEF Dialog
      <3> QED
        BY <2>2, <3>1, <3>3
    <2>7. DialogsOK'
      BY <2>1, <2>2, <2>4 DEF ScreenIInv, ScreenTypeOK, Dialog, DialogsOK
    <2> QED
      BY <2>4, <2>6, <2>7 DEF ScreenIInv, ScreenTypeOK
  <1>9. ASSUME NEW d \in Dialogs, PinCancel(d)
        PROVE  ScreenIInv'
    <2> DEFINE s == dialog[d].screen
    <2>1. s \in Screens /\ screen[s].step # "unused"
      BY <1>9 DEF PinCancel, ScreenIInv, ScreenTypeOK, Dialog, DialogsOK
    <2>2. screen[s].step \in Steps \ {"unused"}
      BY <2>1 DEF ScreenIInv, ScreenTypeOK, Screen
    <2>3. screen' = [screen EXCEPT ![s].processing = FALSE, ![s].step = screen[s].step]
      BY <1>9, <2>1 DEF PinCancel, ScreenIInv, ScreenTypeOK, Screen
    <2>4. /\ screen' \in [Screens -> Screen]
          /\ \A r \in Screens : screen[r].step # "unused" <=> screen'[r].step # "unused"
          /\ ScreensOK'
      BY <2>1, <2>2, <2>3, ScreenUpdate
    <2>5. dialog' \in [Dialogs -> Dialog]
      BY <1>9 DEF PinCancel, ScreenIInv, ScreenTypeOK, Dialog
    <2>6. DialogsOK'
      BY <1>9, <2>1, <2>4 DEF PinCancel, ScreenIInv, ScreenTypeOK, Dialog, DialogsOK
    <2> QED
      BY <2>4, <2>5, <2>6 DEF ScreenIInv, ScreenTypeOK
  <1>10. CASE Background \/ UNCHANGED allVars
    BY <1>10 DEF Background, uiVars, allVars, ScreenIInv, ScreenTypeOK, Screen, Dialog,
                 ScreensOK, DialogsOK
  <1>11. CASE CrashAll
    BY <1>11 DEF CrashAll, FreshScreen, FreshDialog, ScreenIInv, ScreenTypeOK, Screen,
                 Dialog, ScreensOK, DialogsOK, Steps, Verdicts
  <1> QED
    BY <1>1, <1>2, <1>3, <1>4, <1>5, <1>6, <1>7, <1>8, <1>9, <1>10, <1>11 DEF ScreenNext

\* A call of sendLNPayment by a screen with an invoice is one that
\* LightningPayments allows, or it changes nothing there.
LEMMA SubmitImplements ==
    ASSUME NEW s \in Screens, NEW amount \in Amounts, screen[s].hash \in Hashes,
           NEW refused, Submit(s, amount, refused)
    PROVE  [Next]_vars
  BY DEF Submit, Next

\* Every step of the screen is a step of LightningPayments or changes nothing
\* there.
LEMMA ScreenStepImplements == ScreenIInv /\ [ScreenNext]_allVars => [Next]_vars
  <1> SUFFICES ASSUME ScreenIInv, [ScreenNext]_allVars
               PROVE  [Next]_vars
    OBVIOUS
  <1>1. ASSUME NEW s \in Screens, NEW amount \in Amounts, ConfirmPayment(s, amount)
        PROVE  [Next]_vars
    <2>1. screen[s].hash \in Hashes
      BY <1>1 DEF ConfirmPayment, ScreenIInv, ScreensOK
    <2> QED
      BY <1>1, <2>1, SubmitImplements DEF ConfirmPayment
  <1>2. ASSUME NEW d \in Dialogs, PinConfirm(d)
        PROVE  [Next]_vars
    <2> DEFINE s == dialog[d].screen
    <2>1. s \in Screens /\ screen[s].hash \in Hashes /\ dialog[d].amount \in Amounts
      BY <1>2, ScreenAssumption DEF PinConfirm, ScreenIInv, ScreenTypeOK, Screen, Dialog,
                                    ScreensOK, DialogsOK
    <2>2. Submit(s, dialog[d].amount, {"error"}) \/ UNCHANGED vars
      BY <1>2 DEF PinConfirm
    <2> QED
      BY <2>1, <2>2, SubmitImplements
  <1>3. CASE Background
    BY <1>3 DEF Background, Next
  <1>4. CASE CrashAll
    BY <1>4 DEF CrashAll, Next
  <1>5. CASE UNCHANGED vars
    BY <1>5
  <1>6. ASSUME NEW s \in Screens, NEW h \in Hashes, OpenScreen(s, h)
        PROVE  UNCHANGED vars
    BY <1>6 DEF OpenScreen
  <1>7. ASSUME NEW s \in Screens, InvoiceRead(s) \/ Pause(s) \/ Leave(s)
        PROVE  UNCHANGED vars
    BY <1>7 DEF InvoiceRead, Pause, Leave
  <1>8. ASSUME NEW s \in Screens, NEW d \in Dialogs, NEW amount \in Amounts,
               AskForPin(s, d, amount)
        PROVE  UNCHANGED vars
    BY <1>8 DEF AskForPin
  <1>9. ASSUME NEW d \in Dialogs, EnterLastDigit(d) \/ PinCancel(d)
        PROVE  UNCHANGED vars
    BY <1>9 DEF EnterLastDigit, PinCancel
  <1>10. CASE UNCHANGED allVars
    BY <1>10 DEF allVars
  <1> QED
    BY <1>1, <1>2, <1>3, <1>4, <1>5, <1>6, <1>7, <1>8, <1>9, <1>10 DEF ScreenNext

\* A PIN callback, however late or repeated, always finds a screen with an invoice
\* and the amount that was accepted when the dialog was opened.
THEOREM ScreenInvariant == ScreenSpec => []ScreenIInv
  BY ScreenInitIInv, ScreenStep, PTL DEF ScreenSpec

\* However the screens, the PIN callbacks and the crashes interleave, the screen
\* makes the payment path do only what LightningPayments allows.
THEOREM ScreenImplements == ScreenSpec => ImplementsLightningPayments
  <1>1. ScreenInit => Init
    BY DEF ScreenInit
  <1> QED
    BY <1>1, ScreenInvariant, ScreenStepImplements, PTL
       DEF ScreenSpec, Spec, ImplementsLightningPayments

\* Hence the rows never claim what did not happen, for payments made through the
\* screen.
THEOREM ScreenStatusNeverLies == ScreenSpec => []StatusIsJustified
  BY ScreenImplements, StatusNeverLies DEF ImplementsLightningPayments
=============================================================================
