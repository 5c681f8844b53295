------------------------- MODULE LightningPayments -------------------------
(***************************************************************************)
(* Outgoing Lightning payments: the path of a payment from the pay button  *)
(* to its final row in the payments table.  Four parties share the state:  *)
(*                                                                         *)
(*   - the UI thread, SendPaymentActivity.sendLNPayment, which reads the   *)
(*     payment's row and refuses PAID and PENDING ones;                    *)
(*   - the AsyncExecutor thread, which writes the row and asks the node to *)
(*     pay, using the row object captured by the UI thread;                *)
(*   - the eclair node (a library, external to this repository), which     *)
(*     routes, signs and resolves HTLCs and publishes events;              *)
(*   - the NodeSupervisor actor, which handles the events in the order of  *)
(*     its mailbox and updates the row through DBHelper.                   *)
(*                                                                         *)
(* sendLNPayment may be called at any time, for any invoice: the screen    *)
(* that calls it is the subject of module SendPaymentScreen.  REFRESH      *)
(* messages and EventBus posts only concern what is displayed: they are    *)
(* left out here, and module PaymentsView is about them.  A write to       *)
(* the SQLite table and the setters before it are one step: every setter   *)
(* is followed by a save of the whole object in the same handler.          *)
(***************************************************************************)
EXTENDS Integers, Sequences, FiniteSets

CONSTANTS
    Hashes,      \* payment hashes of the invoices
    Attempts,    \* calls of sendLNPayment, and HTLCs of a restored channel
    Restored,    \* the attempts whose HTLC came with a restored channels backup
    Amounts,     \* amounts a user may enter, in msat
    Fees,        \* routing fees of a route, in msat
    Null,        \* Java's null, for a row or a Payment object
    MaxMailbox,  \* bound: events waiting for NodeSupervisor
    MaxCrashes   \* bound: deaths of the application's process

ASSUME ConstantsAssumption ==
    /\ Amounts \subseteq Nat
    /\ Fees \subseteq Nat
    /\ Restored \subseteq Attempts
    /\ Attempts \cap Hashes = {}
    /\ Null \notin Attempts \cup Hashes
    /\ MaxMailbox \in Nat
    /\ MaxCrashes \in Nat

VARIABLES
    st,          \* progress of each attempt, see AttemptState
    task,        \* what each attempt captured: hash, amount, Payment object
    fee,         \* fee of the last route an attempt was signed for, or NotSigned
    commitment,  \* attempts with an HTLC in the remote commitment
    row,         \* the payments table: the entity stored under each hash
    entity,      \* the content of the Payment objects
    mailbox,     \* events published by the node, not yet handled
    crashes      \* process deaths so far

vars == <<st, task, fee, commitment, row, entity, mailbox, crashes>>

PaymentStatus == {"INIT", "PENDING", "PAID", "FAILED"}

\* A Payment object is named after what created it: the attempt whose executor
\* task inserted it, or the hash of an HTLC that the app knew nothing about.
Entities == Attempts \cup Hashes

\* The columns of Payment that the payment events read or write.  Column
\* invoice_id is kept as whether it is set.
Payment == [status: PaymentStatus, amountSent: Nat, amountPaid: Nat,
            feesPaid: Int, hasInvoiceId: BOOLEAN]

\* unused: never called.  queued: captured by the executor.  routing: the node
\* looks for a route.  offered: an HTLC is signed.  orphan: an HTLC is signed,
\* but the payment lifecycle that offered it died with the process.
\* succeeded, failed: resolved.  lost: died with the process, nothing signed.
AttemptState == {"unused", "queued", "routing", "offered", "orphan",
                 "succeeded", "failed", "lost"}

NotSigned == -1

Task == [hash: Hashes, amount: Amounts, p: Entities \cup {Null}]

Messages ==
    [type: {"ChannelSignatureSent"}, htlcs: SUBSET Attempts]
    \cup [type: {"PaymentFailed"}, hash: Hashes]
    \cup [type: {"PaymentSucceeded"}, hash: Hashes, amount: Nat]

TypeOK ==
    /\ st \in [Attempts -> AttemptState]
    /\ task \in [Attempts -> Task \cup {Null}]
    /\ \A a \in Attempts : st[a] # "unused" => task[a] \in Task
    /\ fee \in [Attempts -> Fees \cup {NotSigned}]
    /\ commitment \in SUBSET Attempts
    /\ row \in [Hashes -> Entities \cup {Null}]
    /\ entity \in [Entities -> Payment]
    /\ mailbox \in Seq(Messages)
    /\ crashes \in 0..MaxCrashes

-----------------------------------------------------------------------------
(* The payments table, as DBHelper presents it.                            *)

\* DBHelper.getPayment: the one object of the row with this hash.  greenDAO's
\* session keeps one object per row, so every holder of a row shares it.
getPayment(h) == row[h]

Exists(h) == row[h] # Null

Status(h) == entity[row[h]].status

HasStatus(h, s) == Exists(h) /\ Status(h) = s

\* A Payment object before its first setter.
BlankPayment == [status |-> "INIT", amountSent |-> 0, amountPaid |-> 0,
                 feesPaid |-> 0, hasInvoiceId |-> FALSE]

\* Mutants of updatePaymentPaid: amount and fees swapped; only from PENDING.
updatePaymentPaidSwapped(p, amountPaid, fees) ==
    [p EXCEPT !.status = "PAID", !.amountPaid = fees, !.feesPaid = amountPaid]
updatePaymentPaidIfPending(p, amountPaid, fees) ==
    IF p.status = "PENDING"
    THEN [p EXCEPT !.status = "PAID", !.amountPaid = amountPaid, !.feesPaid = fees]
    ELSE p

\* DBHelper.updatePaymentPaid.
updatePaymentPaid(p, amountPaid, fees) ==
    [p EXCEPT !.status = "PAID", !.amountPaid = amountPaid, !.feesPaid = fees]

\* Mutants of updatePaymentFailed: guard dropped; guard keeps PENDING too.
updatePaymentFailedAlways(p) == [p EXCEPT !.status = "FAILED"]
updatePaymentFailedIfInit(p) ==
    IF p.status = "INIT" THEN [p EXCEPT !.status = "FAILED"] ELSE p

\* DBHelper.updatePaymentFailed.
updatePaymentFailed(p) ==
    IF p.status # "PAID" THEN [p EXCEPT !.status = "FAILED"] ELSE p

\* DBHelper.updatePaymentPending.
updatePaymentPending(p) ==
    IF p.status # "PAID" THEN [p EXCEPT !.status = "PENDING"] ELSE p

-----------------------------------------------------------------------------
(* The application's threads.                                              *)

\* SendPaymentActivity.sendLNPayment, on the UI thread: a PAID or PENDING row
\* is refused, otherwise the object that was read is captured by a new task.
SendLNPayment(a, h, amount) ==
    /\ st[a] = "unused"
    /\ ~HasStatus(h, "PAID")
    /\ ~HasStatus(h, "PENDING")
    /\ st' = [st EXCEPT ![a] = "queued"]
    /\ task' = [task EXCEPT ![a] = [hash |-> h, amount |-> amount, p |-> getPayment(h)]]
    /\ UNCHANGED <<fee, commitment, row, entity, mailbox, crashes>>

\* Mutant of newPayment: no invoice_id.
newPaymentNoInvoiceId(amount) == [BlankPayment EXCEPT !.amountSent = amount]

\* The Payment inserted for a hash that had no row.
newPayment(amount) ==
    [status |-> "INIT", amountSent |-> amount, amountPaid |-> 0, feesPaid |-> 0,
     hasInvoiceId |-> TRUE]

\* The executor's task.  insertOrReplace replaces whatever row the unique index
\* (type, reference) finds.  A captured object keeps its status: a FAILED row
\* is not set back to INIT.  Then the node is asked to pay.
Execute(a) ==
    /\ st[a] = "queued"
    /\ \/ /\ task[a].p = Null
          /\ entity' = [entity EXCEPT ![a] = newPayment(task[a].amount)]
          /\ row' = [row EXCEPT ![task[a].hash] = a]
       \/ /\ task[a].p # Null
          /\ entity' = [entity EXCEPT ![task[a].p].amountSent = task[a].amount]
          /\ row' = [row EXCEPT ![task[a].hash] = task[a].p]
    /\ st' = [st EXCEPT ![a] = "routing"]
    /\ UNCHANGED <<task, fee, commitment, mailbox, crashes>>

-----------------------------------------------------------------------------
(* The eclair node, external: what it may do with a payment it was given.   *)

Publish(m) ==
    /\ Len(mailbox) < MaxMailbox
    /\ mailbox' = Append(mailbox, m)

SignatureSent(as) == [type |-> "ChannelSignatureSent", htlcs |-> as]

\* An HTLC goes into the remote commitment, and the commitment is signed.
Offer(a, f) ==
    /\ st[a] = "routing"
    /\ st' = [st EXCEPT ![a] = "offered"]
    /\ fee' = [fee EXCEPT ![a] = f]
    /\ commitment' = commitment \cup {a}
    /\ Publish(SignatureSent(commitment \cup {a}))
    /\ UNCHANGED <<task, row, entity, crashes>>

\* The route failed and the lifecycle tries another one.
Reroute(a) ==
    /\ st[a] = "offered"
    /\ st' = [st EXCEPT ![a] = "routing"]
    /\ UNCHANGED <<task, fee, commitment, row, entity, mailbox, crashes>>

\* The commitment is signed again, without the HTLCs of done, all resolved.
SignAgain(done) ==
    /\ commitment # {}
    /\ done \subseteq {a \in commitment : st[a] \notin {"offered", "orphan"}}
    /\ commitment' = commitment \ done
    /\ Publish(SignatureSent(commitment'))
    /\ UNCHANGED <<st, task, fee, row, entity, crashes>>

\* No route is left, or the recipient or the chain rejected the HTLC.
Fail(a) ==
    /\ st[a] \in {"routing", "offered", "orphan"}
    /\ st' = [st EXCEPT ![a] = "failed"]
    /\ Publish([type |-> "PaymentFailed", hash |-> task[a].hash])
    /\ UNCHANGED <<task, fee, commitment, row, entity, crashes>>

\* The amount of an attempt's HTLC: what the recipient gets and the fees.
HtlcAmount(a) == task[a].amount + fee[a]

\* The recipient released the preimage.
Succeed(a) ==
    /\ st[a] \in {"offered", "orphan"}
    /\ st' = [st EXCEPT ![a] = "succeeded"]
    /\ Publish([type |-> "PaymentSucceeded", hash |-> task[a].hash,
                amount |-> HtlcAmount(a)])
    /\ UNCHANGED <<task, fee, commitment, row, entity, crashes>>

-----------------------------------------------------------------------------
(* NodeSupervisor.onReceive: one event at a time, from the mailbox.        *)

Event(type) ==
    /\ mailbox # <<>>
    /\ Head(mailbox).type = type
    /\ mailbox' = Tail(mailbox)

\* The row of an HTLC whose payment hash the app does not know.
unknownPayment(amount) ==
    [status |-> "PENDING", amountSent |-> 0, amountPaid |-> amount, feesPaid |-> 0,
     hasInvoiceId |-> FALSE]

\* ChannelSignatureSent, for each HTLC a of the signed commitment: an INIT row
\* becomes PENDING, another row is left as it is, and a hash without a row gets
\* one.  When two HTLCs share an unknown hash, either may come first.
HandleSignatureSent ==
    /\ Event("ChannelSignatureSent")
    /\ LET signed == Head(mailbox).htlcs
           hashes == {task[a].hash : a \in signed}
           unknown == {h \in hashes : ~Exists(h)}
           init == {row[h] : h \in {k \in hashes : HasStatus(k, "INIT")}}
       IN \E first \in [unknown -> signed] :
            /\ \A h \in unknown : task[first[h]].hash = h
            /\ row' = [h \in Hashes |-> IF h \in unknown THEN h ELSE row[h]]
            /\ entity' = [e \in Entities |->
                   IF e \in unknown THEN unknownPayment(HtlcAmount(first[e]))
                   ELSE IF e \in init THEN updatePaymentPending(entity[e])
                   ELSE entity[e]]
    /\ UNCHANGED <<st, task, fee, commitment, crashes>>

\* PaymentFailed for a row with an invoice_id.
HandlePaymentFailed ==
    /\ Event("PaymentFailed")
    /\ LET h == Head(mailbox).hash
       IN /\ Exists(h)
          /\ entity[row[h]].hasInvoiceId
          /\ entity' = [entity EXCEPT ![row[h]] = updatePaymentFailed(@)]
    /\ UNCHANGED <<st, task, fee, commitment, row, crashes>>

\* PaymentFailed for a row without an invoice_id: getInvoice_id().split throws
\* before anything is written, akka restarts the actor and drops the event.
\* PaymentFailed for a hash without a row is ignored.
DropPaymentFailed ==
    /\ Event("PaymentFailed")
    /\ LET h == Head(mailbox).hash
       IN Exists(h) => ~entity[row[h]].hasInvoiceId
    /\ UNCHANGED <<st, task, fee, commitment, row, entity, crashes>>

\* PaymentSucceeded; a hash without a row is ignored.  The fees are what was
\* paid minus what the row says was sent.
HandlePaymentSucceeded ==
    /\ Event("PaymentSucceeded")
    /\ LET h == Head(mailbox).hash
           paid == Head(mailbox).amount
       IN entity' = IF Exists(h)
                    THEN [entity EXCEPT ![row[h]] =
                            updatePaymentPaid(@, paid, paid - @.amountSent)]
                    ELSE entity
    /\ UNCHANGED <<st, task, fee, commitment, row, crashes>>

Receive == \/ HandleSignatureSent
           \/ HandlePaymentFailed
           \/ DropPaymentFailed
           \/ HandlePaymentSucceeded

-----------------------------------------------------------------------------

\* The process dies and is started again.  The database and the signed HTLCs
\* survive; executor tasks, unsigned attempts and the mailbox do not.  The
\* lifecycle of a signed HTLC is gone, the node still publishes its outcome.
Crash ==
    /\ crashes < MaxCrashes
    /\ crashes' = crashes + 1
    /\ st' = [a \in Attempts |-> CASE st[a] \in {"queued", "routing"} -> "lost"
                                   [] st[a] = "offered" -> "orphan"
                                   [] OTHER -> st[a]]
    /\ mailbox' = <<>>
    /\ UNCHANGED <<task, fee, commitment, row, entity>>

\* A wallet without payments.  The HTLCs of a restored channels backup are in
\* the node's database; the payments table is not part of the backup.
Init ==
    /\ st = [a \in Attempts |-> IF a \in Restored THEN "orphan" ELSE "unused"]
    /\ \E hash \in [Restored -> Hashes], amount \in [Restored -> Amounts],
          f \in [Restored -> Fees] :
         /\ task = [a \in Attempts |->
                      IF a \in Restored
                      THEN [hash |-> hash[a], amount |-> amount[a], p |-> Null]
                      ELSE Null]
         /\ fee = [a \in Attempts |-> IF a \in Restored THEN f[a] ELSE NotSigned]
    /\ commitment = Restored
    /\ row = [h \in Hashes |-> Null]
    /\ entity = [e \in Entities |-> BlankPayment]
    /\ mailbox = <<>>
    /\ crashes = 0

Next ==
    \/ \E a \in Attempts, h \in Hashes, amount \in Amounts : SendLNPayment(a, h, amount)
    \/ \E a \in Attempts : Execute(a)
    \/ \E a \in Attempts, f \in Fees : Offer(a, f)
    \/ \E a \in Attempts : Reroute(a)
    \/ \E done \in SUBSET commitment : SignAgain(done)
    \/ \E a \in Attempts : Fail(a)
    \/ \E a \in Attempts : Succeed(a)
    \/ Receive
    \/ Crash

Spec == Init /\ [][Next]_vars

\* The executor and the actor are never starved, and the node resolves every
\* payment it was given: it tries at most 10 routes, an HTLC has a timeout.
\* Strong fairness, because the bound of the mailbox disables a resolution now
\* and then.
Fairness ==
    /\ \A a \in Attempts : WF_vars(Execute(a))
    /\ \A a \in Attempts : SF_vars(Fail(a) \/ Succeed(a))
    /\ WF_vars(Receive)

FairSpec == Spec /\ Fairness

-----------------------------------------------------------------------------
(* Properties.                                                             *)

\* Attempts that the app handed to the node and that a crash did not erase.
Sent == {a \in Attempts \ Restored :
           st[a] \in {"routing", "offered", "orphan", "succeeded", "failed"}}

\* Every payment the app asked the node for has a row, and that row has an
\* invoice_id: the NullPointerException of NodeSupervisor's PaymentFailed
\* handler can never hit a payment this app sent, whatever the order of
\* executor tasks, rows inserted for unknown HTLCs, replacements and crashes.
RecordedBeforeSent ==
    \A a \in Sent : /\ Exists(task[a].hash)
                    /\ entity[row[task[a].hash]].hasInvoiceId

PaidIsJustified(h) ==
    HasStatus(h, "PAID") =>
        \E a \in Attempts : /\ st[a] = "succeeded"
                            /\ task[a].hash = h
                            /\ entity[row[h]].amountPaid = HtlcAmount(a)

PendingIsJustified(h) ==
    HasStatus(h, "PENDING") =>
        \E a \in Attempts : fee[a] # NotSigned /\ task[a].hash = h

FailedIsJustified(h) ==
    HasStatus(h, "FAILED") =>
        \E a \in Attempts : st[a] = "failed" /\ task[a].hash = h

\* A row never claims what did not happen: PAID only if an HTLC for this hash
\* was settled, with the amount of that HTLC, PENDING only if one was signed,
\* FAILED only if an attempt failed, with events handled late, rows replaced
\* by another object and the process killed at any point.
StatusIsJustified ==
    \A h \in Hashes : PaidIsJustified(h) /\ PendingIsJustified(h) /\ FailedIsJustified(h)

\* Some attempt for this hash is not resolved yet, or its outcome is on its way
\* to NodeSupervisor.
InProgress(h) ==
    \/ \E a \in Attempts : /\ st[a] \in {"queued", "routing", "offered", "orphan"}
                           /\ task[a].hash = h
    \/ \E i \in 1..Len(mailbox) : /\ mailbox[i].type # "ChannelSignatureSent"
                                  /\ mailbox[i].hash = h

\* As long as the process lives and every HTLC is the app's own, a PENDING row
\* is never stranded: the payment can still be resolved.  sendLNPayment and
\* checkPaymentRequestError refuse a PENDING payment, so a stranded one could
\* never be paid.
PendingIsLive ==
    \A h \in Hashes : HasStatus(h, "PENDING") => InProgress(h)

\* NodeSupervisor never takes a payment out of PAID: a PaymentFailed of another
\* attempt, or a signature that still carries the HTLC, may be handled after
\* the PaymentSucceeded.
SupervisorKeepsPaid ==
    [][\A h \in Hashes : Receive /\ HasStatus(h, "PAID") => HasStatus(h, "PAID")']_vars

\* While the process lives, every payment that reaches the executor ends up
\* PAID or FAILED in the payments table.
AttemptsAreResolved ==
    \A a \in Attempts \ Restored, h \in Hashes :
        (st[a] = "queued" /\ task[a].hash = h)
            ~> (HasStatus(h, "PAID") \/ HasStatus(h, "FAILED"))

\* While the process lives, a payment that settled is recorded as PAID once
\* its event is in the mailbox, whatever events are before it.
SettledIsRecorded ==
    \A h \in Hashes :
        (\E i \in 1..Len(mailbox) : /\ mailbox[i].type = "PaymentSucceeded"
                                    /\ mailbox[i].hash = h)
            ~> HasStatus(h, "PAID")

-----------------------------------------------------------------------------
(* The inductive invariant behind RecordedBeforeSent, StatusIsJustified and *)
(* SupervisorKeepsPaid.  Justification is claimed of every Payment object,  *)
(* not only of the stored ones, because an executor task may store an       *)
(* object again that another task has replaced.                             *)

\* The object e is about hash h.
Owns(e, h) ==
    \/ e = h
    \/ e \in Attempts /\ st[e] # "unused" /\ task[e].hash = h

Signed(a) == fee[a] # NotSigned

AttemptsOK ==
    \A a \in Attempts :
        /\ st[a] = "unused" =>
             fee[a] = NotSigned /\ entity[a].status = "INIT"
        /\ st[a] \in {"offered", "orphan", "succeeded"} => fee[a] # NotSigned
        /\ a \in commitment => Signed(a)

RowsOK ==
    \A h \in Hashes :
        /\ Exists(h) => Owns(row[h], h)
        /\ ~entity[h].hasInvoiceId
        /\ Exists(h) /\ ~entity[row[h]].hasInvoiceId => Status(h) \in {"PENDING", "PAID"}

CapturedOK ==
    \A a \in Attempts :
        st[a] # "unused" /\ task[a].p # Null =>
            /\ task[a].p \in Attempts
            /\ Owns(task[a].p, task[a].hash)
            /\ entity[task[a].p].hasInvoiceId

SettledBy(a, h, amount) ==
    st[a] = "succeeded" /\ task[a].hash = h /\ amount = HtlcAmount(a)

MessageOK(m) ==
    /\ m.type = "ChannelSignatureSent" => \A a \in m.htlcs : Signed(a)
    /\ m.type = "PaymentFailed" =>
         \E a \in Attempts : st[a] = "failed" /\ task[a].hash = m.hash
    /\ m.type = "PaymentSucceeded" =>
         \E a \in Attempts : SettledBy(a, m.hash, m.amount)

MailboxOK == \A i \in 1..Len(mailbox) : MessageOK(mailbox[i])

EntityOK(e, h) ==
    /\ entity[e].status = "PAID" =>
         \E a \in Attempts : SettledBy(a, h, entity[e].amountPaid)
    /\ entity[e].status = "PENDING" =>
         \E a \in Attempts : Signed(a) /\ task[a].hash = h
    /\ entity[e].status = "FAILED" =>
         \E a \in Attempts : st[a] = "failed" /\ task[a].hash = h

EntitiesOK == \A e \in Entities, h \in Hashes : Owns(e, h) => EntityOK(e, h)

IInv ==
    /\ TypeOK
    /\ AttemptsOK
    /\ RowsOK
    /\ CapturedOK
    /\ MailboxOK
    /\ EntitiesOK
    /\ RecordedBeforeSent

\* Every HTLC for this hash is one of a payment that this app sent.
OwnOnly(h) == \A a \in Restored : task[a].hash # h

\* The strengthening behind PendingIsLive.  An INIT row is as live as a PENDING
\* one, because a signature turns it into that; and what is signed was sent, so
\* that a signature never brings a row for a hash of the app's own.
LiveInv ==
    /\ \A a \in Restored : Signed(a)
    /\ crashes = 0 =>
        /\ \A a \in Attempts : Signed(a) => a \in Sent \cup Restored
        /\ \A h \in Hashes : OwnOnly(h) /\ Exists(h) /\ Status(h) \in {"INIT", "PENDING"}
                               => InProgress(h)
=============================================================================
