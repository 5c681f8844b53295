------------------------- MODULE SendPaymentScreen -------------------------
(***************************************************************************)
(* The screen that pays a Lightning invoice, SendPaymentActivity with its  *)
(* PinDialog, on top of the payment path of LightningPayments: this module *)
(* says when sendLNPayment is called, that one what the call does.  All    *)
(* the steps of a screen are on the UI thread, but a PIN is confirmed by a *)
(* callback posted 300 ms after its sixth digit, which nothing cancels:    *)
(* neither another digit, nor the dialog's dismissal, nor the screen's     *)
(* end.                                                                    *)
(***************************************************************************)
EXTENDS LightningPayments

CONSTANTS
    Screens,     \* instances of SendPaymentActivity
    Dialogs,     \* instances of PinDialog
    MaxConfirms  \* bound: sixth digits entered in one dialog

ASSUME ScreenAssumption ==
    /\ MaxConfirms \in Nat
    /\ Null \notin Screens

VARIABLES
    screen,      \* each screen's step, isProcessingPayment flag and invoice
    dialog       \* each dialog, with the callbacks still to fire

uiVars == <<screen, dialog>>
allVars == <<vars, uiVars>>

\* unused: not created.  reading: LNInvoiceReaderTask runs.  form: the payment
\* form.  error: the invoice was refused.  closed: finished.
Steps == {"unused", "reading", "form", "error", "closed"}

Visible(s) == screen[s].step \in {"reading", "form", "error"}

\* right and wrong: what the PIN, fixed when the dialog goes away, turned out to
\* be when the first callback fired.
Verdicts == {"none", "right", "wrong"}

Screen == [step: Steps, processing: BOOLEAN, hash: Hashes \cup {Null}]

Dialog == [open: BOOLEAN, verdict: Verdicts, pending: 0..MaxConfirms,
           screen: Screens \cup {Null}, amount: Amounts \cup {0}]

ScreenTypeOK ==
    /\ screen \in [Screens -> Screen]
    /\ dialog \in [Dialogs -> Dialog]

FreshScreen == [step |-> "unused", processing |-> FALSE, hash |-> Null]
FreshDialog == [open |-> FALSE, verdict |-> "none", pending |-> 0,
                screen |-> Null, amount |-> 0]

\* The dialogs after the one of screen s is dismissed.
Dismissed(s) ==
    [d \in Dialogs |-> IF dialog[d].screen = s THEN [dialog[d] EXCEPT !.open = FALSE]
                       ELSE dialog[d]]

-----------------------------------------------------------------------------

\* onCreate: the invoice is parsed in the background.  One activity is in the
\* foreground at a time.
OpenScreen(s, h) ==
    /\ screen[s].step = "unused"
    /\ \A r \in Screens : ~Visible(r)
    /\ screen' = [screen EXCEPT ![s] = [step |-> "reading", processing |-> FALSE, hash |-> h]]
    /\ UNCHANGED <<vars, dialog>>

\* setupLightningPaymentForm with checkPaymentRequestError.  The invoice may be
\* refused for another reason: its chain, no channel, not enough funds.
InvoiceRead(s) ==
    /\ screen[s].step = "reading"
    /\ \/ screen' = [screen EXCEPT ![s].step = "error"]
       \/ /\ ~HasStatus(screen[s].hash, "PENDING")
          /\ ~HasStatus(screen[s].hash, "PAID")
          /\ screen' = [screen EXCEPT ![s].step = "form"]
    /\ UNCHANGED <<vars, dialog>>

\* Mutant of Submit: the status of the row is not checked.
SubmitUnchecked(s, amount, refused) ==
    /\ \E a \in Attempts :
         /\ st[a] = "unused"
         /\ st' = [st EXCEPT ![a] = "queued"]
         /\ task' = [task EXCEPT ![a] = [hash |-> screen[s].hash, amount |-> amount,
                                         p |-> getPayment(screen[s].hash)]]
         /\ UNCHANGED <<fee, commitment, row, entity, mailbox, crashes>>
    /\ screen' = [screen EXCEPT ![s].processing = TRUE]

\* sendLNPayment called by screen s: the payment is handed to the executor, or
\* it is refused.  The screen ends if the user came from another part of the app
\* (closeAndGoHome).  refused: the steps after a refusal, if the screen is still
\* there.  isProcessingPayment stays set.
Submit(s, amount, refused) ==
    \/ /\ \E a \in Attempts : SendLNPayment(a, screen[s].hash, amount)
       /\ \E step \in {screen[s].step, "closed"} :
            screen' = [screen EXCEPT ![s].processing = TRUE, ![s].step = step]
    \/ /\ HasStatus(screen[s].hash, "PENDING") \/ HasStatus(screen[s].hash, "PAID")
       /\ \E step \in IF Visible(s) THEN refused ELSE {screen[s].step} :
            screen' = [screen EXCEPT ![s].processing = TRUE, ![s].step = step]
       /\ UNCHANGED vars

\* confirmPayment when the settings ask for no PIN; it calls closeAndGoHome after a
\* refusal, too.  The settings may be changed between two payments.  When no channel is active or the amount is
\* not valid, handlePaymentError resets isProcessingPayment: no change.
ConfirmPayment(s, amount) ==
    /\ screen[s].step = "form"
    /\ ~screen[s].processing
    /\ Submit(s, amount, {"error", "closed"})
    /\ UNCHANGED dialog

\* confirmPayment with a PIN.
AskForPin(s, d, amount) ==
    /\ screen[s].step = "form"
    /\ ~screen[s].processing
    /\ dialog[d] = FreshDialog
    /\ screen' = [screen EXCEPT ![s].processing = TRUE]
    /\ dialog' = [dialog EXCEPT ![d] = [FreshDialog EXCEPT !.open = TRUE, !.screen = s,
                                                          !.amount = amount]]
    /\ UNCHANGED vars

\* PinDialog: the PIN reaches six digits, again after a backspace or a clear.
EnterLastDigit(d) ==
    /\ dialog[d].open
    /\ dialog[d].pending < MaxConfirms
    /\ dialog' = [dialog EXCEPT ![d].pending = @ + 1]
    /\ UNCHANGED <<vars, screen>>

\* onPinConfirm, with isPinCorrect.  The PIN may have been edited since, until
\* the dialog goes away: the first callback finds out, the others see the same.
PinConfirm(d) ==
    LET s == dialog[d].screen IN
    /\ dialog[d].pending > 0
    /\ \E right \in BOOLEAN :
         /\ dialog[d].verdict # "none" => (right <=> dialog[d].verdict = "right")
         /\ dialog' = [dialog EXCEPT ![d].pending = @ - 1, ![d].open = FALSE,
                                     ![d].verdict = IF right THEN "right" ELSE "wrong"]
         /\ \/ right /\ Submit(s, dialog[d].amount, {"error"})
            \/ /\ ~right
               /\ screen' = [screen EXCEPT ![s].processing = FALSE]
               /\ UNCHANGED vars

\* Mutant of PinCancel: the dialog forgets its screen, not its callbacks.
PinCancelForgets(d) ==
    /\ dialog[d].open
    /\ dialog' = [dialog EXCEPT ![d] = [FreshDialog EXCEPT !.pending = dialog[d].pending]]
    /\ screen' = [screen EXCEPT ![dialog[d].screen].processing = FALSE]
    /\ UNCHANGED vars

\* onPinCancel: the user closes the dialog.
PinCancel(d) ==
    /\ dialog[d].open
    /\ dialog' = [dialog EXCEPT ![d].open = FALSE]
    /\ screen' = [screen EXCEPT ![dialog[d].screen].processing = FALSE]
    /\ UNCHANGED vars

\* onPause: the dialog is dismissed, which is not a cancel: isProcessingPayment
\* stays set.
Pause(s) ==
    /\ \E d \in Dialogs : dialog[d].open /\ dialog[d].screen = s
    /\ dialog' = Dismissed(s)
    /\ UNCHANGED <<vars, screen>>

\* The back button; onPause comes with it.
Leave(s) ==
    /\ Visible(s)
    /\ screen' = [screen EXCEPT ![s].step = "closed"]
    /\ dialog' = Dismissed(s)
    /\ UNCHANGED vars

-----------------------------------------------------------------------------

\* The other threads, the node and NodeSupervisor.
Background ==
    /\ \/ \E a \in Attempts : Execute(a) \/ Reroute(a) \/ Fail(a) \/ Succeed(a)
       \/ \E a \in Attempts, f \in Fees : Offer(a, f)
       \/ \E done \in SUBSET commitment : SignAgain(done)
       \/ Receive
    /\ UNCHANGED uiVars

\* Screens and callbacks die with the process.
CrashAll ==
    /\ Crash
    /\ screen' = [s \in Screens |-> FreshScreen]
    /\ dialog' = [d \in Dialogs |-> FreshDialog]

ScreenInit ==
    /\ Init
    /\ screen = [s \in Screens |-> FreshScreen]
    /\ dialog = [d \in Dialogs |-> FreshDialog]

ScreenNext ==
    \/ \E s \in Screens, h \in Hashes : OpenScreen(s, h)
    \/ \E s \in Screens : InvoiceRead(s) \/ Pause(s) \/ Leave(s)
    \/ \E s \in Screens, amount \in Amounts : ConfirmPayment(s, amount)
    \/ \E s \in Screens, d \in Dialogs, amount \in Amounts : AskForPin(s, d, amount)
    \/ \E d \in Dialogs : EnterLastDigit(d) \/ PinConfirm(d) \/ PinCancel(d)
    \/ Background
    \/ CrashAll

ScreenSpec == ScreenInit /\ [][ScreenNext]_allVars

-----------------------------------------------------------------------------
(* Properties.                                                             *)

\* However the screens, the PIN callbacks and the crashes interleave, the screen
\* only makes the payment path do what LightningPayments allows: a late or a
\* repeated callback goes through the same check of the row as the button.
ImplementsLightningPayments == Spec

\* The invariant the refinement rests on: a screen that was created has an
\* invoice, and a dialog that may still confirm belongs to such a screen and
\* holds an amount that confirmPayment accepted.
ScreensOK ==
    \A s \in Screens : screen[s].step # "unused" => screen[s].hash \in Hashes

DialogsOK ==
    \A d \in Dialogs :
        /\ dialog[d].open \/ dialog[d].pending > 0 => dialog[d].screen # Null
        /\ dialog[d].screen # Null => /\ screen[dialog[d].screen].step # "unused"
                                      /\ dialog[d].amount \in Amounts

ScreenIInv == ScreenTypeOK /\ ScreensOK /\ DialogsOK

\* "Stop if a payment is already being processed" (confirmPayment), "This
\* payment is already processing." (payment_error_pending): an invoice is never
\* being paid by two attempts at the same time.
NoConcurrentAttempts ==
    \A h \in Hashes :
        Cardinality({a \in Attempts : /\ st[a] \in {"queued", "routing", "offered", "orphan"}
                                      /\ task[a].hash = h}) <= 1
=============================================================================
