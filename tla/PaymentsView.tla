---------------------------- MODULE PaymentsView ----------------------------
(***************************************************************************)
(* How the payments list of the home screen follows the payments table.    *)
(* The actors NodeSupervisor and ElectrumSupervisor write a row, then send *)
(* REFRESH to the PaymentsRefreshScheduler actor, which sleeps for one     *)
(* second and posts one PaymentEvent for all the requests of that second.  *)
(* On the UI thread the event starts a reader thread, which queries the    *)
(* table and posts the result back to the UI thread.  HomeActivity may be  *)
(* opened, paused, resumed and destroyed at any time.                      *)
(*                                                                         *)
(* The table is its version, the number of writes so far.  The schedulers  *)
(* of the channels and of the balance are the same class.                  *)
(***************************************************************************)
EXTENDS Integers, Sequences

CONSTANTS
    Writers,    \* the actors that write the table
    Readers,    \* threads of updateList
    MaxWrites,  \* bound: writes of the table
    MaxQueue    \* bound: messages in the scheduler's mailbox, and in the looper when
                \* an event is posted or the screen is resumed

ASSUME ViewAssumption == MaxWrites \in Nat /\ MaxQueue \in Nat

VARIABLES
    version,    \* version of the table
    telling,    \* actors that wrote a row and have not sent REFRESH yet
    inbox,      \* mailbox of the scheduler
    asleep,     \* the scheduler's behaviour is sleep
    timer,      \* a WAKE_UP is scheduled
    home,       \* HomeActivity: absent, resumed or paused
    looper,     \* the UI thread's queue: PaymentEvents and lists to display
    reader,     \* each reader thread: idle, started, or the version it read
    shown,      \* the version displayed
    latest      \* the last version that a reader read for this screen

vars == <<version, telling, inbox, asleep, timer, home, looper, reader, shown, latest>>

\* An empty screen shows version 0, a new table has version 1.
Nothing == 0

Versions == Nothing..(MaxWrites + 1)

\* An element of the looper: the PaymentEvent, or a list with its version.
PaymentEvent == -1

Idle == -1
Started == -2

TypeOK ==
    /\ version \in 1..(MaxWrites + 1)
    /\ telling \in SUBSET Writers
    /\ inbox \in Seq({"REFRESH", "WAKE_UP"})
    /\ asleep \in BOOLEAN
    /\ timer \in BOOLEAN
    /\ home \in {"absent", "resumed", "paused"}
    /\ looper \in Seq(Versions \cup {PaymentEvent})
    /\ reader \in [Readers -> Versions \cup {Idle, Started}]
    /\ shown \in Versions
    /\ latest \in Versions

-----------------------------------------------------------------------------
(* The writers: dbHelper.updatePayment..., then tell(REFRESH).             *)

Write(w) ==
    /\ w \notin telling
    /\ version <= MaxWrites
    /\ version' = version + 1
    /\ telling' = telling \cup {w}
    /\ UNCHANGED <<inbox, asleep, timer, home, looper, reader, shown, latest>>

Tell(w) ==
    /\ w \in telling
    /\ Len(inbox) < MaxQueue
    /\ telling' = telling \ {w}
    /\ inbox' = Append(inbox, "REFRESH")
    /\ UNCHANGED <<version, asleep, timer, home, looper, reader, shown, latest>>

-----------------------------------------------------------------------------
(* The PaymentsRefreshScheduler actor.                                     *)

Receive(message) == inbox # <<>> /\ Head(inbox) = message /\ inbox' = Tail(inbox)

\* EventBus.post: the event goes to the looper of a registered HomeActivity.
PostPaymentEvent ==
    IF home = "absent" THEN UNCHANGED looper
    ELSE /\ Len(looper) < MaxQueue
         /\ looper' = Append(looper, PaymentEvent)

\* Mutant of Refresh: every request schedules a WAKE_UP, also when asleep.
RefreshAgain ==
    /\ Receive("REFRESH")
    /\ asleep' = TRUE
    /\ timer' = TRUE
    /\ UNCHANGED <<version, telling, home, looper, reader, shown, latest>>

\* onReceive when awake, ignored by the behaviour sleep.
Refresh ==
    /\ Receive("REFRESH")
    /\ asleep' = TRUE
    /\ timer' = (timer \/ ~asleep)
    /\ UNCHANGED <<version, telling, home, looper, reader, shown, latest>>

\* scheduleOnce: the second is over.
Timer ==
    /\ timer
    /\ Len(inbox) < MaxQueue
    /\ timer' = FALSE
    /\ inbox' = Append(inbox, "WAKE_UP")
    /\ UNCHANGED <<version, telling, asleep, home, looper, reader, shown, latest>>

\* Mutant of WakeUp: the scheduler wakes up without handleRefresh.
WakeUpOnly ==
    /\ Receive("WAKE_UP")
    /\ asleep' = FALSE
    /\ UNCHANGED <<version, telling, timer, home, looper, reader, shown, latest>>

\* sleep: handleRefresh, then unbecome.
WakeUp ==
    /\ Receive("WAKE_UP")
    /\ asleep
    /\ PostPaymentEvent
    /\ asleep' = FALSE
    /\ UNCHANGED <<version, telling, timer, home, reader, shown, latest>>

-----------------------------------------------------------------------------
(* HomeActivity and PaymentsListFragment.                                  *)

\* updateList starts a thread.
updateList == \E r \in Readers : /\ reader[r] = Idle
                                 /\ reader' = [reader EXCEPT ![r] = Started]

\* onCreate and onResume: HomeActivity registers with the EventBus, then the
\* fragment's onResume loads the list.
Open ==
    /\ home = "absent"
    /\ home' = "resumed"
    /\ updateList
    /\ UNCHANGED <<version, telling, inbox, asleep, timer, looper, shown, latest>>

\* onPause: HomeActivity stays registered until it is destroyed.
Pause ==
    /\ home = "resumed"
    /\ home' = "paused"
    /\ UNCHANGED <<version, telling, inbox, asleep, timer, looper, reader, shown, latest>>

Resume ==
    /\ home = "paused"
    /\ Len(looper) < MaxQueue
    /\ home' = "resumed"
    /\ updateList
    /\ UNCHANGED <<version, telling, inbox, asleep, timer, looper, shown, latest>>

\* onDestroy unregisters: events not delivered yet are dropped, and a reader
\* whose fragment has no activity any more displays nothing.
Destroy ==
    /\ home # "absent"
    /\ home' = "absent"
    /\ looper' = <<>>
    /\ reader' = [r \in Readers |-> Idle]
    /\ shown' = Nothing
    /\ latest' = Nothing
    /\ UNCHANGED <<version, telling, inbox, asleep, timer>>

\* handlePaymentEvent, on the UI thread.
HandlePaymentEvent ==
    /\ looper # <<>>
    /\ Head(looper) = PaymentEvent
    /\ looper' = Tail(looper)
    /\ updateList
    /\ UNCHANGED <<version, telling, inbox, asleep, timer, home, shown, latest>>

\* getPayments, on a reader thread.
Read(r) ==
    /\ reader[r] = Started
    /\ reader' = [reader EXCEPT ![r] = version]
    /\ latest' = version
    /\ UNCHANGED <<version, telling, inbox, asleep, timer, home, looper, shown>>

\* runOnUiThread, on a reader thread.
Publish(r) ==
    /\ reader[r] \in Versions
    /\ looper' = Append(looper, reader[r])
    /\ reader' = [reader EXCEPT ![r] = Idle]
    /\ UNCHANGED <<version, telling, inbox, asleep, timer, home, shown, latest>>

\* mPaymentAdapter.update, on the UI thread.
Display ==
    /\ looper # <<>>
    /\ Head(looper) # PaymentEvent
    /\ looper' = Tail(looper)
    /\ shown' = Head(looper)
    /\ UNCHANGED <<version, telling, inbox, asleep, timer, home, reader, latest>>

-----------------------------------------------------------------------------

Init ==
    /\ version = 1
    /\ telling = {}
    /\ inbox = <<>>
    /\ asleep = FALSE
    /\ timer = FALSE
    /\ home = "absent"
    /\ looper = <<>>
    /\ reader = [r \in Readers |-> Idle]
    /\ shown = Nothing
    /\ latest = Nothing

Scheduler == Refresh \/ WakeUp

Looper == HandlePaymentEvent \/ Display

Next ==
    \/ \E w \in Writers : Write(w) \/ Tell(w)
    \/ Scheduler
    \/ Timer
    \/ Open \/ Pause \/ Resume \/ Destroy
    \/ Looper
    \/ \E r \in Readers : Read(r) \/ Publish(r)

Spec == Init /\ [][Next]_vars

\* Actors, the scheduler's timer, the UI thread and the reader threads are never
\* starved.  Strong fairness where the bound of a queue may disable a step.
Fairness ==
    /\ \A w \in Writers : SF_vars(Tell(w))
    /\ WF_vars(Refresh)
    /\ SF_vars(WakeUp)
    /\ SF_vars(Timer)
    /\ SF_vars(HandlePaymentEvent)
    /\ WF_vars(Display)
    /\ \A r \in Readers : WF_vars(Read(r)) /\ WF_vars(Publish(r))

FairSpec == Spec /\ Fairness

-----------------------------------------------------------------------------
(* Properties.                                                             *)

Holds(q, x) == \E i \in 1..Len(q) : q[i] = x

\* Something on its way will make a reader query the table.
ReadComing ==
    \/ telling # {}
    \/ Holds(inbox, "REFRESH")
    \/ timer
    \/ asleep /\ Holds(inbox, "WAKE_UP")
    \/ Holds(looper, PaymentEvent)
    \/ \E r \in Readers : reader[r] = Started

\* The debounce loses no change: as long as HomeActivity exists, the table has
\* not changed since it was last read, or a request that leads to another read
\* is under way.  Writes race with the second of sleep, with the WAKE_UP that
\* ends it, with a query that has begun and with the life of the screen.
ChangesAreRead == home # "absent" => latest = version \/ ReadComing

\* A scheduler that sleeps will be woken up, so it cannot ignore REFRESH for
\* ever, and one that is awake has no WAKE_UP left over, which would cut its
\* next second of sleep short.
WakesUpOnce ==
    /\ asleep <=> timer \/ Holds(inbox, "WAKE_UP")
    /\ timer => ~Holds(inbox, "WAKE_UP")
    /\ \A i, j \in 1..Len(inbox) : inbox[i] = "WAKE_UP" /\ inbox[j] = "WAKE_UP" => i = j

\* A change of the table is displayed in the end, unless the screen is destroyed,
\* provided that a list is displayed before the next query starts: readers that
\* overlap may display their lists in any order.
ChangesAreShown ==
    \A v \in 1..(MaxWrites + 1) :
        (version = v /\ home # "absent") ~> (shown >= v \/ home = "absent")

-----------------------------------------------------------------------------
(* The inductive invariant.                                                *)

IInv == TypeOK /\ WakesUpOnce /\ ChangesAreRead
=============================================================================
