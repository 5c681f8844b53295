------------------------------- MODULE Startup -------------------------------
(* From the launcher to the home screen: StartupActivity, its threads and its *)
(* StartupTask, App's fields, checkInit of the other activities, and the      *)
(* activities that set up or restore the channels backup on the way.          *)
(*                                                                            *)
(* SeedStorage models the seed and its PIN in detail; here a wallet has an    *)
(* encrypted seed or none, and a PIN is right or wrong.                       *)
EXTENDS Naturals, FiniteSets, Sequences, SequencesExt

CONSTANTS
    Threads,        \* threads of launchStartupTask
    MaxWork,        \* bounds what is already under way when a PIN is typed
    MaxAbove,       \* bounds the activities above the start screen
    MaxLeaves,      \* bounds how often the user leaves the application
    MaxRestarts     \* bounds how often the process dies

ASSUME StartupAssumption == {MaxWork, MaxAbove, MaxLeaves, MaxRestarts} \subseteq Nat

VARIABLES
    \* kept by the device
    play,       \* are Google Play services available?
    wallet,     \* is there an encrypted seed?
    db,         \* eclair.sqlite
    prefs,      \* the shared preferences
    \* kept by the process
    app,        \* App.pin and App.appKit set, seedHash and backup keys set
    actors,     \* the actor system has NodeSupervisor and the others
    threads,    \* what each thread of launchStartupTask does
    queued,     \* StartupTasks waiting for the serial executor
    task,       \* is a StartupTask waiting for the node?
    posted,     \* results on their way to the UI thread
    delayed,    \* startNode calls 1.4 s away
    restoring,  \* the download of the channels backup
    \* the screens
    start,      \* StartupActivity
    confirms,   \* callbacks of PIN dialogs 300 ms away: of the one shown, of others
    above,      \* activities above the start screen
    home,       \* HomeActivity
    front,      \* is the application in the foreground?
    leaves, restarts

device == <<play, wallet, db, prefs>>
process == <<app, actors, threads, queued, task, posted, delayed, restoring>>
screens == <<start, confirms, above, home, front>>
bounds == <<leaves, restarts>>
vars == <<device, process, screens, bounds>>

NewPrefs == [origin |-> "none", startedOnce |-> FALSE, restoreDone |-> FALSE,
             seenOnce |-> FALSE, drive |-> FALSE]
NewStart == [life |-> "alive", resumed |-> FALSE, shown |-> "nothing", dialog |-> FALSE]
NewApp == [pin |-> FALSE, keys |-> FALSE, kit |-> FALSE]
NoConfirms == [shown |-> 0, others |-> 0]
NoRestore == [step |-> "none", owner |-> 0]

TypeOK ==
    /\ {play, wallet, actors, task, front} \subseteq BOOLEAN
    /\ db \in {"none", "partial", "backup", "node"}
    /\ prefs \in [origin : {"none", "scratch", "restored"}, startedOnce : BOOLEAN,
                  restoreDone : BOOLEAN, seenOnce : BOOLEAN, drive : BOOLEAN]
    /\ app \in [pin : BOOLEAN, keys : BOOLEAN, kit : BOOLEAN]
    /\ threads \in [Threads -> {"idle", "right", "wrong", "read"}]
    /\ queued \in Nat /\ delayed \in Nat
    /\ posted \in Seq({"success", "failure", "wrong", "unreadable"})
    /\ restoring \in [step : {"none", "downloading", "writing", "done"}, owner : 0..Len(above)]
    /\ start \in [life : {"alive", "finishing", "gone"}, resumed : BOOLEAN,
                  shown : {"nothing", "pick", "info", "restart"}, dialog : BOOLEAN]
    /\ confirms \in [shown : Nat, others : Nat]
    /\ above \in Seq({"wallet", "restore", "setup"}) /\ Len(above) <= MaxAbove
    /\ home \in {"none", "opening", "open"}
    /\ leaves \in 0..MaxLeaves /\ restarts \in 0..MaxRestarts

Init ==
    /\ play \in BOOLEAN
    /\ wallet = FALSE /\ db = "none" /\ prefs = NewPrefs
    /\ app = NewApp /\ actors = FALSE
    /\ threads = [t \in Threads |-> "idle"]
    /\ queued = 0 /\ task = FALSE /\ posted = <<>> /\ delayed = 0
    /\ restoring = NoRestore
    /\ start = NewStart /\ confirms = NoConfirms
    /\ above = <<>> /\ home = "none" /\ front = TRUE
    /\ leaves = 0 /\ restarts = 0

\* The UI thread is not inside Files.write of restoreBackup.
UiFree == restoring.step # "writing"

\* What is above the start screen is shown once that is paused.
Shown == UiFree /\ front /\ ~start.resumed

Top == IF above = <<>> THEN "start" ELSE Last(above)

-----------------------------------------------------------------------------
\* StartupActivity on the UI thread.

\* The callbacks of a dialog that goes away still fire.
Orphaned == [shown |-> 0, others |-> confirms.shown + confirms.others]

\* launchStartupTask: a new thread reads the seed with the PIN.
launchStartupTask(isRight) ==
    \E t \in Threads :
        /\ threads[t] = "idle"
        /\ threads' = [threads EXCEPT ![t] = IF isRight THEN "right" ELSE "wrong"]

\* finish() and HomeActivity: the start screen stays registered until it is
\* destroyed.
goToHome(s) ==
    /\ start' = [s EXCEPT !.life = IF @ = "alive" THEN "finishing" ELSE @]
    /\ home' = IF home = "none" THEN "opening" ELSE home
    /\ UNCHANGED <<threads, confirms>>

\* startNode, with the start screen in the state s.
startNode(s) ==
    \/ /\ app.kit
       /\ goToHome([s EXCEPT !.shown = "nothing"])
    \/ /\ ~app.kit /\ ~app.pin
       /\ start' = [s EXCEPT !.shown = "nothing", !.dialog = TRUE]
       /\ confirms' = Orphaned
       /\ UNCHANGED <<threads, home>>
    \/ /\ ~app.kit /\ app.pin
       /\ launchStartupTask(TRUE)
       /\ start' = [s EXCEPT !.shown = "nothing"]
       /\ UNCHANGED <<confirms, home>>

\* onResume and its checkup().
onResume ==
    /\ UiFree /\ front /\ above = <<>>
    /\ start.life = "alive" /\ ~start.resumed
    /\ IF wallet
       THEN startNode([start EXCEPT !.resumed = TRUE])
       ELSE /\ start' = [start EXCEPT !.resumed = TRUE, !.shown = "pick"]
            /\ UNCHANGED <<threads, confirms, home>>
    /\ UNCHANGED <<device, app, actors, queued, task, posted, delayed, restoring, above, front, bounds>>

onPause ==
    /\ UiFree /\ start.resumed
    /\ ~front \/ above # <<>> \/ start.life # "alive"
    /\ start' = [start EXCEPT !.resumed = FALSE, !.dialog = FALSE]
    /\ confirms' = Orphaned
    /\ UNCHANGED <<device, process, above, home, front, bounds>>

onDestroy ==
    /\ UiFree /\ start.life = "finishing" /\ ~start.resumed
    /\ start' = [start EXCEPT !.life = "gone"]
    /\ UNCHANGED <<device, process, confirms, above, home, front, bounds>>

\* Six digits in the dialog; they may be corrected and completed again before
\* the callback of the first time.
TypePin ==
    /\ UiFree /\ front /\ start.dialog /\ start.resumed
    /\ confirms.shown + confirms.others + queued + Len(posted) + delayed
         + Cardinality({t \in Threads : threads[t] # "idle"}) < MaxWork
    /\ confirms' = [confirms EXCEPT !.shown = @ + 1]
    /\ UNCHANGED <<device, process, start, above, home, front, bounds>>

\* 300 ms later, whatever became of the dialog, which is dismissed.
onPinConfirm ==
    /\ UiFree
    /\ \E isRight \in BOOLEAN : launchStartupTask(isRight)
    /\ \/ /\ confirms.shown > 0
          /\ confirms' = [shown |-> 0, others |-> confirms.shown + confirms.others - 1]
          /\ start' = [start EXCEPT !.dialog = FALSE]
       \/ /\ confirms.others > 0
          /\ confirms' = [confirms EXCEPT !.others = @ - 1]
          /\ UNCHANGED start
    /\ UNCHANGED <<device, app, actors, queued, task, posted, delayed, restoring, above, home, front, bounds>>

\* startNode, 1.4 s after a wrong PIN.
RetryStartNode ==
    /\ UiFree /\ delayed > 0
    /\ delayed' = delayed - 1
    /\ startNode(start)
    /\ UNCHANGED <<device, app, actors, queued, task, posted, restoring, above, front, bounds>>

-----------------------------------------------------------------------------
\* The thread of launchStartupTask and the StartupTask.

Forget == [app EXCEPT !.pin = FALSE, !.keys = FALSE]

\* readSeedFile: the PIN is right, or wrong, or the file cannot be read.
ReadSeed(t) ==
    /\ \/ /\ threads[t] = "right"
          /\ app' = [app EXCEPT !.pin = TRUE]
          /\ threads' = [threads EXCEPT ![t] = "read"]
          /\ UNCHANGED posted
       \/ \E result \in {"wrong", "unreadable"} :
            /\ threads[t] \in {"wrong", "right"} /\ (threads[t] = "right" => result = "unreadable")
            /\ app' = Forget
            /\ threads' = [threads EXCEPT ![t] = "idle"]
            /\ posted' = Append(posted, result)
    /\ UNCHANGED <<device, actors, queued, task, delayed, restoring, screens, bounds>>

\* Mutant of RestoreFirst: asked of a new seed instead of a restored one.
RestoreFirstOfNew ==
    /\ ~prefs.startedOnce /\ prefs.origin = "scratch" /\ ~prefs.restoreDone
    /\ db = "none" /\ play

\* checkChannelsBackupRestore: restore channels only if the seed was restored.
RestoreFirst ==
    /\ ~prefs.startedOnce /\ prefs.origin = "restored" /\ ~prefs.restoreDone
    /\ db = "none" /\ play

\* checkChannelsBackup.
SetupFirst ==
    /\ ~prefs.startedOnce /\ ~prefs.drive
    /\ play /\ ~prefs.restoreDone /\ ~prefs.seenOnce

\* Mutant of Decide: the thread goes on after opening the activity.
DecideBoth(t) ==
    /\ threads[t] = "read"
    /\ threads' = [threads EXCEPT ![t] = "idle"]
    /\ app' = [app EXCEPT !.keys = TRUE]
    /\ queued' = queued + 1
    /\ \/ /\ RestoreFirst \/ SetupFirst
          /\ Len(above) < MaxAbove
          /\ above' = Append(above, IF RestoreFirst THEN "restore" ELSE "setup")
       \/ /\ ~RestoreFirst /\ ~SetupFirst
          /\ UNCHANGED above
    /\ UNCHANGED <<device, actors, task, posted, delayed, restoring, start, confirms, home, front, bounds>>

\* The keys are derived, then the thread opens an activity that must come first
\* or executes a StartupTask.
Decide(t) ==
    /\ threads[t] = "read"
    /\ threads' = [threads EXCEPT ![t] = "idle"]
    /\ app' = [app EXCEPT !.keys = TRUE]
    /\ \/ /\ RestoreFirst \/ SetupFirst
          /\ Len(above) < MaxAbove
          /\ above' = Append(above, IF RestoreFirst THEN "restore" ELSE "setup")
          /\ UNCHANGED queued
       \/ /\ ~RestoreFirst /\ ~SetupFirst
          /\ queued' = queued + 1
          /\ UNCHANGED above
    /\ UNCHANGED <<device, actors, task, posted, delayed, restoring, start, confirms, home, front, bounds>>

\* doInBackground up to the bootstrap. It fails without network, with actors
\* left by an earlier task, whose names are taken, and with a database that is
\* not one; otherwise the node opens or creates its database.
BeginTask ==
    /\ ~task /\ queued > 0
    /\ queued' = queued - 1
    /\ \/ /\ posted' = Append(posted, "failure")
          /\ UNCHANGED <<actors, task, db>>
       \/ /\ ~actors /\ db # "partial"
          /\ actors' = TRUE /\ task' = TRUE /\ db' = "node"
          /\ UNCHANGED posted
    /\ UNCHANGED <<play, wallet, prefs, app, threads, delayed, restoring, screens, bounds>>

\* The node answers within 60 s, or does not; its actors live on.
EndTask ==
    /\ task
    /\ task' = FALSE
    /\ \E ok \in BOOLEAN :
        /\ app' = IF ok THEN [app EXCEPT !.kit = TRUE] ELSE app
        /\ posted' = Append(posted, IF ok THEN "success" ELSE "failure")
    /\ UNCHANGED <<device, actors, threads, queued, delayed, restoring, screens, bounds>>

-----------------------------------------------------------------------------
\* Results on the UI thread: StartupCompleteEvents for a start screen that is
\* still registered, and the errors of the thread.

Registered == start.life # "gone"

processSuccess ==
    /\ Head(posted) = "success" /\ Registered
    /\ prefs' = [prefs EXCEPT !.startedOnce = TRUE]
    /\ goToHome(start)
    /\ UNCHANGED <<app, delayed>>

processFailure ==
    /\ Head(posted) = "failure" /\ Registered
    /\ app' = Forget
    /\ start' = [start EXCEPT !.shown = "restart"]
    /\ UNCHANGED <<prefs, delayed, threads, confirms, home>>

Unheard ==
    /\ Head(posted) \in {"success", "failure"} /\ ~Registered
    /\ UNCHANGED <<prefs, app, delayed, start, threads, confirms, home>>

\* Mutant of showWrongPassword: the PIN is not asked again.
showWrongPasswordOnly ==
    /\ Head(posted) = "wrong"
    /\ start' = [start EXCEPT !.shown = "info"]
    /\ UNCHANGED <<prefs, app, delayed, threads, confirms, home>>

showWrongPassword ==
    /\ Head(posted) = "wrong"
    /\ start' = [start EXCEPT !.shown = "info"]
    /\ delayed' = delayed + 1
    /\ UNCHANGED <<prefs, app, threads, confirms, home>>

showUnreadable ==
    /\ Head(posted) = "unreadable"
    /\ start' = [start EXCEPT !.shown = "restart"]
    /\ UNCHANGED <<prefs, app, delayed, threads, confirms, home>>

ProcessPosted ==
    /\ UiFree /\ posted # <<>>
    /\ posted' = Tail(posted)
    /\ processSuccess \/ processFailure \/ Unheard \/ showWrongPassword \/ showUnreadable
    /\ UNCHANGED <<play, wallet, db, actors, queued, task, restoring, above, front, bounds>>

\* checkInit, in onCreate and onResume of HomeActivity and of every activity
\* that needs the node: a new start screen, unless all is there.
checkInit ==
    /\ Shown /\ home # "none"
    /\ IF app.kit /\ app.pin
       THEN /\ home = "opening" /\ home' = "open"
            /\ UNCHANGED <<start, confirms>>
       ELSE /\ home' = "none"
            /\ start' = NewStart /\ confirms' = Orphaned
    /\ UNCHANGED <<device, process, above, front, bounds>>

-----------------------------------------------------------------------------
\* The activities above the start screen.

\* Activity number n of the stack finishes; a download it began goes on.
Finish(n) ==
    /\ above' = RemoveAt(above, n)
    /\ restoring' = IF restoring.owner = n THEN [restoring EXCEPT !.owner = 0] ELSE restoring

Back ==
    /\ Shown /\ above # <<>>
    /\ Finish(Len(above))
    /\ UNCHANGED <<device, app, actors, threads, queued, task, posted, delayed, start, confirms, home, front, bounds>>

PickWallet ==
    /\ UiFree /\ front /\ start.resumed /\ start.shown = "pick" /\ above = <<>>
    /\ Len(above) < MaxAbove
    /\ above' = <<"wallet">>
    /\ UNCHANGED <<device, process, start, confirms, home, front, bounds>>

\* CreateSeedActivity or RestoreSeedActivity: the seed file is in its place,
\* then onEncryptSeedSuccess records the origin and returns.
WriteSeed ==
    /\ Shown /\ Top = "wallet" /\ ~wallet
    /\ wallet' = TRUE
    /\ UNCHANGED <<play, db, prefs, process, screens, bounds>>

onEncryptSeedSuccess ==
    /\ Shown /\ Top = "wallet" /\ wallet
    /\ app' = [app EXCEPT !.pin = TRUE]
    /\ \E o \in {"scratch", "restored"} : prefs' = [prefs EXCEPT !.origin = o]
    /\ Finish(Len(above))
    /\ UNCHANGED <<play, wallet, db, actors, threads, queued, task, posted, delayed, start, confirms, home, front, bounds>>

\* SetupChannelsBackupActivity: skipped, granted, or denied by Google.
SetupBackup ==
    /\ Shown /\ Top = "setup"
    /\ \/ /\ \E granted \in BOOLEAN :
               prefs' = [prefs EXCEPT !.seenOnce = TRUE, !.drive = granted \/ prefs.drive]
          /\ Finish(Len(above))
       \/ /\ prefs' = [prefs EXCEPT !.drive = FALSE]
          /\ UNCHANGED <<above, restoring>>
    /\ UNCHANGED <<play, wallet, db, app, actors, threads, queued, task, posted, delayed, start, confirms, home, front, bounds>>

\* RestoreChannelsBackupActivity shows its buttons unless it is searching.
Searching(n) == restoring.step # "none" /\ restoring.owner = n

skipRestore ==
    /\ Shown /\ Top = "restore" /\ ~Searching(Len(above))
    /\ prefs' = [prefs EXCEPT !.restoreDone = TRUE]
    /\ Finish(Len(above))
    /\ UNCHANGED <<play, wallet, db, app, actors, threads, queued, task, posted, delayed, start, confirms, home, front, bounds>>

Restoring(before, after) ==
    /\ restoring.step = before
    /\ restoring' = [restoring EXCEPT !.step = after]
    /\ UNCHANGED <<play, wallet, prefs, app, actors, threads, queued, task, posted, delayed, screens, bounds>>

\* One download at a time.
requestAccess ==
    /\ Shown /\ Top = "restore" /\ restoring.step = "none"
    /\ restoring' = [step |-> "downloading", owner |-> Len(above)]
    /\ UNCHANGED <<device, app, actors, threads, queued, task, posted, delayed, screens, bounds>>

\* Nothing found, conflict, network, or a backup that cannot be decrypted.
RestoreFails == Restoring("downloading", "none") /\ UNCHANGED db

\* restoreBackup: Files.write over eclair.sqlite, begun, then complete or not.
BeginWrite == Restoring("downloading", "writing") /\ db' = "partial"
EndWrite == Restoring("writing", "done") /\ db' = "backup"
WriteFails == Restoring("writing", "none") /\ UNCHANGED db

\* 1.7 s later, also if the activity was left in between.
finishRestore ==
    /\ restoring.step = "done"
    /\ \E access \in BOOLEAN :
         prefs' = [prefs EXCEPT !.drive = access, !.restoreDone = TRUE]
    /\ restoring' = NoRestore
    /\ above' = IF restoring.owner = 0 THEN above ELSE RemoveAt(above, restoring.owner)
    /\ UNCHANGED <<play, wallet, db, app, actors, threads, queued, task, posted, delayed, start, confirms, home, front, bounds>>

-----------------------------------------------------------------------------
\* The user leaves the application and comes back.
Leave ==
    /\ front /\ leaves < MaxLeaves
    /\ front' = FALSE /\ leaves' = leaves + 1
    /\ UNCHANGED <<device, process, start, confirms, above, home, restarts>>

Return ==
    /\ ~front /\ ~start.resumed
    /\ front' = TRUE
    /\ UNCHANGED <<device, process, start, confirms, above, home, bounds>>

\* The process dies, or exits for the button "Restart" of an error, and starts
\* again with what is on the device.
Restart ==
    /\ restarts < MaxRestarts /\ restarts' = restarts + 1
    /\ app' = NewApp /\ actors' = FALSE
    /\ threads' = [t \in Threads |-> "idle"]
    /\ queued' = 0 /\ task' = FALSE /\ posted' = <<>> /\ delayed' = 0
    /\ restoring' = NoRestore
    /\ start' = NewStart /\ confirms' = NoConfirms
    /\ above' = <<>> /\ home' = "none" /\ front' = TRUE
    /\ UNCHANGED <<device, leaves>>

\* What happens without the user.
Internal ==
    \/ onResume \/ onPause \/ onDestroy \/ onPinConfirm \/ RetryStartNode
    \/ \E t \in Threads : ReadSeed(t) \/ Decide(t)
    \/ BeginTask \/ EndTask \/ ProcessPosted \/ checkInit
    \/ EndWrite \/ WriteFails \/ finishRestore

User ==
    \/ TypePin \/ Back \/ PickWallet \/ WriteSeed \/ onEncryptSeedSuccess \/ SetupBackup
    \/ skipRestore \/ requestAccess \/ RestoreFails \/ BeginWrite
    \/ Leave \/ Return

Next == Internal \/ User \/ Restart

Spec == Init /\ [][Next]_vars

\* The UI thread, the threads and the executor run, timers fire, and a write to
\* a file ends.
FairSpec ==
    /\ Spec
    /\ WF_vars(onResume) /\ WF_vars(onPause) /\ WF_vars(onDestroy) /\ WF_vars(checkInit)
    /\ WF_vars(onPinConfirm) /\ WF_vars(RetryStartNode) /\ WF_vars(ProcessPosted)
    /\ \A t \in Threads : WF_vars(ReadSeed(t)) /\ WF_vars(Decide(t))
    /\ WF_vars(BeginTask) /\ WF_vars(EndTask)
    /\ WF_vars(EndWrite \/ WriteFails) /\ WF_vars(finishRestore)

-----------------------------------------------------------------------------
\* Somebody still has to do something for the start screen.
Pending ==
    \/ start.dialog \/ confirms.shown + confirms.others > 0
    \/ \E t \in Threads : threads[t] # "idle"
    \/ queued > 0 \/ task \/ posted # <<>> \/ delayed > 0

\* The start screen never stands still: as long as it is on the screen it asks
\* for a wallet or a PIN, has something under way, or shows an error with its
\* button, whichever results, timers and pauses come in whichever order.
NeverStalls ==
    start.life = "alive" /\ start.resumed /\ front /\ above = <<>>
        => Pending \/ start.shown \in {"pick", "restart"}

\* A node is never given a new, empty database when the seed is known to have
\* been restored, unless the user chose to restore no channels: its channels
\* would be forgotten for good, although their backup is there.
RestoreIsOffered ==
    [][~task /\ task' /\ db = "none" /\ prefs.origin = "restored" /\ play
        => prefs.restoreDone]_vars

\* The file of a running node is not overwritten by a backup, unless the user
\* has meanwhile chosen to restore none: a download goes on when its screen is
\* left, and the screen opened instead of it has a button to skip.
DatabaseIsNotReplaced ==
    [][restoring.step # "writing" /\ restoring'.step = "writing" /\ actors
        => prefs.restoreDone]_vars

\* "Checks that the application was correctly initialized before accessing this
\* activity. Redirect to Startup if not, which restarts eclair correctly": once
\* the node runs, an application in the foreground ends up on the home screen,
\* or asks for something. The code redirects for ever when the node runs and
\* the PIN was cleared by a second task or a second thread.
RestartsCorrectly ==
    app.kit ~> \/ home = "open" \/ ~front \/ above # <<>> \/ ~app.kit
               \/ start.dialog \/ start.shown \in {"restart", "pick"}
=============================================================================
