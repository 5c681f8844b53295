---------------------------- MODULE StartupProofs ----------------------------
(* Startup, proved for any number of threads and any bounds: type             *)
(* correctness, no stall of the start screen, no restored seed on an empty    *)
(* database, and no backup over the database of a running node.               *)
EXTENDS Startup, SequenceTheorems, TLAPS

\* Nothing of a wallet is under way.
Quiet ==
    /\ \A t \in Threads : threads[t] = "idle"
    /\ queued = 0 /\ ~task /\ posted = <<>> /\ delayed = 0
    /\ confirms = NoConfirms /\ ~start.dialog
    /\ restoring = NoRestore /\ ~actors

\* The wallet's seed is only created while nothing else happens, and is there
\* for ever.
WalletFirst ==
    /\ ~wallet => Quiet /\ \A n \in 1..Len(above) : above[n] = "wallet"
    /\ \A n \in 1..Len(above) : above[n] = "wallet" => Quiet /\ Len(above) = 1
    /\ start.resumed /\ start.shown = "pick" => ~wallet

\* A screen that is on the screen has no activity above it whose download goes on.
ResumedAlone == start.resumed => restoring.owner = 0

\* What comes after the database is created.
Succeeded == \E n \in 1..Len(posted) : posted[n] = "success"
DatabaseFirst == actors \/ task \/ prefs.startedOnce \/ Succeeded => db # "none"

\* The seed was restored, its channels were not, and nobody chose to do without.
Owed == prefs.origin = "restored" /\ play /\ ~prefs.restoreDone

\* No task is queued that would create an empty database.
QueuedLater == queued > 0 => ~(Owed /\ db = "none")

Restored == \E n \in 1..Len(above) : above[n] = "restore"

\* As long as a download may end in a write, no node runs on the file, and none
\* can be started before the write ends.
RestoredFirst ==
    \/ restoring.step \in {"downloading", "writing"}
    \/ restoring.step = "none" /\ Restored
    => prefs.restoreDone \/ (Owed /\ ~actors /\ db \in {"none", "partial"})

WritingIsPartial == restoring.step = "writing" /\ ~prefs.restoreDone => db = "partial"

\* The inductive invariant.
IInv ==
    /\ TypeOK /\ WalletFirst /\ ResumedAlone /\ DatabaseFirst /\ QueuedLater
    /\ RestoredFirst /\ WritingIsPartial /\ NeverStalls

\* The conjuncts of TypeOK.
DeviceType == {play, wallet, actors, task, front} \subseteq BOOLEAN
DbType == db \in {"none", "partial", "backup", "node"}
PrefsType ==
    prefs \in [origin : {"none", "scratch", "restored"}, startedOnce : BOOLEAN,
               restoreDone : BOOLEAN, seenOnce : BOOLEAN, drive : BOOLEAN]
AppType == app \in [pin : BOOLEAN, keys : BOOLEAN, kit : BOOLEAN]
ThreadsType == threads \in [Threads -> {"idle", "right", "wrong", "read"}]
CountersType == queued \in Nat /\ delayed \in Nat
PostedType == posted \in Seq({"success", "failure", "wrong", "unreadable"})
AboveType == above \in Seq({"wallet", "restore", "setup"}) /\ Len(above) <= MaxAbove
RestoringType ==
    restoring \in [step : {"none", "downloading", "writing", "done"},
                   owner : 0..Len(above)]
StartType ==
    start \in [life : {"alive", "finishing", "gone"}, resumed : BOOLEAN,
               shown : {"nothing", "pick", "info", "restart"}, dialog : BOOLEAN]
ConfirmsType == confirms \in [shown : Nat, others : Nat]
HomeType == home \in {"none", "opening", "open"}
BoundsType == leaves \in 0..MaxLeaves /\ restarts \in 0..MaxRestarts

Screens == {"wallet", "restore", "setup"}
Results == {"success", "failure", "wrong", "unreadable"}

-----------------------------------------------------------------------------
\* An activity that finishes leaves the others in their order.
LEMMA RemoveAtFacts ==
    ASSUME NEW S, NEW s \in Seq(S), NEW n \in 1..Len(s)
    PROVE  /\ RemoveAt(s, n) \in Seq(S)
           /\ Len(RemoveAt(s, n)) = Len(s) - 1
           /\ \A k \in 1..(Len(s) - 1) :
                 RemoveAt(s, n)[k] = IF k < n THEN s[k] ELSE s[k + 1]
<1> DEFINE before == SubSeq(s, 1, n - 1)
           after == SubSeq(s, n + 1, Len(s))
<1>0. Len(s) \in Nat /\ n \in Nat
  OBVIOUS
<1>1. before \in Seq(S) /\ Len(before) = n - 1
  OBVIOUS
<1>2. after \in Seq(S) /\ Len(after) = Len(s) - n
  OBVIOUS
<1>3. \A k \in 1..(n - 1) : before[k] = s[k]
  OBVIOUS
<1>4. \A k \in 1..(Len(s) - n) : after[k] = s[k + n]
  OBVIOUS
<1>5. RemoveAt(s, n) = before \o after
  BY DEF RemoveAt
<1> HIDE DEF before, after
<1>6. before \o after \in Seq(S) /\ Len(before \o after) = Len(s) - 1
  <2>1. before \o after \in Seq(S)
    BY <1>1, <1>2
  <2>2. Len(before \o after) = Len(before) + Len(after)
    BY <1>1, <1>2, SMTT(30)
  <2>3. (n - 1) + (Len(s) - n) = Len(s) - 1
    BY <1>0
  <2> QED BY <2>1, <2>2, <2>3, <1>1, <1>2
<1>7. ASSUME NEW k \in 1..(Len(s) - 1)
      PROVE (before \o after)[k] = IF k < n THEN s[k] ELSE s[k + 1]
  <2>1. CASE k < n
    BY <1>0, <1>1, <1>2, <1>3, <2>1
  <2>2. CASE ~(k < n)
    <3>1. (before \o after)[k] = after[k - (n - 1)]
      <4>1. k \in 1..(Len(before) + Len(after)) /\ ~(k <= Len(before))
        BY <1>0, <1>1, <1>2, <2>2
      <4>2. (before \o after)[k] = after[k - Len(before)]
        BY <1>1, <1>2, <4>1, ConcatProperties, Zenon
      <4> QED BY <4>2, <1>1
    <3>2. k - (n - 1) \in 1..(Len(s) - n) /\ (k - (n - 1)) + n = k + 1
      BY <1>0, <2>2
    <3> QED BY <3>1, <3>2, <1>4, <2>2
  <2> QED BY <2>1, <2>2
<1> QED BY <1>5, <1>6, <1>7

\* What the activity on top leaves when it finishes.
LEMMA FinishFacts ==
    ASSUME TypeOK, above # <<>>, Finish(Len(above))
    PROVE  /\ above' \in Seq({"wallet", "restore", "setup"}) /\ Len(above') <= MaxAbove
           /\ Len(above') = Len(above) - 1
           /\ \A k \in 1..Len(above') : above'[k] = above[k]
           /\ restoring' \in [step : {"none", "downloading", "writing", "done"},
                              owner : 0..Len(above')]
           /\ restoring'.step = restoring.step
           /\ restoring'.owner \in {0, restoring.owner}
           /\ restoring = NoRestore => restoring' = NoRestore
<1>1. above \in Seq(Screens) /\ Len(above) <= MaxAbove /\ MaxAbove \in Nat
  BY StartupAssumption DEF TypeOK, Screens
<1>2. Len(above) \in 1..Len(above) /\ Len(above) \in Nat
  BY <1>1
<1>3. above' = RemoveAt(above, Len(above))
  BY DEF Finish
<1>4. /\ above' \in Seq(Screens) /\ Len(above') = Len(above) - 1
      /\ \A k \in 1..Len(above') : above'[k] = above[k]
  <2>1. /\ RemoveAt(above, Len(above)) \in Seq(Screens)
        /\ Len(RemoveAt(above, Len(above))) = Len(above) - 1
        /\ \A k \in 1..(Len(above) - 1) : RemoveAt(above, Len(above))[k] =
              IF k < Len(above) THEN above[k] ELSE above[k + 1]
    BY <1>1, <1>2, RemoveAtFacts, Zenon
  <2>2. \A k \in 1..(Len(above) - 1) : k < Len(above)
    BY <1>2
  <2> QED BY <2>1, <2>2, <1>3
<1>5. restoring \in [step : {"none", "downloading", "writing", "done"}, owner : 0..Len(above)]
  BY DEF TypeOK
<1>6. CASE restoring.owner = Len(above)
  <2>1. restoring' = [restoring EXCEPT !.owner = 0]
    BY <1>6 DEF Finish
  <2> QED BY <2>1, <1>1, <1>2, <1>4, <1>5, <1>6 DEF Screens, NoRestore
<1>7. CASE restoring.owner # Len(above)
  <2>1. restoring' = restoring
    BY <1>7 DEF Finish
  <2> QED BY <2>1, <1>1, <1>2, <1>4, <1>5, <1>7 DEF Screens, NoRestore
<1> QED BY <1>6, <1>7

\* A result more at the end.
LEMMA AppendFacts ==
    ASSUME posted \in Seq(Results), NEW r \in Results, posted' = Append(posted, r)
    PROVE  Succeeded' => Succeeded \/ r = "success"
  BY SMTT(30) DEF Succeeded, Results

\* A result less at the front.
LEMMA TailFacts ==
    ASSUME posted \in Seq(Results), posted # <<>>, posted' = Tail(posted)
    PROVE  /\ Succeeded' => Succeeded
           /\ Head(posted) = "success" => Succeeded
  BY SMTT(30) DEF Succeeded, Results

\* What goes on needs a wallet, and its seed is not being created.
LEMMA NotQuiet ==
    ASSUME TypeOK, WalletFirst, ~Quiet
    PROVE  wallet /\ \A n \in 1..Len(above) : above[n] # "wallet"
  BY Zenon DEF WalletFirst, TypeOK

\* What startNode does to the screen and what it leaves under way.
LEMMA StartNodeFacts ==
    ASSUME TypeOK,
           NEW s \in [life : {"alive", "finishing", "gone"}, resumed : BOOLEAN,
                      shown : {"nothing", "pick", "info", "restart"}, dialog : BOOLEAN],
           startNode(s)
    PROVE  /\ StartType'
           /\ start'.resumed = s.resumed /\ start'.shown = "nothing"
           /\ \/ start'.life # "alive"
              \/ start'.dialog
              \/ \E t \in Threads : threads'[t] # "idle"
<1>1. CASE app.kit
  <2>1. start' = [[s EXCEPT !.shown = "nothing"] EXCEPT !.life =
                     IF @ = "alive" THEN "finishing" ELSE @]
    BY <1>1, Zenon DEF startNode, goToHome
  <2>2. start'.resumed = s.resumed /\ start'.shown = "nothing"
    BY <2>1, Zenon
  <2>3. start'.life # "alive"
    BY <2>1, SMT
  <2>4. StartType'
    BY <2>1, Zenon DEF StartType
  <2> QED BY <2>2, <2>3, <2>4, Zenon
<1>2. CASE ~app.kit /\ ~app.pin
  <2>1. start' = [s EXCEPT !.shown = "nothing", !.dialog = TRUE]
    BY <1>2, Zenon DEF startNode
  <2> QED BY <2>1, Zenon DEF StartType
<1>3. CASE ~app.kit /\ app.pin
  <2>1. start' = [s EXCEPT !.shown = "nothing"] /\ launchStartupTask(TRUE)
    BY <1>3, Zenon DEF startNode
  <2>2. \E t \in Threads : threads'[t] # "idle"
    BY <2>1, SMT DEF launchStartupTask, TypeOK
  <2> QED BY <2>1, <2>2, Zenon DEF StartType
<1> QED BY <1>1, <1>2, <1>3, Zenon

\* SetupChannelsBackupActivity only records whether there is access to Drive.
LEMMA SetupBackupFacts ==
    ASSUME TypeOK, SetupBackup
    PROVE  /\ UNCHANGED <<play, wallet, db, app, actors, threads, queued, task, posted, delayed,
                          start, confirms, home, front>>
           /\ prefs'.origin = prefs.origin /\ prefs'.startedOnce = prefs.startedOnce
           /\ prefs'.restoreDone = prefs.restoreDone
<1>1. \/ \E g : prefs' = [prefs EXCEPT !.seenOnce = TRUE, !.drive = g]
      \/ prefs' = [prefs EXCEPT !.drive = FALSE]
  BY Zenon DEF SetupBackup
<1>2. prefs'.origin = prefs.origin /\ prefs'.startedOnce = prefs.startedOnce
      /\ prefs'.restoreDone = prefs.restoreDone
  BY <1>1, Zenon DEF TypeOK
<1> QED BY <1>2, Zenon DEF SetupBackup

-----------------------------------------------------------------------------
\* onResume asks for a wallet or calls startNode.
LEMMA onResumeTypes ==
    ASSUME TypeOK, onResume
    PROVE  TypeOK'
<1>1. (DeviceType /\ DbType /\ PrefsType /\ AppType /\ ThreadsType /\ CountersType /\
       PostedType /\ AboveType /\ RestoringType /\ ConfirmsType /\ HomeType /\
       BoundsType)'
  BY StartupAssumption, SMTT(20) DEF TypeOK, DeviceType, DbType, PrefsType, AppType,
     ThreadsType, CountersType, PostedType, AboveType, RestoringType, ConfirmsType,
     HomeType, BoundsType, onResume, startNode, goToHome, launchStartupTask,
     Orphaned, device, bounds
<1>2. (start \in [life : {"alive", "finishing", "gone"}, resumed : BOOLEAN,
                shown : {"nothing", "pick", "info", "restart"}, dialog : BOOLEAN])'
  <2>1. [start EXCEPT !.resumed = TRUE] \in
             [life : {"alive", "finishing", "gone"}, resumed : BOOLEAN,
              shown : {"nothing", "pick", "info", "restart"}, dialog : BOOLEAN]
    BY Zenon DEF TypeOK
  <2>2. CASE wallet
    BY <2>1, <2>2, StartNodeFacts, Zenon DEF onResume, StartType
  <2>3. CASE ~wallet
    BY <2>3, ZenonT(30) DEF TypeOK, onResume
  <2> QED BY <2>2, <2>3
<1> QED BY <1>1, <1>2 DEF TypeOK, DeviceType, DbType, PrefsType, AppType,
           ThreadsType, CountersType, PostedType, AboveType, RestoringType,
           StartType, ConfirmsType, HomeType, BoundsType

\* The invariant is kept by onResume.
LEMMA onResumeKeeps ==
    ASSUME IInv, onResume
    PROVE  IInv'
<1>1. TypeOK /\ TypeOK'
  BY onResumeTypes DEF IInv
<1>2. ResumedAlone'
  BY <1>1, SMTT(20) DEF IInv, onResume, ResumedAlone, startNode, goToHome,
     launchStartupTask, Orphaned, device, bounds, TypeOK
<1>3. (DatabaseFirst /\ QueuedLater /\ RestoredFirst /\ WritingIsPartial)'
  BY ZenonT(20) DEF IInv, onResume, DatabaseFirst, QueuedLater, RestoredFirst,
     WritingIsPartial, device, bounds, Succeeded, Owed, Restored
<1>4. WalletFirst'
  <2>1. CASE wallet
    <3>1. start'.shown = "nothing"
      <4>1. [start EXCEPT !.resumed = TRUE] \in
               [life : {"alive", "finishing", "gone"}, resumed : BOOLEAN,
                shown : {"nothing", "pick", "info", "restart"}, dialog : BOOLEAN]
        BY <1>1, Zenon DEF TypeOK
      <4>2. startNode([start EXCEPT !.resumed = TRUE])
        BY <2>1, Zenon DEF onResume
      <4> QED BY <1>1, <4>1, <4>2, StartNodeFacts, Zenon
    <3>2. wallet' /\ above' = <<>>
      BY <2>1, Zenon DEF onResume, device
    <3> QED BY <3>1, <3>2, SMT DEF WalletFirst
  <2>2. CASE ~wallet
    <3>1. start' = [start EXCEPT !.resumed = TRUE, !.shown = "pick"]
      BY <2>2, Zenon DEF onResume
    <3>2. start'.dialog = start.dialog
      BY <1>1, <3>1, Zenon DEF TypeOK
    <3>3. above' = <<>> /\ ~wallet'
      BY <2>2, Zenon DEF onResume, device
    <3>4. Quiet'
      BY <1>1, <2>2, <3>2, SMT DEF IInv, WalletFirst, Quiet, onResume, NoConfirms, NoRestore
    <3> QED BY <3>3, <3>4, SMT DEF WalletFirst
  <2> QED BY <2>1, <2>2
<1>5. NeverStalls'
  <2>1. CASE wallet
    <3>1. [start EXCEPT !.resumed = TRUE] \in
             [life : {"alive", "finishing", "gone"}, resumed : BOOLEAN,
              shown : {"nothing", "pick", "info", "restart"}, dialog : BOOLEAN]
      BY <1>1, Zenon DEF TypeOK
    <3>2. startNode([start EXCEPT !.resumed = TRUE])
      BY <2>1, Zenon DEF onResume
    <3>3. \/ start'.life # "alive"
          \/ start'.dialog
          \/ \E t \in Threads : threads'[t] # "idle"
      BY <1>1, <3>1, <3>2, StartNodeFacts, Zenon
    <3> QED BY <3>3, Zenon DEF NeverStalls, Pending
  <2>2. CASE ~wallet
    <3>1. start' = [start EXCEPT !.resumed = TRUE, !.shown = "pick"]
      BY <2>2, Zenon DEF onResume
    <3>2. start'.shown = "pick"
      BY <1>1, <3>1, Zenon DEF TypeOK
    <3> QED BY <3>2, Zenon DEF NeverStalls
  <2> QED BY <2>1, <2>2
<1> QED BY <1>1, <1>2, <1>3, <1>4, <1>5 DEF IInv

-----------------------------------------------------------------------------
\* onPause: the callbacks of a dialog are orphaned, not lost.
LEMMA onPauseTypes ==
    ASSUME TypeOK, onPause
    PROVE  TypeOK'
<1>1. (DeviceType /\ DbType /\ PrefsType /\ AppType /\ ThreadsType /\ CountersType /\
       PostedType /\ AboveType /\ RestoringType /\ ConfirmsType /\ HomeType /\
       BoundsType)'
  BY StartupAssumption, SMTT(20) DEF TypeOK, DeviceType, DbType, PrefsType, AppType,
     ThreadsType, CountersType, PostedType, AboveType, RestoringType, ConfirmsType,
     HomeType, BoundsType, onPause, Orphaned, device, process, bounds
<1>2. StartType'
  BY ZenonT(20) DEF TypeOK, StartType, onPause, Orphaned, device, process, bounds
<1> QED BY <1>1, <1>2 DEF TypeOK, DeviceType, DbType, PrefsType, AppType,
           ThreadsType, CountersType, PostedType, AboveType, RestoringType,
           StartType, ConfirmsType, HomeType, BoundsType

\* The invariant is kept by onPause.
LEMMA onPauseKeeps ==
    ASSUME IInv, onPause
    PROVE  IInv'
<1>1. TypeOK /\ TypeOK'
  BY onPauseTypes DEF IInv
<1>2. (WalletFirst /\ NeverStalls)'
  BY SMTT(20) DEF IInv, onPause, WalletFirst, NeverStalls, Orphaned, device, process,
     bounds, Quiet, NoRestore, NoConfirms, Pending
<1>3. (ResumedAlone /\ DatabaseFirst /\ QueuedLater /\ RestoredFirst /\
       WritingIsPartial)'
  BY ZenonT(20) DEF IInv, onPause, ResumedAlone, DatabaseFirst, QueuedLater,
     RestoredFirst, WritingIsPartial, device, process, bounds, Succeeded, Owed,
     Restored
<1> QED BY <1>1, <1>2, <1>3 DEF IInv

-----------------------------------------------------------------------------
\* onDestroy: the start screen is not registered any more.
LEMMA onDestroyTypes ==
    ASSUME TypeOK, onDestroy
    PROVE  TypeOK'
<1>1. (DeviceType /\ DbType /\ PrefsType /\ AppType /\ ThreadsType /\ CountersType /\
       PostedType /\ AboveType /\ RestoringType /\ ConfirmsType /\ HomeType /\
       BoundsType)'
  BY StartupAssumption, SMTT(20) DEF TypeOK, DeviceType, DbType, PrefsType, AppType,
     ThreadsType, CountersType, PostedType, AboveType, RestoringType, ConfirmsType,
     HomeType, BoundsType, onDestroy, device, process, bounds
<1>2. StartType'
  BY ZenonT(20) DEF TypeOK, StartType, onDestroy, device, process, bounds
<1> QED BY <1>1, <1>2 DEF TypeOK, DeviceType, DbType, PrefsType, AppType,
           ThreadsType, CountersType, PostedType, AboveType, RestoringType,
           StartType, ConfirmsType, HomeType, BoundsType

\* The invariant is kept by onDestroy.
LEMMA onDestroyKeeps ==
    ASSUME IInv, onDestroy
    PROVE  IInv'
<1>1. TypeOK /\ TypeOK'
  BY onDestroyTypes DEF IInv
<1>2. (WalletFirst /\ ResumedAlone /\ NeverStalls)'
  BY SMTT(20) DEF IInv, onDestroy, WalletFirst, ResumedAlone, NeverStalls, device,
     process, bounds, Quiet, NoRestore, NoConfirms, Pending
<1>3. (DatabaseFirst /\ QueuedLater /\ RestoredFirst /\ WritingIsPartial)'
  BY ZenonT(20) DEF IInv, onDestroy, DatabaseFirst, QueuedLater, RestoredFirst,
     WritingIsPartial, device, process, bounds, Succeeded, Owed, Restored
<1> QED BY <1>1, <1>2, <1>3 DEF IInv

-----------------------------------------------------------------------------
\* A callback more, bounded by what may be under way.
LEMMA TypePinTypes ==
    ASSUME TypeOK, TypePin
    PROVE  TypeOK'
<1>1. (DeviceType /\ DbType /\ PrefsType /\ AppType /\ ThreadsType /\ CountersType /\
       PostedType /\ AboveType /\ RestoringType /\ StartType /\ HomeType /\
       BoundsType)'
  BY StartupAssumption, SMTT(20) DEF TypeOK, DeviceType, DbType, PrefsType, AppType,
     ThreadsType, CountersType, PostedType, AboveType, RestoringType, StartType,
     HomeType, BoundsType, TypePin, device, process, bounds
<1>2. (confirms \in [shown : Nat, others : Nat])'
  <2>1. confirms' = [confirms EXCEPT !.shown = confirms.shown + 1]
    BY Zenon DEF TypePin
  <2>2. confirms \in [shown : Nat, others : Nat]
    BY Zenon DEF TypeOK
  <2>3. confirms.shown + 1 \in Nat
    BY <2>2
  <2> QED BY <2>1, <2>2, <2>3, Zenon
<1> QED BY <1>1, <1>2 DEF TypeOK, DeviceType, DbType, PrefsType, AppType,
           ThreadsType, CountersType, PostedType, AboveType, RestoringType,
           StartType, ConfirmsType, HomeType, BoundsType

\* The invariant is kept by TypePin.
LEMMA TypePinKeeps ==
    ASSUME IInv, TypePin
    PROVE  IInv'
<1>1. TypeOK /\ TypeOK'
  BY TypePinTypes DEF IInv
<1>2. (WalletFirst /\ ResumedAlone /\ DatabaseFirst /\ QueuedLater /\
       RestoredFirst /\ WritingIsPartial /\ NeverStalls)'
  BY ZenonT(20) DEF IInv, TypePin, WalletFirst, ResumedAlone, DatabaseFirst,
     QueuedLater, RestoredFirst, WritingIsPartial, NeverStalls, device, process,
     bounds, Quiet, NoRestore, NoConfirms, Succeeded, Owed, Restored, Pending
<1> QED BY <1>1, <1>2 DEF IInv

-----------------------------------------------------------------------------
\* The callback of a dialog starts a thread.
LEMMA onPinConfirmTypes ==
    ASSUME TypeOK, onPinConfirm
    PROVE  TypeOK'
<1>1. (DeviceType /\ DbType /\ PrefsType /\ AppType /\ ThreadsType /\ CountersType /\
       PostedType /\ AboveType /\ RestoringType /\ ConfirmsType /\ HomeType /\
       BoundsType)'
  BY StartupAssumption, SMTT(20) DEF TypeOK, DeviceType, DbType, PrefsType, AppType,
     ThreadsType, CountersType, PostedType, AboveType, RestoringType, ConfirmsType,
     HomeType, BoundsType, onPinConfirm, launchStartupTask, device, bounds
<1>2. StartType'
  BY ZenonT(20) DEF TypeOK, StartType, onPinConfirm, launchStartupTask, device,
     bounds
<1> QED BY <1>1, <1>2 DEF TypeOK, DeviceType, DbType, PrefsType, AppType,
           ThreadsType, CountersType, PostedType, AboveType, RestoringType,
           StartType, ConfirmsType, HomeType, BoundsType

\* The invariant is kept by onPinConfirm.
LEMMA onPinConfirmKeeps ==
    ASSUME IInv, onPinConfirm
    PROVE  IInv'
<1>1. TypeOK /\ TypeOK'
  BY onPinConfirmTypes DEF IInv
<1>2. (WalletFirst /\ ResumedAlone /\ NeverStalls)'
  BY <1>1, SMTT(20) DEF IInv, onPinConfirm, WalletFirst, ResumedAlone, NeverStalls,
     launchStartupTask, device, bounds, Quiet, NoRestore, NoConfirms, TypeOK, Pending
<1>3. (DatabaseFirst /\ QueuedLater /\ RestoredFirst /\ WritingIsPartial)'
  BY ZenonT(20) DEF IInv, onPinConfirm, DatabaseFirst, QueuedLater, RestoredFirst,
     WritingIsPartial, device, bounds, Succeeded, Owed, Restored
<1> QED BY <1>1, <1>2, <1>3 DEF IInv

-----------------------------------------------------------------------------
\* A startNode call that waited: what waits needs a wallet, so the screen has one.
LEMMA RetryStartNodeTypes ==
    ASSUME TypeOK, RetryStartNode
    PROVE  TypeOK'
<1>1. (DeviceType /\ DbType /\ PrefsType /\ AppType /\ CountersType /\ PostedType /\
       AboveType /\ RestoringType /\ ConfirmsType /\ HomeType /\ BoundsType)'
  BY StartupAssumption, SMTT(20) DEF TypeOK, DeviceType, DbType, PrefsType, AppType,
     CountersType, PostedType, AboveType, RestoringType, ConfirmsType, HomeType,
     BoundsType, RetryStartNode, startNode, goToHome, launchStartupTask, Orphaned,
     device, bounds
<1>2. (ThreadsType /\ StartType)'
  BY ZenonT(20) DEF TypeOK, ThreadsType, StartType, RetryStartNode, startNode,
     goToHome, launchStartupTask, Orphaned, device, bounds
<1> QED BY <1>1, <1>2 DEF TypeOK, DeviceType, DbType, PrefsType, AppType,
           ThreadsType, CountersType, PostedType, AboveType, RestoringType,
           StartType, ConfirmsType, HomeType, BoundsType

\* The invariant is kept by RetryStartNode.
LEMMA RetryStartNodeKeeps ==
    ASSUME IInv, RetryStartNode
    PROVE  IInv'
<1>1. TypeOK /\ TypeOK'
  BY RetryStartNodeTypes DEF IInv
<1>2. (DatabaseFirst /\ QueuedLater /\ RestoredFirst /\ WritingIsPartial)'
  BY ZenonT(20) DEF IInv, RetryStartNode, DatabaseFirst, QueuedLater, RestoredFirst,
     WritingIsPartial, device, bounds, Succeeded, Owed, Restored
<1>3. WalletFirst'
  <2>1. start'.resumed = start.resumed /\ start'.shown = "nothing"
    BY <1>1, StartNodeFacts, Zenon DEF RetryStartNode, TypeOK
  <2>2. ~Quiet
    BY <1>1, SMT DEF RetryStartNode, Quiet, TypeOK
  <2>3. wallet /\ \A n \in 1..Len(above) : above[n] # "wallet"
    BY <1>1, <2>2, NotQuiet DEF IInv
  <2>4. wallet' = wallet /\ above' = above
    BY Zenon DEF RetryStartNode, device
  <2> QED BY <2>1, <2>3, <2>4, SMT DEF WalletFirst
<1>4. ResumedAlone'
  <2>1. start'.resumed = start.resumed /\ start'.shown = "nothing"
    BY <1>1, StartNodeFacts, Zenon DEF RetryStartNode, TypeOK
  <2>2. restoring' = restoring
    BY Zenon DEF RetryStartNode
  <2> QED BY <2>1, <2>2, Zenon DEF IInv, ResumedAlone
<1>5. NeverStalls'
  <2>1. \/ start'.life # "alive"
        \/ start'.dialog
        \/ \E t \in Threads : threads'[t] # "idle"
    BY <1>1, StartNodeFacts, Zenon DEF RetryStartNode, TypeOK
  <2> QED BY <2>1, Zenon DEF NeverStalls, Pending
<1> QED BY <1>1, <1>2, <1>3, <1>4, <1>5 DEF IInv

-----------------------------------------------------------------------------
\* A thread has read the seed, or reports an error.
LEMMA ReadSeedTypes ==
    ASSUME TypeOK, NEW t \in Threads, ReadSeed(t)
    PROVE  TypeOK'
<1>1. (DeviceType /\ DbType /\ PrefsType /\ ThreadsType /\ CountersType /\
       AboveType /\ RestoringType /\ StartType /\ ConfirmsType /\ HomeType /\
       BoundsType)'
  BY StartupAssumption, SMTT(40) DEF TypeOK, DeviceType, DbType, PrefsType,
     ThreadsType, CountersType, AboveType, RestoringType, StartType, ConfirmsType,
     HomeType, BoundsType, ReadSeed, Forget, device, screens, bounds
<1>2. AppType'
  BY ZenonT(20) DEF TypeOK, AppType, ReadSeed, Forget, device, screens, bounds
<1>3. (posted \in Seq({"success", "failure", "wrong", "unreadable"}))'
  <2>1. \/ posted' = posted
        \/ \E r \in {"wrong", "unreadable"} : posted' = Append(posted, r)
    BY Zenon DEF ReadSeed
  <2>2. posted \in Seq(Results)
    BY DEF TypeOK, Results
  <2> QED BY <2>1, <2>2, SMT DEF Results
<1> QED BY <1>1, <1>2, <1>3 DEF TypeOK, DeviceType, DbType, PrefsType, AppType,
           ThreadsType, CountersType, PostedType, AboveType, RestoringType,
           StartType, ConfirmsType, HomeType, BoundsType

\* The invariant is kept by ReadSeed.
LEMMA ReadSeedKeeps ==
    ASSUME IInv, NEW t \in Threads, ReadSeed(t)
    PROVE  IInv'
<1>1. TypeOK /\ TypeOK'
  BY ReadSeedTypes DEF IInv
<1>2. (WalletFirst /\ ResumedAlone /\ QueuedLater /\ RestoredFirst /\
       WritingIsPartial)'
  BY ZenonT(20) DEF IInv, ReadSeed, WalletFirst, ResumedAlone, QueuedLater,
     RestoredFirst, WritingIsPartial, device, screens, bounds, Quiet, NoRestore,
     NoConfirms, Owed, Restored
<1>3. NeverStalls'
  BY <1>1, SMTT(20) DEF IInv, ReadSeed, NeverStalls, Forget, device, screens, bounds,
     Pending, TypeOK
<1>4. DatabaseFirst'
  <2>1. posted \in Seq(Results)
    BY <1>1, Zenon DEF TypeOK, Results
  <2>2. Succeeded' => Succeeded
    <3>1. \/ posted' = posted
          \/ \E r \in {"wrong", "unreadable"} : posted' = Append(posted, r)
      BY Zenon DEF ReadSeed
    <3>2. CASE posted' = posted
      BY <3>2, Zenon DEF Succeeded
    <3>3. ASSUME NEW r \in {"wrong", "unreadable"}, posted' = Append(posted, r)
          PROVE  Succeeded' => Succeeded
      <4>1. r \in Results /\ r # "success"
        BY DEF Results
      <4> QED BY <2>1, <3>3, <4>1, AppendFacts, Zenon
    <3> QED BY <3>1, <3>2, <3>3, Zenon
  <2>3. UNCHANGED <<device, actors, task>>
    BY Zenon DEF ReadSeed
  <2> QED BY <2>2, <2>3, Zenon DEF IInv, DatabaseFirst, device
<1> QED BY <1>1, <1>2, <1>3, <1>4 DEF IInv

-----------------------------------------------------------------------------
\* A thread decides: RestoreFirst is what keeps QueuedLater.
LEMMA DecideTypes ==
    ASSUME TypeOK, NEW t \in Threads, Decide(t)
    PROVE  TypeOK'
<1>1. (DeviceType /\ DbType /\ PrefsType /\ ThreadsType /\ CountersType /\
       PostedType /\ RestoringType /\ StartType /\ ConfirmsType /\ HomeType /\
       BoundsType)'
  BY StartupAssumption, SMTT(20) DEF TypeOK, DeviceType, DbType, PrefsType,
     ThreadsType, CountersType, PostedType, RestoringType, StartType, ConfirmsType,
     HomeType, BoundsType, Decide, device, bounds
<1>2. AppType'
  BY ZenonT(20) DEF TypeOK, AppType, Decide, device, bounds
<1>3. (above \in Seq({"wallet", "restore", "setup"}) /\ Len(above) <= MaxAbove)'
  <2>1. \/ above' = above
        \/ /\ Len(above) < MaxAbove
           /\ above' = Append(above, "restore") \/ above' = Append(above, "setup")
    BY Zenon DEF Decide
  <2>2. above \in Seq(Screens) /\ Len(above) <= MaxAbove /\ MaxAbove \in Nat
    BY StartupAssumption DEF TypeOK, Screens
  <2> QED BY <2>1, <2>2, SMT DEF Screens
<1> QED BY <1>1, <1>2, <1>3 DEF TypeOK, DeviceType, DbType, PrefsType, AppType,
           ThreadsType, CountersType, PostedType, AboveType, RestoringType,
           StartType, ConfirmsType, HomeType, BoundsType

\* The invariant is kept by Decide.
LEMMA DecideKeeps ==
    ASSUME IInv, NEW t \in Threads, Decide(t)
    PROVE  IInv'
<1>1. TypeOK /\ TypeOK'
  BY DecideTypes DEF IInv
<1>2. (ResumedAlone /\ DatabaseFirst /\ WritingIsPartial)'
  BY ZenonT(20) DEF IInv, Decide, ResumedAlone, DatabaseFirst, WritingIsPartial,
     device, bounds, Succeeded
<1>3. (QueuedLater /\ RestoredFirst)'
  BY <1>1, SMTT(20) DEF IInv, Decide, QueuedLater, RestoredFirst, RestoreFirst,
     SetupFirst, DatabaseFirst, Owed, device, Restored
<1>4. WalletFirst'
  <2>1. ~Quiet
    BY <1>1, SMT DEF Decide, Quiet
  <2>2. wallet /\ \A n \in 1..Len(above) : above[n] # "wallet"
    BY <1>1, <2>1, NotQuiet DEF IInv
  <2>3. \/ above' = above \/ above' = Append(above, "restore")
        \/ above' = Append(above, "setup")
    BY Zenon DEF Decide
  <2>4. above \in Seq(Screens)
    BY <1>1, Zenon DEF TypeOK, Screens
  <2>5. \A n \in 1..Len(above') : above'[n] # "wallet"
    BY <2>2, <2>3, <2>4, SMT DEF Screens
  <2>6. start' = start /\ wallet' = wallet
    BY Zenon DEF Decide, device
  <2> QED BY <2>2, <2>5, <2>6, Zenon DEF IInv, WalletFirst
<1>5. NeverStalls'
  <2>1. \/ queued' = queued + 1
        \/ above' = Append(above, "restore") \/ above' = Append(above, "setup")
    BY Zenon DEF Decide
  <2>2. above \in Seq(Screens) /\ queued \in Nat
    BY <1>1, Zenon DEF TypeOK, Screens
  <2>3. queued' > 0 \/ above' # <<>>
    BY <2>1, <2>2, SMT DEF Screens
  <2> QED BY <2>3, Zenon DEF NeverStalls, Pending
<1> QED BY <1>1, <1>2, <1>3, <1>4, <1>5 DEF IInv

-----------------------------------------------------------------------------
\* QueuedLater tells that the database created here is not owed a restore.
LEMMA BeginTaskTypes ==
    ASSUME TypeOK, BeginTask
    PROVE  TypeOK'
<1>1. (DbType /\ PrefsType /\ AppType /\ ThreadsType /\ CountersType /\ AboveType /\
       RestoringType /\ StartType /\ ConfirmsType /\ HomeType /\ BoundsType)'
  BY StartupAssumption, SMTT(20) DEF TypeOK, DbType, PrefsType, AppType, ThreadsType,
     CountersType, AboveType, RestoringType, StartType, ConfirmsType, HomeType,
     BoundsType, BeginTask, screens, bounds
<1>2. DeviceType'
  BY ZenonT(20) DEF TypeOK, DeviceType, BeginTask, screens, bounds
<1>3. (posted \in Seq({"success", "failure", "wrong", "unreadable"}))'
  <2>1. posted' = posted \/ posted' = Append(posted, "failure")
    BY Zenon DEF BeginTask
  <2>2. posted \in Seq(Results)
    BY DEF TypeOK, Results
  <2> QED BY <2>1, <2>2, SMT DEF Results
<1> QED BY <1>1, <1>2, <1>3 DEF TypeOK, DeviceType, DbType, PrefsType, AppType,
           ThreadsType, CountersType, PostedType, AboveType, RestoringType,
           StartType, ConfirmsType, HomeType, BoundsType

\* The invariant is kept by BeginTask.
LEMMA BeginTaskKeeps ==
    ASSUME IInv, BeginTask
    PROVE  IInv'
<1>1. TypeOK /\ TypeOK'
  BY BeginTaskTypes DEF IInv
<1>2. (WalletFirst /\ NeverStalls)'
  BY SMTT(20) DEF IInv, BeginTask, WalletFirst, NeverStalls, screens, bounds, Quiet,
     NoRestore, NoConfirms, Pending
<1>3. (ResumedAlone /\ QueuedLater /\ WritingIsPartial)'
  BY ZenonT(20) DEF IInv, BeginTask, ResumedAlone, QueuedLater, WritingIsPartial,
     screens, bounds, Owed
<1>4. RestoredFirst'
  BY <1>1, SMTT(20) DEF IInv, BeginTask, RestoredFirst, screens, Restored, Owed,
     QueuedLater
<1>5. DatabaseFirst'
  <2>1. posted \in Seq(Results)
    BY <1>1, Zenon DEF TypeOK, Results
  <2>2. CASE posted' = Append(posted, "failure") /\ UNCHANGED <<actors, task, db>>
    <3>1. "failure" \in Results /\ "failure" # "success"
      BY DEF Results
    <3>2. Succeeded' => Succeeded
      BY <2>1, <2>2, <3>1, AppendFacts, Zenon
    <3>3. prefs' = prefs
      BY Zenon DEF BeginTask
    <3> QED BY <2>2, <3>2, <3>3, Zenon DEF IInv, DatabaseFirst
  <2>3. CASE db' = "node"
    BY <2>3, SMT DEF DatabaseFirst
  <2> QED BY <2>2, <2>3, Zenon DEF BeginTask
<1> QED BY <1>1, <1>2, <1>3, <1>4, <1>5 DEF IInv

-----------------------------------------------------------------------------
\* The node answers; its actors, and with them its database, have been there before.
LEMMA EndTaskTypes ==
    ASSUME TypeOK, EndTask
    PROVE  TypeOK'
<1>1. (DbType /\ PrefsType /\ ThreadsType /\ CountersType /\ PostedType /\
       AboveType /\ RestoringType /\ StartType /\ ConfirmsType /\ HomeType /\
       BoundsType)'
  BY StartupAssumption, SMTT(20) DEF TypeOK, DbType, PrefsType, ThreadsType,
     CountersType, PostedType, AboveType, RestoringType, StartType, ConfirmsType,
     HomeType, BoundsType, EndTask, device, screens, bounds
<1>2. (DeviceType /\ AppType)'
  BY ZenonT(20) DEF TypeOK, DeviceType, AppType, EndTask, device, screens, bounds
<1> QED BY <1>1, <1>2 DEF TypeOK, DeviceType, DbType, PrefsType, AppType,
           ThreadsType, CountersType, PostedType, AboveType, RestoringType,
           StartType, ConfirmsType, HomeType, BoundsType

\* The invariant is kept by EndTask.
LEMMA EndTaskKeeps ==
    ASSUME IInv, EndTask
    PROVE  IInv'
<1>1. TypeOK /\ TypeOK'
  BY EndTaskTypes DEF IInv
<1>2. (WalletFirst /\ ResumedAlone /\ DatabaseFirst /\ QueuedLater /\
       RestoredFirst /\ WritingIsPartial)'
  BY ZenonT(20) DEF IInv, EndTask, WalletFirst, ResumedAlone, DatabaseFirst,
     QueuedLater, RestoredFirst, WritingIsPartial, device, screens, bounds, Quiet,
     NoRestore, NoConfirms, Succeeded, Owed, Restored
<1>3. NeverStalls'
  BY SMTT(20) DEF IInv, EndTask, NeverStalls, device, screens, bounds, Pending
<1> QED BY <1>1, <1>2, <1>3 DEF IInv

-----------------------------------------------------------------------------
\* A result is taken off the front.
LEMMA ProcessPostedTypes ==
    ASSUME TypeOK, ProcessPosted
    PROVE  TypeOK'
<1>1. (DeviceType /\ DbType /\ ThreadsType /\ CountersType /\ PostedType /\
       AboveType /\ RestoringType /\ ConfirmsType /\ HomeType /\ BoundsType)'
  BY StartupAssumption, SMTT(20) DEF TypeOK, DeviceType, DbType, ThreadsType,
     CountersType, PostedType, AboveType, RestoringType, ConfirmsType, HomeType,
     BoundsType, ProcessPosted, processSuccess, processFailure, Unheard,
     showWrongPassword, showUnreadable, Forget, goToHome, bounds
<1>2. (PrefsType /\ AppType /\ StartType)'
  BY ZenonT(20) DEF TypeOK, PrefsType, AppType, StartType, ProcessPosted,
     processSuccess, processFailure, Unheard, showWrongPassword, showUnreadable,
     Forget, goToHome, bounds
<1> QED BY <1>1, <1>2 DEF TypeOK, DeviceType, DbType, PrefsType, AppType,
           ThreadsType, CountersType, PostedType, AboveType, RestoringType,
           StartType, ConfirmsType, HomeType, BoundsType

\* The invariant is kept by ProcessPosted.
LEMMA ProcessPostedKeeps ==
    ASSUME IInv, ProcessPosted
    PROVE  IInv'
<1>1. TypeOK /\ TypeOK'
  BY ProcessPostedTypes DEF IInv
<1>2. (WalletFirst /\ ResumedAlone /\ QueuedLater /\ RestoredFirst /\
       WritingIsPartial /\ NeverStalls)'
  BY <1>1, SMTT(20) DEF IInv, ProcessPosted, WalletFirst, ResumedAlone, QueuedLater,
     RestoredFirst, WritingIsPartial, NeverStalls, processSuccess, processFailure,
     Unheard, showWrongPassword, showUnreadable, Registered, goToHome, Quiet, TypeOK,
     Owed, Restored, Pending
<1>3. DatabaseFirst'
  <2>1. posted \in Seq(Results)
    BY <1>1, Zenon DEF TypeOK, Results
  <2>2. /\ Succeeded' => Succeeded
        /\ Head(posted) = "success" => Succeeded
    BY <2>1, TailFacts, Zenon DEF ProcessPosted
  <2>3. UNCHANGED <<db, actors, task>>
    BY Zenon DEF ProcessPosted
  <2>4. prefs' = prefs \/ Head(posted) = "success"
    BY Zenon DEF ProcessPosted, processSuccess, processFailure, Unheard, showWrongPassword,
                 showUnreadable
  <2> QED BY <2>2, <2>3, <2>4, Zenon DEF IInv, DatabaseFirst
<1> QED BY <1>1, <1>2, <1>3 DEF IInv

-----------------------------------------------------------------------------
\* A new start screen, or the home screen.
LEMMA checkInitTypes ==
    ASSUME TypeOK, checkInit
    PROVE  TypeOK'
<1>1. (DeviceType /\ DbType /\ PrefsType /\ AppType /\ ThreadsType /\ CountersType /\
       PostedType /\ AboveType /\ RestoringType /\ HomeType /\ BoundsType)'
  BY StartupAssumption, SMTT(20) DEF TypeOK, DeviceType, DbType, PrefsType, AppType,
     ThreadsType, CountersType, PostedType, AboveType, RestoringType, HomeType,
     BoundsType, checkInit, Orphaned, NewStart, device, process, bounds
<1>2. (start \in [life : {"alive", "finishing", "gone"}, resumed : BOOLEAN,
                shown : {"nothing", "pick", "info", "restart"}, dialog : BOOLEAN])'
  <2>1. start' = start \/ start' = NewStart
    BY Zenon DEF checkInit
  <2>2. CASE start' = start
    BY <2>2, Zenon DEF TypeOK
  <2>3. CASE start' = NewStart
    BY <2>3, SMT DEF NewStart
  <2> QED BY <2>1, <2>2, <2>3
<1>3. (confirms \in [shown : Nat, others : Nat])'
  <2>1. confirms' = confirms \/ confirms' = Orphaned
    BY Zenon DEF checkInit
  <2> QED BY <2>1 DEF TypeOK, Orphaned
<1> QED BY <1>1, <1>2, <1>3 DEF TypeOK, DeviceType, DbType, PrefsType, AppType,
           ThreadsType, CountersType, PostedType, AboveType, RestoringType,
           StartType, ConfirmsType, HomeType, BoundsType

\* The invariant is kept by checkInit.
LEMMA checkInitKeeps ==
    ASSUME IInv, checkInit
    PROVE  IInv'
<1>1. TypeOK /\ TypeOK'
  BY checkInitTypes DEF IInv
<1>2. (WalletFirst /\ ResumedAlone /\ NeverStalls)'
  BY SMTT(20) DEF IInv, checkInit, WalletFirst, ResumedAlone, NeverStalls, Orphaned,
     NewStart, device, process, bounds, Quiet, NoRestore, NoConfirms, Pending
<1>3. (DatabaseFirst /\ QueuedLater /\ RestoredFirst /\ WritingIsPartial)'
  BY ZenonT(20) DEF IInv, checkInit, DatabaseFirst, QueuedLater, RestoredFirst,
     WritingIsPartial, device, process, bounds, Succeeded, Owed, Restored
<1> QED BY <1>1, <1>2, <1>3 DEF IInv

-----------------------------------------------------------------------------
\* The activity on top goes; those below it stay as they are.
LEMMA BackTypes ==
    ASSUME TypeOK, Back
    PROVE  TypeOK'
<1>1. (DeviceType /\ DbType /\ PrefsType /\ AppType /\ ThreadsType /\ CountersType /\
       PostedType /\ StartType /\ ConfirmsType /\ HomeType /\ BoundsType)'
  BY StartupAssumption, SMTT(20) DEF TypeOK, DeviceType, DbType, PrefsType, AppType,
     ThreadsType, CountersType, PostedType, StartType, ConfirmsType, HomeType,
     BoundsType, Back, Finish, device, bounds
<1>2. (above \in Seq({"wallet", "restore", "setup"}) /\ Len(above) <= MaxAbove)'
  <2>1. above # <<>> /\ Finish(Len(above))
    BY Zenon DEF Back, Top
  <2> QED BY <2>1, FinishFacts
<1>3. (restoring \in [step : {"none", "downloading", "writing", "done"},
                    owner : 0..Len(above)])'
  <2>1. above # <<>> /\ Finish(Len(above))
    BY Zenon DEF Back, Top
  <2> QED BY <2>1, FinishFacts
<1> QED BY <1>1, <1>2, <1>3 DEF TypeOK, DeviceType, DbType, PrefsType, AppType,
           ThreadsType, CountersType, PostedType, AboveType, RestoringType,
           StartType, ConfirmsType, HomeType, BoundsType

\* The invariant is kept by Back.
LEMMA BackKeeps ==
    ASSUME IInv, Back
    PROVE  IInv'
<1>1. TypeOK /\ TypeOK'
  BY BackTypes DEF IInv
<1>2. (ResumedAlone /\ WritingIsPartial)'
  BY SMTT(20) DEF IInv, Back, ResumedAlone, WritingIsPartial, Finish, device, bounds
<1>3. (DatabaseFirst /\ QueuedLater)'
  BY ZenonT(20) DEF IInv, Back, DatabaseFirst, QueuedLater, device, bounds,
     Succeeded, Owed
<1>4. NeverStalls'
  BY <1>1, SMTT(20) DEF IInv, Back, NeverStalls, Finish, Shown, UiFree, device,
     bounds, Pending, TypeOK
<1>5. WalletFirst'
  <2>1. above # <<>> /\ Finish(Len(above))
    BY Zenon DEF Back, Top
  <2>2. above \in Seq(Screens) /\ Len(above) \in Nat
    BY <1>1, SMT DEF TypeOK, Screens
  <2>3. /\ Len(above') = Len(above) - 1
        /\ \A k \in 1..Len(above') : above'[k] = above[k]
        /\ restoring = NoRestore => restoring' = NoRestore
    BY <1>1, <2>1, FinishFacts, Zenon
  <2>4. \A k \in 1..Len(above') : above'[k] = above[k] /\ k \in 1..Len(above)
    BY <2>2, <2>3, SMT
  <2>5. \A k \in 1..Len(above') : above'[k] # "wallet" \/ ~(Len(above) = 1)
    BY <2>2, <2>3, SMT
  <2>6. \A k \in 1..Len(above') : above'[k] # "wallet"
    BY <2>4, <2>5, Zenon DEF IInv, WalletFirst
  <2>7. start' = start /\ wallet' = wallet
    BY Zenon DEF Back, device
  <2>8. Quiet => Quiet'
    BY <2>3, <2>7, Zenon DEF Back, Quiet
  <2>9. ~wallet => \A k \in 1..Len(above') : above'[k] = "wallet"
    BY <2>4, Zenon DEF IInv, WalletFirst
  <2> QED BY <2>6, <2>7, <2>8, <2>9, Zenon DEF IInv, WalletFirst
<1>6. RestoredFirst'
  <2>1. above # <<>> /\ Finish(Len(above))
    BY Zenon DEF Back, Top
  <2>4. Restored' => Restored
    <3>1. above \in Seq(Screens) /\ Len(above) \in Nat
      BY <1>1, SMT DEF TypeOK, Screens
    <3>2. /\ Len(above') = Len(above) - 1
          /\ \A k \in 1..Len(above') : above'[k] = above[k]
      BY <1>1, <2>1, FinishFacts, Zenon
    <3> QED BY <3>1, <3>2, SMT DEF Restored
  <2>5. restoring'.step = restoring.step
    BY <1>1, <2>1, FinishFacts, Zenon
  <2> QED BY <2>4, <2>5, Zenon DEF IInv, RestoredFirst, Owed, Back, device
<1> QED BY <1>1, <1>2, <1>3, <1>4, <1>5, <1>6 DEF IInv

-----------------------------------------------------------------------------
\* The first activity: nothing else is under way without a wallet.
LEMMA PickWalletTypes ==
    ASSUME TypeOK, PickWallet
    PROVE  TypeOK'
<1>1. (DeviceType /\ DbType /\ PrefsType /\ AppType /\ ThreadsType /\ CountersType /\
       PostedType /\ AboveType /\ RestoringType /\ StartType /\ ConfirmsType /\
       HomeType /\ BoundsType)'
  BY StartupAssumption, SMTT(20) DEF TypeOK, DeviceType, DbType, PrefsType, AppType,
     ThreadsType, CountersType, PostedType, AboveType, RestoringType, StartType,
     ConfirmsType, HomeType, BoundsType, PickWallet, device, process, bounds
<1> QED BY <1>1 DEF TypeOK, DeviceType, DbType, PrefsType, AppType, ThreadsType,
           CountersType, PostedType, AboveType, RestoringType, StartType,
           ConfirmsType, HomeType, BoundsType

\* The invariant is kept by PickWallet.
LEMMA PickWalletKeeps ==
    ASSUME IInv, PickWallet
    PROVE  IInv'
<1>1. TypeOK /\ TypeOK'
  BY PickWalletTypes DEF IInv
<1>2. (WalletFirst /\ RestoredFirst)'
  BY SMTT(20) DEF IInv, PickWallet, WalletFirst, RestoredFirst, device, process,
     bounds, Quiet, NoRestore, NoConfirms, Restored, Owed
<1>3. (ResumedAlone /\ DatabaseFirst /\ QueuedLater /\ WritingIsPartial /\
       NeverStalls)'
  BY ZenonT(20) DEF IInv, PickWallet, ResumedAlone, DatabaseFirst, QueuedLater,
     WritingIsPartial, NeverStalls, device, process, bounds, Succeeded, Owed, Pending
<1> QED BY <1>1, <1>2, <1>3 DEF IInv

-----------------------------------------------------------------------------
\* The seed is written while nothing else is under way.
LEMMA WriteSeedTypes ==
    ASSUME TypeOK, WriteSeed
    PROVE  TypeOK'
<1>1. (DeviceType /\ DbType /\ PrefsType /\ AppType /\ ThreadsType /\ CountersType /\
       PostedType /\ AboveType /\ RestoringType /\ StartType /\ ConfirmsType /\
       HomeType /\ BoundsType)'
  BY StartupAssumption, SMTT(20) DEF TypeOK, DeviceType, DbType, PrefsType, AppType,
     ThreadsType, CountersType, PostedType, AboveType, RestoringType, StartType,
     ConfirmsType, HomeType, BoundsType, WriteSeed, process, screens, bounds
<1> QED BY <1>1 DEF TypeOK, DeviceType, DbType, PrefsType, AppType, ThreadsType,
           CountersType, PostedType, AboveType, RestoringType, StartType,
           ConfirmsType, HomeType, BoundsType

\* The invariant is kept by WriteSeed.
LEMMA WriteSeedKeeps ==
    ASSUME IInv, WriteSeed
    PROVE  IInv'
<1>1. TypeOK /\ TypeOK'
  BY WriteSeedTypes DEF IInv
<1>2. WalletFirst'
  BY <1>1, SMTT(20) DEF IInv, WriteSeed, WalletFirst, Shown, process, screens, Quiet
<1>3. (ResumedAlone /\ DatabaseFirst /\ QueuedLater /\ RestoredFirst /\
       WritingIsPartial /\ NeverStalls)'
  BY ZenonT(20) DEF IInv, WriteSeed, ResumedAlone, DatabaseFirst, QueuedLater,
     RestoredFirst, WritingIsPartial, NeverStalls, process, screens, bounds,
     Succeeded, Owed, Restored, Pending
<1> QED BY <1>1, <1>2, <1>3 DEF IInv

-----------------------------------------------------------------------------
\* The form was alone, so nothing was restored before the seed.
LEMMA onEncryptSeedSuccessTypes ==
    ASSUME TypeOK, onEncryptSeedSuccess
    PROVE  TypeOK'
<1>1. (DeviceType /\ DbType /\ ThreadsType /\ CountersType /\ PostedType /\
       StartType /\ ConfirmsType /\ HomeType /\ BoundsType)'
  BY StartupAssumption, SMTT(20) DEF TypeOK, DeviceType, DbType, ThreadsType,
     CountersType, PostedType, StartType, ConfirmsType, HomeType, BoundsType,
     onEncryptSeedSuccess, Finish, bounds
<1>2. (PrefsType /\ AppType)'
  BY ZenonT(20) DEF TypeOK, PrefsType, AppType, onEncryptSeedSuccess, Finish, bounds
<1>3. (above \in Seq({"wallet", "restore", "setup"}) /\ Len(above) <= MaxAbove)'
  <2>1. above # <<>> /\ Finish(Len(above))
    BY Zenon DEF onEncryptSeedSuccess, Top
  <2> QED BY <2>1, FinishFacts
<1>4. (restoring \in [step : {"none", "downloading", "writing", "done"},
                    owner : 0..Len(above)])'
  <2>1. above # <<>> /\ Finish(Len(above))
    BY Zenon DEF onEncryptSeedSuccess, Top
  <2> QED BY <2>1, FinishFacts
<1> QED BY <1>1, <1>2, <1>3, <1>4 DEF TypeOK, DeviceType, DbType, PrefsType, AppType,
           ThreadsType, CountersType, PostedType, AboveType, RestoringType,
           StartType, ConfirmsType, HomeType, BoundsType

\* The invariant is kept by onEncryptSeedSuccess.
LEMMA onEncryptSeedSuccessKeeps ==
    ASSUME IInv, onEncryptSeedSuccess
    PROVE  IInv'
<1>1. TypeOK /\ TypeOK'
  BY onEncryptSeedSuccessTypes DEF IInv
<1>2. (ResumedAlone /\ DatabaseFirst /\ WritingIsPartial)'
  BY SMTT(20) DEF IInv, onEncryptSeedSuccess, ResumedAlone, DatabaseFirst,
     WritingIsPartial, Finish, Top, bounds, Succeeded
<1>3. (QueuedLater /\ NeverStalls)'
  BY <1>1, SMTT(20) DEF IInv, onEncryptSeedSuccess, QueuedLater, NeverStalls, Finish,
     Top, WalletFirst, Shown, Quiet, Last, UiFree, bounds, Pending, TypeOK
<1>4. WalletFirst'
  <2>1. above # <<>> /\ Finish(Len(above))
    BY Zenon DEF onEncryptSeedSuccess, Top
  <2>2. above \in Seq(Screens) /\ Len(above) \in Nat
    BY <1>1, SMT DEF TypeOK, Screens
  <2>3. /\ Len(above') = Len(above) - 1
        /\ \A k \in 1..Len(above') : above'[k] = above[k]
        /\ restoring = NoRestore => restoring' = NoRestore
    BY <1>1, <2>1, FinishFacts, Zenon
  <2>4. \A k \in 1..Len(above') : above'[k] = above[k] /\ k \in 1..Len(above)
    BY <2>2, <2>3, SMT
  <2>5. \A k \in 1..Len(above') : above'[k] # "wallet" \/ ~(Len(above) = 1)
    BY <2>2, <2>3, SMT
  <2>6. \A k \in 1..Len(above') : above'[k] # "wallet"
    BY <2>4, <2>5, Zenon DEF IInv, WalletFirst
  <2>7. start' = start /\ wallet' = wallet
    BY Zenon DEF onEncryptSeedSuccess, device
  <2>8. Quiet => Quiet'
    BY <2>3, <2>7, Zenon DEF onEncryptSeedSuccess, Quiet
  <2>9. ~wallet => \A k \in 1..Len(above') : above'[k] = "wallet"
    BY <2>4, Zenon DEF IInv, WalletFirst
  <2> QED BY <2>6, <2>7, <2>8, <2>9, Zenon DEF IInv, WalletFirst
<1>5. RestoredFirst'
  <2>1. above # <<>> /\ Finish(Len(above))
    BY Zenon DEF onEncryptSeedSuccess, Top
  <2>2. Quiet /\ Len(above) = 1
    BY <1>1, <2>1, SMTT(30) DEF IInv, WalletFirst, onEncryptSeedSuccess, Top, Last, TypeOK
  <2>3. Len(above') = 0 /\ restoring'.step = restoring.step
    BY <1>1, <2>1, <2>2, FinishFacts, SMT
  <2>4. restoring.step = "none" /\ ~Restored'
    BY <2>2, <2>3, SMT DEF Quiet, NoRestore, Restored
  <2> QED BY <2>3, <2>4, SMT DEF RestoredFirst
<1> QED BY <1>1, <1>2, <1>3, <1>4, <1>5 DEF IInv

-----------------------------------------------------------------------------
\* Access to Drive changes nothing the invariant is about.
LEMMA SetupBackupTypes ==
    ASSUME TypeOK, SetupBackup
    PROVE  TypeOK'
<1>1. (DeviceType /\ DbType /\ AppType /\ ThreadsType /\ CountersType /\
       PostedType /\ StartType /\ ConfirmsType /\ HomeType /\ BoundsType)'
  <2>1. UNCHANGED <<play, wallet, db, app, actors, threads, queued, task, posted, delayed,
                 start, confirms, home, front, leaves, restarts>>
    BY Zenon DEF SetupBackup, bounds
  <2> QED BY <2>1 DEF TypeOK, DeviceType, DbType, AppType, ThreadsType, CountersType,
             PostedType, StartType, ConfirmsType, HomeType, BoundsType
<1>2. (above \in Seq({"wallet", "restore", "setup"}) /\ Len(above) <= MaxAbove)'
  <2>1. CASE UNCHANGED <<above, restoring>>
    BY <2>1 DEF TypeOK
  <2>2. CASE Finish(Len(above))
    <3>1. above # <<>>
      BY Zenon DEF SetupBackup, Top
    <3> QED BY <2>2, <3>1, FinishFacts
  <2> QED BY <2>1, <2>2, Zenon DEF SetupBackup
<1>3. (restoring \in [step : {"none", "downloading", "writing", "done"},
                    owner : 0..Len(above)])'
  <2>1. CASE UNCHANGED <<above, restoring>>
    BY <2>1 DEF TypeOK
  <2>2. CASE Finish(Len(above))
    <3>1. above # <<>>
      BY Zenon DEF SetupBackup, Top
    <3> QED BY <2>2, <3>1, FinishFacts
  <2> QED BY <2>1, <2>2, Zenon DEF SetupBackup
<1>4. (prefs \in [origin : {"none", "scratch", "restored"}, startedOnce : BOOLEAN,
                restoreDone : BOOLEAN, seenOnce : BOOLEAN, drive : BOOLEAN])'
  <2>1. \E g \in BOOLEAN, s \in BOOLEAN :
            prefs' = [prefs EXCEPT !.seenOnce = s, !.drive = g]
    <3>1. prefs.seenOnce \in BOOLEAN /\ prefs.drive \in BOOLEAN
      BY Zenon DEF TypeOK
    <3>2. prefs = [prefs EXCEPT !.seenOnce = prefs.seenOnce]
      BY Zenon DEF TypeOK
    <3> QED BY <3>1, <3>2, Zenon DEF SetupBackup
  <2> QED BY <2>1, Zenon DEF TypeOK
<1> QED BY <1>1, <1>2, <1>3, <1>4 DEF TypeOK, DeviceType, DbType, PrefsType, AppType,
           ThreadsType, CountersType, PostedType, AboveType, RestoringType,
           StartType, ConfirmsType, HomeType, BoundsType

\* The invariant is kept by SetupBackup.
LEMMA SetupBackupKeeps ==
    ASSUME IInv, SetupBackup
    PROVE  IInv'
<1>1. TypeOK /\ TypeOK'
  BY SetupBackupTypes DEF IInv
<1>2. WalletFirst'
  <2>1. /\ UNCHANGED <<play, wallet, db, app, actors, threads, queued, task, posted, delayed,
                       start, confirms, home, front>>
        /\ prefs'.origin = prefs.origin /\ prefs'.startedOnce = prefs.startedOnce
        /\ prefs'.restoreDone = prefs.restoreDone
    BY <1>1, SetupBackupFacts, Zenon
  <2>2. CASE UNCHANGED <<above, restoring>>
    BY <2>1, <2>2, SMT DEF IInv, WalletFirst, Quiet
  <2>3. CASE Finish(Len(above))
    <3>1. above # <<>>
      BY Zenon DEF SetupBackup, Top
    <3>2. above \in Seq(Screens) /\ Len(above) \in Nat
      BY <1>1, SMT DEF TypeOK, Screens
    <3>3. /\ Len(above') = Len(above) - 1
          /\ \A k \in 1..Len(above') : above'[k] = above[k]
      BY <1>1, <2>3, <3>1, FinishFacts, Zenon
    <3>4. \A k \in 1..Len(above) : above[k] # "wallet"
      <4>1. above[Len(above)] = "setup" /\ Len(above) \in 1..Len(above)
        <5>1. Top = "setup"
          BY Zenon DEF SetupBackup
        <5> QED BY <3>1, <3>2, <5>1, SMT DEF Top, Last
      <4> QED BY <3>2, <4>1, SMT DEF IInv, WalletFirst
    <3>5. wallet
      <4>1. Len(above) \in 1..Len(above)
        BY <3>1, <3>2, SMT
      <4> QED BY <3>4, <4>1, Zenon DEF IInv, WalletFirst
    <3>6. \A k \in 1..Len(above') : above'[k] # "wallet"
      BY <3>2, <3>3, <3>4, SMT
    <3> QED BY <2>1, <3>5, <3>6, Zenon DEF IInv, WalletFirst
  <2> QED BY <2>2, <2>3, Zenon DEF SetupBackup
<1>3. ResumedAlone'
  <2>1. /\ UNCHANGED <<play, wallet, db, app, actors, threads, queued, task, posted, delayed,
                       start, confirms, home, front>>
        /\ prefs'.origin = prefs.origin /\ prefs'.startedOnce = prefs.startedOnce
        /\ prefs'.restoreDone = prefs.restoreDone
    BY <1>1, SetupBackupFacts, Zenon
  <2>2. restoring' = restoring \/ restoring'.owner \in {0, restoring.owner}
    BY <1>1, FinishFacts, Zenon DEF SetupBackup, Top
  <2> QED BY <2>1, <2>2, SMT DEF IInv, ResumedAlone
<1>4. DatabaseFirst'
  <2>1. /\ UNCHANGED <<play, wallet, db, app, actors, threads, queued, task, posted, delayed,
                       start, confirms, home, front>>
        /\ prefs'.origin = prefs.origin /\ prefs'.startedOnce = prefs.startedOnce
        /\ prefs'.restoreDone = prefs.restoreDone
    BY <1>1, SetupBackupFacts, Zenon
  <2> QED BY <2>1, Zenon DEF IInv, DatabaseFirst, Succeeded
<1>5. QueuedLater'
  <2>1. /\ UNCHANGED <<play, wallet, db, app, actors, threads, queued, task, posted, delayed,
                       start, confirms, home, front>>
        /\ prefs'.origin = prefs.origin /\ prefs'.startedOnce = prefs.startedOnce
        /\ prefs'.restoreDone = prefs.restoreDone
    BY <1>1, SetupBackupFacts, Zenon
  <2> QED BY <2>1, Zenon DEF IInv, QueuedLater, Owed
<1>6. RestoredFirst'
  <2>1. /\ UNCHANGED <<play, wallet, db, app, actors, threads, queued, task, posted, delayed,
                       start, confirms, home, front>>
        /\ prefs'.origin = prefs.origin /\ prefs'.startedOnce = prefs.startedOnce
        /\ prefs'.restoreDone = prefs.restoreDone
    BY <1>1, SetupBackupFacts, Zenon
  <2>2. restoring'.step = restoring.step
    BY <1>1, FinishFacts, Zenon DEF SetupBackup, Top
  <2>3. Restored' => Restored
    <3>1. CASE above' = above
      BY <3>1, Zenon DEF Restored
    <3>2. CASE above # <<>> /\ Finish(Len(above))
      <4>1. above \in Seq(Screens) /\ Len(above) \in Nat
        BY <1>1, SMT DEF TypeOK, Screens
      <4>2. /\ Len(above') = Len(above) - 1
            /\ \A k \in 1..Len(above') : above'[k] = above[k]
        BY <1>1, <3>2, FinishFacts, Zenon
      <4> QED BY <4>1, <4>2, SMT DEF Restored
    <3> QED BY <3>1, <3>2, Zenon DEF SetupBackup, Top
  <2> QED BY <2>1, <2>2, <2>3, Zenon DEF IInv, RestoredFirst, Owed
<1>7. WritingIsPartial'
  <2>1. /\ UNCHANGED <<play, wallet, db, app, actors, threads, queued, task, posted, delayed,
                       start, confirms, home, front>>
        /\ prefs'.origin = prefs.origin /\ prefs'.startedOnce = prefs.startedOnce
        /\ prefs'.restoreDone = prefs.restoreDone
    BY <1>1, SetupBackupFacts, Zenon
  <2>2. restoring'.step = restoring.step
    BY <1>1, FinishFacts, Zenon DEF SetupBackup, Top
  <2> QED BY <2>1, <2>2, Zenon DEF IInv, WritingIsPartial
<1>8. NeverStalls'
  <2>1. start' = start /\ ~start.resumed
    BY Zenon DEF SetupBackup, Shown
  <2> QED BY <2>1, Zenon DEF NeverStalls
<1> QED BY <1>1, <1>2, <1>3, <1>4, <1>5, <1>6, <1>7, <1>8 DEF IInv

-----------------------------------------------------------------------------
\* The user declines: nothing is owed any more.
LEMMA skipRestoreTypes ==
    ASSUME TypeOK, skipRestore
    PROVE  TypeOK'
<1>1. (DeviceType /\ DbType /\ AppType /\ ThreadsType /\ CountersType /\
       PostedType /\ StartType /\ ConfirmsType /\ HomeType /\ BoundsType)'
  BY StartupAssumption, SMTT(20) DEF TypeOK, DeviceType, DbType, AppType,
     ThreadsType, CountersType, PostedType, StartType, ConfirmsType, HomeType,
     BoundsType, skipRestore, Finish, bounds
<1>2. PrefsType'
  BY ZenonT(20) DEF TypeOK, PrefsType, skipRestore, Finish, bounds
<1>3. (above \in Seq({"wallet", "restore", "setup"}) /\ Len(above) <= MaxAbove)'
  <2>1. above # <<>> /\ Finish(Len(above))
    BY Zenon DEF skipRestore, Top
  <2> QED BY <2>1, FinishFacts
<1>4. (restoring \in [step : {"none", "downloading", "writing", "done"},
                    owner : 0..Len(above)])'
  <2>1. above # <<>> /\ Finish(Len(above))
    BY Zenon DEF skipRestore, Top
  <2> QED BY <2>1, FinishFacts
<1> QED BY <1>1, <1>2, <1>3, <1>4 DEF TypeOK, DeviceType, DbType, PrefsType, AppType,
           ThreadsType, CountersType, PostedType, AboveType, RestoringType,
           StartType, ConfirmsType, HomeType, BoundsType

\* The invariant is kept by skipRestore.
LEMMA skipRestoreKeeps ==
    ASSUME IInv, skipRestore
    PROVE  IInv'
<1>1. TypeOK /\ TypeOK'
  BY skipRestoreTypes DEF IInv
<1>2. (ResumedAlone /\ DatabaseFirst /\ QueuedLater /\ RestoredFirst /\
       WritingIsPartial)'
  BY SMTT(20) DEF IInv, skipRestore, ResumedAlone, DatabaseFirst, QueuedLater,
     RestoredFirst, WritingIsPartial, Finish, Top, Searching, bounds, Succeeded,
     Owed, Restored
<1>3. NeverStalls'
  BY <1>1, SMTT(20) DEF IInv, skipRestore, NeverStalls, Finish, Top, Searching,
     Shown, UiFree, bounds, Pending, TypeOK
<1>4. WalletFirst'
  <2>1. above # <<>> /\ Finish(Len(above))
    BY Zenon DEF skipRestore, Top
  <2>2. above \in Seq(Screens) /\ Len(above) \in Nat
    BY <1>1, SMT DEF TypeOK, Screens
  <2>3. /\ Len(above') = Len(above) - 1
        /\ \A k \in 1..Len(above') : above'[k] = above[k]
        /\ restoring = NoRestore => restoring' = NoRestore
    BY <1>1, <2>1, FinishFacts, Zenon
  <2>4. \A k \in 1..Len(above') : above'[k] = above[k] /\ k \in 1..Len(above)
    BY <2>2, <2>3, SMT
  <2>5. \A k \in 1..Len(above') : above'[k] # "wallet" \/ ~(Len(above) = 1)
    BY <2>2, <2>3, SMT
  <2>6. \A k \in 1..Len(above') : above'[k] # "wallet"
    BY <2>4, <2>5, Zenon DEF IInv, WalletFirst
  <2>7. start' = start /\ wallet' = wallet
    BY Zenon DEF skipRestore, device
  <2>8. Quiet => Quiet'
    BY <2>3, <2>7, Zenon DEF skipRestore, Quiet
  <2>9. ~wallet => \A k \in 1..Len(above') : above'[k] = "wallet"
    BY <2>4, Zenon DEF IInv, WalletFirst
  <2> QED BY <2>6, <2>7, <2>8, <2>9, Zenon DEF IInv, WalletFirst
<1> QED BY <1>1, <1>2, <1>3, <1>4 DEF IInv

-----------------------------------------------------------------------------
\* A download begins for a screen that is shown, above a paused start screen.
LEMMA requestAccessTypes ==
    ASSUME TypeOK, requestAccess
    PROVE  TypeOK'
<1>1. (DeviceType /\ DbType /\ PrefsType /\ AppType /\ ThreadsType /\ CountersType /\
       PostedType /\ AboveType /\ RestoringType /\ StartType /\ ConfirmsType /\
       HomeType /\ BoundsType)'
  BY StartupAssumption, SMTT(20) DEF TypeOK, DeviceType, DbType, PrefsType, AppType,
     ThreadsType, CountersType, PostedType, AboveType, RestoringType, StartType,
     ConfirmsType, HomeType, BoundsType, requestAccess, device, screens, bounds
<1> QED BY <1>1 DEF TypeOK, DeviceType, DbType, PrefsType, AppType, ThreadsType,
           CountersType, PostedType, AboveType, RestoringType, StartType,
           ConfirmsType, HomeType, BoundsType

\* The invariant is kept by requestAccess.
LEMMA requestAccessKeeps ==
    ASSUME IInv, requestAccess
    PROVE  IInv'
<1>1. TypeOK /\ TypeOK'
  BY requestAccessTypes DEF IInv
<1>2. (ResumedAlone /\ RestoredFirst)'
  BY <1>1, SMTT(20) DEF IInv, requestAccess, ResumedAlone, RestoredFirst, Top, Shown,
     UiFree, device, screens, bounds, TypeOK, Restored, Owed, Last
<1>3. (DatabaseFirst /\ QueuedLater /\ WritingIsPartial /\ NeverStalls)'
  BY ZenonT(20) DEF IInv, requestAccess, DatabaseFirst, QueuedLater,
     WritingIsPartial, NeverStalls, device, screens, bounds, Succeeded, Owed, Pending
<1>4. WalletFirst'
  <2>1. above \in Seq(Screens) /\ above # <<>> /\ above[Len(above)] = "restore"
    BY <1>1, SMT DEF requestAccess, Top, Last, TypeOK, Screens
  <2>2. Len(above) \in 1..Len(above)
    BY <2>1, SMT
  <2>3. wallet
    BY <1>1, <2>1, <2>2, SMTT(30) DEF IInv, WalletFirst, TypeOK
  <2>4. \A n \in 1..Len(above) : above[n] # "wallet"
    BY <2>1, <2>2, SMT DEF IInv, WalletFirst
  <2>5. UNCHANGED <<start, wallet, above>>
    BY Zenon DEF requestAccess, device, screens
  <2> QED BY <2>3, <2>4, <2>5, Zenon DEF IInv, WalletFirst
<1> QED BY <1>1, <1>2, <1>3, <1>4 DEF IInv

-----------------------------------------------------------------------------
\* The download fails: its screen is still there, or nothing is to be restored.
LEMMA RestoreFailsTypes ==
    ASSUME TypeOK, RestoreFails
    PROVE  TypeOK'
<1>1. (DeviceType /\ DbType /\ PrefsType /\ AppType /\ ThreadsType /\ CountersType /\
       PostedType /\ AboveType /\ StartType /\ ConfirmsType /\ HomeType /\
       BoundsType)'
  BY StartupAssumption, SMTT(20) DEF TypeOK, DeviceType, DbType, PrefsType, AppType,
     ThreadsType, CountersType, PostedType, AboveType, StartType, ConfirmsType,
     HomeType, BoundsType, RestoreFails, Restoring, screens, bounds
<1>2. (restoring \in [step : {"none", "downloading", "writing", "done"},
                    owner : 0..Len(above)])'
  <2>1. restoring' = [restoring EXCEPT !.step = "none"] /\ above' = above
    BY Zenon DEF RestoreFails, Restoring, screens
  <2> QED BY <2>1, Zenon DEF TypeOK
<1> QED BY <1>1, <1>2 DEF TypeOK, DeviceType, DbType, PrefsType, AppType,
           ThreadsType, CountersType, PostedType, AboveType, RestoringType,
           StartType, ConfirmsType, HomeType, BoundsType

\* The invariant is kept by RestoreFails.
LEMMA RestoreFailsKeeps ==
    ASSUME IInv, RestoreFails
    PROVE  IInv'
<1>1. TypeOK /\ TypeOK'
  BY RestoreFailsTypes DEF IInv
<1>2. (WalletFirst /\ ResumedAlone /\ NeverStalls)'
  BY <1>1, SMTT(20) DEF IInv, RestoreFails, WalletFirst, ResumedAlone, NeverStalls,
     Restoring, Quiet, NoRestore, screens, Pending
<1>3. (DatabaseFirst /\ QueuedLater /\ RestoredFirst)'
  BY ZenonT(20) DEF IInv, RestoreFails, DatabaseFirst, QueuedLater, RestoredFirst,
     Restoring, Succeeded, Owed, Restored
<1>4. WritingIsPartial'
  BY SMTT(20) DEF IInv, RestoreFails, WritingIsPartial, Restoring
<1> QED BY <1>1, <1>2, <1>3, <1>4 DEF IInv

-----------------------------------------------------------------------------
\* The database becomes partial while no node runs on it.
LEMMA BeginWriteTypes ==
    ASSUME TypeOK, BeginWrite
    PROVE  TypeOK'
<1>1. (DeviceType /\ DbType /\ PrefsType /\ AppType /\ ThreadsType /\ CountersType /\
       PostedType /\ AboveType /\ StartType /\ ConfirmsType /\ HomeType /\
       BoundsType)'
  BY StartupAssumption, SMTT(20) DEF TypeOK, DeviceType, DbType, PrefsType, AppType,
     ThreadsType, CountersType, PostedType, AboveType, StartType, ConfirmsType,
     HomeType, BoundsType, BeginWrite, Restoring, screens, bounds
<1>2. (restoring \in [step : {"none", "downloading", "writing", "done"},
                    owner : 0..Len(above)])'
  <2>1. restoring' = [restoring EXCEPT !.step = "writing"] /\ above' = above
    BY Zenon DEF BeginWrite, Restoring, screens
  <2> QED BY <2>1, Zenon DEF TypeOK
<1> QED BY <1>1, <1>2 DEF TypeOK, DeviceType, DbType, PrefsType, AppType,
           ThreadsType, CountersType, PostedType, AboveType, RestoringType,
           StartType, ConfirmsType, HomeType, BoundsType

\* The invariant is kept by BeginWrite.
LEMMA BeginWriteKeeps ==
    ASSUME IInv, BeginWrite
    PROVE  IInv'
<1>1. TypeOK /\ TypeOK'
  BY BeginWriteTypes DEF IInv
<1>2. (WalletFirst /\ ResumedAlone /\ NeverStalls)'
  BY <1>1, SMTT(20) DEF IInv, BeginWrite, WalletFirst, ResumedAlone, NeverStalls,
     Restoring, Quiet, NoRestore, screens, Pending
<1>3. (DatabaseFirst /\ QueuedLater /\ RestoredFirst /\ WritingIsPartial)'
  BY ZenonT(20) DEF IInv, BeginWrite, DatabaseFirst, QueuedLater, RestoredFirst,
     WritingIsPartial, Succeeded, Owed, Restoring, Restored
<1> QED BY <1>1, <1>2, <1>3 DEF IInv

-----------------------------------------------------------------------------
\* The write ends.
LEMMA EndWriteTypes ==
    ASSUME TypeOK, EndWrite
    PROVE  TypeOK'
<1>1. (DeviceType /\ DbType /\ PrefsType /\ AppType /\ ThreadsType /\ CountersType /\
       PostedType /\ AboveType /\ StartType /\ ConfirmsType /\ HomeType /\
       BoundsType)'
  BY StartupAssumption, SMTT(20) DEF TypeOK, DeviceType, DbType, PrefsType, AppType,
     ThreadsType, CountersType, PostedType, AboveType, StartType, ConfirmsType,
     HomeType, BoundsType, EndWrite, Restoring, screens, bounds
<1>2. (restoring \in [step : {"none", "downloading", "writing", "done"},
                    owner : 0..Len(above)])'
  <2>1. restoring' = [restoring EXCEPT !.step = "done"] /\ above' = above
    BY Zenon DEF EndWrite, Restoring, screens
  <2> QED BY <2>1, Zenon DEF TypeOK
<1> QED BY <1>1, <1>2 DEF TypeOK, DeviceType, DbType, PrefsType, AppType,
           ThreadsType, CountersType, PostedType, AboveType, RestoringType,
           StartType, ConfirmsType, HomeType, BoundsType

\* The invariant is kept by EndWrite.
LEMMA EndWriteKeeps ==
    ASSUME IInv, EndWrite
    PROVE  IInv'
<1>1. TypeOK /\ TypeOK'
  BY EndWriteTypes DEF IInv
<1>2. (WalletFirst /\ ResumedAlone /\ NeverStalls)'
  BY <1>1, SMTT(20) DEF IInv, EndWrite, WalletFirst, ResumedAlone, NeverStalls,
     Restoring, Quiet, NoRestore, screens, Pending
<1>3. (DatabaseFirst /\ QueuedLater)'
  BY ZenonT(20) DEF IInv, EndWrite, DatabaseFirst, QueuedLater, Succeeded, Owed
<1>4. (RestoredFirst /\ WritingIsPartial)'
  BY SMTT(20) DEF IInv, EndWrite, RestoredFirst, WritingIsPartial, Restoring,
     Restored, Owed
<1> QED BY <1>1, <1>2, <1>3, <1>4 DEF IInv

-----------------------------------------------------------------------------
\* The write fails: what is in the file stays there, partial.
LEMMA WriteFailsTypes ==
    ASSUME TypeOK, WriteFails
    PROVE  TypeOK'
<1>1. (DeviceType /\ DbType /\ PrefsType /\ AppType /\ ThreadsType /\ CountersType /\
       PostedType /\ AboveType /\ StartType /\ ConfirmsType /\ HomeType /\
       BoundsType)'
  BY StartupAssumption, SMTT(20) DEF TypeOK, DeviceType, DbType, PrefsType, AppType,
     ThreadsType, CountersType, PostedType, AboveType, StartType, ConfirmsType,
     HomeType, BoundsType, WriteFails, Restoring, screens, bounds
<1>2. (restoring \in [step : {"none", "downloading", "writing", "done"},
                    owner : 0..Len(above)])'
  <2>1. restoring' = [restoring EXCEPT !.step = "none"] /\ above' = above
    BY Zenon DEF WriteFails, Restoring, screens
  <2> QED BY <2>1, Zenon DEF TypeOK
<1> QED BY <1>1, <1>2 DEF TypeOK, DeviceType, DbType, PrefsType, AppType,
           ThreadsType, CountersType, PostedType, AboveType, RestoringType,
           StartType, ConfirmsType, HomeType, BoundsType

\* The invariant is kept by WriteFails.
LEMMA WriteFailsKeeps ==
    ASSUME IInv, WriteFails
    PROVE  IInv'
<1>1. TypeOK /\ TypeOK'
  BY WriteFailsTypes DEF IInv
<1>2. (WalletFirst /\ ResumedAlone /\ NeverStalls)'
  BY <1>1, SMTT(20) DEF IInv, WriteFails, WalletFirst, ResumedAlone, NeverStalls,
     Restoring, Quiet, NoRestore, screens, Pending
<1>3. (DatabaseFirst /\ QueuedLater /\ RestoredFirst /\ WritingIsPartial)'
  BY ZenonT(20) DEF IInv, WriteFails, DatabaseFirst, QueuedLater, RestoredFirst,
     WritingIsPartial, Restoring, Succeeded, Owed, Restored
<1> QED BY <1>1, <1>2, <1>3 DEF IInv

-----------------------------------------------------------------------------
\* Nothing is owed any more, whatever becomes of the screen.
LEMMA finishRestoreTypes ==
    ASSUME TypeOK, finishRestore
    PROVE  TypeOK'
<1>1. (DeviceType /\ DbType /\ AppType /\ ThreadsType /\ CountersType /\
       PostedType /\ StartType /\ ConfirmsType /\ HomeType /\ BoundsType)'
  BY StartupAssumption, SMTT(20) DEF TypeOK, DeviceType, DbType, AppType,
     ThreadsType, CountersType, PostedType, StartType, ConfirmsType, HomeType,
     BoundsType, finishRestore, bounds, NoRestore
<1>2. PrefsType'
  BY ZenonT(20) DEF TypeOK, PrefsType, finishRestore, bounds, NoRestore
<1>3. (above \in Seq({"wallet", "restore", "setup"}) /\ Len(above) <= MaxAbove)'
  <2>1. above \in Seq(Screens) /\ Len(above) <= MaxAbove /\ MaxAbove \in Nat
    BY StartupAssumption DEF TypeOK, Screens
  <2>2. CASE restoring.owner = 0
    BY <2>1, <2>2 DEF finishRestore, Screens
  <2>3. CASE restoring.owner # 0
    <3>1. restoring.owner \in 1..Len(above) /\ above' = RemoveAt(above, restoring.owner)
      BY <2>3 DEF finishRestore, TypeOK
    <3> QED BY <2>1, <3>1, RemoveAtFacts DEF Screens
  <2> QED BY <2>2, <2>3
<1>4. (restoring \in [step : {"none", "downloading", "writing", "done"},
                    owner : 0..Len(above)])'
  <2>1. Len(above') \in Nat
    BY <1>3
  <2> QED BY <2>1 DEF finishRestore, NoRestore
<1> QED BY <1>1, <1>2, <1>3, <1>4 DEF TypeOK, DeviceType, DbType, PrefsType, AppType,
           ThreadsType, CountersType, PostedType, AboveType, RestoringType,
           StartType, ConfirmsType, HomeType, BoundsType

\* The invariant is kept by finishRestore.
LEMMA finishRestoreKeeps ==
    ASSUME IInv, finishRestore
    PROVE  IInv'
<1>1. TypeOK /\ TypeOK'
  BY finishRestoreTypes DEF IInv
<1>2. (ResumedAlone /\ NeverStalls)'
  BY <1>1, SMTT(20) DEF IInv, finishRestore, ResumedAlone, NeverStalls, bounds,
     TypeOK, WalletFirst, Quiet, NoRestore, NoConfirms, Pending
<1>3. (DatabaseFirst /\ QueuedLater /\ RestoredFirst /\ WritingIsPartial)'
  BY SMTT(20) DEF IInv, finishRestore, DatabaseFirst, QueuedLater, RestoredFirst,
     WritingIsPartial, bounds, Succeeded, Owed, Restored
<1>4. WalletFirst'
  <2>1. ~Quiet
    BY SMT DEF finishRestore, Quiet, NoRestore
  <2>2. wallet /\ \A n \in 1..Len(above) : above[n] # "wallet"
    BY <1>1, <2>1, NotQuiet DEF IInv
  <2>3. above \in Seq(Screens)
    BY <1>1, Zenon DEF TypeOK, Screens
  <2>4. \A n \in 1..Len(above') : above'[n] # "wallet"
    <3>1. CASE restoring.owner = 0
      BY <2>2, <3>1, Zenon DEF finishRestore
    <3>2. CASE restoring.owner # 0
      <4>1. restoring.owner \in 1..Len(above) /\ above' = RemoveAt(above, restoring.owner)
        BY <1>1, <3>2, SMT DEF finishRestore, TypeOK
      <4>2. /\ Len(above') = Len(above) - 1
            /\ \A k \in 1..(Len(above) - 1) :
                  above'[k] = IF k < restoring.owner THEN above[k] ELSE above[k + 1]
        BY <2>3, <4>1, RemoveAtFacts, Zenon
      <4> QED BY <2>2, <2>3, <4>1, <4>2, SMT
    <3> QED BY <3>1, <3>2
  <2>5. start' = start /\ wallet' = wallet
    BY Zenon DEF finishRestore
  <2> QED BY <2>2, <2>4, <2>5, Zenon DEF IInv, WalletFirst
<1> QED BY <1>1, <1>2, <1>3, <1>4 DEF IInv

-----------------------------------------------------------------------------
\* The user leaves.
LEMMA LeaveTypes ==
    ASSUME TypeOK, Leave
    PROVE  TypeOK'
<1>1. (DbType /\ PrefsType /\ AppType /\ ThreadsType /\ CountersType /\ PostedType /\
       AboveType /\ RestoringType /\ StartType /\ ConfirmsType /\ HomeType /\
       BoundsType)'
  BY StartupAssumption, SMTT(20) DEF TypeOK, DbType, PrefsType, AppType, ThreadsType,
     CountersType, PostedType, AboveType, RestoringType, StartType, ConfirmsType,
     HomeType, BoundsType, Leave, device, process
<1>2. DeviceType'
  BY ZenonT(20) DEF TypeOK, DeviceType, Leave, device, process
<1> QED BY <1>1, <1>2 DEF TypeOK, DeviceType, DbType, PrefsType, AppType,
           ThreadsType, CountersType, PostedType, AboveType, RestoringType,
           StartType, ConfirmsType, HomeType, BoundsType

\* The invariant is kept by Leave.
LEMMA LeaveKeeps ==
    ASSUME IInv, Leave
    PROVE  IInv'
<1>1. TypeOK /\ TypeOK'
  BY LeaveTypes DEF IInv
<1>2. (WalletFirst /\ ResumedAlone /\ DatabaseFirst /\ QueuedLater /\
       RestoredFirst /\ WritingIsPartial /\ NeverStalls)'
  BY ZenonT(20) DEF IInv, Leave, WalletFirst, ResumedAlone, DatabaseFirst,
     QueuedLater, RestoredFirst, WritingIsPartial, NeverStalls, device, process,
     Quiet, NoRestore, NoConfirms, Succeeded, Owed, Restored, Pending
<1> QED BY <1>1, <1>2 DEF IInv

-----------------------------------------------------------------------------
\* The user returns to a paused screen.
LEMMA ReturnTypes ==
    ASSUME TypeOK, Return
    PROVE  TypeOK'
<1>1. (DeviceType /\ DbType /\ PrefsType /\ AppType /\ ThreadsType /\ CountersType /\
       PostedType /\ AboveType /\ RestoringType /\ StartType /\ ConfirmsType /\
       HomeType /\ BoundsType)'
  BY StartupAssumption, SMTT(20) DEF TypeOK, DeviceType, DbType, PrefsType, AppType,
     ThreadsType, CountersType, PostedType, AboveType, RestoringType, StartType,
     ConfirmsType, HomeType, BoundsType, Return, device, process, bounds
<1> QED BY <1>1 DEF TypeOK, DeviceType, DbType, PrefsType, AppType, ThreadsType,
           CountersType, PostedType, AboveType, RestoringType, StartType,
           ConfirmsType, HomeType, BoundsType

\* The invariant is kept by Return.
LEMMA ReturnKeeps ==
    ASSUME IInv, Return
    PROVE  IInv'
<1>1. TypeOK /\ TypeOK'
  BY ReturnTypes DEF IInv
<1>2. (WalletFirst /\ ResumedAlone /\ DatabaseFirst /\ QueuedLater /\
       RestoredFirst /\ WritingIsPartial /\ NeverStalls)'
  BY ZenonT(20) DEF IInv, Return, WalletFirst, ResumedAlone, DatabaseFirst,
     QueuedLater, RestoredFirst, WritingIsPartial, NeverStalls, device, process,
     bounds, Quiet, NoRestore, NoConfirms, Succeeded, Owed, Restored, Pending
<1> QED BY <1>1, <1>2 DEF IInv

-----------------------------------------------------------------------------
\* Only the device survives, and no part of IInv needs more.
LEMMA RestartTypes ==
    ASSUME TypeOK, Restart
    PROVE  TypeOK'
<1>1. (DbType /\ PrefsType /\ AppType /\ ThreadsType /\ CountersType /\ PostedType /\
       AboveType /\ RestoringType /\ StartType /\ ConfirmsType /\ HomeType /\
       BoundsType)'
  BY StartupAssumption, SMTT(20) DEF TypeOK, DbType, PrefsType, AppType, ThreadsType,
     CountersType, PostedType, AboveType, RestoringType, StartType, ConfirmsType,
     HomeType, BoundsType, Restart, NewApp, NewStart, device, NoRestore, NoConfirms
<1>2. DeviceType'
  BY ZenonT(20) DEF TypeOK, DeviceType, Restart, NewApp, NewStart, device, NoRestore,
     NoConfirms
<1> QED BY <1>1, <1>2 DEF TypeOK, DeviceType, DbType, PrefsType, AppType,
           ThreadsType, CountersType, PostedType, AboveType, RestoringType,
           StartType, ConfirmsType, HomeType, BoundsType

\* The invariant is kept by Restart.
LEMMA RestartKeeps ==
    ASSUME IInv, Restart
    PROVE  IInv'
<1>1. TypeOK /\ TypeOK'
  BY RestartTypes DEF IInv
<1>2. (WalletFirst /\ DatabaseFirst /\ QueuedLater)'
  BY SMTT(20) DEF IInv, Restart, WalletFirst, DatabaseFirst, QueuedLater, NewApp,
     NewStart, device, Quiet, NoRestore, NoConfirms, Succeeded, Owed
<1>3. (ResumedAlone /\ NeverStalls)'
  BY ZenonT(20) DEF IInv, Restart, ResumedAlone, NeverStalls, NewApp, NewStart,
     device, Pending
<1>4. (RestoredFirst /\ WritingIsPartial)'
  BY <1>1, SMTT(20) DEF IInv, Restart, RestoredFirst, WritingIsPartial, NewApp,
     NewStart, Restored, NoRestore, device, TypeOK, WalletFirst, Quiet, NoConfirms
<1> QED BY <1>1, <1>2, <1>3, <1>4 DEF IInv

-----------------------------------------------------------------------------
\* There is no wallet at first, and nothing under way.
LEMMA Starts == Init => IInv
<1> SUFFICES ASSUME Init PROVE IInv
  OBVIOUS
<1>1. TypeOK
  <2>1. DeviceType /\ DbType /\ AppType /\ ThreadsType /\ HomeType
    BY Zenon DEF Init, DeviceType, DbType, AppType, ThreadsType, HomeType, NewApp
  <2>2. CountersType /\ PostedType /\ AboveType /\ ConfirmsType /\ BoundsType
    BY StartupAssumption, SMTT(20) DEF Init, CountersType, PostedType, AboveType, ConfirmsType,
       BoundsType, NoConfirms
  <2>3. PrefsType /\ RestoringType /\ StartType
    BY SMTT(20) DEF Init, PrefsType, RestoringType, StartType, NewPrefs, NoRestore, NewStart
  <2> QED BY <2>1, <2>2, <2>3 DEF TypeOK, DeviceType, DbType, PrefsType, AppType, ThreadsType,
             CountersType, PostedType, AboveType, RestoringType, StartType, ConfirmsType,
             HomeType, BoundsType
<1>2. WalletFirst /\ ResumedAlone /\ NeverStalls
  BY SMTT(20) DEF Init, WalletFirst, Quiet, ResumedAlone, NeverStalls, NewApp, NewStart, NoRestore,
         NoConfirms
<1>3. DatabaseFirst /\ QueuedLater /\ RestoredFirst /\ WritingIsPartial
  BY SMTT(20) DEF Init, DatabaseFirst, Succeeded, QueuedLater, RestoredFirst, Restored,
         WritingIsPartial, NewPrefs, NoRestore
<1> QED BY <1>1, <1>2, <1>3 DEF IInv

\* IInv is about the variables only.
LEMMA StutterKeeps == IInv /\ UNCHANGED vars => IInv'
<1> SUFFICES ASSUME IInv, UNCHANGED vars PROVE IInv'
  OBVIOUS
<1>1. UNCHANGED <<play, wallet, db, prefs, app, actors, threads, queued, task, posted, delayed,
                  restoring, start, confirms, above, home, front, leaves, restarts>>
  BY Zenon DEF vars, device, process, screens, bounds
<1>2. TypeOK'
  BY <1>1 DEF IInv, TypeOK
<1>3. (WalletFirst /\ ResumedAlone /\ DatabaseFirst /\ QueuedLater)'
  BY <1>1, Zenon
  DEF IInv, WalletFirst, Quiet, ResumedAlone, DatabaseFirst, Succeeded, QueuedLater, Owed
<1>4. (RestoredFirst /\ WritingIsPartial /\ NeverStalls)'
  BY <1>1, Zenon
  DEF IInv, RestoredFirst, Restored, Owed, WritingIsPartial, NeverStalls, Pending
<1> QED BY <1>2, <1>3, <1>4 DEF IInv

\* One lemma per action.
LEMMA Inductive == IInv /\ [Next]_vars => IInv'
<1> SUFFICES ASSUME IInv, Next PROVE IInv'
  BY StutterKeeps
<1>1. CASE onResume \/ onPause \/ onDestroy \/ onPinConfirm \/ RetryStartNode
  BY <1>1, onResumeKeeps, onPauseKeeps, onDestroyKeeps, onPinConfirmKeeps, RetryStartNodeKeeps
<1>2. ASSUME NEW t \in Threads, ReadSeed(t) \/ Decide(t) PROVE IInv'
  BY <1>2, ReadSeedKeeps, DecideKeeps
<1>3. CASE BeginTask \/ EndTask \/ ProcessPosted \/ checkInit
  BY <1>3, BeginTaskKeeps, EndTaskKeeps, ProcessPostedKeeps, checkInitKeeps
<1>4. CASE EndWrite \/ WriteFails \/ finishRestore
  BY <1>4, EndWriteKeeps, WriteFailsKeeps, finishRestoreKeeps
<1>5. CASE TypePin \/ Back \/ PickWallet \/ WriteSeed \/ onEncryptSeedSuccess \/ SetupBackup
  BY <1>5, TypePinKeeps, BackKeeps, PickWalletKeeps, WriteSeedKeeps,
     onEncryptSeedSuccessKeeps, SetupBackupKeeps
<1>6. CASE skipRestore \/ requestAccess \/ RestoreFails \/ BeginWrite \/ Leave \/ Return
  BY <1>6, skipRestoreKeeps, requestAccessKeeps, RestoreFailsKeeps, BeginWriteKeeps,
     LeaveKeeps, ReturnKeeps
<1>7. CASE Restart
  BY <1>7, RestartKeeps
<1> QED BY <1>1, <1>2, <1>3, <1>4, <1>5, <1>6, <1>7, Zenon DEF Next, Internal, User

\* IInv holds in every reachable state.
THEOREM Invariant == Spec => []IInv
<1>1. Init => IInv
  BY Starts
<1>2. IInv /\ [Next]_vars => IInv'
  BY Inductive
<1> QED BY <1>1, <1>2, PTL DEF Spec

-----------------------------------------------------------------------------
\* What is under way, above the start screen and on the device is of its type,
\* and a download belongs to an activity that is there, or to none.
THEOREM TypeCorrect == Spec => []TypeOK
<1>1. IInv => TypeOK
  BY DEF IInv
<1> QED BY <1>1, Invariant, PTL

\* The start screen on the screen asks for something, has something under way
\* or shows an error: no result, timer or pause leaves it standing still.
THEOREM StartScreenNeverStalls == Spec => []NeverStalls
<1>1. IInv => NeverStalls
  BY DEF IInv
<1> QED BY <1>1, Invariant, PTL

\* Only BeginTask creates a node, for a task that launchStartupTask queued:
\* checkChannelsBackupRestore was passed before, and what it saw still holds.
LEMMA NodesAreNotOwed ==
    IInv /\ [Next]_vars
      => (~task /\ task' /\ db = "none" /\ prefs.origin = "restored" /\ play => prefs.restoreDone)
<1> SUFFICES ASSUME IInv, Next, ~task, task', db = "none", prefs.origin = "restored", play
             PROVE  prefs.restoreDone
  BY Zenon DEF vars, process
<1>1. BeginTask
  BY Zenon DEF Next, Internal, User, onResume, onPause, onDestroy, onPinConfirm, RetryStartNode,
     ReadSeed, Decide, EndTask, ProcessPosted, checkInit, EndWrite, WriteFails, finishRestore,
     TypePin, Back, PickWallet, WriteSeed, onEncryptSeedSuccess, SetupBackup, skipRestore,
     requestAccess, RestoreFails, BeginWrite, Leave, Return, Restart, Restoring, process
<1>2. queued > 0
  BY <1>1, Zenon DEF BeginTask
<1> QED BY <1>2, Zenon DEF IInv, QueuedLater, Owed

\* No node on an empty database for a restored seed whose channels the user has
\* not given up, however many threads and tasks overlap.
THEOREM RestoreComesFirst == Spec => RestoreIsOffered
<1>1. IInv /\ [Next]_vars
        => [~task /\ task' /\ db = "none" /\ prefs.origin = "restored" /\ play
              => prefs.restoreDone]_vars
  BY NodesAreNotOwed
<1> QED BY <1>1, Invariant, PTL DEF Spec, RestoreIsOffered

\* Only BeginWrite begins to write, for a download that RestoredFirst is about.
LEMMA NoNodeIsOverwritten ==
    IInv /\ [Next]_vars
      => (restoring.step # "writing" /\ restoring'.step = "writing" /\ actors => prefs.restoreDone)
<1> SUFFICES ASSUME IInv, Next, restoring.step # "writing", restoring'.step = "writing", actors
             PROVE  prefs.restoreDone
  BY Zenon DEF vars, process
<1>0. TypeOK
  BY DEF IInv
<1>1. restoring.step = "downloading"
  <2>1. CASE Finish(Len(above)) /\ above # <<>>
    BY <1>0, <2>1, FinishFacts, Zenon
  <2>2. CASE UNCHANGED restoring
    BY <2>2, Zenon
  <2>3. CASE BeginWrite
    BY <2>3, Zenon DEF BeginWrite, Restoring
  <2>4. CASE requestAccess \/ finishRestore \/ Restart
    <3>1. CASE requestAccess
      BY <3>1, SMT DEF requestAccess
    <3>2. CASE restoring' = NoRestore
      BY <3>2, SMT DEF NoRestore
    <3> QED BY <2>4, <3>1, <3>2, Zenon DEF finishRestore, Restart
  <2>5. CASE EndWrite \/ WriteFails \/ RestoreFails
    BY <2>5, <1>0, Zenon DEF EndWrite, WriteFails, RestoreFails, Restoring, TypeOK
  <2> QED BY <2>1, <2>2, <2>3, <2>4, <2>5, Zenon DEF Next, Internal, User, onResume, onPause,
        onDestroy, onPinConfirm, RetryStartNode, ReadSeed, Decide, BeginTask, EndTask,
        ProcessPosted, checkInit, TypePin, Back, PickWallet, WriteSeed, onEncryptSeedSuccess,
        SetupBackup, skipRestore, Leave, Return, Top, process
<1> QED BY <1>1, Zenon DEF IInv, RestoredFirst

\* A backup is not written over the database of a running node, unless the user
\* has chosen to restore none.
THEOREM NodeKeepsDatabase == Spec => DatabaseIsNotReplaced
<1>1. IInv /\ [Next]_vars
        => [restoring.step # "writing" /\ restoring'.step = "writing" /\ actors
              => prefs.restoreDone]_vars
  BY NoNodeIsOverwritten
<1> QED BY <1>1, Invariant, PTL DEF Spec, DatabaseIsNotReplaced
=============================================================================
