-------------------------- MODULE SeedStorageProofs --------------------------
(* The seed on disk, proved for any set of seeds, of PINs and of overlapping  *)
(* conversations: type correctness, the PIN in memory, the order of startup,  *)
(* and the refinement of SeedVault.                                           *)
EXTENDS SeedStorage, TLAPS

\* The seed of the wallet, as Vault sees it.
WalletSeed == IF sealed = Null THEN plain ELSE sealed.seed

Forms == {"create", "restore"}

Writing(i) == At(i, "writing") \/ At(i, "written") \/ At(i, "moved")

\* The UI thread is in one writeSeedFile at most.
OneWriter == \A i, j \in Slots : Writing(i) /\ Writing(j) => i = j

\* From the first PIN on, a conversation has one.
PinsChosen ==
    \A i \in Slots : Writing(i) \/ At(i, "confirm") => sessions[i].pin \in Pins

\* After the move the file is the one of the conversation.
MovedIsSealed ==
    \A i \in Slots : At(i, "moved") => sealed = Sealed(sessions[i].seed, sessions[i].pin)

\* Only a form may bring a seed that the wallet does not have.
SessionsAgree ==
    activity \notin Forms => \A i \in Slots : sessions[i] # Null => sessions[i].seed = WalletSeed

\* A form is open for want of a seed, and all its conversations have one.
FormsAreNew ==
    activity \in Forms =>
        /\ plain = Null
        /\ sealed # Null => \E i \in Slots : At(i, "moved")
        /\ \A i, j \in Slots : sessions[i] # Null /\ sessions[j] # Null => sessions[i].seed = sessions[j].seed

PickIsNew == activity = "pick" => plain = Null /\ sealed = Null

OpenIsSealed == activity \in {"pin", "complete", "wallet"} => plain = Null /\ sealed # Null

\* The PIN in memory opens the file, except between the move and app.pin.set.
PinAgrees ==
    pin # Null /\ (\A i \in Slots : ~At(i, "moved")) => sealed # Null /\ sealed.pin = pin

\* The inductive invariant.
IInv ==
    /\ TypeOK /\ OneWriter /\ PinsChosen /\ MovedIsSealed /\ SessionsAgree
    /\ FormsAreNew /\ PickIsNew /\ OpenIsSealed /\ PinAgrees

\* The checks begin a conversation with the seed they found.
LEMMA checkupKeeps ==
    ASSUME IInv, NEW i \in Slots, checkup(i)
    PROVE  IInv'
<1>1. TypeOK'
  BY DEF IInv, checkup, TypeOK, checkWalletDatadir, Conversation, Sessions,
     Steps, Activities
<1>2. OneWriter' /\ PinsChosen' /\ MovedIsSealed'
  BY DEF IInv, checkup, OneWriter, PinsChosen, MovedIsSealed,
     checkWalletDatadir, Conversation, Writing, At
<1>3. SessionsAgree' /\ FormsAreNew'
  BY DEF IInv, checkup, SessionsAgree, FormsAreNew, checkWalletDatadir,
     Conversation, WalletSeed, Forms
<1>4. PickIsNew' /\ OpenIsSealed' /\ PinAgrees'
  BY DEF IInv, checkup, PickIsNew, OpenIsSealed, PinAgrees,
     checkWalletDatadir, At
<1> QED BY <1>1, <1>2, <1>3, <1>4 DEF IInv

\* A form begins a conversation while there is no other.
LEMMA encryptSeedKeeps ==
    ASSUME IInv, NEW i \in Slots, NEW s \in Seeds, encryptSeed(i, s)
    PROVE  IInv'
<1>1. TypeOK'
  BY DEF IInv, encryptSeed, TypeOK, Conversation, Sessions, Steps
<1>2. OneWriter' /\ PinsChosen' /\ MovedIsSealed'
  BY DEF IInv, encryptSeed, OneWriter, PinsChosen, MovedIsSealed, NoSession,
     Writing, At, Conversation
<1>3. SessionsAgree' /\ FormsAreNew'
  BY DEF IInv, encryptSeed, SessionsAgree, FormsAreNew, Forms, NoSession, At
<1>4. PickIsNew' /\ OpenIsSealed' /\ PinAgrees'
  BY DEF IInv, encryptSeed, PickIsNew, OpenIsSealed, PinAgrees, NoSession, At
<1> QED BY <1>1, <1>2, <1>3, <1>4 DEF IInv

\* The conversation has the seed that the current PIN decrypts.
LEMMA changePasswordKeeps ==
    ASSUME IInv, NEW i \in Slots, NEW p \in Pins, changePassword(i, p)
    PROVE  IInv'
<1>1. TypeOK'
  BY DEF IInv, changePassword, TypeOK, OpenIsSealed, Conversation, Sessions,
     Steps
<1>2. OneWriter' /\ PinsChosen' /\ MovedIsSealed'
  BY DEF IInv, changePassword, OneWriter, PinsChosen, MovedIsSealed,
     Conversation, Writing, At
<1>3. SessionsAgree' /\ FormsAreNew'
  BY DEF IInv, changePassword, SessionsAgree, FormsAreNew, OpenIsSealed,
     Conversation, WalletSeed, Forms
<1>4. PickIsNew' /\ OpenIsSealed' /\ PinAgrees'
  BY DEF IInv, changePassword, PickIsNew, OpenIsSealed, PinAgrees, At
<1> QED BY <1>1, <1>2, <1>3, <1>4 DEF IInv

\* The first PIN is remembered.
LEMMA EnterFirstKeeps ==
    ASSUME IInv, NEW i \in Slots, NEW p \in Pins, EnterFirst(i, p)
    PROVE  IInv'
<1>1. TypeOK'
  BY DEF IInv, EnterFirst, TypeOK, At, Sessions
<1>2. OneWriter' /\ PinsChosen' /\ MovedIsSealed'
  BY DEF IInv, EnterFirst, OneWriter, PinsChosen, MovedIsSealed, TypeOK,
     Writing, At
<1>3. SessionsAgree'
  BY DEF IInv, EnterFirst, SessionsAgree, TypeOK, At, Sessions
<1>4. FormsAreNew'
  BY DEF IInv, EnterFirst, FormsAreNew, TypeOK, At
<1>5. PickIsNew' /\ OpenIsSealed'
  BY DEF IInv, EnterFirst, PickIsNew, OpenIsSealed
<1>6. PinAgrees'
  BY DEF IInv, EnterFirst, PinAgrees, Busy
<1> QED BY <1>1, <1>2, <1>3, <1>4, <1>5, <1>6 DEF IInv

\* A copy of a conversation has its seed and its PIN.
LEMMA EnterTwiceKeeps ==
    ASSUME IInv, NEW i \in Slots, NEW j \in Slots, EnterTwice(i, j)
    PROVE  IInv'
<1>1. TypeOK'
  BY DEF IInv, EnterTwice, TypeOK
<1>2. OneWriter' /\ PinsChosen' /\ MovedIsSealed'
  BY DEF IInv, EnterTwice, OneWriter, PinsChosen, MovedIsSealed, Writing, At
<1>3. SessionsAgree'
  BY DEF IInv, EnterTwice, SessionsAgree, WalletSeed
<1>4. FormsAreNew'
  BY DEF IInv, EnterTwice, FormsAreNew, At
<1>5. PickIsNew' /\ OpenIsSealed'
  BY DEF IInv, EnterTwice, PickIsNew, OpenIsSealed
<1>6. PinAgrees'
  BY DEF IInv, EnterTwice, PinAgrees, At
<1> QED BY <1>1, <1>2, <1>3, <1>4, <1>5, <1>6 DEF IInv

\* Nobody is writing, so this conversation may begin to.
LEMMA EnterConfirmKeeps ==
    ASSUME IInv, NEW i \in Slots, NEW p \in Pins, EnterConfirm(i, p)
    PROVE  IInv'
<1>1. TypeOK'
  BY DEF IInv, EnterConfirm, TypeOK, Failed, At, Sessions, Steps
<1>2. OneWriter' /\ PinsChosen'
  BY DEF IInv, EnterConfirm, OneWriter, PinsChosen, TypeOK, Failed, Busy,
     Writing, At, Sessions
<1>3. MovedIsSealed'
  BY DEF IInv, EnterConfirm, MovedIsSealed, TypeOK, Failed, At, Sessions
<1>4. SessionsAgree'
  BY DEF IInv, EnterConfirm, SessionsAgree, TypeOK, Failed, At, WalletSeed,
     Sessions
<1>5. FormsAreNew'
  BY DEF IInv, EnterConfirm, FormsAreNew, TypeOK, Failed, At, Sessions
<1>6. PickIsNew' /\ OpenIsSealed'
  BY DEF IInv, EnterConfirm, PickIsNew, OpenIsSealed
<1>7. PinAgrees'
  BY DEF IInv, EnterConfirm, PinAgrees, Busy
<1> QED BY <1>1, <1>2, <1>3, <1>4, <1>5, <1>6, <1>7 DEF IInv

\* A conversation less.
LEMMA CancelKeeps ==
    ASSUME IInv, NEW i \in Slots, Cancel(i)
    PROVE  IInv'
<1>1. TypeOK'
  BY DEF IInv, Cancel, TypeOK
<1>2. OneWriter' /\ PinsChosen' /\ MovedIsSealed'
  BY DEF IInv, Cancel, OneWriter, PinsChosen, MovedIsSealed, Writing, At
<1>3. SessionsAgree' /\ FormsAreNew' /\ PickIsNew' /\ OpenIsSealed'
  BY DEF IInv, Cancel, SessionsAgree, FormsAreNew, PickIsNew, OpenIsSealed,
     WalletSeed, At
<1>4. PinAgrees'
  BY DEF IInv, Cancel, PinAgrees, At
<1> QED BY <1>1, <1>2, <1>3, <1>4 DEF IInv

\* As checkup, on a start screen that stays where it is.
LEMMA RecheckKeeps ==
    ASSUME IInv, NEW i \in Slots, Recheck(i)
    PROVE  IInv'
<1>1. TypeOK'
  BY DEF IInv, Recheck, TypeOK, checkWalletDatadir, Conversation, Sessions,
     Steps
<1>2. OneWriter' /\ PinsChosen' /\ MovedIsSealed'
  BY DEF IInv, Recheck, OneWriter, PinsChosen, MovedIsSealed,
     checkWalletDatadir, Conversation, Writing, At
<1>3. SessionsAgree' /\ FormsAreNew'
  BY DEF IInv, Recheck, SessionsAgree, FormsAreNew, checkWalletDatadir,
     Conversation, WalletSeed, At
<1>4. PickIsNew' /\ OpenIsSealed' /\ PinAgrees'
  BY DEF IInv, Recheck, PickIsNew, OpenIsSealed, PinAgrees,
     checkWalletDatadir, At
<1> QED BY <1>1, <1>2, <1>3, <1>4 DEF IInv

\* No step of the temp file is visible before the move.
LEMMA WriteTempKeeps ==
    ASSUME IInv, NEW i \in Slots, WriteTemp(i)
    PROVE  IInv'
<1>1. TypeOK'
  BY DEF IInv, WriteTemp, TypeOK, PinsChosen, Sealed, Writing, At, Sessions,
     Steps
<1>2. OneWriter' /\ PinsChosen'
  BY DEF IInv, WriteTemp, OneWriter, PinsChosen, Writing, At
<1>3. MovedIsSealed'
  BY DEF IInv, WriteTemp, MovedIsSealed, At
<1>4. SessionsAgree'
  BY DEF IInv, WriteTemp, SessionsAgree, At, WalletSeed
<1>5. FormsAreNew'
  BY DEF IInv, WriteTemp, FormsAreNew, At
<1>6. PickIsNew' /\ OpenIsSealed'
  BY DEF IInv, WriteTemp, PickIsNew, OpenIsSealed
<1>7. PinAgrees'
  BY DEF IInv, WriteTemp, PinAgrees, At
<1> QED BY <1>1, <1>2, <1>3, <1>4, <1>5, <1>6, <1>7 DEF IInv

\* The only step that changes the seed file: what moves is what the conversation
\* holds, which is the wallet's seed, unless a form has just chosen it.
LEMMA CheckAndMoveKeeps ==
    ASSUME IInv, NEW i \in Slots, CheckAndMove(i)
    PROVE  IInv'
<1>0. At(i, "moved")'
  BY SeedAssumption DEF IInv, TypeOK, CheckAndMove, At, Sessions, Steps
<1>1. TypeOK'
  BY <1>0, SeedAssumption DEF IInv, CheckAndMove, TypeOK, Sealed, At,
     Garbage, Sessions, Steps
<1>2. OneWriter' /\ PinsChosen'
  BY <1>0 DEF IInv, CheckAndMove, OneWriter, PinsChosen, Writing, At
<1>3. MovedIsSealed'
  BY <1>0 DEF IInv, CheckAndMove, MovedIsSealed, OneWriter, Writing, At
<1>4. SessionsAgree'
  BY <1>0, SeedAssumption DEF IInv, CheckAndMove, SessionsAgree, TypeOK,
     PinsChosen, Sealed, Writing, At, WalletSeed
<1>5. FormsAreNew'
  BY <1>0 DEF IInv, CheckAndMove, FormsAreNew, At
<1>6. PickIsNew' /\ OpenIsSealed'
  BY <1>0, SeedAssumption DEF IInv, CheckAndMove, PickIsNew, OpenIsSealed,
     TypeOK, SessionsAgree, At, WalletSeed, Forms, Sessions, PinsChosen,
     Sealed, Writing
<1>7. PinAgrees'
  BY <1>0 DEF IInv, CheckAndMove, PinAgrees
<1> QED BY <1>1, <1>2, <1>3, <1>4, <1>5, <1>6, <1>7 DEF IInv

\* A write that fails leaves the seed file as it was.
LEMMA WriteFailsKeeps ==
    ASSUME IInv, NEW i \in Slots, WriteFails(i)
    PROVE  IInv'
<1>1. TypeOK'
  BY DEF IInv, WriteFails, TypeOK, Failed, At, Sessions, Steps
<1>2. OneWriter' /\ PinsChosen' /\ MovedIsSealed'
  BY DEF IInv, WriteFails, OneWriter, PinsChosen, MovedIsSealed, Failed,
     Writing, At
<1>3. SessionsAgree'
  BY DEF IInv, WriteFails, SessionsAgree, Failed, At, WalletSeed
<1>4. FormsAreNew'
  BY DEF IInv, WriteFails, FormsAreNew, Failed, At
<1>5. PickIsNew' /\ OpenIsSealed'
  BY DEF IInv, WriteFails, PickIsNew, OpenIsSealed
<1>6. PinAgrees'
  BY DEF IInv, WriteFails, PinAgrees, Failed, At
<1> QED BY <1>1, <1>2, <1>3, <1>4, <1>5, <1>6 DEF IInv

\* The move is completed: PinAgrees holds again, since this conversation was the
\* only one inside writeSeedFile.
LEMMA SucceedKeeps ==
    ASSUME IInv, NEW i \in Slots, Succeed(i)
    PROVE  IInv'
<1>1. TypeOK'
  BY DEF IInv, Succeed, TypeOK, checkWalletDatadir, Conversation, At,
     Sessions, Steps, Activities
<1>2. OneWriter' /\ PinsChosen'
  BY DEF IInv, Succeed, OneWriter, PinsChosen, TypeOK, checkWalletDatadir,
     Writing, At, Conversation
<1>3. MovedIsSealed'
  BY DEF IInv, Succeed, MovedIsSealed, TypeOK, checkWalletDatadir,
     Conversation, At
<1>4. SessionsAgree'
  BY SeedAssumption DEF IInv, Succeed, SessionsAgree, TypeOK, PinsChosen,
     MovedIsSealed, FormsAreNew, checkWalletDatadir, Writing, At, Sealed,
     WalletSeed, Sessions
<1>5. FormsAreNew'
  BY DEF IInv, Succeed, FormsAreNew, Forms
<1>6. PickIsNew' /\ OpenIsSealed'
  BY SeedAssumption DEF IInv, Succeed, PickIsNew, OpenIsSealed, TypeOK,
     PinsChosen, MovedIsSealed, FormsAreNew, checkWalletDatadir, Writing, At,
     Sealed, Forms, Sessions, Activities
<1>7. PinAgrees'
  BY SeedAssumption DEF IInv, Succeed, PinAgrees, TypeOK, MovedIsSealed, At,
     Sealed, Sessions
<1> QED BY <1>1, <1>2, <1>3, <1>4, <1>5, <1>6, <1>7 DEF IInv

\* The PIN becomes the one that opened the file, or none.
LEMMA UnlockKeeps ==
    ASSUME IInv, NEW p \in Pins, Unlock(p)
    PROVE  IInv'
<1>1. TypeOK'
  BY DEF IInv, Unlock, TypeOK, NoSession, Activities
<1>2. OneWriter' /\ PinsChosen' /\ MovedIsSealed'
  BY DEF IInv, Unlock, OneWriter, PinsChosen, MovedIsSealed, NoSession,
     Writing, At
<1>3. SessionsAgree'
  BY DEF IInv, Unlock, SessionsAgree, NoSession, WalletSeed
<1>4. FormsAreNew'
  BY DEF IInv, Unlock, FormsAreNew, Forms
<1>5. PickIsNew' /\ OpenIsSealed'
  BY DEF IInv, Unlock, PickIsNew, OpenIsSealed
<1>6. PinAgrees'
  BY DEF IInv, Unlock, PinAgrees, OpenIsSealed
<1> QED BY <1>1, <1>2, <1>3, <1>4, <1>5, <1>6 DEF IInv

\* A form opens without a conversation left over: there is no seed it could hold.
LEMMA PickKeeps ==
    ASSUME IInv, NEW a \in Forms, Pick(a)
    PROVE  IInv'
<1>1. TypeOK'
  BY DEF IInv, Pick, TypeOK, Forms, Activities
<1>2. OneWriter' /\ PinsChosen' /\ MovedIsSealed'
  BY DEF IInv, Pick, OneWriter, PinsChosen, MovedIsSealed, Writing, At
<1>3. SessionsAgree'
  BY DEF IInv, Pick, SessionsAgree
<1>4. FormsAreNew'
  BY DEF IInv, Pick, FormsAreNew, SessionsAgree, PickIsNew
<1>5. PickIsNew' /\ OpenIsSealed' /\ PinAgrees'
  BY DEF IInv, Pick, PickIsNew, OpenIsSealed, PinAgrees, Forms, At
<1> QED BY <1>1, <1>2, <1>3, <1>4, <1>5 DEF IInv

\* The screen only goes back to its checks.
LEMMA ResumeKeeps ==
    ASSUME IInv, Resume
    PROVE  IInv'
<1>1. TypeOK'
  BY DEF IInv, Resume, TypeOK, Activities
<1>2. OneWriter' /\ PinsChosen' /\ MovedIsSealed'
  BY DEF IInv, Resume, OneWriter, PinsChosen, MovedIsSealed, Writing, At
<1>3. SessionsAgree' /\ FormsAreNew' /\ PickIsNew' /\ OpenIsSealed'
  BY DEF IInv, Resume, SessionsAgree, FormsAreNew, PickIsNew, OpenIsSealed,
     WalletSeed, Forms
<1>4. PinAgrees'
  BY DEF IInv, Resume, PinAgrees, At
<1> QED BY <1>1, <1>2, <1>3, <1>4 DEF IInv

\* Leaving a form ends its conversations.
LEMMA goToStartupKeeps ==
    ASSUME IInv, goToStartup
    PROVE  IInv'
<1>1. TypeOK'
  BY DEF IInv, goToStartup, TypeOK, NoSession, Activities
<1>2. OneWriter' /\ PinsChosen' /\ MovedIsSealed'
  BY DEF IInv, goToStartup, OneWriter, PinsChosen, MovedIsSealed, NoSession,
     Writing, At
<1>3. SessionsAgree' /\ FormsAreNew' /\ PickIsNew' /\ OpenIsSealed'
  BY DEF IInv, goToStartup, SessionsAgree, FormsAreNew, PickIsNew,
     OpenIsSealed, NoSession, Forms
<1>4. PinAgrees'
  BY DEF IInv, goToStartup, PinAgrees, Busy
<1> QED BY <1>1, <1>2, <1>3, <1>4 DEF IInv

\* Only the files survive, and no part of IInv needs more.
LEMMA CrashKeeps ==
    ASSUME IInv, Crash
    PROVE  IInv'
<1>1. TypeOK'
  BY DEF IInv, Crash, TypeOK, NoSession, Activities
<1>2. OneWriter' /\ PinsChosen' /\ MovedIsSealed'
  BY DEF IInv, Crash, OneWriter, PinsChosen, MovedIsSealed, NoSession,
     Writing, At
<1>3. SessionsAgree' /\ FormsAreNew' /\ PickIsNew' /\ OpenIsSealed'
  BY DEF IInv, Crash, SessionsAgree, FormsAreNew, PickIsNew, OpenIsSealed,
     NoSession, Forms
<1>4. PinAgrees'
  BY DEF IInv, Crash, PinAgrees
<1> QED BY <1>1, <1>2, <1>3, <1>4 DEF IInv

\* No file is open and no conversation is under way at first.
LEMMA Starts == Init => IInv
  BY SeedAssumption
  DEF Init, IInv, TypeOK, OneWriter, PinsChosen, MovedIsSealed, SessionsAgree, FormsAreNew,
      PickIsNew, OpenIsSealed, PinAgrees, Writing, At, NoSession, Forms, Activities

\* IInv is about the variables only.
LEMMA StutterKeeps == IInv /\ UNCHANGED vars => IInv'
  BY DEF IInv, vars, TypeOK, OneWriter, PinsChosen, MovedIsSealed, SessionsAgree, FormsAreNew,
         PickIsNew, OpenIsSealed, PinAgrees, Writing, At, WalletSeed

\* One lemma per action.
LEMMA Inductive == IInv /\ [Next]_vars => IInv'
<1> SUFFICES ASSUME IInv, Next PROVE IInv'
  BY StutterKeeps
<1>1. ASSUME NEW i \in Slots, Step(i) PROVE IInv'
  BY <1>1, checkupKeeps, encryptSeedKeeps, changePasswordKeeps, EnterFirstKeeps,
     EnterConfirmKeeps, CancelKeeps, RecheckKeeps, WriteTempKeeps, CheckAndMoveKeeps,
     WriteFailsKeeps, SucceedKeeps
  DEF Step
<1>2. ASSUME NEW p \in Pins, Unlock(p) PROVE IInv'
  BY <1>2, UnlockKeeps
<1>3. ASSUME NEW a \in Forms, Pick(a) PROVE IInv'
  BY <1>3, PickKeeps
<1>4. CASE Resume \/ goToStartup \/ Crash
  BY <1>4, ResumeKeeps, goToStartupKeeps, CrashKeeps
<1>5. ASSUME NEW i \in Slots, NEW j \in Slots, EnterTwice(i, j) PROVE IInv'
  BY <1>5, EnterTwiceKeeps
<1> QED BY <1>1, <1>2, <1>3, <1>4, <1>5 DEF Next, Forms

\* IInv holds in every reachable state.
THEOREM Invariant == Spec => []IInv
<1>1. Init => IInv
  BY Starts
<1>2. IInv /\ [Next]_vars => IInv'
  BY Inductive
<1> QED BY <1>1, <1>2, PTL DEF Spec

-----------------------------------------------------------------------------
\* The files are well typed: whatever dies or fails, enc_seed.dat is absent or
\* can be read with a PIN.
THEOREM TypeCorrect == Spec => []TypeOK
<1>1. IInv => TypeOK
  BY DEF IInv
<1> QED BY <1>1, Invariant, PTL

\* The PIN in memory, set by readSeedFile or after the move, opens the seed file
\* whenever the UI thread is not inside writeSeedFile.
THEOREM PinInMemory == Spec => []PinOpensSeed
<1>1. IInv => PinOpensSeed
  BY DEF IInv, PinAgrees, PinOpensSeed, Busy
<1> QED BY <1>1, Invariant, PTL

\* checkWalletDatadir lets no wallet be opened as long as its seed is on the
\* disk in clear.
THEOREM OpenedAfterDeletion == Spec => []OpenedIsSealed
<1>1. IInv => OpenedIsSealed
  BY DEF IInv, OpenIsSealed, OpenedIsSealed
<1> QED BY <1>1, Invariant, PTL

\* No step but CheckAndMove and the deletion of the file in clear touches what
\* Vault sees.
LEMMA StepsImplement == IInv /\ [Next]_vars => [Vault!VaultNext]_(Vault!vaultVars)
<1> DEFINE seed == IF sealed = Null THEN plain ELSE sealed.seed
           key == IF sealed = Null THEN Null ELSE sealed.pin
<1> SUFFICES ASSUME IInv, [Next]_vars
             PROVE  Vault!VaultNext \/ (seed' = seed /\ key' = key)
  BY DEF Vault!vaultVars
<1>1. ASSUME NEW i \in Slots, CheckAndMove(i) PROVE Vault!VaultNext
  <2> DEFINE s == sessions[i].seed
             p == sessions[i].pin
  <2>1. s \in Seeds /\ p \in Pins
    BY <1>1, SeedAssumption DEF IInv, TypeOK, PinsChosen, CheckAndMove, Writing, At, Sessions
  <2>2. sealed' = [seed |-> s, pin |-> p] /\ plain' = plain
    BY <1>1 DEF CheckAndMove, Sealed
  <2>3. sealed' # Null /\ seed' = s /\ key' = p
    BY <2>1, <2>2, SeedAssumption
  <2>4. CASE seed = Null
    BY <2>1, <2>3, <2>4 DEF Vault!VaultNext, Vault!Store
  <2>5. CASE seed # Null
    <3>1. activity \notin Forms
      BY <1>1, <2>5 DEF IInv, FormsAreNew, OneWriter, Writing, CheckAndMove, At
    <3>2. seed = s
      BY <1>1, <3>1 DEF IInv, SessionsAgree, WalletSeed, CheckAndMove, At
    <3>3. key = Null \/ key \in Pins
      BY DEF IInv, TypeOK
    <3> QED
      BY <2>1, <2>3, <2>5, <3>2, <3>3
      DEF Vault!VaultNext, Vault!Protect, Vault!Rekey
  <2> QED BY <2>4, <2>5
<1>2. ASSUME NEW i \in Slots, checkup(i) \/ Recheck(i) \/ Succeed(i)
      PROVE  seed' = seed /\ key' = key
  BY <1>2 DEF checkup, Recheck, Succeed, checkWalletDatadir
<1>3. ASSUME sealed' = sealed, plain' = plain PROVE seed' = seed /\ key' = key
  BY <1>3
<1>4. ASSUME NEW i \in Slots, Step(i), ~CheckAndMove(i), ~(checkup(i) \/ Recheck(i) \/ Succeed(i))
      PROVE  sealed' = sealed /\ plain' = plain
  BY <1>4 DEF Step, encryptSeed, changePassword, EnterFirst, EnterConfirm, Cancel, WriteTemp,
              WriteFails
<1>5. ASSUME ~\E i \in Slots : Step(i) PROVE sealed' = sealed /\ plain' = plain
  BY <1>5 DEF Next, vars, EnterTwice, Unlock, Pick, Resume, goToStartup, Crash
<1> HIDE DEF seed, key
<1> QED BY <1>1, <1>2, <1>3, <1>4, <1>5

\* The files implement the promise of SeedVault: a wallet keeps its seed for
\* ever, and from its first PIN on it is never without one.
THEOREM Implements == Spec => ImplementsVault
<1>1. Init => Vault!VaultInit
  BY DEF Init, Vault!VaultInit
<1>2. IInv /\ [Next]_vars => [Vault!VaultNext]_(Vault!vaultVars)
  BY StepsImplement
<1> QED BY <1>1, <1>2, Invariant, PTL DEF Spec, ImplementsVault, Vault!VaultSpec
=============================================================================
