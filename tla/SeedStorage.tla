----------------------------- MODULE SeedStorage -----------------------------
(* The seed on disk: StartupActivity.checkWalletDatadir, the activities that  *)
(* create or restore a seed, the change of the PIN, EclairActivity's          *)
(* encryptWallet and WalletUtils.writeSeedFile, with a process that may die   *)
(* between any two steps.                                                     *)
(*                                                                            *)
(* A file is Null when it does not exist, otherwise the seed it decrypts to   *)
(* and the PIN that decrypts it; Garbage decrypts with no PIN.                *)

CONSTANTS Seeds, Pins, Null,
    Slots       \* bounds the conversations of encryptWallet open at once

VARIABLES
    plain,      \* seed in the unencrypted file of old versions, or Null
    temp,       \* enc_seed_temp.dat
    sealed,     \* enc_seed.dat
    pin,        \* App.pin
    activity,   \* what the screen is doing
    sessions    \* in each slot a conversation of encryptWallet, or Null

vars == <<plain, temp, sealed, pin, activity, sessions>>

Sealed(s, p) == [seed |-> s, pin |-> p]
Garbage == Sealed(Null, Null)

\* startup: about to check the files; pick: offering to create or restore a
\* wallet; pin: asking for the PIN; idle: returned from the checks, doing
\* nothing more until it is resumed; complete: a wallet was just created.
Activities == {"startup", "pick", "idle", "pin", "create", "restore", "complete", "wallet"}

\* first and confirm: the two PIN dialogs; writing, written and moved: inside
\* writeSeedFile; recheck: failed on the start screen, which checks its files
\* again 1.4 s later.
Steps == {"first", "confirm", "writing", "written", "moved", "recheck"}
Sessions == [seed : Seeds, pin : Pins \cup {Null}, step : Steps]

\* No seed, no PIN, no file and no conversation is Null.
ASSUME SeedAssumption ==
    Null \notin Seeds \cup Pins \cup [seed : Seeds, pin : Pins] \cup Sessions

Conversation(s) == [seed |-> s, pin |-> Null, step |-> "first"]
At(i, step) == sessions[i] # Null /\ sessions[i].step = step
NoSession == [i \in Slots |-> Null]

\* The UI thread is inside writeSeedFile.
Busy == \E i \in Slots : At(i, "writing") \/ At(i, "written") \/ At(i, "moved")

Init ==
    /\ plain \in Seeds \cup {Null}
    /\ temp = Null /\ sealed = Null
    /\ pin = Null
    /\ activity = "startup"
    /\ sessions = NoSession

-----------------------------------------------------------------------------
\* Which files are there? A seed that is only in clear is to be encrypted; next
\* to an encrypted one it is deleted. Slot i is free for the conversation, which
\* does not begin if the file cannot be read.
checkWalletDatadir(i) ==
    /\ plain' = IF sealed = Null THEN plain ELSE Null
    /\ \E c \in IF plain # Null /\ sealed = Null THEN {Conversation(plain), Null} ELSE {Null} :
           sessions' = [sessions EXCEPT ![i] = c]

\* Mutant of checkup: an encrypted seed is enough.
checkupSealedFirst(i) ==
    /\ activity = "startup" /\ sessions[i] = Null /\ ~Busy
    /\ IF sealed = Null THEN checkWalletDatadir(i) ELSE UNCHANGED <<plain, sessions>>
    /\ activity' = IF sealed # Null THEN "pin" ELSE IF plain = Null THEN "pick" ELSE "idle"
    /\ UNCHANGED <<temp, sealed, pin>>

\* onResume of the start screen goes on only if nothing but an encrypted seed
\* was found.
checkup(i) ==
    /\ activity = "startup" /\ sessions[i] = Null /\ ~Busy
    /\ checkWalletDatadir(i)
    /\ activity' = IF plain # Null THEN "idle" ELSE IF sealed = Null THEN "pick" ELSE "pin"
    /\ UNCHANGED <<temp, sealed, pin>>

Resume ==
    /\ activity \in {"pick", "idle", "pin"} /\ ~Busy
    /\ activity' = "startup"
    /\ UNCHANGED <<plain, temp, sealed, pin, sessions>>

\* readSeedFile with the PIN in memory, or the one typed when there is none. A
\* wrong one is forgotten. The start screen ends with its dialogs.
Unlock(p) ==
    /\ activity = "pin" /\ ~Busy /\ pin \in {Null, p}
    /\ IF sealed.pin = p
       THEN pin' = p /\ activity' = "wallet" /\ sessions' = NoSession
       ELSE pin' = Null /\ UNCHANGED <<activity, sessions>>
    /\ UNCHANGED <<plain, temp, sealed>>

-----------------------------------------------------------------------------
\* Creating and restoring a wallet, and changing its PIN.

Pick(a) ==
    /\ activity = "pick"
    /\ activity' = a
    /\ UNCHANGED <<plain, temp, sealed, pin, sessions>>

\* The form has its words, and its passphrase if any: the seed is computed and
\* handed to encryptWallet, whose dialogs are modal.
encryptSeed(i, s) ==
    /\ activity \in {"create", "restore"} /\ sessions = NoSession
    /\ sessions' = [sessions EXCEPT ![i] = Conversation(s)]
    /\ UNCHANGED <<plain, temp, sealed, pin, activity>>

\* Cancelled, or 1.7 s after the success.
goToStartup ==
    /\ activity \in {"create", "restore", "complete"} /\ ~Busy
    /\ activity' = "startup" /\ sessions' = NoSession
    /\ UNCHANGED <<plain, temp, sealed, pin>>

\* The current PIN is asked first, and decrypts the seed.
changePassword(i, p) ==
    /\ activity = "wallet" /\ sessions[i] = Null /\ ~Busy
    /\ sealed.pin = p
    /\ sessions' = [sessions EXCEPT ![i] = Conversation(sealed.seed)]
    /\ UNCHANGED <<plain, temp, sealed, pin, activity>>

-----------------------------------------------------------------------------
\* encryptWallet and writeSeedFile.

EnterFirst(i, p) ==
    /\ At(i, "first") /\ ~Busy
    /\ sessions' = [sessions EXCEPT ![i].pin = p, ![i].step = "confirm"]
    /\ UNCHANGED <<plain, temp, sealed, pin, activity>>

\* The sixth digit is entered twice within 300 ms: the callback of the dialog
\* will fire twice, and the conversation goes on twice.
EnterTwice(i, j) ==
    /\ At(i, "first") \/ At(i, "confirm")
    /\ sessions[j] = Null /\ ~Busy
    /\ sessions' = [sessions EXCEPT ![j] = sessions[i]]
    /\ UNCHANGED <<plain, temp, sealed, pin, activity>>

\* onEncryptSeedFailure.
Failed(i) ==
    sessions' = IF activity \in {"idle", "pin", "startup"}
                THEN [sessions EXCEPT ![i].step = "recheck"]
                ELSE [sessions EXCEPT ![i] = Null]

\* Mutant of EnterConfirm: the seed file is opened for writing in place.
EnterConfirmInPlace(i, p) ==
    /\ At(i, "confirm") /\ ~Busy
    /\ IF sessions[i].pin = p
       THEN sessions' = [sessions EXCEPT ![i].step = "writing"] /\ temp' = Garbage /\ sealed' = Null
       ELSE Failed(i) /\ UNCHANGED <<temp, sealed>>
    /\ UNCHANGED <<plain, pin, activity>>

\* The temp file is created if both PINs are the same.
EnterConfirm(i, p) ==
    /\ At(i, "confirm") /\ ~Busy
    /\ IF sessions[i].pin = p
       THEN sessions' = [sessions EXCEPT ![i].step = "writing"] /\ temp' = Garbage
       ELSE Failed(i) /\ UNCHANGED temp
    /\ UNCHANGED <<plain, sealed, pin, activity>>

\* Only the dialogs that change a PIN are cancelable.
Cancel(i) ==
    /\ At(i, "first") \/ At(i, "confirm")
    /\ activity = "wallet" /\ ~Busy
    /\ sessions' = [sessions EXCEPT ![i] = Null]
    /\ UNCHANGED <<plain, temp, sealed, pin, activity>>

\* The temp file is complete, or what will be read is not what was written.
WriteTemp(i) ==
    /\ At(i, "writing")
    /\ temp' \in {Sealed(sessions[i].seed, sessions[i].pin), Garbage}
    /\ sessions' = [sessions EXCEPT ![i].step = "written"]
    /\ UNCHANGED <<plain, sealed, pin, activity>>

\* Mutant of CheckAndMove: the temp file is not checked.
MoveUnchecked(i) ==
    /\ At(i, "written")
    /\ sealed' = temp /\ temp' = Null
    /\ sessions' = [sessions EXCEPT ![i].step = "moved"]
    /\ UNCHANGED <<plain, pin, activity>>

\* The temp file is decrypted again, and moved if it holds the seed.
CheckAndMove(i) ==
    /\ At(i, "written")
    /\ temp = Sealed(sessions[i].seed, sessions[i].pin)
    /\ sealed' = temp /\ temp' = Null
    /\ sessions' = [sessions EXCEPT ![i].step = "moved"]
    /\ UNCHANGED <<plain, pin, activity>>

\* An exception in writeSeedFile, the failed comparison included.
WriteFails(i) ==
    /\ At(i, "writing") \/ At(i, "written")
    /\ Failed(i)
    /\ UNCHANGED <<plain, temp, sealed, pin, activity>>

\* Mutant of Succeed: the PIN in memory is not replaced.
SucceedOldPin(i) ==
    /\ At(i, "moved")
    /\ IF activity \in {"idle", "pin", "startup"}
       THEN checkWalletDatadir(i) /\ UNCHANGED activity
       ELSE /\ sessions' = [sessions EXCEPT ![i] = Null]
            /\ activity' = IF activity = "wallet" THEN activity ELSE "complete"
            /\ UNCHANGED plain
    /\ UNCHANGED <<temp, sealed, pin>>

\* app.pin.set and onEncryptSeedSuccess, which on the start screen only checks
\* the files.
Succeed(i) ==
    /\ At(i, "moved")
    /\ pin' = sessions[i].pin
    /\ IF activity \in {"idle", "pin", "startup"}
       THEN checkWalletDatadir(i) /\ UNCHANGED activity
       ELSE /\ sessions' = [sessions EXCEPT ![i] = Null]
            /\ activity' = IF activity = "wallet" THEN activity ELSE "complete"
            /\ UNCHANGED plain
    /\ UNCHANGED <<temp, sealed>>

\* 1.4 s after onEncryptSeedFailure on the start screen.
Recheck(i) ==
    /\ At(i, "recheck") /\ ~Busy
    /\ checkWalletDatadir(i)
    /\ UNCHANGED <<temp, sealed, pin, activity>>

\* The process dies and the application is opened again: the files remain.
Crash ==
    /\ pin' = Null /\ sessions' = NoSession /\ activity' = "startup"
    /\ UNCHANGED <<plain, temp, sealed>>

-----------------------------------------------------------------------------
Step(i) ==
    \/ checkup(i)
    \/ \E s \in Seeds : encryptSeed(i, s)
    \/ \E p \in Pins : changePassword(i, p) \/ EnterFirst(i, p) \/ EnterConfirm(i, p)
    \/ Cancel(i) \/ Recheck(i)
    \/ WriteTemp(i) \/ CheckAndMove(i) \/ WriteFails(i) \/ Succeed(i)

Next ==
    \/ \E i \in Slots : Step(i)
    \/ \E i, j \in Slots : EnterTwice(i, j)
    \/ \E p \in Pins : Unlock(p)
    \/ \E a \in {"create", "restore"} : Pick(a)
    \/ Resume \/ goToStartup \/ Crash

Spec == Init /\ [][Next]_vars

-----------------------------------------------------------------------------
\* The columns of the state. No file but the temp file is ever unreadable.
TypeOK ==
    /\ plain \in Seeds \cup {Null}
    /\ temp \in [seed : Seeds, pin : Pins] \cup {Null, Garbage}
    /\ sealed \in [seed : Seeds, pin : Pins] \cup {Null}
    /\ pin \in Pins \cup {Null}
    /\ activity \in Activities
    /\ sessions \in [Slots -> Sessions \cup {Null}]

\* Whatever dies and fails on the way, and however many conversations overlap,
\* the files implement the promise: the seed of a wallet is never lost nor
\* replaced, and once protected it stays so. The seed of a wallet is the
\* encrypted one, which "is the reference", or else the one in clear.
Vault == INSTANCE SeedVault WITH
    seed <- IF sealed = Null THEN plain ELSE sealed.seed,
    key <- IF sealed = Null THEN Null ELSE sealed.pin

ImplementsVault == Vault!VaultSpec

\* The PIN in memory, which sensitive actions are compared with and a restart
\* of the node uses, opens the file: it is set only by a read that succeeded or
\* after the move, and no overlapping conversation leaves an older one.
PinOpensSeed == pin # Null /\ ~Busy => sealed # Null /\ sealed.pin = pin

\* A wallet is opened only when its seed is on the disk in no other form than
\* encrypted: the file in clear is deleted first, after a crash between the
\* move and the deletion too.
OpenedIsSealed == activity = "wallet" => plain = Null /\ sealed # Null
=============================================================================
