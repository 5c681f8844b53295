------------------------------- MODULE DbCopy -------------------------------
(***************************************************************************)
(* backup and restore of NativeDB.c: a database copied to a file or back,  *)
(* a hundred pages at a time, while other connections may write to what is *)
(* copied.  SQLite starts a copy again when its source was changed, leaves *)
(* the destination as it was until the last page, and records a failure in *)
(* the destination's connection.                                           *)
(***************************************************************************)
EXTENDS Integers

CONSTANTS MaxChunks,    \* hundreds of pages in a database
          MaxWrites     \* bound: changes of a source during copies

ASSUME CopyAssumption == MaxChunks \in Nat \ {0} /\ MaxWrites \in Nat

VARIABLES content,      \* of the database and of the file: a version
          writes,
          copy,         \* the call that runs
          copied        \* what the last call returned, and what it saw

copyVars == <<content, writes, copy, copied>>

Idle   == [op |-> "idle", at |-> "open", seen |-> 0, left |-> 0, tries |-> 0, rc |-> "ok",
           before |-> 0, during |-> {}]
NoCopy == [op |-> "none", rc |-> "ok", done |-> FALSE, before |-> 0, during |-> {}, tries |-> 0]

Source(op) == IF op = "backup" THEN "database" ELSE "file"
Target(op) == IF op = "backup" THEN "file" ELSE "database"

\* A closed database, a name that cannot be converted, a file that cannot be
\* opened: nothing is copied.
Finished(op, rc, done) ==
    /\ copied' = [op |-> op, rc |-> rc, done |-> done, before |-> copy.before,
                  during |-> copy.during, tries |-> copy.tries]
    /\ copy' = Idle

Begin(op) ==
    /\ copy = Idle
    /\ \/ \E rc \in {"misuse", "nomem", "cantopen"} :
             /\ copied' = [op |-> op, rc |-> rc, done |-> FALSE, before |-> content[Target(op)],
                           during |-> {content[Source(op)]}, tries |-> 0]
             /\ UNCHANGED copy
       \/ /\ copy' = [op |-> op, at |-> "init", seen |-> 0, left |-> 0, tries |-> 0, rc |-> "ok",
                       before |-> content[Target(op)], during |-> {content[Source(op)]}]
          /\ copied' = NoCopy
    /\ UNCHANGED <<content, writes>>

\* sqlite3_errcode of the connection made for the call, that of the file.
FileErrcode(op, rc) == IF Target(op) = "file" THEN rc ELSE "ok"

BackupInit ==
    /\ copy.at = "init"
    /\ \/ /\ Finished(copy.op, FileErrcode(copy.op, "error"), FALSE)
          /\ UNCHANGED content
       \/ /\ copy' = [copy EXCEPT !.at = "copy", !.left = MaxChunks, !.seen = content[Source(copy.op)]]
          /\ UNCHANGED <<content, copied>>
    /\ UNCHANGED writes

\* A step of the copy: some pages, the last ones, or none.
Chunk(rc) ==
    /\ copy.at = "copy"
    /\ LET source == content[Source(copy.op)]
           left   == (IF copy.seen = source THEN copy.left ELSE MaxChunks) - 1
       IN  CASE rc = "ok"   -> left > 0 /\ copy' = [copy EXCEPT !.left = left, !.seen = source]
             [] rc = "done" -> left = 0 /\ copy' = [copy EXCEPT !.left = 0, !.seen = source,
                                                                !.at = "finish", !.rc = "done"]
             [] OTHER       -> copy' = [copy EXCEPT !.at = "finish", !.rc = rc]
    /\ UNCHANGED <<writes, copied>>

\* backup goes on while a step is OK.
BackupStep ==
    /\ copy.op = "backup"
    /\ \E rc \in {"ok", "done", "busy", "error"} : Chunk(rc)
    /\ UNCHANGED content

\* restore also waits for a database that is busy, three times.
RestoreStep ==
    /\ copy.op = "restore"
    /\ \/ \E rc \in {"ok", "done", "error"} : Chunk(rc)
       \/ copy.tries >= 3 /\ Chunk("busy")
       \/ /\ copy.at = "copy" /\ copy.tries < 3
          /\ copy' = [copy EXCEPT !.tries = @ + 1]
          /\ UNCHANGED <<writes, copied>>
    /\ UNCHANGED content

\* Mutant: the connection asked for its error is the database's.
BackupRcOfDatabase == "ok"

\* The result of the steps is that of sqlite3_backup_finish.
BackupRc  == FileErrcode("backup", IF copy.rc = "done" THEN "ok" ELSE copy.rc)
RestoreRc == FileErrcode("restore", IF copy.rc = "done" THEN "ok" ELSE copy.rc)

BackupFinish ==
    /\ copy.at = "finish"
    /\ content' = IF copy.rc = "done" THEN [content EXCEPT ![Target(copy.op)] = copy.seen] ELSE content
    /\ Finished(copy.op, IF copy.op = "backup" THEN BackupRc ELSE RestoreRc, copy.rc = "done")
    /\ UNCHANGED writes

\* Someone writes to the source through another connection.
Write(store) ==
    /\ writes < MaxWrites
    /\ copy.at \in {"open", "init", "copy"}
    /\ copy.op # "idle" => store = Source(copy.op)
    /\ writes' = writes + 1
    /\ content' = [content EXCEPT ![store] = writes + 3]
    /\ copy' = IF copy = Idle THEN copy ELSE [copy EXCEPT !.during = @ \cup {writes + 3}]
    /\ copied' = NoCopy

CopyInit ==
    /\ content = [database |-> 1, file |-> 2]
    /\ writes = 0 /\ copy = Idle /\ copied = NoCopy

CopyNext ==
    \/ Begin("backup")
    \/ Begin("restore")
    \/ BackupInit
    \/ BackupStep
    \/ RestoreStep
    \/ BackupFinish
    \/ \E store \in {"database", "file"} : Write(store)

-----------------------------------------------------------------------------
\* A copy is whole or not made: its target is what it was, or what the source
\* was at one moment of the call, never a mixture.  A backup returns OK exactly
\* if the copy was made, and no copy that was made is called a failure.
CopiesAreWhole ==
    copied.op # "none" =>
        /\ content[Target(copied.op)] \in
              (IF copied.done THEN copied.during ELSE {copied.before})
        /\ copied.done => copied.rc = "ok"
        /\ copied.op = "backup" /\ copied.rc = "ok" => copied.done
=============================================================================
