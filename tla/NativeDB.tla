------------------------------ MODULE NativeDB ------------------------------
(***************************************************************************)
(* The native half of the node's JDBC driver, NativeDB.c: databases,       *)
(* statements and the Java functions that SQL can call.                    *)
(*                                                                         *)
(* A Java object keeps C pointers as numbers, and C keeps references to    *)
(* Java objects; nothing but the order of the calls makes them valid.  So  *)
(* each operation says which C objects and references it uses, and         *)
(* `dangling' remembers whether one of them was gone by then.              *)
(*                                                                         *)
(* The other half of the driver is a jar.  What is assumed of it: one      *)
(* thread at a time; a statement it finalized has the pointer 0; it closes *)
(* by finalizing the statements, free_functions, then _close; functions    *)
(* and handlers are given to open databases only, and a progress handler   *)
(* is cleared only where it is registered.                                 *)
(***************************************************************************)
EXTENDS Integers, Sequences, FiniteSets

CONSTANTS Dbs,          \* objects of class NativeDB
          Functions,    \* objects of class Function
          Aggregates,   \* those of class Function.Aggregate
          Names,        \* names of SQL functions
          NoText,       \* null, or a text for which there is no memory
          Stmts,        \* prepared statements; each calls one function
          HandlerDbs,   \* databases with a progress or busy handler
          MaxUdfs, MaxRows, MaxArgs, MaxCalls, MaxDepth     \* bounds

\* An aggregate is cloned for each statement that computes it: a new object.
CloneOf(s) == <<s>>

ASSUME NativeAssumption ==
    /\ Aggregates \subseteq Functions /\ HandlerDbs \subseteq Dbs
    /\ NoText \notin Names \cup Dbs
    /\ \A s \in Stmts : CloneOf(s) \notin Functions
    /\ MaxUdfs \in Nat /\ MaxRows \in Nat /\ MaxArgs \in Nat
    /\ MaxCalls \in Nat /\ MaxDepth \in Nat

VARIABLES db,         \* of each database: the Java object and the sqlite3 one
          udf,        \* every UDFData ever allocated
          stmt,
          field,      \* the fields context, value and args of a Function
          frames,     \* calls of Java functions that have not returned
          calls,      \* how many there have been
          handler,    \* progress_handler_context and busyHandlerContext
          returned,   \* the call that returned last
          answer,     \* of the last native method: what it returns and throws
          dangling

vars == <<db, udf, stmt, field, frames, calls, handler, returned, answer, dangling>>

-----------------------------------------------------------------------------
Closed  == [handle |-> FALSE, open |-> FALSE, driver |-> "closed",
            registry |-> [n \in Names |-> 0], list |-> <<>>,
            progress |-> FALSE, busy |-> FALSE]
NoStmt  == [pointer |-> FALSE, db |-> NoText, name |-> NoText,
            phase |-> "none", rows |-> 0, clone |-> "none"]
Cleared == [context |-> 0, value |-> 0, args |-> 0]
Error   == -1       \* of a call; otherwise what its code gave it, or 0, null
NoCall  == [result |-> 0, id |-> 0, said |-> FALSE, nested |-> FALSE, threw |-> FALSE]

Objects == Functions \cup {CloneOf(s) : s \in Stmts}

Top == frames[Len(frames)]

Alive(kind, x) ==
    CASE kind = "db"       -> db[x].open
      [] kind = "stmt"     -> stmt[x].phase # "none"
      [] kind = "udf"      -> udf[x].live
      [] kind = "context"  -> \E i \in DOMAIN frames : frames[i].id = x
      [] kind = "clone"    -> stmt[x].clone = "live"
      [] kind = "handler"  -> handler[x] = "live"

Use(kind, x) == dangling' = (dangling \/ ~Alive(kind, x))

Answer(ret, thrown) == answer' = [ret |-> ret, thrown |-> thrown]
Refused(ret, thrown) == Answer(ret, thrown) /\ UNCHANGED dangling

throwex_db_closed(ret)      == Refused(ret, "The database has been closed")
throwex_stmt_finalized(ret) == Refused(ret, "The prepared statement has been finalized")
throwex_outofmemory(ret)    == Refused(ret, "Out of memory")

-----------------------------------------------------------------------------
\* Databases

\* An open database is closed and left with its handle; the driver drops it.
OpenUtf8(d, file) ==
    /\ IF db[d].handle
       THEN /\ Refused("void", "DB already open")
            /\ db' = [db EXCEPT ![d].open = \E s \in Stmts : stmt[s].db = d,
                                ![d].driver = "dropped"]
       ELSE \/ file = NoText /\ Refused("void", "none") /\ UNCHANGED db
            \/ file # NoText /\ Refused("void", "error code") /\ UNCHANGED db
            \/ /\ file # NoText /\ Refused("void", "none")
               /\ db' = [db EXCEPT ![d].handle = TRUE, ![d].open = TRUE,
                                   ![d].driver = "open"]
    /\ UNCHANGED <<udf, stmt, field, frames, calls, handler, returned>>

\* sqlite3_close refuses while a statement is left; the handle is given up anyway.
Close(d) ==
    /\ IF ~db[d].handle
       THEN Refused("void", "none") /\ UNCHANGED db
       ELSE LET busy == \E s \in Stmts : stmt[s].db = d
            IN  /\ Use("db", d)
                /\ Answer("void", IF busy THEN "error of the database" ELSE "none")
                /\ db' = [db EXCEPT ![d] = IF busy THEN [@ EXCEPT !.handle = FALSE]
                                           ELSE [Closed EXCEPT !.list = db[d].list]]
    /\ UNCHANGED <<udf, stmt, field, frames, calls, handler, returned>>

OnDatabase(d) ==
    /\ IF ~db[d].handle THEN throwex_db_closed("0")
       ELSE Use("db", d) /\ Answer("sqlite", "none")
    /\ UNCHANGED <<db, udf, stmt, field, frames, calls, handler, returned>>

EnableLoadExtension(d)  == OnDatabase(d)
InterruptOrTimeout(d)   == OnDatabase(d)
ErrmsgOrChanges(d)      == OnDatabase(d)

-----------------------------------------------------------------------------
\* Statements

PrepareUtf8(d, s, name) ==
    /\ stmt[s] = NoStmt
    /\ IF ~db[d].handle
       THEN throwex_db_closed("0") /\ UNCHANGED stmt
       ELSE IF name = NoText
       THEN Refused("0", "none") /\ UNCHANGED stmt
       ELSE /\ Use("db", d)
            /\ IF db[d].registry[name] = 0          \* no such function
               THEN Answer("0", "error code") /\ UNCHANGED stmt
               ELSE /\ Answer("stmt", "none")
                    /\ stmt' = [stmt EXCEPT ![s] = [NoStmt EXCEPT !.pointer = TRUE,
                                   !.db = d, !.name = name, !.phase = "ready"]]
    /\ UNCHANGED <<db, udf, field, frames, calls, handler, returned>>

\* SQL that calls no function.
ExecUtf8(d, sql) ==
    /\ IF ~db[d].handle THEN Refused("misuse", "error code")
       ELSE IF sql = NoText THEN Refused("error", "none")
       ELSE /\ Use("db", d)
            /\ \/ Answer("ok", "none")
               \/ Answer("status", "error code")
    /\ UNCHANGED <<db, udf, stmt, field, frames, calls, handler, returned>>

\* A method that needs the statement only.
OnStatement(s, ret) ==
    /\ IF ~stmt[s].pointer THEN throwex_stmt_finalized(ret)
       ELSE Use("stmt", s) /\ Answer("sqlite", "none")
    /\ UNCHANGED <<db, udf, stmt, field, frames, calls, handler, returned>>

CountsAndTypes(s)  == OnStatement(s, "misuse")
ColumnNames(s)     == OnStatement(s, "null")
ColumnNumbers(s)   == OnStatement(s, "0")
BindNumbers(s)     == OnStatement(s, "misuse")

BindText(s, text) ==
    IF stmt[s].pointer /\ text = NoText
    THEN Refused("error", "none")
         /\ UNCHANGED <<db, udf, stmt, field, frames, calls, handler, returned>>
    ELSE OnStatement(s, "misuse")

\* Without memory it answers 0, which is SQLITE_OK, and throws.
BindBlob(s, blob) ==
    IF stmt[s].pointer /\ blob = NoText
    THEN throwex_outofmemory("ok")
         /\ UNCHANGED <<db, udf, stmt, field, frames, calls, handler, returned>>
    ELSE OnStatement(s, "misuse")

\* A method that needs the database and one of its statements; column is what
\* SQLite finds there, NoText if it has no memory for it.
ColumnOf(d, s, column) ==
    /\ IF ~db[d].handle THEN throwex_db_closed("null")
       ELSE IF ~stmt[s].pointer THEN throwex_stmt_finalized("null")
       ELSE /\ dangling' = (dangling \/ ~Alive("stmt", s) \/ ~Alive("db", d))
            /\ IF column = NoText THEN Answer("null", "Out of memory")
               ELSE Answer("sqlite", "none")
    /\ UNCHANGED <<db, udf, stmt, field, frames, calls, handler, returned>>

ColumnText(d, s, column)     == ColumnOf(d, s, column)
ColumnBlob(d, s, column)     == ColumnOf(d, s, column)
ColumnMetadata(d, s, column) == ColumnOf(d, s, column)

\* The function of a statement may have been destroyed since it was prepared.
Step(s) ==
    /\ stmt[s].phase # "running"
    /\ IF ~stmt[s].pointer
       THEN throwex_stmt_finalized("misuse") /\ UNCHANGED stmt
       ELSE /\ Use("stmt", s)
            /\ Answer("sqlite", "none")
            /\ IF db[stmt[s].db].registry[stmt[s].name] = 0
               THEN UNCHANGED stmt
               ELSE \E rows \in 0 .. MaxRows :
                       stmt' = [stmt EXCEPT ![s].phase = "running", ![s].rows = rows]
    /\ UNCHANGED <<db, udf, field, frames, calls, handler, returned>>

Reset(s) == stmt[s].phase # "running" /\ OnStatement(s, "misuse")

Finalize(s) ==
    /\ stmt[s].phase # "running"
    /\ IF ~stmt[s].pointer
       THEN throwex_stmt_finalized("misuse") /\ UNCHANGED stmt
       ELSE /\ Use("stmt", s)
            /\ Answer("sqlite", "none")
            /\ stmt' = [stmt EXCEPT ![s] = NoStmt]
    /\ UNCHANGED <<db, udf, field, frames, calls, handler, returned>>

-----------------------------------------------------------------------------
\* Functions

\* The UDFData is on the list of the database before anything can fail.
CreateFunctionUtf8(d, name, f) ==
    /\ Len(udf) < MaxUdfs
    /\ LET u    == Len(udf) + 1
           busy == \E s \in Stmts : stmt[s].db = d /\ stmt[s].phase = "running"
           linked == [db EXCEPT ![d].list = <<u>> \o @]
       IN  \/ throwex_outofmemory("ok") /\ UNCHANGED <<db, udf>>
           \/ /\ udf' = Append(udf, [func |-> f, live |-> TRUE])
              /\ IF name = NoText
                 THEN throwex_outofmemory("ok") /\ db' = linked
                 ELSE /\ Use("db", d)
                      /\ IF busy /\ db[d].registry[name] # 0
                         THEN Answer("busy", "none") /\ db' = linked
                         ELSE /\ Answer("ok", "none")
                              /\ db' = [linked EXCEPT ![d].registry[name] = u]
    /\ UNCHANGED <<stmt, field, frames, calls, handler, returned>>

DestroyFunctionUtf8(d, name) ==
    /\ IF name = NoText
       THEN throwex_outofmemory("ok") /\ UNCHANGED db
       ELSE /\ Use("db", d)
            /\ IF \E s \in Stmts : stmt[s].db = d /\ stmt[s].phase = "running"
               THEN Answer("busy", "none") /\ UNCHANGED db
               ELSE Answer("ok", "none") /\ db' = [db EXCEPT ![d].registry[name] = 0]
    /\ UNCHANGED <<udf, stmt, field, frames, calls, handler, returned>>

\* Walks the list, each element used before it is freed.
FreeFunctions(d) ==
    /\ dangling' = (dangling \/ \E i \in DOMAIN db[d].list : ~Alive("udf", db[d].list[i]))
    /\ udf' = [u \in DOMAIN udf |->
                 IF \E i \in DOMAIN db[d].list : db[d].list[i] = u
                 THEN [udf[u] EXCEPT !.live = FALSE] ELSE udf[u]]
    /\ db' = [db EXCEPT ![d].list = <<>>, ![d].driver = "closing"]
    /\ Answer("void", "none")
    /\ UNCHANGED <<stmt, field, frames, calls, handler, returned>>

\* Mutant: the fields of an object that is in a call already are kept.
SetFieldsOnce(object, context, value, args) ==
    field' = [field EXCEPT ![object] = IF @ = Cleared
                 THEN [context |-> context, value |-> value, args |-> args] ELSE @]

SetFields(object, context, value, args) ==
    field' = [field EXCEPT ![object] = [context |-> context, value |-> value, args |-> args]]

\* SQLite calls a function of s: the fields of the object are set for the call
\* and, if it is in a call already, replaced.
xCall(s, u, object, kind, args) ==
    /\ calls < MaxCalls /\ Len(frames) < MaxDepth
    /\ calls' = calls + 1
    /\ SetFields(object, calls', IF kind = "xFinal" THEN 0 ELSE calls', args)
    /\ frames' = Append([i \in DOMAIN frames |->
                            [frames[i] EXCEPT !.nested = @ \/ frames[i].object = object]],
                        [id |-> calls', stmt |-> s, object |-> object, kind |-> kind,
                         result |-> 0, said |-> FALSE, nested |-> FALSE])
    /\ Use("udf", u)
    /\ returned' = NoCall
    /\ UNCHANGED <<db, udf, handler, answer>>

\* The statements that SQLite is in the middle of, called by no function.
MayCall(s) ==
    /\ stmt[s].phase = "running"
    /\ \A i \in DOMAIN frames : frames[i].stmt # s

UdfOf(s) == db[stmt[s].db].registry[stmt[s].name]
IsAggregate(s) == udf[UdfOf(s)].func \in Aggregates

xFunc(s) ==
    /\ MayCall(s) /\ ~IsAggregate(s) /\ stmt[s].rows > 0
    /\ \E args \in 0 .. MaxArgs : xCall(s, UdfOf(s), udf[UdfOf(s)].func, "xFunc", args)
    /\ UNCHANGED stmt

xStep(s) ==
    /\ MayCall(s) /\ IsAggregate(s) /\ stmt[s].rows > 0
    /\ \E args \in 0 .. MaxArgs : xCall(s, UdfOf(s), CloneOf(s), "xStep", args)
    /\ stmt' = [stmt EXCEPT ![s].clone = "live"]

\* Without a row there is no clone: the object itself is called, where the
\* assertion is not compiled.
xFinal(s) ==
    /\ MayCall(s) /\ IsAggregate(s) /\ stmt[s].rows = 0
    /\ xCall(s, UdfOf(s),
             IF stmt[s].clone = "live" THEN CloneOf(s) ELSE udf[UdfOf(s)].func, "xFinal", 0)
    /\ UNCHANGED stmt

StepDone(s) ==
    /\ MayCall(s) /\ ~IsAggregate(s) /\ stmt[s].rows = 0
    /\ stmt' = [stmt EXCEPT ![s].phase = "ready"]
    /\ UNCHANGED <<db, udf, field, frames, calls, handler, returned, answer, dangling>>

\* The message may be missing or not convertible: it is an error anyway.
xFunc_error(result, threw) == IF threw THEN Error ELSE result

\* Mutant: the context is left in the object.
xCallEndWithContext(object) == field' = [field EXCEPT ![object].value = 0, ![object].args = 0]

\* Back in xCall: an exception becomes the error of the call, the fields are
\* cleared, and xFinal drops the clone.  An error ends the rows.
xCallEnd(object) == field' = [field EXCEPT ![object] = Cleared]

Return(threw) ==
    /\ frames # <<>>
    /\ xCallEnd(Top.object)
    /\ frames' = SubSeq(frames, 1, Len(frames) - 1)
    /\ returned' = [result |-> xFunc_error(Top.result, threw), id |-> Top.id, said |-> Top.said,
                    nested |-> Top.nested, threw |-> threw]
    /\ LET s == Top.stmt
       IN  IF Top.kind = "xFinal"
           THEN /\ stmt' = [stmt EXCEPT ![s].clone = "none", ![s].phase = "ready"]
                /\ IF Top.object = CloneOf(s) THEN Use("clone", s) ELSE UNCHANGED dangling
           ELSE /\ stmt' = [stmt EXCEPT ![s].rows = IF threw THEN 0 ELSE @ - 1]
                /\ UNCHANGED dangling
    /\ UNCHANGED <<db, udf, calls, handler, answer>>

\* A result goes to the call whose context the object has now, if any.
Result(object) ==
    /\ LET c == field[object].context
       IN  IF c = 0
           THEN /\ UNCHANGED dangling
                /\ frames' = [frames EXCEPT ![Len(frames)].said = TRUE]
           ELSE /\ Use("context", c)
                /\ frames' = [i \in DOMAIN frames |->
                     [frames[i] EXCEPT !.result = IF frames[i].id = c THEN Top.id ELSE @,
                                       !.said   = @ \/ i = Len(frames)]]
    /\ Answer("void", "none")
    /\ UNCHANGED <<db, udf, stmt, field, calls, handler, returned>>

\* A text for which there is no memory is an error of the call.
ResultText(object, text) ==
    IF text = NoText /\ field[object].context # 0
    THEN /\ Use("context", field[object].context)
         /\ frames' = [i \in DOMAIN frames |->
              [frames[i] EXCEPT !.result = IF frames[i].id = field[object].context THEN Error ELSE @,
                                !.said   = @ /\ i # Len(frames)]]
         /\ Answer("void", "none")
         /\ UNCHANGED <<db, udf, stmt, field, calls, handler, returned>>
    ELSE Result(object)

\* Which argument an object may look at, and what it is told otherwise.
tovalue(object, arg) ==
    IF arg < 0 THEN "negative arg out of range"
    ELSE IF field[object].value = 0 THEN "no current value"
    ELSE IF arg >= field[object].args THEN "arg out of range"
    ELSE "none"

Value(object, arg) ==
    /\ IF tovalue(object, arg) # "none"
       THEN Refused("0", tovalue(object, arg))
       ELSE Use("context", field[object].value) /\ Answer("sqlite", "none")
    /\ UNCHANGED <<db, udf, stmt, field, frames, calls, handler, returned>>

\* The driver asks for the type of arguments that there are.
ValueType(object, arg) ==
    /\ tovalue(object, arg) = "none"
    /\ Value(object, arg)

-----------------------------------------------------------------------------
\* Handlers: one context of each kind for all the databases

BusyHandler(d, some) ==
    /\ handler' = [handler EXCEPT !.busy = IF some THEN "live" ELSE @]
    /\ IF ~db[d].handle
       THEN throwex_db_closed("void") /\ UNCHANGED db
       ELSE /\ Use("db", d) /\ Answer("void", "none")
            /\ db' = [db EXCEPT ![d].busy = some]
    /\ UNCHANGED <<udf, stmt, field, frames, calls, returned>>

RegisterProgressHandler(d) ==
    /\ handler' = [handler EXCEPT !.progress = "live"]
    /\ Use("db", d) /\ Answer("void", "none")
    /\ db' = [db EXCEPT ![d].progress = TRUE]
    /\ UNCHANGED <<udf, stmt, field, frames, calls, returned>>

ClearProgressHandler(d) ==
    /\ dangling' = (dangling \/ ~Alive("db", d) \/ ~Alive("handler", "progress"))
    /\ handler' = [handler EXCEPT !.progress = "deleted"]
    /\ db' = [db EXCEPT ![d].progress = FALSE]
    /\ Answer("void", "none")
    /\ UNCHANGED <<udf, stmt, field, frames, calls, returned>>

\* SQLite calls the handler of a database in the middle of a statement.
CallBack(s, kind) ==
    /\ Use("handler", kind)
    /\ UNCHANGED <<db, udf, stmt, field, frames, calls, handler, returned, answer>>

ProgressHandlerFunction(s) == MayCall(s) /\ db[stmt[s].db].progress /\ CallBack(s, "progress")
BusyHandlerCallBack(s)     == MayCall(s) /\ db[stmt[s].db].busy /\ CallBack(s, "busy")

-----------------------------------------------------------------------------
NativeInit ==
    /\ db = [d \in Dbs |-> Closed]
    /\ udf = <<>>
    /\ stmt = [s \in Stmts |-> NoStmt]
    /\ field = [o \in Objects |-> Cleared]
    /\ frames = <<>> /\ calls = 0
    /\ handler = [progress |-> "none", busy |-> "none"]
    /\ returned = NoCall
    /\ answer = [ret |-> "void", thrown |-> "none"]
    /\ dangling = FALSE

\* The thread is in Java, not in the middle of a statement; a function uses the
\* database it was called from.
InJava == \A s \in Stmts : ~MayCall(s)
Serves(d) == InJava /\ \A i \in DOMAIN frames : stmt[frames[i].stmt].db = d

DatabaseNext(d) ==
    /\ db[d].driver \in {"closed", "open"} /\ Serves(d)
    /\ \/ \E file \in Names \cup {NoText} : frames = <<>> /\ OpenUtf8(d, file)
       \/ EnableLoadExtension(d)
       \/ InterruptOrTimeout(d)
       \/ ErrmsgOrChanges(d)
       \/ \E text \in Names \cup {NoText} : ExecUtf8(d, text)
       \/ d \in HandlerDbs /\ \E some \in BOOLEAN : BusyHandler(d, some)

OpenDatabaseNext(d) ==
    /\ db[d].driver = "open" /\ Serves(d)
    /\ \/ \E name \in Names \cup {NoText}, f \in Functions : CreateFunctionUtf8(d, name, f)
       \/ \E name \in Names \cup {NoText} : DestroyFunctionUtf8(d, name)
       \/ d \in HandlerDbs /\ RegisterProgressHandler(d)
       \/ db[d].progress /\ ClearProgressHandler(d)

CloseNext(d) ==
    /\ InJava /\ frames = <<>> /\ \A s \in Stmts : stmt[s].db # d
    /\ \/ db[d].driver = "open" /\ FreeFunctions(d)
       \/ db[d].driver \in {"closing", "closed"} /\ Close(d)

\* s is a statement of d, or was finalized.
StatementNext(d, s) ==
    /\ stmt[s].db \in {d, NoText} /\ db[d].driver \in {"closed", "open"} /\ Serves(d)
    /\ \/ \E name \in Names \cup {NoText} : PrepareUtf8(d, s, name)
       \/ Step(s)
       \/ Reset(s)
       \/ Finalize(s)
       \/ CountsAndTypes(s)
       \/ ColumnNames(s)
       \/ ColumnNumbers(s)
       \/ BindNumbers(s)
       \/ \E text \in Names \cup {NoText} :
             \/ BindText(s, text)
             \/ BindBlob(s, text)
             \/ ColumnText(d, s, text)
             \/ ColumnBlob(d, s, text)
             \/ ColumnMetadata(d, s, text)

CallNext(s) ==
    \/ xFunc(s)
    \/ xStep(s)
    \/ xFinal(s)
    \/ StepDone(s)
    \/ ProgressHandlerFunction(s)
    \/ BusyHandlerCallBack(s)

\* What the Java code of the running function does with its own object.
FunctionNext ==
    /\ InJava /\ frames # <<>>
    /\ \/ Result(Top.object)
       \/ \E text \in Names \cup {NoText} : ResultText(Top.object, text)
       \/ \E arg \in -1 .. MaxArgs : Value(Top.object, arg)
       \/ \E arg \in 0 .. MaxArgs : ValueType(Top.object, arg)
       \/ \E threw \in BOOLEAN : Return(threw)

NativeNext ==
    \/ \E d \in Dbs : DatabaseNext(d) \/ OpenDatabaseNext(d) \/ CloseNext(d)
    \/ \E d \in Dbs, s \in Stmts : StatementNext(d, s)
    \/ \E s \in Stmts : CallNext(s)
    \/ FunctionNext

NativeSpec == NativeInit /\ [][NativeNext]_vars

-----------------------------------------------------------------------------
\* Nothing is used after it is gone, and every UDFData is freed exactly once.
UsedIsAlive == ~dangling

Places(u) == {q \in Dbs \X (1 .. MaxUdfs) :
                 q[2] \in DOMAIN db[q[1]].list /\ db[q[1]].list[q[2]] = u}

UdfsAreOwned ==
    \A u \in DOMAIN udf : Cardinality(Places(u)) = (IF udf[u].live THEN 1 ELSE 0)

NothingDangles == UsedIsAlive /\ UdfsAreOwned

\* A call has the result its own code gave it last, or an error if that threw;
\* it may lose it, if its object was called again inside, but never takes
\* another's.
ResultsAreOfTheirCall ==
    /\ returned.result \in {0, Error, returned.id}
    /\ returned.threw => returned.result = Error
    /\ returned.said /\ ~returned.nested /\ ~returned.threw => returned.result = returned.id

-----------------------------------------------------------------------------
(* The inductive invariant behind NothingDangles and ResultsAreOfTheirCall. *)

Database == [handle : BOOLEAN, open : BOOLEAN,
             driver : {"closed", "open", "dropped", "closing"},
             registry : [Names -> Nat], list : Seq(Nat), progress : BOOLEAN, busy : BOOLEAN]

Statement == [pointer : BOOLEAN, db : Dbs \cup {NoText}, name : Names \cup {NoText},
              phase : {"none", "ready", "running"}, rows : 0 .. MaxRows,
              clone : {"none", "live"}]

Frame == [id : Nat \ {0}, stmt : Stmts, object : Objects, kind : {"xFunc", "xStep", "xFinal"},
          result : Int, said : BOOLEAN, nested : BOOLEAN]

NativeTypeOK ==
    /\ db \in [Dbs -> Database]
    /\ udf \in Seq([func : Functions, live : BOOLEAN]) /\ Len(udf) <= MaxUdfs
    /\ stmt \in [Stmts -> Statement]
    /\ field \in [Objects -> [context : Nat, value : Nat, args : 0 .. MaxArgs]]
    /\ frames \in Seq(Frame)
    /\ calls \in Nat
    /\ handler \in [progress : {"none", "live", "deleted"}, busy : {"none", "live"}]

\* The driver's idea of a database is C's; a registered function is on the
\* list, except of a database that is being closed.
DatabasesOK ==
    \A d \in Dbs :
        /\ db[d].driver = "closed" => ~db[d].handle
        /\ db[d].driver \in {"open", "closing"} => db[d].handle /\ db[d].open
        /\ db[d].driver # "closing" =>
             \A n \in Names : db[d].registry[n] # 0 =>
                \E i \in DOMAIN db[d].list : db[d].list[i] = db[d].registry[n]
        /\ db[d].progress => d \in HandlerDbs /\ handler.progress = "live"
        /\ db[d].busy => handler.busy = "live"

\* The lists are made of live UDFData, each in one place.
UdfsOK ==
    /\ \A d \in Dbs : Len(db[d].list) <= Len(udf)
    /\ \A d \in Dbs : \A i \in DOMAIN db[d].list :
          db[d].list[i] \in DOMAIN udf /\ udf[db[d].list[i]].live
    /\ \A u \in DOMAIN udf : udf[u].live =>
          \E d \in Dbs : \E i \in DOMAIN db[d].list : db[d].list[i] = u
    /\ \A d, e \in Dbs : \A i \in DOMAIN db[d].list, j \in DOMAIN db[e].list :
          db[d].list[i] = db[e].list[j] => d = e /\ i = j

\* A statement keeps its database from being freed, and a running one keeps
\* its function registered.
StmtsOK ==
    \A s \in Stmts :
        /\ stmt[s].phase = "none" => stmt[s] = NoStmt
        /\ stmt[s].phase # "none" =>
             /\ stmt[s].pointer /\ stmt[s].db \in Dbs /\ stmt[s].name \in Names
             /\ db[stmt[s].db].open /\ db[stmt[s].db].driver \in {"open", "dropped"}
        /\ stmt[s].phase = "running" => db[stmt[s].db].registry[stmt[s].name] # 0

\* A call is of a running statement that makes no other, and its result is its
\* own; the fields of its object are its own too, unless the object was called
\* again since.
FramesOK ==
    /\ \A i \in DOMAIN frames :
          LET f == frames[i]
          IN  /\ f.id <= calls
              /\ stmt[f.stmt].phase = "running"
              /\ f.kind # "xFinal" => stmt[f.stmt].rows > 0
              /\ f.kind = "xFinal" /\ f.object = CloneOf(f.stmt) => stmt[f.stmt].clone = "live"
              /\ f.result \in {0, Error, f.id}
              /\ f.said /\ ~f.nested => f.result = f.id
              /\ ~f.nested => field[f.object].context = f.id
    /\ \A i, j \in DOMAIN frames :
          i # j => frames[i].id # frames[j].id /\ frames[i].stmt # frames[j].stmt

\* The fields of an object are of the innermost call it is in.
FieldsOK ==
    \A o \in Objects :
        /\ field[o].value \in {0, field[o].context}
        /\ field[o].context # 0 =>
             \E i \in DOMAIN frames :
                /\ frames[i].id = field[o].context /\ frames[i].object = o
                /\ \A j \in DOMAIN frames : j > i => frames[j].object # o

NativeIInv ==
    /\ NativeTypeOK
    /\ DatabasesOK
    /\ UdfsOK
    /\ StmtsOK
    /\ FramesOK
    /\ FieldsOK
    /\ UsedIsAlive
    /\ ResultsAreOfTheirCall
=============================================================================
