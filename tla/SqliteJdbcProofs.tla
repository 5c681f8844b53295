-------------------------- MODULE SqliteJdbcProofs --------------------------
(***************************************************************************)
(* The native half of the JDBC driver.  NativeIInv is an inductive         *)
(* invariant of its methods: none uses a C object or a Java reference that *)
(* is gone, every UDFData is on one list until it is freed, and a call of  *)
(* a Java function has a result of its own.  The sizes of the sets and the *)
(* bounds are arbitrary, but only one database has handlers: their context *)
(* is one for all databases.  CopyIInv is one of backup and restore, which *)
(* never leave half a database, for any number of pages and of writes by   *)
(* other connections.                                                      *)
(***************************************************************************)
EXTENDS SqliteJdbc, SequenceTheorems, FiniteSetTheorems, TLAPS

OneHandlerDb == \A d, e \in HandlerDbs : d = e

\* A sequence whose elements are replaced one by one.
LEMMA MappedSeq ==
    ASSUME NEW S, NEW T, NEW q \in Seq(S), NEW r \in [DOMAIN q -> T]
    PROVE  r \in Seq(T) /\ Len(r) = Len(q) /\ DOMAIN r = DOMAIN q
  <1>1. Len(q) \in Nat /\ DOMAIN q = 1 .. Len(q)
    OBVIOUS
  <1>2. r \in Seq(T)
    BY <1>1, SeqDef
  <1>3. Len(r) \in Nat /\ DOMAIN r = 1 .. Len(r) /\ DOMAIN r = 1 .. Len(q)
    BY <1>1, <1>2
  <1>4. Len(r) = Len(q)
    BY <1>1, <1>3
  <1> QED
    BY <1>2, <1>3, <1>4

\* A sequence with one more element at its end.
LEMMA Appended ==
    ASSUME NEW S, NEW q \in Seq(S), NEW e \in S
    PROVE  /\ Append(q, e) \in Seq(S) /\ Len(Append(q, e)) = Len(q) + 1
           /\ DOMAIN q = 1 .. Len(q) /\ DOMAIN Append(q, e) = 1 .. Len(q) + 1
           /\ \A i \in DOMAIN q : Append(q, e)[i] = q[i]
           /\ Append(q, e)[Len(q) + 1] = e
  OBVIOUS

\* What each kind of use needs.
LEMMA AliveMeans ==
    /\ \A d \in Dbs : Alive("db", d) = db[d].open
    /\ \A s \in Stmts : Alive("stmt", s) = (stmt[s].phase # "none")
    /\ \A u : Alive("udf", u) = udf[u].live
    /\ \A c : Alive("context", c) = \E i \in DOMAIN frames : frames[i].id = c
    /\ \A s \in Stmts : Alive("clone", s) = (stmt[s].clone = "live")
    /\ \A k : Alive("handler", k) = (handler[k] = "live")
  BY DEF Alive

\* Using what is alive leaves nothing dangling.
LEMMA UseAlive ==
    ASSUME UsedIsAlive, NEW kind, NEW x, Use(kind, x), Alive(kind, x)
    PROVE  UsedIsAlive'
  BY DEF Use, UsedIsAlive

\* Refusing a call uses nothing.
LEMMA RefusedUses ==
    ASSUME UsedIsAlive, NEW ret, NEW thrown, Refused(ret, thrown)
    PROVE  UsedIsAlive'
  BY DEF Refused, UsedIsAlive

\* The fields of a database and of a statement.
LEMMA DatabaseTypes ==
    ASSUME NativeTypeOK, NEW d \in Dbs
    PROVE  /\ db[d] \in Database
           /\ db[d].handle \in BOOLEAN /\ db[d].open \in BOOLEAN
           /\ db[d].driver \in {"closed", "open", "dropped", "closing"}
           /\ db[d].registry \in [Names -> Nat] /\ db[d].list \in Seq(Nat)
           /\ db[d].progress \in BOOLEAN /\ db[d].busy \in BOOLEAN
  BY DEF NativeTypeOK, Database

LEMMA StatementTypes ==
    ASSUME NativeTypeOK, NEW s \in Stmts
    PROVE  /\ stmt[s] \in Statement
           /\ stmt[s].pointer \in BOOLEAN /\ stmt[s].db \in Dbs \cup {NoText}
           /\ stmt[s].name \in Names \cup {NoText}
           /\ stmt[s].phase \in {"none", "ready", "running"}
           /\ stmt[s].rows \in 0 .. MaxRows /\ stmt[s].clone \in {"none", "live"}
  BY DEF NativeTypeOK, Statement

LEMMA UdfTypes ==
    ASSUME NativeTypeOK, NEW u \in DOMAIN udf
    PROVE  udf[u] \in [func : Functions, live : BOOLEAN] /\ udf[u].func \in Functions
  <1>1. udf \in Seq([func : Functions, live : BOOLEAN])
    BY DEF NativeTypeOK
  <1>2. u \in 1 .. Len(udf)
    BY <1>1
  <1>3. udf[u] \in [func : Functions, live : BOOLEAN]
    BY <1>1, <1>2, ElementOfSeq
  <1> QED
    BY <1>3

LEMMA FrameTypes ==
    ASSUME NativeTypeOK, NEW i \in DOMAIN frames
    PROVE  /\ i \in 1 .. Len(frames) /\ frames[i] \in Frame
           /\ frames[i].id \in Nat \ {0} /\ frames[i].stmt \in Stmts
           /\ frames[i].object \in Objects /\ frames[i].kind \in {"xFunc", "xStep", "xFinal"}
           /\ frames[i].result \in Int /\ frames[i].said \in BOOLEAN
           /\ frames[i].nested \in BOOLEAN
  <1>1. frames \in Seq(Frame)
    BY DEF NativeTypeOK
  <1>2. i \in 1 .. Len(frames)
    BY <1>1
  <1>3. frames[i] \in Frame
    BY <1>1, <1>2, ElementOfSeq
  <1> QED
    BY <1>2, <1>3 DEF Frame

\* A statement that has a pointer is there, on an open database, and one that
\* has none is not.
LEMMA StatementThere ==
    ASSUME NativeIInv, NEW s \in Stmts
    PROVE  /\ stmt[s].pointer => stmt[s].phase # "none"
           /\ \A d \in Dbs : stmt[s].db = d => stmt[s].phase # "none"
           /\ stmt[s] = NoStmt => stmt[s].phase = "none"
  BY NativeAssumption DEF NativeIInv, StmtsOK, NoStmt

\* The driver's open or closing databases are open, and a closed one has no handle.
LEMMA HandleIsOpen ==
    ASSUME NativeIInv, NEW d \in Dbs, db[d].handle, db[d].driver # "dropped"
    PROVE  db[d].open /\ db[d].driver \in {"open", "closing"} /\ Alive("db", d)
  <1>1. db[d].driver \in {"closed", "open", "dropped", "closing"} /\ db[d].open \in BOOLEAN
    BY DatabaseTypes DEF NativeIInv
  <1>2. db[d].open /\ db[d].driver \in {"open", "closing"}
    BY <1>1 DEF NativeIInv, DatabasesOK
  <1> QED
    BY <1>2, AliveMeans

-----------------------------------------------------------------------------
(* Methods that leave the state as it is.                                  *)

LEMMA NothingMoves ==
    ASSUME NativeIInv, UsedIsAlive',
           UNCHANGED <<db, udf, stmt, field, frames, calls, handler, returned>>
    PROVE  NativeIInv'
  <1>1. NativeTypeOK' /\ DatabasesOK' /\ UdfsOK' /\ StmtsOK'
    BY DEF NativeIInv, NativeTypeOK, DatabasesOK, UdfsOK, StmtsOK
  <1>2. FramesOK' /\ FieldsOK' /\ ResultsAreOfTheirCall'
    BY DEF NativeIInv, FramesOK, FieldsOK, ResultsAreOfTheirCall
  <1> QED
    BY <1>1, <1>2 DEF NativeIInv

LEMMA OnDatabaseStep ==
    ASSUME NativeIInv, NEW d \in Dbs, db[d].driver # "dropped", OnDatabase(d)
    PROVE  NativeIInv'
  <1>1. UsedIsAlive'
    <2>1. CASE ~db[d].handle
      BY <2>1, RefusedUses DEF OnDatabase, throwex_db_closed, NativeIInv
    <2>2. CASE db[d].handle
      <3>1. Use("db", d) /\ Alive("db", d)
        BY <2>2, HandleIsOpen DEF OnDatabase
      <3> QED
        BY <3>1, UseAlive DEF NativeIInv
    <2> QED
      BY <2>1, <2>2
  <1> QED
    BY <1>1, NothingMoves DEF OnDatabase

LEMMA ExecUtf8Step ==
    ASSUME NativeIInv, NEW d \in Dbs, db[d].driver # "dropped", NEW sql, ExecUtf8(d, sql)
    PROVE  NativeIInv'
  <1>1. UsedIsAlive'
    <2>1. CASE ~db[d].handle \/ sql = NoText
      BY <2>1, RefusedUses DEF ExecUtf8, NativeIInv
    <2>2. CASE db[d].handle /\ sql # NoText
      <3>1. Use("db", d) /\ Alive("db", d)
        BY <2>2, HandleIsOpen DEF ExecUtf8
      <3> QED
        BY <3>1, UseAlive DEF NativeIInv
    <2> QED
      BY <2>1, <2>2
  <1> QED
    BY <1>1, NothingMoves DEF ExecUtf8

LEMMA OnStatementStep ==
    ASSUME NativeIInv, NEW s \in Stmts, NEW ret, OnStatement(s, ret)
    PROVE  NativeIInv'
  <1>1. UsedIsAlive'
    <2>1. CASE ~stmt[s].pointer
      BY <2>1, RefusedUses DEF OnStatement, throwex_stmt_finalized, NativeIInv
    <2>2. CASE stmt[s].pointer
      <3>1. Use("stmt", s) /\ Alive("stmt", s)
        BY <2>2, StatementThere, AliveMeans DEF OnStatement
      <3> QED
        BY <3>1, UseAlive DEF NativeIInv
    <2> QED
      BY <2>1, <2>2
  <1> QED
    BY <1>1, NothingMoves DEF OnStatement

LEMMA BindStep ==
    ASSUME NativeIInv, NEW s \in Stmts, NEW text, BindText(s, text) \/ BindBlob(s, text)
    PROVE  NativeIInv'
  <1>1. CASE OnStatement(s, "misuse")
    BY <1>1, OnStatementStep
  <1>2. ASSUME NEW ret, NEW thrown, Refused(ret, thrown),
               UNCHANGED <<db, udf, stmt, field, frames, calls, handler, returned>>
        PROVE  NativeIInv'
    BY <1>2, RefusedUses, NothingMoves DEF NativeIInv
  <1> QED
    BY <1>1, <1>2 DEF BindText, BindBlob, throwex_outofmemory

LEMMA ColumnOfStep ==
    ASSUME NativeIInv, NEW d \in Dbs, db[d].driver # "dropped", NEW s \in Stmts, NEW column,
           ColumnOf(d, s, column)
    PROVE  NativeIInv'
  <1>1. UsedIsAlive'
    <2>1. CASE ~db[d].handle
      BY <2>1, RefusedUses DEF ColumnOf, throwex_db_closed, NativeIInv
    <2>2. CASE db[d].handle /\ ~stmt[s].pointer
      BY <2>2, RefusedUses DEF ColumnOf, throwex_stmt_finalized, NativeIInv
    <2>3. CASE db[d].handle /\ stmt[s].pointer
      <3>1. Alive("db", d) /\ Alive("stmt", s)
        BY <2>3, HandleIsOpen, StatementThere, AliveMeans
      <3>2. dangling' = (dangling \/ ~Alive("stmt", s) \/ ~Alive("db", d))
        BY <2>3 DEF ColumnOf
      <3> QED
        BY <3>1, <3>2 DEF NativeIInv, UsedIsAlive
    <2> QED
      BY <2>1, <2>2, <2>3
  <1> QED
    BY <1>1, NothingMoves DEF ColumnOf

\* The callback of a handler finds the context that its database registered.
LEMMA CallBackStep ==
    ASSUME NativeIInv, NEW s \in Stmts,
           ProgressHandlerFunction(s) \/ BusyHandlerCallBack(s)
    PROVE  NativeIInv'
  <1>1. stmt[s].phase = "running" /\ stmt[s].db \in Dbs
    BY DEF ProgressHandlerFunction, BusyHandlerCallBack, MayCall, NativeIInv, StmtsOK
  <1>2. ASSUME NEW kind, CallBack(s, kind), handler[kind] = "live"
        PROVE  NativeIInv'
    BY <1>2, AliveMeans, UseAlive, NothingMoves DEF CallBack, NativeIInv
  <1>3. CASE ProgressHandlerFunction(s)
    BY <1>1, <1>2, <1>3 DEF ProgressHandlerFunction, NativeIInv, DatabasesOK
  <1>4. CASE BusyHandlerCallBack(s)
    BY <1>1, <1>2, <1>4 DEF BusyHandlerCallBack, NativeIInv, DatabasesOK
  <1> QED
    BY <1>3, <1>4

-----------------------------------------------------------------------------
(* Databases and handlers: the statements and the calls stay as they are.  *)

LEMMA CallsStay ==
    ASSUME NativeIInv, UNCHANGED <<stmt, field, frames, calls, returned>>,
           NativeTypeOK', DatabasesOK', UdfsOK', StmtsOK', UsedIsAlive'
    PROVE  NativeIInv'
  <1>1. FramesOK' /\ FieldsOK' /\ ResultsAreOfTheirCall'
    BY DEF NativeIInv, FramesOK, FieldsOK, ResultsAreOfTheirCall
  <1> QED
    BY <1>1 DEF NativeIInv

\* A database changes in what the lists and the statements do not see.
LEMMA SameLists ==
    ASSUME NativeIInv, UNCHANGED <<udf, stmt, field, frames, calls, returned>>,
           db' \in [Dbs -> Database], NativeTypeOK', DatabasesOK', UsedIsAlive',
           \A d \in Dbs : /\ db'[d].list = db[d].list /\ db'[d].registry = db[d].registry
                          /\ (\E s \in Stmts : stmt[s].db = d) =>
                                /\ db'[d].open = db[d].open
                                /\ db'[d].driver = db[d].driver \/ db'[d].driver = "dropped"
    PROVE  NativeIInv'
  <1>1. UdfsOK'
    BY DEF NativeIInv, UdfsOK
  <1>2. StmtsOK'
    <2> SUFFICES ASSUME NEW s \in Stmts
                 PROVE  /\ stmt[s].phase = "none" => stmt[s] = NoStmt
                        /\ stmt[s].phase # "none" =>
                             /\ stmt[s].pointer /\ stmt[s].db \in Dbs /\ stmt[s].name \in Names
                             /\ db'[stmt[s].db].open
                             /\ db'[stmt[s].db].driver \in {"open", "dropped"}
                        /\ stmt[s].phase = "running" => db'[stmt[s].db].registry[stmt[s].name] # 0
      BY DEF StmtsOK
    <2>1. stmt[s].phase # "none" =>
             /\ stmt[s].pointer /\ stmt[s].db \in Dbs /\ stmt[s].name \in Names
             /\ db[stmt[s].db].open /\ db[stmt[s].db].driver \in {"open", "dropped"}
      BY DEF NativeIInv, StmtsOK
    <2>2. stmt[s].phase = "none" => stmt[s] = NoStmt
      BY DEF NativeIInv, StmtsOK
    <2>3. stmt[s].phase = "running" =>
             stmt[s].phase # "none" /\ db[stmt[s].db].registry[stmt[s].name] # 0
      BY DEF NativeIInv, StmtsOK
    <2> QED
      BY <2>1, <2>2, <2>3
  <1> QED
    BY <1>1, <1>2, CallsStay

\* The other conjuncts of the type invariant when only db and handler change.
LEMMA DbTypes ==
    ASSUME NativeTypeOK, db' \in [Dbs -> Database],
           handler' \in [progress : {"none", "live", "deleted"}, busy : {"none", "live"}],
           UNCHANGED <<udf, stmt, field, frames, calls>>
    PROVE  NativeTypeOK'
  BY DEF NativeTypeOK

LEMMA OpenUtf8Step ==
    ASSUME NativeIInv, NEW d \in Dbs, db[d].driver \in {"closed", "open"}, NEW file,
           OpenUtf8(d, file)
    PROVE  NativeIInv'
  <1>1. UsedIsAlive' /\ UNCHANGED <<udf, stmt, field, frames, calls, handler, returned>>
    BY RefusedUses DEF OpenUtf8, NativeIInv
  <1>2. CASE db' = db
    BY <1>1, <1>2, NothingMoves
  <1>3. db[d] \in Database /\ db \in [Dbs -> Database]
    BY DEF NativeIInv, NativeTypeOK
  <1>4. ASSUME NEW new \in Database, db' = [db EXCEPT ![d] = new],
               new.driver \in {"open", "dropped"},
               new.driver = "open" => new.handle /\ new.open,
               (\E s \in Stmts : stmt[s].db = d) => new.open = db[d].open /\ new.driver = "dropped",
               new.list = db[d].list /\ new.registry = db[d].registry,
               new.progress = db[d].progress /\ new.busy = db[d].busy
        PROVE  NativeIInv'
    <2>1. /\ db' \in [Dbs -> Database] /\ db'[d] = new
          /\ \A e \in Dbs : e # d => db'[e] = db[e]
      BY <1>3, <1>4
    <2>2. NativeTypeOK'
      BY <1>1, <2>1, DbTypes DEF NativeIInv, NativeTypeOK
    <2>3. DatabasesOK'
      BY <1>1, <1>4, <2>1 DEF NativeIInv, DatabasesOK
    <2>4. \A e \in Dbs : /\ db'[e].list = db[e].list /\ db'[e].registry = db[e].registry
                         /\ (\E s \in Stmts : stmt[s].db = e) =>
                                /\ db'[e].open = db[e].open
                                /\ db'[e].driver = db[e].driver \/ db'[e].driver = "dropped"
      BY <1>4, <2>1
    <2> QED
      BY <1>1, <2>1, <2>2, <2>3, <2>4, SameLists
  <1>5. CASE db[d].handle
    <2> DEFINE o == \E s \in Stmts : stmt[s].db = d
               new == [db[d] EXCEPT !.open = o, !.driver = "dropped"]
    <2>1. db[d].open = TRUE
      BY <1>5, HandleIsOpen, DatabaseTypes DEF NativeIInv
    <2>2. db' = [db EXCEPT ![d] = new]
      BY <1>3, <1>5 DEF OpenUtf8, Database
    <2>3. /\ new \in Database /\ new.open = o /\ new.driver = "dropped"
          /\ new.list = db[d].list /\ new.registry = db[d].registry
          /\ new.progress = db[d].progress /\ new.busy = db[d].busy
      BY <1>3 DEF Database
    <2> HIDE DEF new
    <2> QED
      BY <1>4, <2>1, <2>2, <2>3
  <1>6. CASE ~db[d].handle
    <2> DEFINE new == [db[d] EXCEPT !.handle = TRUE, !.open = TRUE, !.driver = "open"]
    <2>1. db' = db \/ db' = [db EXCEPT ![d] = new]
      BY <1>3, <1>6 DEF OpenUtf8, Database
    <2>2. /\ new \in Database /\ new.handle /\ new.open /\ new.driver = "open"
          /\ new.list = db[d].list /\ new.registry = db[d].registry
          /\ new.progress = db[d].progress /\ new.busy = db[d].busy
      BY <1>3 DEF Database
    <2> HIDE DEF new
    <2>3. ~\E s \in Stmts : stmt[s].db = d
      <3>1. ASSUME NEW s \in Stmts, stmt[s].db = d
            PROVE  FALSE
        <4>1. db[d].driver \in {"open", "dropped"}
          BY <3>1, StatementThere DEF NativeIInv, StmtsOK
        <4>2. db[d].handle
          BY <4>1 DEF NativeIInv, DatabasesOK
        <4> QED
          BY <1>6, <4>2
      <3> QED
        BY <3>1
    <2> QED
      BY <1>2, <1>4, <2>1, <2>2, <2>3
  <1> QED
    BY <1>5, <1>6

\* The driver closes a database without statements, after its functions.
LEMMA CloseStep ==
    ASSUME NativeIInv, NEW d \in Dbs, db[d].driver \in {"closing", "closed"},
           \A s \in Stmts : stmt[s].db # d, Close(d)
    PROVE  NativeIInv'
  <1>1. CASE ~db[d].handle
    <2>1. UsedIsAlive' /\ UNCHANGED <<db, udf, stmt, field, frames, calls, handler, returned>>
      BY <1>1, RefusedUses DEF Close, NativeIInv
    <2> QED
      BY <2>1, NothingMoves
  <1>2. CASE db[d].handle
    <2>1. /\ Use("db", d) /\ Alive("db", d)
          /\ db' = [db EXCEPT ![d] = [Closed EXCEPT !.list = db[d].list]]
          /\ UNCHANGED <<udf, stmt, field, frames, calls, handler, returned>>
      BY <1>2, HandleIsOpen DEF Close
    <2> DEFINE new == [Closed EXCEPT !.list = db[d].list]
    <2>2. /\ new \in Database /\ new.driver = "closed" /\ ~new.handle
          /\ \A n \in Names : new.registry[n] = 0
          /\ ~new.progress /\ ~new.busy /\ new.list = db[d].list
      BY DatabaseTypes DEF NativeIInv, Database, Closed
    <2> HIDE DEF new
    <2>3. /\ db' \in [Dbs -> Database] /\ db'[d] = new
          /\ \A e \in Dbs : e # d => db'[e] = db[e]
      BY <2>1, <2>2 DEF NativeIInv, NativeTypeOK, new
    <2>4. NativeTypeOK'
      BY <2>1, <2>3, DbTypes DEF NativeIInv, NativeTypeOK
    <2>5. DatabasesOK'
      <3> SUFFICES ASSUME NEW e \in Dbs
                   PROVE  /\ db'[e].driver = "closed" => ~db'[e].handle
                          /\ db'[e].driver \in {"open", "closing"} => db'[e].handle /\ db'[e].open
                          /\ db'[e].driver # "closing" =>
                               \A n \in Names : db'[e].registry[n] # 0 =>
                                  \E i \in DOMAIN db'[e].list : db'[e].list[i] = db'[e].registry[n]
                          /\ db'[e].progress => e \in HandlerDbs /\ handler.progress = "live"
                          /\ db'[e].busy => handler.busy = "live"
        BY <2>1 DEF DatabasesOK
      <3>1. CASE e = d
        BY <2>2, <2>3, <3>1
      <3>2. CASE e # d
        BY <2>3, <3>2 DEF NativeIInv, DatabasesOK
      <3> QED
        BY <3>1, <3>2
    <2>6. UdfsOK'
      <3>1. \A e \in Dbs : db'[e].list = db[e].list
        BY <2>2, <2>3
      <3> QED
        BY <2>1, <3>1 DEF NativeIInv, UdfsOK
    <2>7. StmtsOK'
      <3> SUFFICES ASSUME NEW s \in Stmts
                   PROVE  /\ stmt[s].phase = "none" => stmt[s] = NoStmt
                          /\ stmt[s].phase # "none" =>
                               /\ stmt[s].pointer /\ stmt[s].db \in Dbs /\ stmt[s].name \in Names
                               /\ db'[stmt[s].db].open
                               /\ db'[stmt[s].db].driver \in {"open", "dropped"}
                          /\ stmt[s].phase = "running" =>
                               db'[stmt[s].db].registry[stmt[s].name] # 0
        BY <2>1 DEF StmtsOK
      <3>1. stmt[s].phase # "none" => stmt[s].db \in Dbs /\ db'[stmt[s].db] = db[stmt[s].db]
        BY <2>3 DEF NativeIInv, StmtsOK
      <3> QED
        BY <3>1 DEF NativeIInv, StmtsOK
    <2>8. UsedIsAlive'
      BY <2>1, UseAlive DEF NativeIInv
    <2> QED
      BY <2>1, <2>4, <2>5, <2>6, <2>7, <2>8, CallsStay
  <1> QED
    BY <1>1, <1>2

\* One database changes.
LEMMA OneDatabase ==
    ASSUME NativeIInv, NEW d \in Dbs, NEW new \in Database, db' = [db EXCEPT ![d] = new]
    PROVE  /\ db' \in [Dbs -> Database] /\ db'[d] = new
           /\ \A e \in Dbs : e # d => db'[e] = db[e]
  BY DEF NativeIInv, NativeTypeOK

\* The busy handler: its context is only ever replaced by another.
LEMMA BusyHandlerStep ==
    ASSUME NativeIInv, NEW d \in Dbs, db[d].driver \in {"closed", "open"}, NEW some \in BOOLEAN,
           BusyHandler(d, some)
    PROVE  NativeIInv'
  <1>1. /\ handler' \in [progress : {"none", "live", "deleted"}, busy : {"none", "live"}]
        /\ handler'.progress = handler.progress
        /\ some \/ handler.busy = "live" => handler'.busy = "live"
        /\ UNCHANGED <<udf, stmt, field, frames, calls, returned>>
    BY DEF BusyHandler, NativeIInv, NativeTypeOK
  <1>2. CASE ~db[d].handle
    <2>1. db' = db /\ UsedIsAlive'
      BY <1>2, RefusedUses DEF BusyHandler, throwex_db_closed, NativeIInv
    <2>2. db' \in [Dbs -> Database]
      BY <2>1 DEF NativeIInv, NativeTypeOK
    <2>3. NativeTypeOK'
      BY <1>1, <2>2, DbTypes DEF NativeIInv
    <2>4. DatabasesOK'
      BY <1>1, <2>1 DEF NativeIInv, DatabasesOK
    <2> QED
      BY <1>1, <2>1, <2>2, <2>3, <2>4, SameLists
  <1>3. CASE db[d].handle
    <2> DEFINE new == [db[d] EXCEPT !.busy = some]
    <2>1. Use("db", d) /\ Alive("db", d) /\ db' = [db EXCEPT ![d] = new]
      BY <1>3, HandleIsOpen DEF BusyHandler, NativeIInv, NativeTypeOK, Database
    <2>2. /\ new \in Database /\ new.busy = some
          /\ new.handle = db[d].handle /\ new.open = db[d].open /\ new.driver = db[d].driver
          /\ new.list = db[d].list /\ new.registry = db[d].registry
          /\ new.progress = db[d].progress
      BY DatabaseTypes DEF NativeIInv, Database
    <2> HIDE DEF new
    <2>3. /\ db' \in [Dbs -> Database] /\ db'[d] = new
          /\ \A e \in Dbs : e # d => db'[e] = db[e]
      BY <2>1, <2>2, OneDatabase
    <2>4. NativeTypeOK' /\ UsedIsAlive'
      BY <1>1, <2>1, <2>3, DbTypes, UseAlive DEF NativeIInv
    <2>5. DatabasesOK'
      BY <1>1, <2>2, <2>3 DEF NativeIInv, DatabasesOK
    <2>6. \A e \in Dbs : /\ db'[e].list = db[e].list /\ db'[e].registry = db[e].registry
                         /\ db'[e].open = db[e].open /\ db'[e].driver = db[e].driver
      BY <2>2, <2>3
    <2> QED
      BY <1>1, <2>3, <2>4, <2>5, <2>6, SameLists
  <1> QED
    BY <1>2, <1>3

\* The progress handler: with one database that has handlers, no other is left
\* with the context that is deleted.
LEMMA ProgressHandlerStep ==
    ASSUME NativeIInv, OneHandlerDb, NEW d \in Dbs, db[d].driver = "open",
           \/ d \in HandlerDbs /\ RegisterProgressHandler(d)
           \/ db[d].progress /\ ClearProgressHandler(d)
    PROVE  NativeIInv'
  <1>1. Alive("db", d) /\ d \in HandlerDbs
    BY AliveMeans DEF NativeIInv, DatabasesOK
  <1>2. PICK some \in BOOLEAN :
          /\ db' = [db EXCEPT ![d].progress = some]
          /\ handler' = [handler EXCEPT !.progress = IF some THEN "live" ELSE "deleted"]
          /\ UNCHANGED <<udf, stmt, field, frames, calls, returned>>
    BY DEF RegisterProgressHandler, ClearProgressHandler
  <1> DEFINE new == [db[d] EXCEPT !.progress = some]
  <1>3. db' = [db EXCEPT ![d] = new]
    BY <1>2 DEF NativeIInv, NativeTypeOK, Database
  <1>4. /\ new \in Database /\ new.progress = some /\ new.busy = db[d].busy
        /\ new.handle = db[d].handle /\ new.open = db[d].open /\ new.driver = db[d].driver
        /\ new.list = db[d].list /\ new.registry = db[d].registry
    BY DatabaseTypes DEF NativeIInv, Database
  <1> HIDE DEF new
  <1>5. /\ db' \in [Dbs -> Database] /\ db'[d] = new
        /\ \A e \in Dbs : e # d => db'[e] = db[e]
    BY <1>3, <1>4, OneDatabase
  <1>6. /\ handler' \in [progress : {"none", "live", "deleted"}, busy : {"none", "live"}]
        /\ handler'.progress = (IF some THEN "live" ELSE "deleted")
        /\ handler'.busy = handler.busy
    BY <1>2 DEF NativeIInv, NativeTypeOK
  <1>7. NativeTypeOK'
    BY <1>2, <1>5, <1>6, DbTypes DEF NativeIInv
  <1>8. UsedIsAlive'
    <2>1. CASE RegisterProgressHandler(d)
      BY <1>1, <2>1, UseAlive DEF RegisterProgressHandler, NativeIInv
    <2>2. CASE db[d].progress /\ ClearProgressHandler(d)
      <3>1. Alive("handler", "progress")
        BY <2>2, AliveMeans DEF NativeIInv, DatabasesOK
      <3> QED
        BY <1>1, <2>2, <3>1 DEF ClearProgressHandler, NativeIInv, UsedIsAlive
    <2> QED
      BY <2>1, <2>2
  <1>9. DatabasesOK'
    <2>1. \A e \in Dbs : db'[e].progress => e \in HandlerDbs /\ handler'.progress = "live"
      <3> SUFFICES ASSUME NEW e \in Dbs, db'[e].progress
                   PROVE  e \in HandlerDbs /\ handler'.progress = "live"
        OBVIOUS
      <3>1. CASE e = d
        BY <1>1, <1>4, <1>5, <1>6, <3>1
      <3>2. CASE e # d
        <4>1. e \in HandlerDbs
          BY <1>5, <3>2 DEF NativeIInv, DatabasesOK
        <4> QED
          BY <1>1, <3>2, <4>1 DEF OneHandlerDb
      <3> QED
        BY <3>1, <3>2
    <2> QED
      BY <1>4, <1>5, <1>6, <2>1 DEF NativeIInv, DatabasesOK
  <1>10. \A e \in Dbs : /\ db'[e].list = db[e].list /\ db'[e].registry = db[e].registry
                        /\ db'[e].open = db[e].open /\ db'[e].driver = db[e].driver
    BY <1>4, <1>5
  <1> QED
    BY <1>2, <1>5, <1>7, <1>8, <1>9, <1>10, SameLists

\* A database without its registered function: only when no statement runs.
LEMMA DestroyFunctionStep ==
    ASSUME NativeIInv, NEW d \in Dbs, db[d].driver = "open", NEW name \in Names \cup {NoText},
           DestroyFunctionUtf8(d, name)
    PROVE  NativeIInv'
  <1>1. Alive("db", d)
    BY AliveMeans DEF NativeIInv, DatabasesOK
  <1>2. /\ UsedIsAlive'
        /\ UNCHANGED <<udf, stmt, field, frames, calls, handler, returned>>
    BY <1>1, UseAlive, RefusedUses DEF DestroyFunctionUtf8, throwex_outofmemory, NativeIInv
  <1>3. CASE db' = db
    BY <1>2, <1>3, NothingMoves
  <1>4. CASE /\ name \in Names
             /\ ~\E s \in Stmts : stmt[s].db = d /\ stmt[s].phase = "running"
             /\ db' = [db EXCEPT ![d].registry[name] = 0]
    <2> DEFINE new == [db[d] EXCEPT !.registry[name] = 0]
    <2>1. db' = [db EXCEPT ![d] = new]
      BY <1>4 DEF NativeIInv, NativeTypeOK, Database
    <2>2. /\ new \in Database
          /\ new.handle = db[d].handle /\ new.open = db[d].open /\ new.driver = db[d].driver
          /\ new.list = db[d].list /\ new.progress = db[d].progress /\ new.busy = db[d].busy
          /\ \A n \in Names : new.registry[n] = IF n = name THEN 0 ELSE db[d].registry[n]
      BY <1>4, DatabaseTypes DEF NativeIInv, Database
    <2> HIDE DEF new
    <2>3. /\ db' \in [Dbs -> Database] /\ db'[d] = new
          /\ \A e \in Dbs : e # d => db'[e] = db[e]
      BY <2>1, <2>2, OneDatabase
    <2>4. NativeTypeOK'
      BY <1>2, <2>3, DbTypes DEF NativeIInv, NativeTypeOK
    <2>5. DatabasesOK'
      BY <1>2, <2>2, <2>3 DEF NativeIInv, DatabasesOK
    <2>6. UdfsOK'
      <3>1. \A e \in Dbs : db'[e].list = db[e].list
        BY <2>2, <2>3
      <3> QED
        BY <1>2, <3>1, SMTT(30) DEF NativeIInv, UdfsOK
    <2>7. StmtsOK'
      <3>1. \A s \in Stmts : stmt[s].phase = "running" =>
               stmt[s].db # d /\ stmt[s].db \in Dbs
        BY <1>4 DEF NativeIInv, StmtsOK
      <3>2. \A e \in Dbs : db'[e].open = db[e].open /\ db'[e].driver = db[e].driver
        BY <2>2, <2>3
      <3> QED
        BY <1>2, <2>3, <3>1, <3>2 DEF NativeIInv, StmtsOK
    <2> QED
      BY <1>2, <2>4, <2>5, <2>6, <2>7, CallsStay
  <1> QED
    BY <1>3, <1>4 DEF DestroyFunctionUtf8

-----------------------------------------------------------------------------
(* Functions: what is on the lists.                                        *)

\* A list with a new element ahead.
LEMMA Linked ==
    ASSUME NEW q \in Seq(Nat), NEW u \in Nat
    PROVE  /\ <<u>> \o q \in Seq(Nat) /\ Len(<<u>> \o q) = Len(q) + 1
           /\ DOMAIN q = 1 .. Len(q) /\ DOMAIN (<<u>> \o q) = 1 .. Len(q) + 1
           /\ (<<u>> \o q)[1] = u
           /\ \A i \in DOMAIN q : i + 1 \in DOMAIN (<<u>> \o q) /\ (<<u>> \o q)[i + 1] = q[i]
           /\ \A i \in DOMAIN (<<u>> \o q) : i = 1 \/ (i - 1 \in DOMAIN q /\ (<<u>> \o q)[i] = q[i - 1])
  <1>1. /\ <<u>> \in Seq(Nat) /\ Len(<<u>>) = 1 /\ <<u>>[1] = u
        /\ Len(q) \in Nat /\ DOMAIN q = 1 .. Len(q)
    OBVIOUS
  <1>2. /\ <<u>> \o q \in Seq(Nat) /\ Len(<<u>> \o q) = 1 + Len(q)
        /\ \A i \in 1 .. 1 + Len(q) : (<<u>> \o q)[i] = IF i <= 1 THEN <<u>>[i] ELSE q[i - 1]
    BY <1>1, ConcatProperties
  <1>3. PICK r : r = <<u>> \o q
    OBVIOUS
  <1>4. DOMAIN r = 1 .. Len(q) + 1
    BY <1>1, <1>2, <1>3
  <1>5. \A i \in 1 .. Len(q) + 1 : r[i] = IF i = 1 THEN u ELSE q[i - 1]
    BY <1>1, <1>2, <1>3
  <1>6. \A i \in DOMAIN q : i + 1 \in DOMAIN r /\ r[i + 1] = q[i]
    BY <1>1, <1>4, <1>5
  <1>7. \A i \in DOMAIN r : i = 1 \/ (i - 1 \in DOMAIN q /\ r[i] = q[i - 1])
    BY <1>1, <1>4, <1>5
  <1> QED
    BY <1>1, <1>2, <1>3, <1>4, <1>5, <1>6, <1>7, SMTT(30)

\* A new UDFData at the head of the list of d is in one place, and live.
LEMMA LinkedUdfs ==
    ASSUME NativeIInv, NEW d \in Dbs, NEW f \in Functions,
           udf' = Append(udf, [func |-> f, live |-> TRUE]),
           db'[d].list = <<Len(udf) + 1>> \o db[d].list,
           \A e \in Dbs : e # d => db'[e].list = db[e].list
    PROVE  UdfsOK'
  <1> DEFINE u == Len(udf) + 1
             old(e) == db[e].list
             new(e) == db'[e].list
  <1>1. /\ udf \in Seq([func : Functions, live : BOOLEAN]) /\ Len(udf) \in Nat
        /\ DOMAIN udf = 1 .. Len(udf)
    BY DEF NativeIInv, NativeTypeOK
  <1>2. /\ Len(udf') = u /\ DOMAIN udf' = 1 .. u
        /\ \A v \in DOMAIN udf : v \in DOMAIN udf' /\ v # u /\ udf'[v] = udf[v]
        /\ u \in DOMAIN udf' /\ udf'[u] = [func |-> f, live |-> TRUE]
    <2>1. [func |-> f, live |-> TRUE] \in [func : Functions, live : BOOLEAN]
      OBVIOUS
    <2> QED
      BY <1>1, <2>1, Appended
  <1>3. u \in Nat /\ u \notin DOMAIN udf
    BY <1>1
  <1>4. \A e \in Dbs : old(e) \in Seq(Nat) /\ DOMAIN old(e) = 1 .. Len(old(e)) /\ Len(old(e)) \in Nat
    BY DatabaseTypes DEF NativeIInv
  <1>5. /\ \A e \in Dbs : Len(old(e)) <= Len(udf)
        /\ \A e \in Dbs : \A i \in DOMAIN old(e) : old(e)[i] \in DOMAIN udf /\ udf[old(e)[i]].live
        /\ \A v \in DOMAIN udf : udf[v].live => \E e \in Dbs : \E i \in DOMAIN old(e) : old(e)[i] = v
        /\ \A c, e \in Dbs : \A i \in DOMAIN old(c), j \in DOMAIN old(e) :
              old(c)[i] = old(e)[j] => c = e /\ i = j
    BY DEF NativeIInv, UdfsOK
  <1>6. /\ Len(new(d)) = Len(old(d)) + 1 /\ DOMAIN new(d) = 1 .. Len(old(d)) + 1
        /\ new(d)[1] = u /\ 1 \in DOMAIN new(d)
        /\ \A i \in DOMAIN old(d) : i + 1 \in DOMAIN new(d) /\ new(d)[i + 1] = old(d)[i]
        /\ \A i \in DOMAIN new(d) : i = 1 \/ (i - 1 \in DOMAIN old(d) /\ new(d)[i] = old(d)[i - 1])
    BY <1>3, <1>4, Linked, SMTT(30)
  <1>7. \A e \in Dbs : e # d => new(e) = old(e)
    OBVIOUS
  <1> HIDE DEF u, old, new
  <1>8. ASSUME NEW e \in Dbs
        PROVE  /\ Len(new(e)) <= Len(udf')
               /\ \A i \in DOMAIN new(e) : i \in Int
    <2>1. Len(old(e)) \in Nat /\ Len(old(e)) <= Len(udf) /\ DOMAIN old(e) = 1 .. Len(old(e))
      BY <1>4, <1>5
    <2>2. Len(udf') = Len(udf) + 1
      BY <1>2 DEF u
    <2>3. CASE e = d
      <3>1. Len(new(e)) = Len(old(e)) + 1 /\ DOMAIN new(e) = 1 .. Len(old(e)) + 1
        BY <1>6, <2>3
      <3> QED
        BY <1>1, <2>1, <2>2, <3>1
    <2>4. CASE e # d
      <3>1. new(e) = old(e)
        BY <1>7, <2>4
      <3> QED
        BY <1>1, <2>1, <2>2, <3>1
    <2> QED
      BY <2>3, <2>4
  <1>9. \A e \in Dbs : \A i \in DOMAIN new(e) :
           \/ e = d /\ i = 1 /\ new(e)[i] = u
           \/ /\ new(e)[i] \in DOMAIN udf /\ udf[new(e)[i]].live
              /\ IF e = d THEN i - 1 \in DOMAIN old(e) /\ new(e)[i] = old(e)[i - 1]
                          ELSE i \in DOMAIN old(e) /\ new(e)[i] = old(e)[i]
    BY <1>5, <1>6, <1>7
  <1>10. \A e \in Dbs : \A i \in DOMAIN new(e) : new(e)[i] \in DOMAIN udf' /\ udf'[new(e)[i]].live
    BY <1>2, <1>9
  <1>11. ASSUME NEW v \in DOMAIN udf', udf'[v].live
         PROVE  \E e \in Dbs : \E i \in DOMAIN new(e) : new(e)[i] = v
    <2>1. CASE v = u
      BY <1>6, <2>1
    <2>2. CASE v # u
      <3>1. v \in DOMAIN udf /\ udf[v].live
        BY <1>1, <1>2, <1>11, <2>2 DEF u
      <3>2. PICK e \in Dbs : \E i \in DOMAIN old(e) : old(e)[i] = v
        BY <1>5, <3>1
      <3>3. CASE e = d
        BY <1>6, <3>2, <3>3
      <3>4. CASE e # d
        BY <1>7, <3>2, <3>4
      <3> QED
        BY <3>3, <3>4
    <2> QED
      BY <2>1, <2>2
  <1>12. ASSUME NEW c \in Dbs, NEW e \in Dbs, NEW i \in DOMAIN new(c), NEW j \in DOMAIN new(e),
                new(c)[i] = new(e)[j]
         PROVE  c = e /\ i = j
    <2>1. i \in Int /\ j \in Int
      BY <1>8
    <2>2. CASE new(c)[i] = u
      <3>1. new(c)[i] \notin DOMAIN udf /\ new(e)[j] \notin DOMAIN udf
        BY <1>3, <1>12, <2>2
      <3>2. c = d /\ i = 1
        BY <1>9, <3>1
      <3>3. e = d /\ j = 1
        BY <1>9, <3>1
      <3> QED
        BY <3>2, <3>3
    <2>3. CASE new(c)[i] # u
      <3>1. PICK k \in DOMAIN old(c) : new(c)[i] = old(c)[k] /\ k = (IF c = d THEN i - 1 ELSE i)
        BY <1>9, <2>3
      <3>2. PICK l \in DOMAIN old(e) : new(e)[j] = old(e)[l] /\ l = (IF e = d THEN j - 1 ELSE j)
        BY <1>9, <1>12, <2>3
      <3>3. old(c)[k] = old(e)[l]
        BY <1>12, <3>1, <3>2
      <3>4. c = e /\ k = l
        BY <1>5, <3>3
      <3> QED
        BY <2>1, <3>1, <3>2, <3>4
    <2> QED
      BY <2>2, <2>3
  <1> QED
    BY <1>8, <1>10, <1>11, <1>12 DEF UdfsOK, new

\* A new function: on the list before anything can fail, and perhaps registered.
LEMMA CreateFunctionStep ==
    ASSUME NativeIInv, NEW d \in Dbs, db[d].driver = "open", NEW name \in Names \cup {NoText},
           NEW f \in Functions, CreateFunctionUtf8(d, name, f)
    PROVE  NativeIInv'
  <1> DEFINE u == Len(udf) + 1
             list == <<u>> \o db[d].list
  <1>1. Alive("db", d)
    BY AliveMeans DEF NativeIInv, DatabasesOK
  <1>2. /\ UsedIsAlive'
        /\ Len(udf) < MaxUdfs
        /\ UNCHANGED <<stmt, field, frames, calls, handler, returned>>
    BY <1>1, UseAlive, RefusedUses DEF CreateFunctionUtf8, throwex_outofmemory, NativeIInv
  <1>3. CASE UNCHANGED <<db, udf>>
    BY <1>2, <1>3, NothingMoves
  <1>4. /\ udf \in Seq([func : Functions, live : BOOLEAN]) /\ Len(udf) \in Nat /\ u \in Nat /\ u # 0
        /\ db[d].list \in Seq(Nat) /\ db[d].registry \in [Names -> Nat]
        /\ db[d] \in Database
    BY DatabaseTypes DEF NativeIInv, NativeTypeOK
  <1>5. /\ list \in Seq(Nat) /\ list[1] = u /\ 1 \in DOMAIN list
        /\ \A i \in DOMAIN db[d].list : i + 1 \in DOMAIN list /\ list[i + 1] = db[d].list[i]
    <2>1. PICK q \in Seq(Nat) : q = db[d].list
      BY <1>4
    <2>2. Len(q) \in Nat /\ 1 \in 1 .. Len(q) + 1
      OBVIOUS
    <2> QED
      BY <1>4, <2>1, <2>2, Linked, SMTT(30)
  <1>6. ASSUME NEW new \in Database, db' = [db EXCEPT ![d] = new],
               udf' = Append(udf, [func |-> f, live |-> TRUE]),
               new.list = list,
               \A n \in Names : new.registry[n] = db[d].registry[n] \/ new.registry[n] = u,
               new.handle = db[d].handle, new.open = db[d].open, new.driver = db[d].driver,
               new.progress = db[d].progress, new.busy = db[d].busy
        PROVE  NativeIInv'
    <2>1. /\ db' \in [Dbs -> Database] /\ db'[d] = new
          /\ \A e \in Dbs : e # d => db'[e] = db[e]
      BY <1>6, OneDatabase
    <2>2. NativeTypeOK'
      <3>1. [func |-> f, live |-> TRUE] \in [func : Functions, live : BOOLEAN]
        OBVIOUS
      <3>2. udf' \in Seq([func : Functions, live : BOOLEAN]) /\ Len(udf') <= MaxUdfs
        BY <1>2, <1>4, <1>6, <3>1, Appended, NativeAssumption
      <3> QED
        BY <1>2, <2>1, <3>2 DEF NativeIInv, NativeTypeOK
    <2>3. UdfsOK'
      BY <1>6, <2>1, LinkedUdfs
    <2>4. DatabasesOK'
      <3>1. \A n \in Names : new.registry[n] # 0 =>
               \E i \in DOMAIN new.list : new.list[i] = new.registry[n]
        <4> SUFFICES ASSUME NEW n \in Names, new.registry[n] # 0
                     PROVE  \E i \in DOMAIN list : list[i] = new.registry[n]
          BY <1>6
        <4>1. CASE new.registry[n] = u
          BY <1>5, <4>1
        <4>2. CASE new.registry[n] = db[d].registry[n]
          <5>1. PICK i \in DOMAIN db[d].list : db[d].list[i] = db[d].registry[n]
            BY <4>2 DEF NativeIInv, DatabasesOK
          <5> HIDE DEF list
          <5> QED
            BY <1>5, <4>2, <5>1
        <4> QED
          BY <1>6, <4>1, <4>2
      <3>2. /\ new.driver = "open" /\ new.handle /\ new.open
            /\ new.progress => d \in HandlerDbs /\ handler.progress = "live"
            /\ new.busy => handler.busy = "live"
        BY <1>6 DEF NativeIInv, DatabasesOK
      <3> QED
        BY <1>2, <2>1, <3>1, <3>2 DEF NativeIInv, DatabasesOK
    <2>5. StmtsOK'
      <3>1. \A e \in Dbs : db'[e].open = db[e].open /\ db'[e].driver = db[e].driver
        BY <1>6, <2>1
      <3>2. \A e \in Dbs : \A n \in Names : db[e].registry[n] # 0 => db'[e].registry[n] # 0
        BY <1>4, <1>6, <2>1
      <3>3. \A s \in Stmts : stmt[s].phase = "running" =>
               stmt[s].db \in Dbs /\ stmt[s].name \in Names
        BY DEF NativeIInv, StmtsOK
      <3> QED
        BY <1>2, <3>1, <3>2, <3>3 DEF NativeIInv, StmtsOK
    <2> QED
      BY <1>2, <2>2, <2>3, <2>4, <2>5, CallsStay
  <1>7. CASE /\ udf' = Append(udf, [func |-> f, live |-> TRUE])
             /\ db' = [db EXCEPT ![d].list = list]
    <2> DEFINE new == [db[d] EXCEPT !.list = list]
    <2>1. db' = [db EXCEPT ![d] = new]
      BY <1>7 DEF NativeIInv, NativeTypeOK
    <2>2. /\ new \in Database /\ new.list = list /\ new.registry = db[d].registry
          /\ new.handle = db[d].handle /\ new.open = db[d].open /\ new.driver = db[d].driver
          /\ new.progress = db[d].progress /\ new.busy = db[d].busy
      BY <1>4, <1>5 DEF Database
    <2> HIDE DEF new, list
    <2> QED
      BY <1>6, <1>7, <2>1, <2>2
  <1>8. CASE /\ udf' = Append(udf, [func |-> f, live |-> TRUE]) /\ name \in Names
             /\ db' = [[db EXCEPT ![d].list = list] EXCEPT ![d].registry[name] = u]
    <2> DEFINE new == [db[d] EXCEPT !.list = list, !.registry[name] = u]
    <2>1. db' = [db EXCEPT ![d] = new]
      BY <1>4, <1>8 DEF NativeIInv, NativeTypeOK, Database
    <2>2. /\ new \in Database /\ new.list = list
          /\ \A n \in Names : new.registry[n] = db[d].registry[n] \/ new.registry[n] = u
          /\ new.handle = db[d].handle /\ new.open = db[d].open /\ new.driver = db[d].driver
          /\ new.progress = db[d].progress /\ new.busy = db[d].busy
      BY <1>4, <1>5, <1>8 DEF Database
    <2> HIDE DEF new, list, u
    <2> QED
      BY <1>6, <1>8, <2>1, <2>2
  <1>9. \/ UNCHANGED <<db, udf>>
        \/ /\ udf' = Append(udf, [func |-> f, live |-> TRUE])
           /\ \/ db' = [db EXCEPT ![d].list = list]
              \/ /\ name \in Names
                 /\ db' = [[db EXCEPT ![d].list = list] EXCEPT ![d].registry[name] = u]
    BY DEF CreateFunctionUtf8
  <1> QED
    BY <1>3, <1>7, <1>8, <1>9

\* free_functions of a database without statements: what was on its list, and
\* nothing else, is freed.
LEMMA FreeFunctionsStep ==
    ASSUME NativeIInv, NEW d \in Dbs, db[d].driver = "open",
           \A s \in Stmts : stmt[s].db # d, FreeFunctions(d)
    PROVE  NativeIInv'
  <1> DEFINE Listed(u) == \E i \in DOMAIN db[d].list : db[d].list[i] = u
             new == [db[d] EXCEPT !.list = <<>>, !.driver = "closing"]
  <1>1. /\ udf' = [u \in DOMAIN udf |-> IF Listed(u) THEN [udf[u] EXCEPT !.live = FALSE] ELSE udf[u]]
        /\ UNCHANGED <<stmt, field, frames, calls, handler, returned>>
    BY DEF FreeFunctions
  <1>2. UsedIsAlive'
    <2>1. \A i \in DOMAIN db[d].list : Alive("udf", db[d].list[i])
      BY AliveMeans DEF NativeIInv, UdfsOK
    <2> QED
      BY <2>1 DEF FreeFunctions, NativeIInv, UsedIsAlive
  <1>3. db' = [db EXCEPT ![d] = new]
    BY DEF FreeFunctions, NativeIInv, NativeTypeOK, Database
  <1>4. /\ new \in Database /\ new.list = <<>> /\ new.driver = "closing"
        /\ new.handle = db[d].handle /\ new.open = db[d].open
        /\ new.progress = db[d].progress /\ new.busy = db[d].busy
    <2>1. db[d] \in Database /\ <<>> \in Seq(Nat)
      BY DatabaseTypes, EmptySeq DEF NativeIInv
    <2>2. PICK q \in Seq(Nat) : q = <<>>
      BY <2>1
    <2>3. [db[d] EXCEPT !.list = q, !.driver = "closing"] \in Database
      BY <2>1 DEF Database
    <2> QED
      BY <2>1, <2>2, <2>3 DEF Database
  <1> HIDE DEF new
  <1>5. /\ db' \in [Dbs -> Database] /\ db'[d] = new
        /\ \A e \in Dbs : e # d => db'[e] = db[e]
    BY <1>3, <1>4, OneDatabase
  <1>6. \A u \in DOMAIN udf : /\ udf[u] \in [func : Functions, live : BOOLEAN]
                              /\ udf'[u] \in [func : Functions, live : BOOLEAN]
                              /\ udf'[u].live = (udf[u].live /\ ~Listed(u))
    <2> SUFFICES ASSUME NEW u \in DOMAIN udf
                 PROVE  /\ udf[u] \in [func : Functions, live : BOOLEAN]
                        /\ udf'[u] \in [func : Functions, live : BOOLEAN]
                        /\ udf'[u].live = (udf[u].live /\ ~Listed(u))
      OBVIOUS
    <2> HIDE DEF Listed
    <2>1. udf[u] \in [func : Functions, live : BOOLEAN]
      BY UdfTypes DEF NativeIInv
    <2>2. udf'[u] = IF Listed(u) THEN [udf[u] EXCEPT !.live = FALSE] ELSE udf[u]
      BY <1>1
    <2> QED
      BY <2>1, <2>2
  <1> HIDE DEF Listed
  <1>7. /\ udf' \in Seq([func : Functions, live : BOOLEAN])
        /\ Len(udf') = Len(udf) /\ DOMAIN udf' = DOMAIN udf
    <2>1. udf' \in [DOMAIN udf -> [func : Functions, live : BOOLEAN]]
      BY <1>1, <1>6
    <2> QED
      BY <2>1, MappedSeq DEF NativeIInv, NativeTypeOK
  <1>8. NativeTypeOK'
    BY <1>1, <1>5, <1>7 DEF NativeIInv, NativeTypeOK
  <1>9. DatabasesOK'
    <2>1. /\ new.handle /\ new.open
          /\ new.progress => d \in HandlerDbs /\ handler.progress = "live"
          /\ new.busy => handler.busy = "live"
      BY <1>4 DEF NativeIInv, DatabasesOK
    <2> QED
      BY <1>1, <1>4, <1>5, <2>1 DEF NativeIInv, DatabasesOK
  <1>10. UdfsOK'
    <2>1. /\ \A e \in Dbs : Len(db[e].list) <= Len(udf)
          /\ \A e \in Dbs : \A i \in DOMAIN db[e].list :
                db[e].list[i] \in DOMAIN udf /\ udf[db[e].list[i]].live
          /\ \A u \in DOMAIN udf : udf[u].live =>
                \E e \in Dbs : \E i \in DOMAIN db[e].list : db[e].list[i] = u
          /\ \A c, e \in Dbs : \A i \in DOMAIN db[c].list, j \in DOMAIN db[e].list :
                db[c].list[i] = db[e].list[j] => c = e /\ i = j
      BY DEF NativeIInv, UdfsOK
    <2>2. /\ DOMAIN db'[d].list = {} /\ Len(db'[d].list) = 0
          /\ Len(udf) \in Nat
      BY <1>4, <1>5 DEF NativeIInv, NativeTypeOK
    <2>3. \A e \in Dbs : Len(db'[e].list) <= Len(udf')
      BY <1>5, <1>7, <2>1, <2>2
    <2>4. ASSUME NEW e \in Dbs, NEW i \in DOMAIN db'[e].list
          PROVE  /\ e # d /\ db'[e].list = db[e].list
                 /\ db'[e].list[i] \in DOMAIN udf' /\ udf'[db'[e].list[i]].live
      <3>1. e # d
        BY <2>2
      <3>2. db'[e].list = db[e].list
        BY <1>5, <3>1
      <3>3. ~Listed(db[e].list[i])
        BY <2>1, <3>1, <3>2 DEF Listed
      <3> QED
        BY <1>6, <1>7, <2>1, <3>1, <3>2, <3>3
    <2>5. ASSUME NEW u \in DOMAIN udf', udf'[u].live
          PROVE  \E e \in Dbs : \E i \in DOMAIN db'[e].list : db'[e].list[i] = u
      <3>1. udf[u].live /\ ~Listed(u) /\ u \in DOMAIN udf
        BY <1>6, <1>7, <2>5
      <3>2. PICK e \in Dbs : \E i \in DOMAIN db[e].list : db[e].list[i] = u
        BY <2>1, <3>1
      <3>3. e # d
        BY <3>1, <3>2 DEF Listed
      <3> QED
        BY <1>5, <3>2, <3>3
    <2>6. ASSUME NEW c \in Dbs, NEW e \in Dbs, NEW i \in DOMAIN db'[c].list,
                 NEW j \in DOMAIN db'[e].list, db'[c].list[i] = db'[e].list[j]
          PROVE  c = e /\ i = j
      BY <2>1, <2>4, <2>6, SMTT(30)
    <2> QED
      BY <2>3, <2>4, <2>5, <2>6 DEF UdfsOK
  <1>11. StmtsOK'
    <2>1. \A s \in Stmts : stmt[s].phase # "none" =>
             stmt[s].db \in Dbs /\ db'[stmt[s].db] = db[stmt[s].db]
      BY <1>5 DEF NativeIInv, StmtsOK
    <2>2. \A s \in Stmts : stmt[s].phase = "running" => stmt[s].phase # "none"
      OBVIOUS
    <2> QED
      BY <1>1, <2>1, <2>2 DEF NativeIInv, StmtsOK
  <1> QED
    BY <1>1, <1>2, <1>8, <1>9, <1>10, <1>11, CallsStay

-----------------------------------------------------------------------------
(* Statements.                                                             *)

\* One statement changes that no call is of.
LEMMA OneStatement ==
    ASSUME NativeIInv, NEW s \in Stmts, NEW new \in Statement, stmt' = [stmt EXCEPT ![s] = new],
           \A i \in DOMAIN frames : frames[i].stmt # s,
           UNCHANGED <<db, udf, field, frames, calls, handler, returned>>, UsedIsAlive',
           new.phase = "none" => new = NoStmt,
           new.phase # "none" =>
             /\ new.pointer /\ new.db \in Dbs /\ new.name \in Names
             /\ db[new.db].open /\ db[new.db].driver \in {"open", "dropped"},
           new.phase = "running" => db[new.db].registry[new.name] # 0
    PROVE  NativeIInv'
  <1>1. /\ stmt' \in [Stmts -> Statement] /\ stmt'[s] = new
        /\ \A t \in Stmts : t # s => stmt'[t] = stmt[t]
    BY DEF NativeIInv, NativeTypeOK
  <1>2. NativeTypeOK'
    BY <1>1 DEF NativeIInv, NativeTypeOK
  <1>3. DatabasesOK' /\ UdfsOK'
    BY DEF NativeIInv, DatabasesOK, UdfsOK
  <1>4. StmtsOK'
    <2> SUFFICES ASSUME NEW t \in Stmts
                 PROVE  /\ stmt'[t].phase = "none" => stmt'[t] = NoStmt
                        /\ stmt'[t].phase # "none" =>
                             /\ stmt'[t].pointer /\ stmt'[t].db \in Dbs /\ stmt'[t].name \in Names
                             /\ db[stmt'[t].db].open
                             /\ db[stmt'[t].db].driver \in {"open", "dropped"}
                        /\ stmt'[t].phase = "running" =>
                             db[stmt'[t].db].registry[stmt'[t].name] # 0
      BY DEF StmtsOK
    <2>1. CASE t = s
      BY <1>1, <2>1
    <2>2. CASE t # s
      BY <1>1, <2>2 DEF NativeIInv, StmtsOK
    <2> QED
      BY <2>1, <2>2
  <1>5. \A i \in DOMAIN frames : stmt'[frames[i].stmt] = stmt[frames[i].stmt]
    <2>1. \A i \in DOMAIN frames : frames[i].stmt \in Stmts
      BY FrameTypes DEF NativeIInv
    <2> QED
      BY <1>1, <2>1
  <1>6. FramesOK'
    BY <1>5 DEF NativeIInv, FramesOK
  <1>7. FieldsOK' /\ ResultsAreOfTheirCall'
    BY DEF NativeIInv, FieldsOK, ResultsAreOfTheirCall
  <1> QED
    BY <1>2, <1>3, <1>4, <1>6, <1>7 DEF NativeIInv

\* No call is of a statement that is not running.
LEMMA NotInACall ==
    ASSUME NativeIInv, NEW s \in Stmts, stmt[s].phase # "running"
    PROVE  \A i \in DOMAIN frames : frames[i].stmt # s
  BY DEF NativeIInv, FramesOK

LEMMA PrepareStep ==
    ASSUME NativeIInv, NEW d \in Dbs, db[d].driver \in {"closed", "open"}, NEW s \in Stmts,
           NEW name \in Names \cup {NoText}, PrepareUtf8(d, s, name)
    PROVE  NativeIInv'
  <1>1. stmt[s].phase = "none" /\ UNCHANGED <<db, udf, field, frames, calls, handler, returned>>
    BY StatementThere DEF PrepareUtf8
  <1>2. UsedIsAlive' /\ (db[d].handle => db[d].open /\ db[d].driver = "open")
    <2>1. CASE ~db[d].handle \/ name = NoText
      BY <2>1, RefusedUses, HandleIsOpen DEF PrepareUtf8, throwex_db_closed, NativeIInv
    <2>2. CASE db[d].handle /\ name # NoText
      BY <2>2, HandleIsOpen, UseAlive DEF PrepareUtf8, NativeIInv
    <2> QED
      BY <2>1, <2>2
  <1>3. CASE stmt' = stmt
    BY <1>1, <1>2, <1>3, NothingMoves
  <1>4. CASE stmt' # stmt
    <2> DEFINE new == [NoStmt EXCEPT !.pointer = TRUE, !.db = d, !.name = name, !.phase = "ready"]
    <2>1. stmt' = [stmt EXCEPT ![s] = new] /\ name \in Names /\ db[d].handle
      BY <1>4 DEF PrepareUtf8
    <2>2. NoStmt \in Statement
      BY NativeAssumption DEF NoStmt, Statement
    <2>3. /\ new \in Statement /\ new.phase = "ready" /\ new.pointer
          /\ new.db = d /\ new.name = name
      BY <2>1, <2>2 DEF Statement
    <2> HIDE DEF new
    <2> QED
      BY <1>1, <1>2, <2>1, <2>3, NotInACall, OneStatement
  <1> QED
    BY <1>3, <1>4

LEMMA StepStep ==
    ASSUME NativeIInv, NEW s \in Stmts, Step(s)
    PROVE  NativeIInv'
  <1>1. stmt[s].phase # "running" /\ UNCHANGED <<db, udf, field, frames, calls, handler, returned>>
    BY DEF Step
  <1>2. UsedIsAlive'
    <2>1. CASE ~stmt[s].pointer
      BY <2>1, RefusedUses DEF Step, throwex_stmt_finalized, NativeIInv
    <2>2. CASE stmt[s].pointer
      BY <2>2, StatementThere, AliveMeans, UseAlive DEF Step, NativeIInv
    <2> QED
      BY <2>1, <2>2
  <1>3. CASE stmt' = stmt
    BY <1>1, <1>2, <1>3, NothingMoves
  <1>4. CASE stmt' # stmt
    <2>1. /\ stmt[s].pointer
          /\ db[stmt[s].db].registry[stmt[s].name] # 0
      BY <1>4 DEF Step
    <2>2. PICK rows \in 0 .. MaxRows : stmt' = [stmt EXCEPT ![s].phase = "running", ![s].rows = rows]
      BY <1>4 DEF Step
    <2> DEFINE new == [stmt[s] EXCEPT !.phase = "running", !.rows = rows]
    <2>3. stmt' = [stmt EXCEPT ![s] = new]
      BY <2>2, StatementTypes DEF NativeIInv, NativeTypeOK, Statement
    <2>4. /\ new \in Statement /\ new.phase = "running" /\ new.pointer = stmt[s].pointer
          /\ new.db = stmt[s].db /\ new.name = stmt[s].name
      BY StatementTypes DEF NativeIInv, Statement
    <2> HIDE DEF new
    <2>5. /\ stmt[s].db \in Dbs /\ stmt[s].name \in Names
          /\ db[stmt[s].db].open /\ db[stmt[s].db].driver \in {"open", "dropped"}
      BY <2>1, StatementThere DEF NativeIInv, StmtsOK
    <2> QED
      BY <1>1, <1>2, <2>1, <2>3, <2>4, <2>5, NotInACall, OneStatement
  <1> QED
    BY <1>3, <1>4

LEMMA FinalizeStep ==
    ASSUME NativeIInv, NEW s \in Stmts, Finalize(s)
    PROVE  NativeIInv'
  <1>1. stmt[s].phase # "running" /\ UNCHANGED <<db, udf, field, frames, calls, handler, returned>>
    BY DEF Finalize
  <1>2. UsedIsAlive'
    <2>1. CASE ~stmt[s].pointer
      BY <2>1, RefusedUses DEF Finalize, throwex_stmt_finalized, NativeIInv
    <2>2. CASE stmt[s].pointer
      BY <2>2, StatementThere, AliveMeans, UseAlive DEF Finalize, NativeIInv
    <2> QED
      BY <2>1, <2>2
  <1>3. CASE stmt' = stmt
    BY <1>1, <1>2, <1>3, NothingMoves
  <1>4. CASE stmt' = [stmt EXCEPT ![s] = NoStmt]
    <2>1. NoStmt \in Statement /\ NoStmt.phase = "none"
      BY NativeAssumption DEF NoStmt, Statement
    <2> QED
      BY <1>1, <1>2, <1>4, <2>1, NotInACall, OneStatement
  <1> QED
    BY <1>3, <1>4 DEF Finalize

\* The last row of a statement that calls a function and not an aggregate.
LEMMA StepDoneStep ==
    ASSUME NativeIInv, NEW s \in Stmts, StepDone(s)
    PROVE  NativeIInv'
  <1> DEFINE new == [stmt[s] EXCEPT !.phase = "ready"]
  <1>1. /\ stmt[s].phase = "running" /\ \A i \in DOMAIN frames : frames[i].stmt # s
        /\ stmt' = [stmt EXCEPT ![s] = new]
        /\ UsedIsAlive' /\ UNCHANGED <<db, udf, field, frames, calls, handler, returned>>
    BY DEF StepDone, MayCall, NativeIInv, NativeTypeOK, UsedIsAlive
  <1>2. /\ new \in Statement /\ new.phase = "ready" /\ new.pointer = stmt[s].pointer
        /\ new.db = stmt[s].db /\ new.name = stmt[s].name
    BY StatementTypes DEF NativeIInv, Statement
  <1> HIDE DEF new
  <1>3. /\ stmt[s].pointer /\ stmt[s].db \in Dbs /\ stmt[s].name \in Names
        /\ db[stmt[s].db].open /\ db[stmt[s].db].driver \in {"open", "dropped"}
    BY <1>1 DEF NativeIInv, StmtsOK
  <1> QED
    BY <1>1, <1>2, <1>3, OneStatement

-----------------------------------------------------------------------------
(* Calls of Java functions.                                                *)

\* The function of a running statement is registered, so it is live.
LEMMA UdfIsLive ==
    ASSUME NativeIInv, NEW s \in Stmts, stmt[s].phase = "running"
    PROVE  /\ stmt[s].db \in Dbs /\ stmt[s].name \in Names
           /\ UdfOf(s) \in DOMAIN udf /\ udf[UdfOf(s)].live /\ Alive("udf", UdfOf(s))
           /\ udf[UdfOf(s)].func \in Functions
  <1>1. /\ stmt[s].db \in Dbs /\ stmt[s].name \in Names
        /\ db[stmt[s].db].driver \in {"open", "dropped"}
        /\ db[stmt[s].db].registry[stmt[s].name] # 0
    BY DEF NativeIInv, StmtsOK
  <1>2. \E i \in DOMAIN db[stmt[s].db].list : db[stmt[s].db].list[i] = UdfOf(s)
    BY <1>1 DEF NativeIInv, DatabasesOK, UdfOf
  <1>3. UdfOf(s) \in DOMAIN udf /\ udf[UdfOf(s)].live
    BY <1>1, <1>2 DEF NativeIInv, UdfsOK
  <1> QED
    BY <1>1, <1>3, AliveMeans, UdfTypes DEF NativeIInv

\* The frames of a call that begins: one more, and those of the same object are
\* told that it is called again.
LEMMA CallFrames ==
    ASSUME NativeTypeOK, NEW new \in Frame,
           frames' = Append([i \in DOMAIN frames |->
                               [frames[i] EXCEPT !.nested = @ \/ frames[i].object = new.object]], new)
    PROVE  /\ frames' \in Seq(Frame) /\ Len(frames) \in Nat
           /\ DOMAIN frames = 1 .. Len(frames) /\ DOMAIN frames' = 1 .. Len(frames) + 1
           /\ frames'[Len(frames) + 1] = new
           /\ \A i \in DOMAIN frames :
                /\ frames'[i].id = frames[i].id /\ frames'[i].stmt = frames[i].stmt
                /\ frames'[i].object = frames[i].object /\ frames'[i].kind = frames[i].kind
                /\ frames'[i].result = frames[i].result /\ frames'[i].said = frames[i].said
                /\ frames'[i].nested = (frames[i].nested \/ frames[i].object = new.object)
  <1> DEFINE g == [i \in DOMAIN frames |->
                     [frames[i] EXCEPT !.nested = @ \/ frames[i].object = new.object]]
  <1>1. ASSUME NEW i \in DOMAIN frames
        PROVE  /\ g[i] \in Frame
               /\ g[i].id = frames[i].id /\ g[i].stmt = frames[i].stmt
               /\ g[i].object = frames[i].object /\ g[i].kind = frames[i].kind
               /\ g[i].result = frames[i].result /\ g[i].said = frames[i].said
               /\ g[i].nested = (frames[i].nested \/ frames[i].object = new.object)
    <2>1. frames[i] \in Frame /\ frames[i].nested \in BOOLEAN
      BY FrameTypes
    <2>2. g[i] = [frames[i] EXCEPT !.nested = @ \/ frames[i].object = new.object]
      OBVIOUS
    <2> QED
      BY <2>1, <2>2 DEF Frame
  <1>2. g \in [DOMAIN frames -> Frame]
    BY <1>1
  <1>3. frames' = Append(g, new)
    OBVIOUS
  <1>4. DOMAIN g = DOMAIN frames
    OBVIOUS
  <1> HIDE DEF g
  <1>5. frames \in Seq(Frame) /\ Len(frames) \in Nat /\ DOMAIN frames = 1 .. Len(frames)
    BY DEF NativeTypeOK
  <1>6. g \in Seq(Frame) /\ Len(g) = Len(frames)
    BY <1>2, <1>5, MappedSeq
  <1>7. /\ frames' \in Seq(Frame) /\ DOMAIN frames' = 1 .. Len(frames) + 1
        /\ \A i \in DOMAIN frames : frames'[i] = g[i]
        /\ frames'[Len(frames) + 1] = new
    <2>1. PICK q \in Seq(Frame) : q = g
      BY <1>6
    <2>2. /\ Append(q, new) \in Seq(Frame) /\ DOMAIN Append(q, new) = 1 .. Len(q) + 1
          /\ \A i \in DOMAIN q : Append(q, new)[i] = q[i]
          /\ Append(q, new)[Len(q) + 1] = new
      BY Appended
    <2> QED
      BY <1>3, <1>4, <1>6, <2>1, <2>2
  <1> QED
    BY <1>1, <1>5, <1>7, ZenonT(40)

\* A statement's clone appears; the rest of it stays.
CloneAppears(s) ==
    \/ stmt' = stmt
    \/ stmt' = [stmt EXCEPT ![s].clone = "live"]

LEMMA CloneAppearsTypes ==
    ASSUME NativeTypeOK, NEW s \in Stmts, CloneAppears(s)
    PROVE  /\ stmt' \in [Stmts -> Statement]
           /\ \A t \in Stmts :
                /\ stmt'[t].pointer = stmt[t].pointer /\ stmt'[t].db = stmt[t].db
                /\ stmt'[t].name = stmt[t].name /\ stmt'[t].phase = stmt[t].phase
                /\ stmt'[t].rows = stmt[t].rows
                /\ t # s => stmt'[t] = stmt[t]
                /\ stmt[t].clone = "live" => stmt'[t].clone = "live"
  <1>1. stmt \in [Stmts -> Statement]
    BY DEF NativeTypeOK
  <1>2. CASE stmt' = stmt
    BY <1>1, <1>2
  <1>3. CASE stmt' = [stmt EXCEPT ![s].clone = "live"]
    <2>1. /\ stmt'[s] = [stmt[s] EXCEPT !.clone = "live"] /\ stmt[s] \in Statement
          /\ \A t \in Stmts : t # s => stmt'[t] = stmt[t]
      BY <1>1, <1>3
    <2>2. /\ stmt'[s] \in Statement /\ stmt'[s].clone = "live"
          /\ stmt'[s].pointer = stmt[s].pointer /\ stmt'[s].db = stmt[s].db
          /\ stmt'[s].name = stmt[s].name /\ stmt'[s].phase = stmt[s].phase
          /\ stmt'[s].rows = stmt[s].rows
      BY <2>1 DEF Statement
    <2> QED
      BY <1>1, <1>3, <2>1, <2>2
  <1> QED
    BY <1>2, <1>3 DEF CloneAppears

\* SQLite calls a function of a running statement that no call is of.
LEMMA CallStep ==
    ASSUME NativeIInv, NEW s \in Stmts, MayCall(s), CloneAppears(s),
           NEW object \in Objects, NEW kind \in {"xFunc", "xStep", "xFinal"},
           NEW args \in 0 .. MaxArgs, xCall(s, UdfOf(s), object, kind, args),
           kind # "xFinal" => stmt[s].rows > 0,
           kind = "xFinal" /\ object = CloneOf(s) => stmt[s].clone = "live"
    PROVE  NativeIInv'
  <1> DEFINE c == calls + 1
             new == [id |-> c, stmt |-> s, object |-> object, kind |-> kind,
                     result |-> 0, said |-> FALSE, nested |-> FALSE]
  <1>1. /\ calls' = c /\ calls \in Nat /\ returned' = NoCall
        /\ field' = [field EXCEPT ![object] =
                        [context |-> c, value |-> IF kind = "xFinal" THEN 0 ELSE c, args |-> args]]
        /\ frames' = Append([i \in DOMAIN frames |->
                        [frames[i] EXCEPT !.nested = @ \/ frames[i].object = object]], new)
        /\ UNCHANGED <<db, udf, handler>>
    BY DEF xCall, SetFields, NativeIInv, NativeTypeOK
  <1>2. UsedIsAlive' /\ stmt[s].phase = "running" /\ \A i \in DOMAIN frames : frames[i].stmt # s
    BY UdfIsLive, UseAlive DEF xCall, MayCall, NativeIInv
  <1>3. /\ new \in Frame /\ new.id = c /\ new.stmt = s /\ new.object = object /\ new.kind = kind
        /\ new.result = 0 /\ new.said = FALSE /\ new.nested = FALSE
        /\ c \in Nat /\ c # 0 /\ c > calls
    BY <1>1 DEF Frame
  <1>4. PICK f \in Frame : f = new
    BY <1>3
  <1> HIDE DEF new, c
  <1>5. /\ frames' \in Seq(Frame) /\ Len(frames) \in Nat
        /\ DOMAIN frames = 1 .. Len(frames) /\ DOMAIN frames' = 1 .. Len(frames) + 1
        /\ frames'[Len(frames) + 1] = f
        /\ \A i \in DOMAIN frames :
             /\ frames'[i].id = frames[i].id /\ frames'[i].stmt = frames[i].stmt
             /\ frames'[i].object = frames[i].object /\ frames'[i].kind = frames[i].kind
             /\ frames'[i].result = frames[i].result /\ frames'[i].said = frames[i].said
             /\ frames'[i].nested = (frames[i].nested \/ frames[i].object = object)
    BY <1>1, <1>3, <1>4, CallFrames, ZenonT(40) DEF NativeIInv
  <1>6. /\ field' \in [Objects -> [context : Nat, value : Nat, args : 0 .. MaxArgs]]
        /\ field'[object].context = c /\ field'[object].value \in {0, c}
        /\ \A o \in Objects : o # object => field'[o] = field[o]
    BY <1>1, <1>3 DEF NativeIInv, NativeTypeOK
  <1>7. /\ stmt' \in [Stmts -> Statement]
        /\ \A t \in Stmts :
             /\ stmt'[t].pointer = stmt[t].pointer /\ stmt'[t].db = stmt[t].db
             /\ stmt'[t].name = stmt[t].name /\ stmt'[t].phase = stmt[t].phase
             /\ stmt'[t].rows = stmt[t].rows
             /\ t # s => stmt'[t] = stmt[t]
             /\ stmt[t].clone = "live" => stmt'[t].clone = "live"
    BY CloneAppearsTypes DEF NativeIInv
  <1>8. NativeTypeOK'
    BY <1>1, <1>3, <1>5, <1>6, <1>7 DEF NativeIInv, NativeTypeOK
  <1>9. DatabasesOK' /\ UdfsOK'
    BY <1>1 DEF NativeIInv, DatabasesOK, UdfsOK
  <1>10. StmtsOK'
    <2> SUFFICES ASSUME NEW t \in Stmts
                 PROVE  /\ stmt'[t].phase = "none" => stmt'[t] = NoStmt
                        /\ stmt'[t].phase # "none" =>
                             /\ stmt'[t].pointer /\ stmt'[t].db \in Dbs /\ stmt'[t].name \in Names
                             /\ db[stmt'[t].db].open
                             /\ db[stmt'[t].db].driver \in {"open", "dropped"}
                        /\ stmt'[t].phase = "running" =>
                             db[stmt'[t].db].registry[stmt'[t].name] # 0
      BY <1>1 DEF StmtsOK
    <2>1. stmt'[t].phase = "none" => t # s
      BY <1>2, <1>7
    <2> QED
      BY <1>7, <2>1 DEF NativeIInv, StmtsOK
  <1>11. ASSUME NEW i \in DOMAIN frames'
         PROVE  /\ frames'[i].id <= calls'
                /\ stmt'[frames'[i].stmt].phase = "running"
                /\ frames'[i].kind # "xFinal" => stmt'[frames'[i].stmt].rows > 0
                /\ frames'[i].kind = "xFinal" /\ frames'[i].object = CloneOf(frames'[i].stmt) =>
                      stmt'[frames'[i].stmt].clone = "live"
                /\ frames'[i].result \in {0, Error, frames'[i].id}
                /\ frames'[i].said /\ ~frames'[i].nested => frames'[i].result = frames'[i].id
                /\ ~frames'[i].nested => field'[frames'[i].object].context = frames'[i].id
    <2>1. CASE i = Len(frames) + 1
      BY <1>1, <1>2, <1>3, <1>4, <1>5, <1>6, <1>7, <2>1
    <2>2. CASE i \in DOMAIN frames
      <3>1. /\ frames[i].id <= calls
            /\ stmt[frames[i].stmt].phase = "running"
            /\ frames[i].kind # "xFinal" => stmt[frames[i].stmt].rows > 0
            /\ frames[i].kind = "xFinal" /\ frames[i].object = CloneOf(frames[i].stmt) =>
                  stmt[frames[i].stmt].clone = "live"
            /\ frames[i].result \in {0, Error, frames[i].id}
            /\ frames[i].said /\ ~frames[i].nested => frames[i].result = frames[i].id
            /\ ~frames[i].nested => field[frames[i].object].context = frames[i].id
        BY <2>2 DEF NativeIInv, FramesOK
      <3>2. /\ frames[i].stmt \in Stmts /\ frames[i].object \in Objects /\ frames[i].id \in Nat
        BY <2>2, FrameTypes DEF NativeIInv
      <3>3. /\ frames'[i].id = frames[i].id /\ frames'[i].stmt = frames[i].stmt
            /\ frames'[i].object = frames[i].object /\ frames'[i].kind = frames[i].kind
            /\ frames'[i].result = frames[i].result /\ frames'[i].said = frames[i].said
            /\ frames'[i].nested = (frames[i].nested \/ frames[i].object = object)
        BY <1>5, <2>2
      <3>4. frames'[i].id <= calls'
        <4>1. PICK x : x = frames[i].id
          OBVIOUS
        <4>2. x \in Nat /\ x <= calls /\ calls \in Nat /\ c \in Nat /\ c > calls
          BY <1>1, <1>3, <3>1, <3>2, <4>1
        <4>3. x <= c
          BY <4>2
        <4> QED
          BY <1>1, <3>3, <4>1, <4>3
      <3>5. ~frames'[i].nested => field'[frames'[i].object].context = frames'[i].id
        BY <1>6, <3>1, <3>2, <3>3
      <3> QED
        BY <1>7, <3>1, <3>2, <3>3, <3>4, <3>5
    <2> QED
      BY <1>5, <2>1, <2>2
  <1>12. ASSUME NEW i \in DOMAIN frames', NEW j \in DOMAIN frames', i # j
         PROVE  frames'[i].id # frames'[j].id /\ frames'[i].stmt # frames'[j].stmt
    <2>1. \A k \in DOMAIN frames : /\ frames'[k].id # f.id /\ frames'[k].stmt # f.stmt
      <3> SUFFICES ASSUME NEW k \in DOMAIN frames
                   PROVE  frames'[k].id # f.id /\ frames'[k].stmt # f.stmt
        OBVIOUS
      <3>1. frames[k].id <= calls /\ frames[k].id \in Nat /\ frames[k].stmt # s
        BY <1>2, FrameTypes DEF NativeIInv, FramesOK
      <3>2. f.id = c /\ f.stmt = s /\ calls \in Nat /\ c \in Nat /\ c > calls
        BY <1>1, <1>3, <1>4
      <3>3. frames'[k].id = frames[k].id /\ frames'[k].stmt = frames[k].stmt
        BY <1>5
      <3> QED
        BY <3>1, <3>2, <3>3
    <2>2. CASE i \in DOMAIN frames /\ j \in DOMAIN frames
      <3>1. frames[i].id # frames[j].id /\ frames[i].stmt # frames[j].stmt
        BY <1>12, <2>2 DEF NativeIInv, FramesOK
      <3> QED
        BY <1>5, <2>2, <3>1
    <2>3. CASE i = Len(frames) + 1 /\ j \in DOMAIN frames
      BY <1>5, <2>1, <2>3
    <2>4. CASE j = Len(frames) + 1 /\ i \in DOMAIN frames
      BY <1>5, <2>1, <2>4
    <2> QED
      BY <1>5, <1>12, <2>2, <2>3, <2>4
  <1>13. FramesOK'
    BY <1>11, <1>12 DEF FramesOK
  <1>14. FieldsOK'
    <2> SUFFICES ASSUME NEW o \in Objects
                 PROVE  /\ field'[o].value \in {0, field'[o].context}
                        /\ field'[o].context # 0 =>
                             \E i \in DOMAIN frames' :
                                /\ frames'[i].id = field'[o].context /\ frames'[i].object = o
                                /\ \A j \in DOMAIN frames' : j > i => frames'[j].object # o
      BY DEF FieldsOK
    <2>1. CASE o = object
      <3>1. \A j \in DOMAIN frames' : ~(j > Len(frames) + 1)
        BY <1>5
      <3>2. Len(frames) + 1 \in DOMAIN frames'
        BY <1>5
      <3> QED
        BY <1>3, <1>4, <1>5, <1>6, <2>1, <3>1, <3>2
    <2>2. CASE o # object
      <3>1. field'[o] = field[o] /\ field[o].value \in {0, field[o].context}
        BY <1>6, <2>2 DEF NativeIInv, FieldsOK
      <3>2. ASSUME field[o].context # 0
            PROVE  \E i \in DOMAIN frames' :
                      /\ frames'[i].id = field[o].context /\ frames'[i].object = o
                      /\ \A j \in DOMAIN frames' : j > i => frames'[j].object # o
        <4>1. PICK i \in DOMAIN frames :
                 /\ frames[i].id = field[o].context /\ frames[i].object = o
                 /\ \A j \in DOMAIN frames : j > i => frames[j].object # o
          BY <3>2 DEF NativeIInv, FieldsOK
        <4>2. ASSUME NEW j \in DOMAIN frames', j > i
              PROVE  frames'[j].object # o
          <5>1. CASE j = Len(frames) + 1
            BY <1>3, <1>4, <1>5, <2>2, <5>1
          <5>2. CASE j \in DOMAIN frames
            BY <1>5, <4>1, <4>2, <5>2
          <5> QED
            BY <1>5, <5>1, <5>2
        <4>3. i \in DOMAIN frames' /\ frames'[i].id = frames[i].id /\ frames'[i].object = o
          BY <1>5, <4>1
        <4> QED
          BY <4>1, <4>2, <4>3
      <3> QED
        BY <3>1, <3>2
    <2> QED
      BY <2>1, <2>2
  <1>15. ResultsAreOfTheirCall'
    BY <1>1 DEF ResultsAreOfTheirCall, NoCall
  <1> QED
    BY <1>2, <1>8, <1>9, <1>10, <1>13, <1>14, <1>15 DEF NativeIInv

\* The frames without the innermost call.
LEMMA ReturnFrames ==
    ASSUME NativeTypeOK, frames # <<>>, frames' = SubSeq(frames, 1, Len(frames) - 1)
    PROVE  /\ Len(frames) \in Nat \ {0} /\ Len(frames) \in DOMAIN frames
           /\ DOMAIN frames = 1 .. Len(frames) /\ Top = frames[Len(frames)]
           /\ frames' \in Seq(Frame) /\ DOMAIN frames' = 1 .. Len(frames) - 1
           /\ \A i \in DOMAIN frames' : i \in DOMAIN frames /\ frames'[i] = frames[i]
  <1>1. frames \in Seq(Frame)
    BY DEF NativeTypeOK
  <1>2. Len(frames) \in Nat \ {0} /\ DOMAIN frames = 1 .. Len(frames)
    BY <1>1
  <1>3. /\ frames' \in Seq(Frame) /\ Len(frames') = Len(frames) - 1
        /\ \A i \in 1 .. Len(frames) - 1 : frames'[i] = frames[i]
    BY <1>1, <1>2
  <1>4. DOMAIN frames' = 1 .. Len(frames) - 1
    BY <1>3
  <1> QED
    BY <1>2, <1>3, <1>4 DEF Top

\* An object that is called again inside a call is not that call's any more.
LEMMA CalledAgain ==
    ASSUME NativeIInv, NEW i \in DOMAIN frames, NEW j \in DOMAIN frames, i < j,
           frames[i].object = frames[j].object
    PROVE  frames[i].nested
  <1> SUFFICES ASSUME ~frames[i].nested PROVE FALSE
    BY FrameTypes DEF NativeIInv
  <1> DEFINE o == frames[i].object
  <1>1. frames[i].id # 0 /\ o \in Objects /\ i \in Int /\ j \in Int
    BY FrameTypes DEF NativeIInv
  <1>2. field[o].context = frames[i].id
    BY DEF NativeIInv, FramesOK
  <1>3. PICK k \in DOMAIN frames : /\ frames[k].id = field[o].context
                                   /\ \A l \in DOMAIN frames : l > k => frames[l].object # o
    BY <1>1, <1>2 DEF NativeIInv, FieldsOK
  <1>4. k = i
    BY <1>2, <1>3 DEF NativeIInv, FramesOK
  <1> QED
    BY <1>1, <1>3, <1>4

\* The function returns, or throws.
LEMMA ReturnStep ==
    ASSUME NativeIInv, NEW threw \in BOOLEAN, Return(threw)
    PROVE  NativeIInv'
  <1> DEFINE s == Top.stmt
             o == Top.object
             n == Len(frames)
  <1>1. /\ frames # <<>> /\ frames' = SubSeq(frames, 1, Len(frames) - 1)
        /\ field' = [field EXCEPT ![o] = Cleared]
        /\ UNCHANGED <<db, udf, calls, handler>>
    BY DEF Return, xCallEnd
  <1>2. /\ n \in Nat \ {0} /\ n \in DOMAIN frames /\ DOMAIN frames = 1 .. n /\ Top = frames[n]
        /\ frames' \in Seq(Frame) /\ DOMAIN frames' = 1 .. n - 1
        /\ \A i \in DOMAIN frames' : i \in DOMAIN frames /\ frames'[i] = frames[i]
    BY <1>1, ReturnFrames DEF NativeIInv
  <1>3. /\ s \in Stmts /\ o \in Objects /\ Top.id \in Nat \ {0}
        /\ Top.kind \in {"xFunc", "xStep", "xFinal"}
        /\ Top.result \in Int /\ Top.said \in BOOLEAN /\ Top.nested \in BOOLEAN
    BY <1>2, FrameTypes DEF NativeIInv
  <1>4. /\ stmt[s].phase = "running"
        /\ Top.kind # "xFinal" => stmt[s].rows > 0
        /\ Top.kind = "xFinal" /\ o = CloneOf(s) => stmt[s].clone = "live"
        /\ Top.result \in {0, Error, Top.id}
        /\ Top.said /\ ~Top.nested => Top.result = Top.id
    BY <1>2 DEF NativeIInv, FramesOK
  <1>5. ResultsAreOfTheirCall'
    <2>1. returned' = [result |-> IF threw THEN Error ELSE Top.result, id |-> Top.id,
                       said |-> Top.said, nested |-> Top.nested, threw |-> threw]
      BY DEF Return, xFunc_error
    <2> QED
      BY <1>3, <1>4, <2>1 DEF ResultsAreOfTheirCall
  <1>6. UsedIsAlive'
    <2>1. CASE Top.kind = "xFinal" /\ o = CloneOf(s)
      <3>1. Use("clone", s) /\ Alive("clone", s)
        BY <1>3, <1>4, <2>1, AliveMeans DEF Return
      <3> QED
        BY <3>1, UseAlive DEF NativeIInv
    <2>2. CASE ~(Top.kind = "xFinal" /\ o = CloneOf(s))
      BY <2>2 DEF Return, NativeIInv, UsedIsAlive
    <2> QED
      BY <2>1, <2>2
  <1>7. PICK new \in Statement :
           /\ stmt' = [stmt EXCEPT ![s] = new]
           /\ new.pointer = stmt[s].pointer /\ new.db = stmt[s].db /\ new.name = stmt[s].name
           /\ new.phase \in {"ready", "running"}
    <2>1. stmt[s] \in Statement /\ stmt[s].rows \in 0 .. MaxRows /\ stmt \in [Stmts -> Statement]
      BY <1>3, StatementTypes DEF NativeIInv, NativeTypeOK
    <2>2. CASE Top.kind = "xFinal"
      <3> DEFINE r == [stmt[s] EXCEPT !.clone = "none", !.phase = "ready"]
      <3>1. stmt' = [stmt EXCEPT ![s] = r]
        BY <1>3, <2>1, <2>2 DEF Return, Statement
      <3>2. /\ r \in Statement /\ r.phase = "ready"
            /\ r.pointer = stmt[s].pointer /\ r.db = stmt[s].db /\ r.name = stmt[s].name
        BY <2>1 DEF Statement
      <3> HIDE DEF r, s
      <3> QED
        BY <3>1, <3>2
    <2>3. CASE Top.kind # "xFinal"
      <3> DEFINE k == IF threw THEN 0 ELSE stmt[s].rows - 1
                 r == [stmt[s] EXCEPT !.rows = k]
      <3>1. k \in 0 .. MaxRows
        BY <1>4, <2>1, <2>3, NativeAssumption
      <3>2. stmt' = [stmt EXCEPT ![s] = r]
        BY <1>3, <2>1, <2>3 DEF Return
      <3> HIDE DEF k
      <3>3. /\ r \in Statement /\ r.phase = "running"
            /\ r.pointer = stmt[s].pointer /\ r.db = stmt[s].db /\ r.name = stmt[s].name
        BY <1>4, <2>1, <3>1 DEF Statement
      <3> HIDE DEF r, s
      <3> QED
        BY <3>2, <3>3
    <2> QED
      BY <2>2, <2>3
  <1>8. /\ stmt' \in [Stmts -> Statement] /\ stmt'[s] = new
        /\ \A t \in Stmts : t # s => stmt'[t] = stmt[t]
    BY <1>3, <1>7 DEF NativeIInv, NativeTypeOK
  <1>9. /\ field' \in [Objects -> [context : Nat, value : Nat, args : 0 .. MaxArgs]]
        /\ field'[o].context = 0 /\ field'[o].value = 0
        /\ \A p \in Objects : p # o => field'[p] = field[p]
    <2>1. Cleared \in [context : Nat, value : Nat, args : 0 .. MaxArgs]
      BY NativeAssumption DEF Cleared
    <2> QED
      BY <1>1, <1>3, <2>1 DEF NativeIInv, NativeTypeOK, Cleared
  <1>10. NativeTypeOK'
    BY <1>1, <1>2, <1>8, <1>9 DEF NativeIInv, NativeTypeOK
  <1>11. DatabasesOK' /\ UdfsOK'
    BY <1>1 DEF NativeIInv, DatabasesOK, UdfsOK
  <1>12. StmtsOK'
    <2> SUFFICES ASSUME NEW t \in Stmts
                 PROVE  /\ stmt'[t].phase = "none" => stmt'[t] = NoStmt
                        /\ stmt'[t].phase # "none" =>
                             /\ stmt'[t].pointer /\ stmt'[t].db \in Dbs /\ stmt'[t].name \in Names
                             /\ db[stmt'[t].db].open
                             /\ db[stmt'[t].db].driver \in {"open", "dropped"}
                        /\ stmt'[t].phase = "running" =>
                             db[stmt'[t].db].registry[stmt'[t].name] # 0
      BY <1>1 DEF StmtsOK
    <2> HIDE DEF s
    <2>1. CASE t = s
      BY <1>4, <1>7, <1>8, <2>1 DEF NativeIInv, StmtsOK
    <2>2. CASE t # s
      BY <1>8, <2>2 DEF NativeIInv, StmtsOK
    <2> QED
      BY <2>1, <2>2
  <1>13. FramesOK'
    <2>1. ASSUME NEW i \in DOMAIN frames'
          PROVE  /\ frames'[i].id <= calls'
                 /\ stmt'[frames'[i].stmt].phase = "running"
                 /\ frames'[i].kind # "xFinal" => stmt'[frames'[i].stmt].rows > 0
                 /\ frames'[i].kind = "xFinal" /\ frames'[i].object = CloneOf(frames'[i].stmt) =>
                      stmt'[frames'[i].stmt].clone = "live"
                 /\ frames'[i].result \in {0, Error, frames'[i].id}
                 /\ frames'[i].said /\ ~frames'[i].nested => frames'[i].result = frames'[i].id
                 /\ ~frames'[i].nested => field'[frames'[i].object].context = frames'[i].id
      <3>1. i \in DOMAIN frames /\ frames'[i] = frames[i] /\ i < n /\ i # n
        BY <1>2
      <3>2. frames[i].stmt \in Stmts /\ frames[i].object \in Objects
        BY <3>1, FrameTypes DEF NativeIInv
      <3>3. frames[i].stmt # s
        BY <1>2, <3>1 DEF NativeIInv, FramesOK
      <3>4. stmt'[frames[i].stmt] = stmt[frames[i].stmt]
        BY <1>8, <3>2, <3>3
      <3>5. ~frames[i].nested => frames[i].object # o
        BY <1>2, <3>1, CalledAgain
      <3>6. /\ frames[i].id <= calls
            /\ stmt[frames[i].stmt].phase = "running"
            /\ frames[i].kind # "xFinal" => stmt[frames[i].stmt].rows > 0
            /\ frames[i].kind = "xFinal" /\ frames[i].object = CloneOf(frames[i].stmt) =>
                  stmt[frames[i].stmt].clone = "live"
            /\ frames[i].result \in {0, Error, frames[i].id}
            /\ frames[i].said /\ ~frames[i].nested => frames[i].result = frames[i].id
            /\ ~frames[i].nested => field[frames[i].object].context = frames[i].id
        BY <3>1 DEF NativeIInv, FramesOK
      <3>7. ~frames[i].nested => field'[frames[i].object].context = frames[i].id
        BY <1>9, <3>2, <3>5, <3>6
      <3> QED
        BY <1>1, <3>1, <3>4, <3>6, <3>7
    <2>2. ASSUME NEW i \in DOMAIN frames', NEW j \in DOMAIN frames', i # j
          PROVE  frames'[i].id # frames'[j].id /\ frames'[i].stmt # frames'[j].stmt
      BY <1>2, <2>2 DEF NativeIInv, FramesOK
    <2> QED
      BY <2>1, <2>2 DEF FramesOK
  <1>14. FieldsOK'
    <2> SUFFICES ASSUME NEW p \in Objects
                 PROVE  /\ field'[p].value \in {0, field'[p].context}
                        /\ field'[p].context # 0 =>
                             \E i \in DOMAIN frames' :
                                /\ frames'[i].id = field'[p].context /\ frames'[i].object = p
                                /\ \A j \in DOMAIN frames' : j > i => frames'[j].object # p
      BY DEF FieldsOK
    <2>1. CASE p = o
      BY <1>9, <2>1
    <2>2. CASE p # o
      <3>1. field'[p] = field[p] /\ field[p].value \in {0, field[p].context}
        BY <1>9, <2>2 DEF NativeIInv, FieldsOK
      <3>2. ASSUME field[p].context # 0
            PROVE  \E i \in DOMAIN frames' :
                      /\ frames'[i].id = field[p].context /\ frames'[i].object = p
                      /\ \A j \in DOMAIN frames' : j > i => frames'[j].object # p
        <4>1. PICK i \in DOMAIN frames :
                 /\ frames[i].id = field[p].context /\ frames[i].object = p
                 /\ \A j \in DOMAIN frames : j > i => frames[j].object # p
          BY <3>2 DEF NativeIInv, FieldsOK
        <4>2. i # n
          BY <1>2, <2>2, <4>1
        <4>3. i \in DOMAIN frames'
          BY <1>2, <4>2
        <4>4. \A j \in DOMAIN frames' : j > i => frames'[j].object # p
          BY <1>2, <4>1
        <4> QED
          BY <1>2, <4>1, <4>3, <4>4
      <3> QED
        BY <3>1, <3>2
    <2> QED
      BY <2>1, <2>2
  <1> QED
    BY <1>5, <1>6, <1>10, <1>11, <1>12, <1>13, <1>14 DEF NativeIInv

\* The calls keep what they are; each has a result of its own.
LEMMA ResultKeeps ==
    ASSUME NativeIInv, UsedIsAlive',
           UNCHANGED <<db, udf, stmt, field, calls, handler, returned>>,
           NEW new \in [DOMAIN frames -> Frame], frames' = new,
           \A i \in DOMAIN frames :
              /\ new[i].id = frames[i].id /\ new[i].stmt = frames[i].stmt
              /\ new[i].object = frames[i].object /\ new[i].kind = frames[i].kind
              /\ new[i].nested = frames[i].nested
              /\ new[i].result \in {0, Error, frames[i].id}
              /\ new[i].said /\ ~frames[i].nested => new[i].result = frames[i].id
    PROVE  NativeIInv'
  <1>1. frames' \in Seq(Frame) /\ DOMAIN frames' = DOMAIN frames
    BY MappedSeq DEF NativeIInv, NativeTypeOK
  <1>2. NativeTypeOK' /\ DatabasesOK' /\ UdfsOK' /\ StmtsOK' /\ ResultsAreOfTheirCall'
    BY <1>1 DEF NativeIInv, NativeTypeOK, DatabasesOK, UdfsOK, StmtsOK, ResultsAreOfTheirCall
  <1>3. FramesOK'
    BY <1>1 DEF NativeIInv, FramesOK
  <1>4. FieldsOK'
    BY <1>1 DEF NativeIInv, FieldsOK
  <1> QED
    BY <1>2, <1>3, <1>4 DEF NativeIInv

\* The context of the innermost call's object is that call, unless its fields
\* were cleared by a call inside it.
LEMMA ContextOfTop ==
    ASSUME NativeIInv, frames # <<>>
    PROVE  LET c == field[Top.object].context
           IN  /\ Len(frames) \in DOMAIN frames /\ Top = frames[Len(frames)]
               /\ c = 0 => Top.nested
               /\ c # 0 => c = Top.id /\ Alive("context", c)
               /\ \A i \in DOMAIN frames : frames[i].id = c => i = Len(frames)
  <1> DEFINE n == Len(frames)
             c == field[Top.object].context
  <1>1. /\ n \in Nat \ {0} /\ n \in DOMAIN frames /\ DOMAIN frames = 1 .. n /\ Top = frames[n]
    <2>1. frames \in Seq(Frame)
      BY DEF NativeIInv, NativeTypeOK
    <2> QED
      BY <2>1 DEF Top
  <1>2. Top.object \in Objects /\ Top.id \in Nat \ {0} /\ Top.nested \in BOOLEAN
    BY <1>1, FrameTypes DEF NativeIInv
  <1>3. ~Top.nested => c = Top.id
    BY <1>1 DEF NativeIInv, FramesOK
  <1>4. ASSUME c # 0 PROVE c = Top.id
    <2>1. PICK i \in DOMAIN frames : /\ frames[i].id = c
                                     /\ \A j \in DOMAIN frames : j > i => frames[j].object # Top.object
      BY <1>2, <1>4 DEF NativeIInv, FieldsOK
    <2>2. ~(n > i) /\ i \in 1 .. n
      BY <1>1, <2>1
    <2> QED
      BY <1>1, <2>1, <2>2
  <1>5. ASSUME NEW i \in DOMAIN frames, frames[i].id = c PROVE i = n
    <2>1. c # 0
      BY <1>5, FrameTypes DEF NativeIInv
    <2>2. frames[i].id = frames[n].id
      BY <1>1, <1>4, <1>5, <2>1
    <2> QED
      BY <1>1, <2>2 DEF NativeIInv, FramesOK
  <1>6. c # 0 => Alive("context", c)
    BY <1>1, <1>4, AliveMeans
  <1> QED
    BY <1>1, <1>2, <1>3, <1>4, <1>5, <1>6

LEMMA ResultStep ==
    ASSUME NativeIInv, frames # <<>>, Result(Top.object)
    PROVE  NativeIInv'
  <1> DEFINE c == field[Top.object].context
             n == Len(frames)
  <1>1. /\ n \in DOMAIN frames /\ Top = frames[n]
        /\ c = 0 => Top.nested
        /\ c # 0 => c = Top.id /\ Alive("context", c)
        /\ \A i \in DOMAIN frames : frames[i].id = c => i = n
    BY ContextOfTop
  <1>2. UNCHANGED <<db, udf, stmt, field, calls, handler, returned>>
    BY DEF Result
  <1>3. \A i \in DOMAIN frames :
           /\ frames[i] \in Frame /\ frames[i].id \in Nat \ {0}
           /\ frames[i].result \in {0, Error, frames[i].id}
           /\ frames[i].said /\ ~frames[i].nested => frames[i].result = frames[i].id
    BY FrameTypes DEF NativeIInv, FramesOK
  <1>4. CASE c = 0
    <2> DEFINE new == [frames EXCEPT ![n].said = TRUE]
    <2>1. frames' = new /\ UsedIsAlive'
      BY <1>4 DEF Result, NativeIInv, UsedIsAlive
    <2>2. /\ new \in [DOMAIN frames -> Frame]
          /\ \A i \in DOMAIN frames :
               /\ new[i].id = frames[i].id /\ new[i].stmt = frames[i].stmt
               /\ new[i].object = frames[i].object /\ new[i].kind = frames[i].kind
               /\ new[i].nested = frames[i].nested /\ new[i].result = frames[i].result
               /\ i # n => new[i].said = frames[i].said
      <3>1. frames \in [DOMAIN frames -> Frame]
        <4>1. frames \in Seq(Frame)
          BY DEF NativeIInv, NativeTypeOK
        <4> QED
          BY <4>1
      <3> QED
        BY <1>1, <3>1 DEF Frame
    <2> HIDE DEF new
    <2>3. \A i \in DOMAIN frames : new[i].said /\ ~frames[i].nested => i # n
      BY <1>1, <1>4
    <2> QED
      BY <1>2, <1>3, <2>1, <2>2, <2>3, ResultKeeps
  <1>5. CASE c # 0
    <2> DEFINE new == [i \in DOMAIN frames |->
                         [frames[i] EXCEPT !.result = IF frames[i].id = c THEN Top.id ELSE @,
                                           !.said   = @ \/ i = n]]
    <2>1. frames' = new /\ Use("context", c)
      BY <1>5 DEF Result
    <2>2. UsedIsAlive'
      BY <1>1, <1>5, <2>1, UseAlive DEF NativeIInv
    <2>3. ASSUME NEW i \in DOMAIN frames
          PROVE  /\ new[i] \in Frame
                 /\ new[i].id = frames[i].id /\ new[i].stmt = frames[i].stmt
                 /\ new[i].object = frames[i].object /\ new[i].kind = frames[i].kind
                 /\ new[i].nested = frames[i].nested
                 /\ new[i].result = (IF i = n THEN frames[i].id ELSE frames[i].result)
                 /\ i # n => new[i].said = frames[i].said
      <3>1. frames[i] \in Frame /\ frames[i].said \in BOOLEAN
        BY FrameTypes DEF NativeIInv
      <3>2. (frames[i].id = c) = (i = n) /\ Top.id = frames[n].id
        BY <1>1, <1>5
      <3>3. new[i] = [frames[i] EXCEPT !.result = IF i = n THEN frames[i].id ELSE frames[i].result,
                                       !.said = frames[i].said \/ i = n]
        BY <3>2
      <3>4. PICK r \in Int : r = IF i = n THEN frames[i].id ELSE frames[i].result
        BY FrameTypes DEF NativeIInv
      <3>5. PICK b \in BOOLEAN : b = (frames[i].said \/ i = n)
        BY <3>1
      <3>6. new[i] = [frames[i] EXCEPT !.result = r, !.said = b]
        BY <3>3, <3>4, <3>5
      <3> HIDE DEF new
      <3>7. i # n => b = frames[i].said
        BY <3>1, <3>5
      <3> QED
        BY <3>1, <3>4, <3>6, <3>7 DEF Frame
    <2>4. new \in [DOMAIN frames -> Frame]
      BY <2>3
    <2> HIDE DEF new
    <2> QED
      BY <1>2, <1>3, <2>1, <2>2, <2>3, <2>4, ResultKeeps
  <1> QED
    BY <1>4, <1>5

LEMMA ResultTextStep ==
    ASSUME NativeIInv, frames # <<>>, NEW text, ResultText(Top.object, text)
    PROVE  NativeIInv'
  <1> DEFINE c == field[Top.object].context
             n == Len(frames)
  <1>1. /\ n \in DOMAIN frames /\ Top = frames[n]
        /\ c # 0 => c = Top.id /\ Alive("context", c)
        /\ \A i \in DOMAIN frames : frames[i].id = c => i = n
    BY ContextOfTop
  <1>2. CASE ~(text = NoText /\ c # 0)
    BY <1>2, ResultStep DEF ResultText
  <1>3. CASE text = NoText /\ c # 0
    <2> DEFINE new == [i \in DOMAIN frames |->
                         [frames[i] EXCEPT !.result = IF frames[i].id = c THEN Error ELSE @,
                                           !.said   = @ /\ i # n]]
    <2>1. /\ frames' = new /\ Use("context", c)
          /\ UNCHANGED <<db, udf, stmt, field, calls, handler, returned>>
      BY <1>3 DEF ResultText
    <2>2. UsedIsAlive'
      BY <1>1, <1>3, <2>1, UseAlive DEF NativeIInv
    <2>3. ASSUME NEW i \in DOMAIN frames
          PROVE  /\ new[i] \in Frame
                 /\ new[i].id = frames[i].id /\ new[i].stmt = frames[i].stmt
                 /\ new[i].object = frames[i].object /\ new[i].kind = frames[i].kind
                 /\ new[i].nested = frames[i].nested
                 /\ new[i].result \in {0, Error, frames[i].id}
                 /\ new[i].said /\ ~frames[i].nested => new[i].result = frames[i].id
      <3>1. /\ frames[i] \in Frame /\ frames[i].said \in BOOLEAN /\ frames[i].result \in Int
            /\ frames[i].result \in {0, Error, frames[i].id}
            /\ frames[i].said /\ ~frames[i].nested => frames[i].result = frames[i].id
        BY FrameTypes DEF NativeIInv, FramesOK
      <3>2. (frames[i].id = c) = (i = n)
        BY <1>1, <1>3
      <3>3. new[i] = [frames[i] EXCEPT !.result = IF i = n THEN Error ELSE frames[i].result,
                                       !.said = frames[i].said /\ i # n]
        BY <3>2
      <3>4. PICK r \in Int : r = IF i = n THEN Error ELSE frames[i].result
        BY <3>1 DEF Error
      <3>5. PICK b \in BOOLEAN : b = (frames[i].said /\ i # n)
        BY <3>1
      <3>6. new[i] = [frames[i] EXCEPT !.result = r, !.said = b]
        BY <3>3, <3>4, <3>5
      <3> HIDE DEF new
      <3>7. b => frames[i].said /\ r = frames[i].result
        BY <3>1, <3>4, <3>5
      <3>8. r \in {0, Error, frames[i].id}
        BY <3>1, <3>4
      <3> QED
        BY <3>1, <3>6, <3>7, <3>8 DEF Frame
    <2>4. new \in [DOMAIN frames -> Frame]
      BY <2>3
    <2> HIDE DEF new
    <2> QED
      BY <2>1, <2>2, <2>3, <2>4, ResultKeeps
  <1> QED
    BY <1>2, <1>3

\* An argument is looked at through the context of the running call.
LEMMA ValueStep ==
    ASSUME NativeIInv, frames # <<>>, NEW arg, Value(Top.object, arg)
    PROVE  NativeIInv'
  <1> DEFINE v == field[Top.object].value
  <1>1. UsedIsAlive'
    <2>1. CASE tovalue(Top.object, arg) # "none"
      BY <2>1, RefusedUses DEF Value, NativeIInv
    <2>2. CASE tovalue(Top.object, arg) = "none"
      <3>1. v # 0 /\ Use("context", v)
        BY <2>2 DEF Value, tovalue
      <3>2. Top.object \in Objects
        BY ContextOfTop, FrameTypes DEF NativeIInv
      <3>3. v = field[Top.object].context
        BY <3>1, <3>2 DEF NativeIInv, FieldsOK
      <3> QED
        BY <3>1, <3>3, ContextOfTop, UseAlive DEF NativeIInv
    <2> QED
      BY <2>1, <2>2
  <1> QED
    BY <1>1, NothingMoves DEF Value

LEMMA xFuncStep ==
    ASSUME NativeIInv, NEW s \in Stmts, xFunc(s)
    PROVE  NativeIInv'
  <1>1. MayCall(s) /\ stmt[s].phase = "running" /\ stmt[s].rows > 0 /\ stmt' = stmt
    BY DEF xFunc, MayCall
  <1>2. PICK args \in 0 .. MaxArgs : xCall(s, UdfOf(s), udf[UdfOf(s)].func, "xFunc", args)
    BY DEF xFunc
  <1>3. udf[UdfOf(s)].func \in Objects
    BY <1>1, UdfIsLive DEF Objects
  <1> QED
    BY <1>1, <1>2, <1>3, CallStep DEF CloneAppears

LEMMA xStepStep ==
    ASSUME NativeIInv, NEW s \in Stmts, xStep(s)
    PROVE  NativeIInv'
  <1>1. MayCall(s) /\ stmt[s].rows > 0 /\ CloneAppears(s)
    BY DEF xStep, CloneAppears
  <1>2. PICK args \in 0 .. MaxArgs : xCall(s, UdfOf(s), CloneOf(s), "xStep", args)
    BY DEF xStep
  <1>3. CloneOf(s) \in Objects
    BY DEF Objects
  <1> QED
    BY <1>1, <1>2, <1>3, CallStep

\* Without a clone the object of the function itself is called.
LEMMA xFinalStep ==
    ASSUME NativeIInv, NEW s \in Stmts, xFinal(s)
    PROVE  NativeIInv'
  <1> DEFINE o == IF stmt[s].clone = "live" THEN CloneOf(s) ELSE udf[UdfOf(s)].func
  <1>1. /\ MayCall(s) /\ stmt[s].phase = "running" /\ stmt' = stmt
        /\ xCall(s, UdfOf(s), o, "xFinal", 0)
    BY DEF xFinal, MayCall
  <1>2. udf[UdfOf(s)].func \in Functions /\ CloneOf(s) \notin Functions
    BY <1>1, UdfIsLive, NativeAssumption
  <1>3. o \in Objects /\ (o = CloneOf(s) => stmt[s].clone = "live")
    BY <1>2 DEF Objects
  <1>4. 0 \in 0 .. MaxArgs
    BY NativeAssumption
  <1> HIDE DEF o
  <1> QED
    BY <1>1, <1>3, <1>4, CallStep DEF CloneAppears

-----------------------------------------------------------------------------
(* The induction.                                                          *)

LEMMA NativeStarts == NativeInit => NativeIInv
  <1> SUFFICES ASSUME NativeInit PROVE NativeIInv
    OBVIOUS
  <1>1. MaxRows \in Nat /\ MaxArgs \in Nat /\ MaxUdfs \in Nat
    BY NativeAssumption
  <1>2. NativeTypeOK
    <2>1. Closed \in Database
      <3>1. PICK q \in Seq(Nat) : q = <<>>
        BY EmptySeq
      <3>2. [n \in Names |-> 0] \in [Names -> Nat]
        OBVIOUS
      <3> QED
        BY <3>1, <3>2 DEF Closed, Database
    <2>2. NoStmt \in Statement
      BY <1>1 DEF NoStmt, Statement
    <2>3. Cleared \in [context : Nat, value : Nat, args : 0 .. MaxArgs]
      BY <1>1 DEF Cleared
    <2>4. udf \in Seq([func : Functions, live : BOOLEAN]) /\ Len(udf) = 0 /\ frames \in Seq(Frame)
      BY EmptySeq DEF NativeInit
    <2> QED
      BY <1>1, <2>1, <2>2, <2>3, <2>4 DEF NativeInit, NativeTypeOK
  <1>3. \A d \in Dbs : /\ db[d].driver = "closed" /\ ~db[d].handle /\ ~db[d].progress /\ ~db[d].busy
                       /\ db[d].list = <<>> /\ \A n \in Names : db[d].registry[n] = 0
    BY DEF NativeInit, Closed
  <1>4. DatabasesOK
    BY <1>3 DEF DatabasesOK
  <1>5. UdfsOK
    BY <1>3 DEF NativeInit, UdfsOK
  <1>6. StmtsOK
    BY DEF NativeInit, StmtsOK, NoStmt
  <1>7. FramesOK /\ FieldsOK
    BY DEF NativeInit, FramesOK, FieldsOK, Cleared
  <1>8. UsedIsAlive /\ ResultsAreOfTheirCall
    BY DEF NativeInit, UsedIsAlive, ResultsAreOfTheirCall, NoCall
  <1> QED
    BY <1>2, <1>4, <1>5, <1>6, <1>7, <1>8 DEF NativeIInv

\* Every method of the driver keeps the invariant.
LEMMA NativeStep ==
    ASSUME OneHandlerDb, NativeIInv, NativeNext
    PROVE  NativeIInv'
  <1>1. ASSUME NEW d \in Dbs, DatabaseNext(d)
        PROVE  NativeIInv'
    <2>1. db[d].driver \in {"closed", "open"}
      BY <1>1 DEF DatabaseNext
    <2>2. CASE \E file \in Names \cup {NoText} : OpenUtf8(d, file)
      BY <2>1, <2>2, OpenUtf8Step
    <2>3. CASE OnDatabase(d)
      BY <2>1, <2>3, OnDatabaseStep
    <2>4. CASE \E text \in Names \cup {NoText} : ExecUtf8(d, text)
      BY <2>1, <2>4, ExecUtf8Step
    <2>5. CASE \E some \in BOOLEAN : BusyHandler(d, some)
      BY <2>1, <2>5, BusyHandlerStep
    <2> QED
      BY <1>1, <2>2, <2>3, <2>4, <2>5
         DEF DatabaseNext, EnableLoadExtension, InterruptOrTimeout, ErrmsgOrChanges
  <1>2. ASSUME NEW d \in Dbs, OpenDatabaseNext(d)
        PROVE  NativeIInv'
    <2>1. db[d].driver = "open"
      BY <1>2 DEF OpenDatabaseNext
    <2>2. CASE \E name \in Names \cup {NoText}, f \in Functions : CreateFunctionUtf8(d, name, f)
      BY <2>1, <2>2, CreateFunctionStep
    <2>3. CASE \E name \in Names \cup {NoText} : DestroyFunctionUtf8(d, name)
      BY <2>1, <2>3, DestroyFunctionStep
    <2>4. CASE \/ d \in HandlerDbs /\ RegisterProgressHandler(d)
               \/ db[d].progress /\ ClearProgressHandler(d)
      BY <2>1, <2>4, ProgressHandlerStep
    <2> QED
      BY <1>2, <2>2, <2>3, <2>4 DEF OpenDatabaseNext
  <1>3. ASSUME NEW d \in Dbs, CloseNext(d)
        PROVE  NativeIInv'
    BY <1>3, FreeFunctionsStep, CloseStep DEF CloseNext
  <1>4. ASSUME NEW d \in Dbs, NEW s \in Stmts, StatementNext(d, s)
        PROVE  NativeIInv'
    <2>1. db[d].driver \in {"closed", "open"} /\ db[d].driver # "dropped"
      BY <1>4 DEF StatementNext
    <2>2. CASE \E name \in Names \cup {NoText} : PrepareUtf8(d, s, name)
      BY <2>1, <2>2, PrepareStep
    <2>3. CASE Step(s) \/ Finalize(s)
      BY <2>3, StepStep, FinalizeStep
    <2>4. CASE Reset(s) \/ CountsAndTypes(s) \/ ColumnNames(s) \/ ColumnNumbers(s) \/ BindNumbers(s)
      BY <2>4, OnStatementStep DEF Reset, CountsAndTypes, ColumnNames, ColumnNumbers, BindNumbers
    <2>5. CASE \E text \in Names \cup {NoText} : BindText(s, text) \/ BindBlob(s, text)
      BY <2>5, BindStep
    <2>6. CASE \E text \in Names \cup {NoText} :
                  ColumnText(d, s, text) \/ ColumnBlob(d, s, text) \/ ColumnMetadata(d, s, text)
      BY <2>1, <2>6, ColumnOfStep DEF ColumnText, ColumnBlob, ColumnMetadata
    <2> QED
      BY <1>4, <2>2, <2>3, <2>4, <2>5, <2>6 DEF StatementNext
  <1>5. ASSUME NEW s \in Stmts, CallNext(s)
        PROVE  NativeIInv'
    BY <1>5, xFuncStep, xStepStep, xFinalStep, StepDoneStep, CallBackStep DEF CallNext
  <1>6. CASE FunctionNext
    <2>1. frames # <<>>
      BY <1>6 DEF FunctionNext
    <2>2. CASE Result(Top.object) \/ \E text \in Names \cup {NoText} : ResultText(Top.object, text)
      BY <2>1, <2>2, ResultStep, ResultTextStep
    <2>3. CASE \E arg \in -1 .. MaxArgs : Value(Top.object, arg)
      BY <2>1, <2>3, ValueStep
    <2>4. CASE \E arg \in 0 .. MaxArgs : ValueType(Top.object, arg)
      BY <2>1, <2>4, ValueStep DEF ValueType
    <2>5. CASE \E threw \in BOOLEAN : Return(threw)
      BY <2>5, ReturnStep
    <2> QED
      BY <1>6, <2>2, <2>3, <2>4, <2>5 DEF FunctionNext
  <1> QED
    BY <1>1, <1>2, <1>3, <1>4, <1>5, <1>6 DEF NativeNext

LEMMA NativeStutters ==
    ASSUME NativeIInv, UNCHANGED vars
    PROVE  NativeIInv'
  <1>1. UsedIsAlive'
    BY DEF NativeIInv, UsedIsAlive, vars
  <1> QED
    BY <1>1, NothingMoves DEF vars

\* The places of a UDFData on the lists: one while it is live, none after.
LEMMA Owned ==
    ASSUME NativeTypeOK, UdfsOK
    PROVE  UdfsAreOwned
  <1> SUFFICES ASSUME NEW u \in DOMAIN udf
               PROVE  Cardinality(Places(u)) = (IF udf[u].live THEN 1 ELSE 0)
    BY DEF UdfsAreOwned
  <1>1. /\ \A d \in Dbs : Len(db[d].list) <= Len(udf)
        /\ \A d \in Dbs : \A i \in DOMAIN db[d].list :
              db[d].list[i] \in DOMAIN udf /\ udf[db[d].list[i]].live
        /\ udf[u].live => \E d \in Dbs : \E i \in DOMAIN db[d].list : db[d].list[i] = u
        /\ \A d, e \in Dbs : \A i \in DOMAIN db[d].list, j \in DOMAIN db[e].list :
              db[d].list[i] = db[e].list[j] => d = e /\ i = j
    BY DEF UdfsOK
  <1>2. CASE ~udf[u].live
    <2>1. Places(u) = {}
      BY <1>1, <1>2 DEF Places
    <2> QED
      BY <1>2, <2>1, FS_EmptySet
  <1>3. CASE udf[u].live
    <2>a. PICK d \in Dbs : \E i \in DOMAIN db[d].list : db[d].list[i] = u
      BY <1>1, <1>3
    <2>1. PICK i \in DOMAIN db[d].list : db[d].list[i] = u
      BY <2>a
    <2>2. i \in 1 .. MaxUdfs
      <3>1. db[d].list \in Seq(Nat) /\ udf \in Seq([func : Functions, live : BOOLEAN])
        BY DatabaseTypes DEF NativeTypeOK
      <3>2. Len(udf) \in Nat /\ Len(udf) <= MaxUdfs /\ MaxUdfs \in Nat
        BY <3>1, NativeAssumption DEF NativeTypeOK
      <3> QED
        BY <1>1, <3>1, <3>2
    <2>3. <<d, i>> \in Places(u)
      BY <2>1, <2>2 DEF Places
    <2>4. ASSUME NEW q \in Places(u)
          PROVE  q = <<d, i>>
      <3>1. q \in Dbs \X (1 .. MaxUdfs) /\ q[1] \in Dbs /\ q[2] \in DOMAIN db[q[1]].list
            /\ db[q[1]].list[q[2]] = u
        BY DEF Places
      <3>2. q[1] = d /\ q[2] = i
        BY <1>1, <2>1, <3>1
      <3> QED
        BY <3>1, <3>2
    <2>5. Places(u) = {<<d, i>>}
      BY <2>3, <2>4
    <2> QED
      BY <1>3, <2>5, FS_Singleton
  <1> QED
    BY <1>2, <1>3

LEMMA NothingDanglesFollows == NativeIInv => NothingDangles
  BY Owned DEF NativeIInv, NothingDangles

-----------------------------------------------------------------------------
(* backup and restore.                                                     *)

Stores == {"database", "file"}
Codes  == {"ok", "done", "busy", "error", "misuse", "nomem", "cantopen"}

CopyTypeOK ==
    /\ content \in [Stores -> Nat]
    /\ writes \in Nat
    /\ copy \in [op : {"idle", "backup", "restore"}, at : {"open", "init", "copy", "finish"},
                 seen : Nat, left : Int, tries : Nat, rc : Codes,
                 before : Nat, during : SUBSET Nat]
    /\ copied \in [op : {"none", "backup", "restore"}, rc : Codes, done : BOOLEAN,
                   before : Nat, during : SUBSET Nat, tries : Nat]

\* A copy that runs has changed nothing yet; its source was at some moment of
\* the call what the pages copied so far are from, and what it is now.
CopyRuns ==
    copy # Idle =>
        /\ copy.op \in {"backup", "restore"}
        /\ copied = NoCopy
        /\ content[Target(copy.op)] = copy.before
        /\ content[Source(copy.op)] \in copy.during
        /\ copy.at \in {"init", "copy", "finish"}
        /\ copy.at \in {"copy", "finish"} => copy.seen \in copy.during
        /\ copy.at = "finish" => copy.rc \in {"done", "busy", "error"}

CopyIInv == CopyTypeOK /\ CopyRuns /\ CopiesAreWhole

\* The two stores of a copy.
LEMMA Stored ==
    ASSUME NEW op \in {"backup", "restore"}
    PROVE  /\ Source(op) \in Stores /\ Target(op) \in Stores /\ Source(op) # Target(op)
           /\ \A store \in Stores : store = Source(op) \/ store = Target(op)
  BY DEF Source, Target, Stores

Copying(c, at, left, seen, rc) ==
    [op |-> c.op, at |-> at, seen |-> seen, left |-> left, tries |-> c.tries, rc |-> rc,
     before |-> c.before, during |-> c.during]

\* The fields of a copy that goes on.
LEMMA Copied ==
    ASSUME CopyTypeOK, NEW at \in {"open", "init", "copy", "finish"}, NEW left \in Int,
           NEW seen \in Nat, NEW rc \in Codes
    PROVE  Copying(copy, at, left, seen, rc) \in
              [op : {"idle", "backup", "restore"}, at : {"open", "init", "copy", "finish"},
               seen : Nat, left : Int, tries : Nat, rc : Codes, before : Nat, during : SUBSET Nat]
  BY DEF CopyTypeOK, Copying

\* Nothing is being copied at first.
LEMMA CopyStarts == CopyInit => CopyIInv
  BY DEF CopyInit, CopyIInv, CopyTypeOK, CopyRuns, CopiesAreWhole, Idle, NoCopy, Stores, Codes

\* A call begins, or ends at once.
LEMMA BeginKeeps ==
    ASSUME CopyIInv, NEW op \in {"backup", "restore"}, Begin(op)
    PROVE  CopyIInv'
  <1> USE DEF CopyIInv, CopyTypeOK, Codes
  <1>1. content' = content /\ writes' = writes /\ copy = Idle
    BY DEF Begin
  <1>2. CASE copy' = copy
    <2>1. PICK rc \in {"misuse", "nomem", "cantopen"} :
             copied' = [op |-> op, rc |-> rc, done |-> FALSE, before |-> content[Target(op)],
                        during |-> {content[Source(op)]}, tries |-> 0]
      BY <1>1, <1>2, Stored DEF Begin, Idle
    <2>2. CopyTypeOK'
      BY <1>1, <1>2, <2>1, Stored DEF NoCopy
    <2>3. CopiesAreWhole'
      BY <1>1, <1>2, <2>1, Stored DEF NoCopy, CopiesAreWhole
    <2>4. CopyRuns'
      BY <1>1, <1>2 DEF CopyRuns
    <2> QED BY <2>2, <2>3, <2>4
  <1>3. CASE copy' # copy
    <2>1. /\ copy' = [op |-> op, at |-> "init", seen |-> 0, left |-> 0, tries |-> 0, rc |-> "ok",
                     before |-> content[Target(op)], during |-> {content[Source(op)]}]
          /\ copied' = NoCopy
      BY <1>3 DEF Begin
    <2>2. CopyTypeOK'
      BY <1>1, <2>1, Stored DEF NoCopy, Idle
    <2>3. CopiesAreWhole'
      BY <2>1 DEF NoCopy, CopiesAreWhole
    <2>4. CopyRuns'
      BY <1>1, <2>1 DEF CopyRuns, Idle
    <2> QED BY <2>2, <2>3, <2>4
  <1> QED BY <1>2, <1>3

\* The copy object is made, or not.
LEMMA BackupInitKeeps ==
    ASSUME CopyIInv, BackupInit
    PROVE  CopyIInv'
  <1> USE DEF CopyIInv, CopyTypeOK, Codes
  <1>1. copy.at = "init" /\ copy # Idle /\ copy.op \in {"backup", "restore"}
    BY DEF BackupInit, Idle, CopyRuns
  <1>2. content' = content /\ writes' = writes
    BY DEF BackupInit
  <1>3. CASE Finished(copy.op, FileErrcode(copy.op, "error"), FALSE)
    <2>1. /\ copy' = Idle
          /\ copied' = [op |-> copy.op, rc |-> FileErrcode(copy.op, "error"), done |-> FALSE,
                        before |-> copy.before, during |-> copy.during, tries |-> copy.tries]
      BY <1>3 DEF Finished
    <2>2. FileErrcode(copy.op, "error") \in {"ok", "error"}
          /\ (copy.op = "backup" => FileErrcode(copy.op, "error") = "error")
      BY DEF FileErrcode, Target
    <2>3. CopyTypeOK'
      BY <1>1, <1>2, <2>1, <2>2 DEF Idle
    <2>4. CopiesAreWhole'
      BY <1>1, <1>2, <2>1, <2>2 DEF CopiesAreWhole, CopyRuns
    <2>5. CopyRuns'
      BY <2>1 DEF CopyRuns
    <2> QED BY <2>3, <2>4, <2>5
  <1>4. CASE /\ copy' = [copy EXCEPT !.at = "copy", !.left = MaxChunks,
                           !.seen = content[Source(copy.op)]]
             /\ copied' = copied
    <2>1. CopyTypeOK'
      <3>1. content[Source(copy.op)] \in Nat
        BY <1>1, Stored
      <3>2. copy' = Copying(copy, "copy", MaxChunks, content[Source(copy.op)], copy.rc)
        BY <1>4, Zenon DEF Copying
      <3> QED BY <1>2, <1>4, <3>1, <3>2, CopyAssumption, Copied
    <2>2. CopiesAreWhole'
      BY <1>1, <1>4 DEF CopiesAreWhole, CopyRuns, NoCopy
    <2>3. CopyRuns'
      BY <1>1, <1>2, <1>4 DEF CopyRuns
    <2> QED BY <2>1, <2>2, <2>3
  <1> QED BY <1>3, <1>4 DEF BackupInit

\* A step that copies pages or fails leaves both databases as they are.
LEMMA ChunkKeeps ==
    ASSUME CopyIInv, NEW rc \in {"ok", "done", "busy", "error"}, Chunk(rc), content' = content
    PROVE  CopyIInv'
  <1> USE DEF CopyIInv, CopyTypeOK, Codes
  <1> DEFINE left == (IF copy.seen = content[Source(copy.op)] THEN copy.left ELSE MaxChunks) - 1
  <1>1. copy.at = "copy" /\ copy # Idle /\ copy.op \in {"backup", "restore"}
    BY DEF Chunk, Idle, CopyRuns
  <1>2. writes' = writes /\ copied' = copied /\ copied = NoCopy
    BY <1>1 DEF Chunk, CopyRuns
  <1>3. \/ copy' = [copy EXCEPT !.left = left, !.seen = content[Source(copy.op)]]
        \/ copy' = [copy EXCEPT !.left = 0, !.seen = content[Source(copy.op)],
                                !.at = "finish", !.rc = "done"]
        \/ rc \in {"busy", "error"} /\ copy' = [copy EXCEPT !.at = "finish", !.rc = rc]
    BY DEF Chunk
  <1>4. left \in Int /\ content[Source(copy.op)] \in Nat
    BY <1>1, Stored, CopyAssumption
  <1> HIDE DEF left
  <1>5. CopyTypeOK'
    <2>1. \E at \in {"copy", "finish"}, l \in Int, seen \in Nat, c \in Codes :
             copy' = Copying(copy, at, l, seen, c)
      <3>1. CASE copy' = [copy EXCEPT !.left = left, !.seen = content[Source(copy.op)]]
        <4>1. copy' = Copying(copy, copy.at, left, content[Source(copy.op)], copy.rc)
          BY <3>1, Zenon DEF Copying
        <4> QED BY <4>1, <1>1, <1>4
      <3>2. CASE copy' = [copy EXCEPT !.left = 0, !.seen = content[Source(copy.op)],
                                      !.at = "finish", !.rc = "done"]
        <4>1. copy' = Copying(copy, "finish", 0, content[Source(copy.op)], "done")
          BY <3>2, Zenon DEF Copying
        <4> QED BY <4>1, <1>4
      <3>3. CASE copy' = [copy EXCEPT !.at = "finish", !.rc = rc]
        <4>1. copy' = Copying(copy, "finish", copy.left, copy.seen, rc)
          BY <3>3, Zenon DEF Copying
        <4>2. copy.left \in Int /\ copy.seen \in Nat /\ rc \in Codes
          OBVIOUS
        <4> QED BY <4>1, <4>2
      <3> QED BY <1>3, <3>1, <3>2, <3>3
    <2>2. copy' \in [op : {"idle", "backup", "restore"}, at : {"open", "init", "copy", "finish"},
                     seen : Nat, left : Int, tries : Nat, rc : Codes, before : Nat,
                     during : SUBSET Nat]
      <3>1. PICK at \in {"copy", "finish"}, l \in Int, seen \in Nat, c \in Codes :
               copy' = Copying(copy, at, l, seen, c)
        BY <2>1, Zenon
      <3>2. CopyTypeOK
        OBVIOUS
      <3>3. at \in {"open", "init", "copy", "finish"}
        BY <3>1
      <3> HIDE DEF CopyIInv, CopyTypeOK, Codes
      <3> QED BY <3>1, <3>2, <3>3, Copied
    <2> QED BY <2>2, <1>2
  <1>6. CopiesAreWhole'
    BY <1>2 DEF CopiesAreWhole, NoCopy
  <1>7. CopyRuns'
    BY <1>1, <1>2, <1>3, ZenonT(40) DEF CopyRuns
  <1> QED BY <1>5, <1>6, <1>7

\* restore waits.
LEMMA WaitKeeps ==
    ASSUME CopyIInv, copy.at = "copy", copy' = [copy EXCEPT !.tries = @ + 1],
           UNCHANGED <<content, writes, copied>>
    PROVE  CopyIInv'
  <1> USE DEF CopyIInv, CopyTypeOK, Codes
  <1>1. copy # Idle
    BY DEF Idle
  <1>2. CopyTypeOK'
    OBVIOUS
  <1>3. CopiesAreWhole'
    BY DEF CopiesAreWhole
  <1>4. CopyRuns'
    BY <1>1 DEF CopyRuns
  <1> QED BY <1>2, <1>3, <1>4

\* The end: the target is replaced as a whole, or not at all.
LEMMA FinishKeeps ==
    ASSUME CopyIInv, BackupFinish
    PROVE  CopyIInv'
  <1> USE DEF CopyIInv, CopyTypeOK
  <1> DEFINE rc == IF copy.op = "backup" THEN BackupRc ELSE RestoreRc
  <1>1. copy.at = "finish" /\ copy # Idle /\ copy.op \in {"backup", "restore"}
    BY DEF BackupFinish, Idle, CopyRuns
  <1>2. /\ copy' = Idle /\ writes' = writes
        /\ copied'.op = copy.op /\ copied'.rc = rc /\ copied'.before = copy.before
        /\ copied'.during = copy.during
        /\ copied' = [op |-> copy.op, rc |-> rc, done |-> copy.rc = "done",
                      before |-> copy.before, during |-> copy.during, tries |-> copy.tries]
    BY DEF BackupFinish, Finished
  <1>3. copied'.done = (copy.rc = "done")
    BY <1>2, Zenon
  <1>4. rc \in Codes /\ (copy.rc = "done" => rc = "ok")
        /\ (copy.op = "backup" /\ rc = "ok" => copy.rc \in {"done", "ok"})
    BY <1>1 DEF BackupRc, RestoreRc, FileErrcode, Target, Codes
  <1>5. /\ copy.rc = "done" => content' = [content EXCEPT ![Target(copy.op)] = copy.seen]
        /\ copy.rc # "done" => content' = content
    BY DEF BackupFinish
  <1>6. content' \in [Stores -> Nat]
        /\ content'[Target(copy.op)] = (IF copy.rc = "done" THEN copy.seen ELSE copy.before)
    BY <1>1, <1>5, Stored DEF CopyRuns
  <1> HIDE DEF rc
  <1>7. copied' \in [op : {"none", "backup", "restore"}, rc : Codes, done : BOOLEAN,
                     before : Nat, during : SUBSET Nat, tries : Nat]
    <2>1. /\ copy.op \in {"none", "backup", "restore"} /\ copy.before \in Nat
          /\ copy.during \in SUBSET Nat /\ copy.tries \in Nat
      BY <1>1
    <2> HIDE DEF CopyIInv, CopyTypeOK
    <2>2. \A done \in BOOLEAN :
             [op |-> copy.op, rc |-> rc, done |-> done, before |-> copy.before,
              during |-> copy.during, tries |-> copy.tries]
                \in [op : {"none", "backup", "restore"}, rc : Codes, done : BOOLEAN,
                    before : Nat, during : SUBSET Nat, tries : Nat]
      BY <1>4, <2>1
    <2>3. CASE copy.rc = "done"
      BY <1>2, <2>2, <2>3
    <2>4. CASE copy.rc # "done"
      BY <1>2, <2>2, <2>4
    <2> QED BY <2>3, <2>4
  <1>8. CopyTypeOK'
    BY <1>2, <1>6, <1>7 DEF Idle, Codes
  <1>9. CopiesAreWhole'
    <2>1. CASE copy.rc = "done"
      <3>1. copied'.done /\ copied'.rc = "ok"
        BY <2>1, <1>2, <1>3, <1>4
      <3>2. content'[Target(copied'.op)] \in copied'.during
        BY <2>1, <1>1, <1>2, <1>6 DEF CopyRuns
      <3> HIDE DEF CopyIInv, CopyTypeOK
      <3> QED BY <3>1, <3>2, Zenon DEF CopiesAreWhole
    <2>2. CASE copy.rc # "done"
      <3>1. ~copied'.done
        BY <2>2, <1>3
      <3>2. content'[Target(copied'.op)] \in {copied'.before}
        BY <2>2, <1>1, <1>2, <1>6
      <3>3. ~(copied'.op = "backup" /\ copied'.rc = "ok")
        BY <2>2, <1>1, <1>2, <1>4 DEF CopyRuns
      <3> HIDE DEF CopyIInv, CopyTypeOK
      <3> QED BY <3>1, <3>2, <3>3, Zenon DEF CopiesAreWhole
    <2> QED BY <2>1, <2>2
  <1>10. CopyRuns'
    BY <1>2 DEF CopyRuns
  <1> QED BY <1>8, <1>9, <1>10

\* A write to the source of the copy that runs, or to any store between copies.
LEMMA WriteKeeps ==
    ASSUME CopyIInv, NEW store \in Stores, Write(store)
    PROVE  CopyIInv'
  <1> USE DEF CopyIInv, CopyTypeOK
  <1>1. /\ writes' = writes + 1 /\ writes + 3 \in Nat
        /\ content' = [content EXCEPT ![store] = writes + 3]
        /\ copied' = NoCopy
    BY DEF Write
  <1>2. content' \in [Stores -> Nat] /\ content'[store] = writes + 3
        /\ \A other \in Stores : other # store => content'[other] = content[other]
    BY <1>1
  <1>3. NoCopy \in [op : {"none", "backup", "restore"}, rc : Codes, done : BOOLEAN,
                     before : Nat, during : SUBSET Nat, tries : Nat]
    BY DEF NoCopy, Codes
  <1>4. CopiesAreWhole'
    BY <1>1 DEF CopiesAreWhole, NoCopy
  <1>5. CASE copy = Idle
    <2>1. copy' = copy
      BY <1>5 DEF Write
    <2> QED BY <1>1, <1>2, <1>3, <1>4, <1>5, <2>1 DEF CopyRuns
  <1>6. CASE copy # Idle
    <2>1. /\ store = Source(copy.op) /\ copy.at \in {"init", "copy"}
          /\ copy.op \in {"backup", "restore"}
      BY <1>6 DEF Write, CopyRuns
    <2>2. copy' = [copy EXCEPT !.during = @ \cup {writes + 3}]
      BY <1>6 DEF Write
    <2>3. CopyTypeOK'
      BY <1>1, <1>2, <1>3, <2>2
    <2>4. CopyRuns'
      BY <1>1, <1>2, <1>6, <2>1, <2>2, Stored DEF CopyRuns
    <2> QED BY <1>4, <2>3, <2>4
  <1> QED BY <1>5, <1>6

\* Every step of a copy keeps it.
LEMMA CopyNextKeeps ==
    ASSUME CopyIInv, CopyNext
    PROVE  CopyIInv'
  <1>1. CASE \E op \in {"backup", "restore"} : Begin(op)
    BY <1>1, BeginKeeps
  <1>2. CASE BackupInit
    BY <1>2, BackupInitKeeps
  <1>3. CASE BackupStep
    BY <1>3, ChunkKeeps DEF BackupStep
  <1>4. CASE RestoreStep
    <2>1. content' = content
      BY <1>4 DEF RestoreStep
    <2>2. CASE \E rc \in {"ok", "done", "error", "busy"} : Chunk(rc)
      BY <2>1, <2>2, ChunkKeeps
    <2>3. CASE /\ copy.at = "copy" /\ copy' = [copy EXCEPT !.tries = @ + 1]
               /\ UNCHANGED <<writes, copied>>
      BY <2>1, <2>3, WaitKeeps
    <2> QED BY <1>4, <2>2, <2>3 DEF RestoreStep
  <1>5. CASE BackupFinish
    BY <1>5, FinishKeeps
  <1>6. CASE \E store \in {"database", "file"} : Write(store)
    BY <1>6, WriteKeeps DEF Stores
  <1> QED BY <1>1, <1>2, <1>3, <1>4, <1>5, <1>6 DEF CopyNext

-----------------------------------------------------------------------------
\* The inductive invariant of the copies, in every behaviour of the driver.
THEOREM CopyInvariant == JdbcSpec => []CopyIInv
  <1>1. JdbcInit => CopyIInv
    BY CopyStarts DEF JdbcInit
  <1>2. CopyIInv /\ [JdbcNext]_<<area, vars, copyVars>> => CopyIInv'
    <2> SUFFICES ASSUME CopyIInv, [JdbcNext]_<<area, vars, copyVars>>
                 PROVE  CopyIInv'
      OBVIOUS
    <2>1. CASE CopyNext
      BY <2>1, CopyNextKeeps
    <2>2. CASE UNCHANGED copyVars
      BY <2>2 DEF copyVars, CopyIInv, CopyTypeOK, CopyRuns, CopiesAreWhole
    <2> QED BY <2>1, <2>2 DEF JdbcNext
  <1> QED BY <1>1, <1>2, PTL DEF JdbcSpec

\* A backup or a restore replaces its target by what the source was at one
\* moment of the call, or leaves it alone, and a backup answers OK exactly if it
\* was made: backup and restore of NativeDB.c, at any size and under any writes.
THEOREM CopiesStayWhole == JdbcSpec => []CopiesAreWhole
  BY CopyInvariant, PTL DEF CopyIInv

-----------------------------------------------------------------------------
(* The native methods, whatever backup and restore do.                     *)

\* The invariant of the native methods is one of the whole driver.
THEOREM NativeInvariant ==
    ASSUME OneHandlerDb
    PROVE  JdbcSpec => []NativeIInv
  <1>1. JdbcInit => NativeIInv
    BY NativeStarts DEF JdbcInit
  <1>2. NativeIInv /\ [JdbcNext]_<<area, vars, copyVars>> => NativeIInv'
    BY NativeStep, NativeStutters DEF JdbcNext
  <1> QED
    BY <1>1, <1>2, PTL DEF JdbcSpec

\* No method uses a C object or a Java reference that is gone, and every
\* UDFData is on one list of one database until free_functions frees it: for
\* any number of databases, statements, functions and nested calls.
THEOREM NothingEverDangles ==
    ASSUME OneHandlerDb
    PROVE  JdbcSpec => []NothingDangles
  BY NativeInvariant, NothingDanglesFollows, PTL

\* A Java function's call returns the result its own code set last, an error if
\* it threw, and never the result of another call.
THEOREM EveryResultIsOfItsCall ==
    ASSUME OneHandlerDb
    PROVE  JdbcSpec => []ResultsAreOfTheirCall
  <1>1. NativeIInv => ResultsAreOfTheirCall
    BY DEF NativeIInv
  <1> QED
    BY <1>1, NativeInvariant, PTL
=============================================================================
