----------------------------- MODULE SqliteJdbc -----------------------------
(***************************************************************************)
(* The native half of the JDBC driver.  backup and restore run on a thread *)
(* that holds the driver's lock, so a behaviour is about them or about the *)
(* rest.                                                                   *)
(***************************************************************************)
EXTENDS NativeDB, DbCopy

VARIABLE area

JdbcInit == area \in {"calls", "copies"} /\ NativeInit /\ CopyInit

JdbcNext ==
    /\ UNCHANGED area
    /\ \/ area = "calls"  /\ NativeNext /\ UNCHANGED copyVars
       \/ area = "copies" /\ CopyNext   /\ UNCHANGED vars

JdbcSpec == JdbcInit /\ [][JdbcNext]_<<area, vars, copyVars>>

\* The view of TLC's run: no guard and no property reads what the last method
\* answered.
WithoutAnswer == <<area, db, udf, stmt, field, frames, calls, handler, returned, dangling, copyVars>>
=============================================================================
