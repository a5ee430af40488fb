----------------------------- MODULE Migrations -----------------------------
(***************************************************************************)
(* How a chat server brings its database up to date before it serves       *)
(* (server/src/db/migrations.cpp, called by main.cpp), over any number of  *)
(* stops and restarts.                                                     *)
(*                                                                         *)
(* A migration file is its timestamp; db/main.sql, which creates the table *)
(* migrations, is 0.  A file's statements and its row in that table are    *)
(* one transaction.  A process that ends, or loses its connection, between *)
(* sending COMMIT and the answer leaves a transaction behind that may      *)
(* still take effect while the next process is at work.                    *)
(***************************************************************************)
EXTENDS Naturals, Sequences

CONSTANTS
    Version,        \* releases of the server, numbered in order
    Files,          \* Files[v]: the timestamps in db/migrations of release v
    MaxBreaks       \* bound: processes that end and database errors

(* A release keeps the files of the earlier ones and adds newer ones only. *)
ASSUME MigrationsAssumption ==
    /\ Version \subseteq Nat
    /\ Files \in [Version -> SUBSET (Nat \ {0})]
    /\ MaxBreaks \in Nat
    /\ \A v, w \in Version : v <= w =>
          /\ Files[v] \subseteq Files[w]
          /\ \A f \in Files[v], g \in Files[w] \ Files[v] : f < g

File == {0} \cup UNION {Files[v] : v \in Version}

VARIABLES
    table,          \* the timestamps recorded in table migrations
    sql,            \* the files whose statements took effect, in that order
    orphans,        \* transactions whose process is gone, COMMIT on its way
    stage,          \* where the process is
    version,        \* its release
    pending,        \* migrationFiles newer than lastTs, not applied yet
    current,        \* the file of its transaction
    breaks

vars == <<table, sql, orphans, stage, version, pending, current, breaks>>

Init ==
    /\ table = {} /\ sql = <<>> /\ orphans = {}
    /\ stage = "down"
    /\ version \in Version
    /\ pending = {} /\ current = 0
    /\ breaks = 0

\* The container starts the process, of the same release or a newer one.
Start ==
    /\ stage = "down"
    /\ stage' = "checking"
    /\ version' \in {v \in Version : v >= version}
    /\ UNCHANGED <<table, sql, orphans, pending, current, breaks>>

\* MigrateDatabase: main.sql creates the table together with its row 0.
CheckTable ==
    /\ stage = "checking"
    /\ IF 0 \in table THEN stage' = "reading" /\ UNCHANGED current
                      ELSE stage' = "committing" /\ current' = 0
    /\ UNCHANGED <<table, sql, orphans, version, pending, breaks>>

\* Any exception is taken for a missing table.
MisjudgeTable ==
    /\ stage = "checking"
    /\ breaks < MaxBreaks
    /\ breaks' = breaks + 1
    /\ stage' = "committing"
    /\ current' = 0
    /\ UNCHANGED <<table, sql, orphans, version, pending>>

\* (mutation: the latest migration itself is not skipped)
ReadLatestAgain ==
    /\ stage = "reading"
    /\ pending' = {f \in Files[version] : \A g \in table : f >= g}
    /\ stage' = "applying"
    /\ UNCHANGED <<table, sql, orphans, version, current, breaks>>

\* applyMigrationFiles: what is not newer than the latest row is skipped.
ReadLatest ==
    /\ stage = "reading"
    /\ pending' = {f \in Files[version] : \A g \in table : f > g}
    /\ stage' = "applying"
    /\ UNCHANGED <<table, sql, orphans, version, current, breaks>>

\* applyMigration: the oldest pending file's transaction, up to its COMMIT.
ApplyNext ==
    /\ stage = "applying"
    /\ \E f \in pending :
          /\ \A g \in pending : f <= g
          /\ current' = f
    /\ stage' = "committing"
    /\ UNCHANGED <<table, sql, orphans, version, pending, breaks>>

\* A transaction takes effect: the statements and the row.
Effect(f) ==
    /\ table' = table \cup {f}
    /\ sql' = Append(sql, f)

\* (mutation: main.sql does not declare the timestamp UNIQUE)
CommitUnchecked ==
    /\ stage = "committing"
    /\ Effect(current)
    /\ stage' = IF current = 0 THEN "reading" ELSE "applying"
    /\ pending' = pending \ {current}
    /\ UNCHANGED <<orphans, version, current, breaks>>

\* The timestamp is UNIQUE, so a second row for a file is refused.
Commit ==
    /\ stage = "committing"
    /\ current \notin table
    /\ Effect(current)
    /\ stage' = IF current = 0 THEN "reading" ELSE "applying"
    /\ pending' = pending \ {current}
    /\ UNCHANGED <<orphans, version, current, breaks>>

\* Rolled back: applyMigrationFiles gives up and main quits.
Refuse ==
    /\ stage = "committing"
    /\ current \in table
    /\ stage' = "down"
    /\ pending' = {}
    /\ UNCHANGED <<table, sql, orphans, version, current, breaks>>

\* Every file is applied; the server serves.
Serve ==
    /\ stage = "applying"
    /\ pending = {}
    /\ stage' = "serving"
    /\ UNCHANGED <<table, sql, orphans, version, pending, current, breaks>>

\* (mutation: after a failure the loop goes on with the next file)
BreakAndGoOn ==
    /\ stage # "down"
    /\ breaks < MaxBreaks
    /\ breaks' = breaks + 1
    /\ stage' = IF stage = "committing" THEN "applying" ELSE "down"
    /\ pending' = pending \ {current}
    /\ UNCHANGED <<table, sql, orphans, version, current>>

\* The process is killed or gets a database error, after which it quits.  Of
\* a transaction under way it is open whether it will take effect.
Break ==
    /\ stage # "down"
    /\ breaks < MaxBreaks
    /\ breaks' = breaks + 1
    /\ \/ UNCHANGED orphans
       \/ stage = "committing" /\ orphans' = orphans \cup {current}
    /\ stage' = "down"
    /\ pending' = {}
    /\ UNCHANGED <<table, sql, version, current>>

\* A transaction left behind takes effect or not.
EndOrphan(f) ==
    /\ f \in orphans
    /\ orphans' = orphans \ {f}
    /\ \/ f \notin table /\ Effect(f)
       \/ UNCHANGED <<table, sql>>
    /\ UNCHANGED <<stage, version, pending, current, breaks>>

Proceed == Start \/ CheckTable \/ ReadLatest \/ ApplyNext \/ Commit \/ Refuse \/ Serve

Next == Proceed \/ MisjudgeTable \/ Break \/ \E f \in orphans : EndOrphan(f)

Spec == Init /\ [][Next]_vars

\* The container is restarted whenever it stops (examples/docker-compose.yml,
\* "restart: unless-stopped"), and the database answers.
FairSpec == Spec /\ WF_vars(Proceed)

-----------------------------------------------------------------------------
(***************************************************************************)
(* Every file's statements take effect at most once and in the order of    *)
(* the timestamps, however often the process stopped before it knew: the   *)
(* files alter tables and would destroy data a second time.  The table     *)
(* records exactly these.                                                  *)
(***************************************************************************)
AppliedOnceInOrder ==
    /\ table = {sql[i] : i \in 1 .. Len(sql)}
    /\ \A i, j \in 1 .. Len(sql) : i < j => sql[i] < sql[j]

(***************************************************************************)
(* main.cpp:16: "Setup and run migrations before the app starts serving":  *)
(* a server that serves has every file of its release applied, none        *)
(* skipped after an earlier failure.                                       *)
(***************************************************************************)
ServingIsMigrated ==
    stage = "serving" => {0} \cup Files[version] \subseteq table

(***************************************************************************)
(* Once processes stop breaking, the server comes to serve: what an        *)
(* earlier process left half done never makes the next ones fail for ever. *)
(***************************************************************************)
EventuallyServes == <>[](stage = "serving")

=============================================================================
