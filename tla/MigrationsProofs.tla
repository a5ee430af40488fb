-------------------------- MODULE MigrationsProofs --------------------------
(***************************************************************************)
(* What the migrations guarantee for any releases, any number of stops and *)
(* any transactions left behind.                                           *)
(***************************************************************************)
EXTENDS Migrations, TLAPS

Typed ==
    /\ table \subseteq File
    /\ sql \in Seq(File)
    /\ orphans \subseteq File
    /\ stage \in {"down", "checking", "reading", "applying", "committing", "serving"}
    /\ version \in Version
    /\ pending \subseteq Files[version]
    /\ current \in File
    /\ breaks \in Nat

Older(f) == {g \in File : g < f}

\* Transactions that may still take effect.
UnderWay == orphans \cup {f \in {current} : stage = "committing"}

(***************************************************************************)
(* No file is applied, nor on its way, before all that are older: so a     *)
(* transaction that takes effect late is either refused or the newest.     *)
(***************************************************************************)
NoGaps == \A f \in table \cup UnderWay : Older(f) \subseteq table

\* What is not pending was applied earlier.
PendingIsRest ==
    /\ stage = "reading" => 0 \in table
    /\ stage = "applying" \/ (stage = "committing" /\ current # 0) =>
          {0} \cup (Files[version] \ pending) \subseteq table

IInv == Typed /\ AppliedOnceInOrder /\ NoGaps /\ PendingIsRest /\ ServingIsMigrated

-----------------------------------------------------------------------------
LEMMA FilesAreNumbers ==
    /\ File \subseteq Nat
    /\ 0 \in File
    /\ \A v \in Version : Files[v] \subseteq File /\ 0 \notin Files[v]
BY MigrationsAssumption DEF File

\* Files of other releases are files of this one, or newer.
LEMMA OthersAreNewer ==
    ASSUME NEW v \in Version, NEW f \in Files[v], NEW g \in File, g < f
    PROVE  g = 0 \/ g \in Files[v]
<1> SUFFICES ASSUME g # 0 PROVE g \in Files[v]
  OBVIOUS
<1>1. PICK w \in Version : g \in Files[w]
  BY DEF File
<1>2. v \in Nat /\ w \in Nat /\ f \in Nat /\ g \in Nat
  BY <1>1, FilesAreNumbers, MigrationsAssumption
<1>3. CASE w <= v
  BY <1>1, <1>3, MigrationsAssumption
<1>4. CASE v <= w
  <2> SUFFICES ASSUME g \notin Files[v] PROVE FALSE
    OBVIOUS
  <2>1. f < g
    BY <1>1, <1>4, MigrationsAssumption
  <2> QED
    BY <1>2, <2>1
<1> QED
  BY <1>2, <1>3, <1>4

\* A transaction under way that takes effect is newer than all before it.
LEMMA EffectKeepsOrder ==
    ASSUME Typed, AppliedOnceInOrder, NoGaps,
           NEW f \in UnderWay, f \notin table, Effect(f)
    PROVE  /\ table' \subseteq File /\ sql' \in Seq(File)
           /\ table' = table \cup {f}
           /\ AppliedOnceInOrder'
           /\ \A g \in table' : Older(g) \subseteq table'
<1>1. f \in File /\ Older(f) \subseteq table
  BY DEF Typed, NoGaps, UnderWay
<1>2. table' = table \cup {f} /\ sql' = Append(sql, f)
  BY DEF Effect
<1>3. table' \subseteq File /\ sql' \in Seq(File)
  BY <1>1, <1>2 DEF Typed
<1>4. \A g \in table : g < f
  <2> SUFFICES ASSUME NEW g \in table, ~ (g < f) PROVE FALSE
    OBVIOUS
  <2>1. g \in Nat /\ f \in Nat /\ f # g
    BY <1>1, FilesAreNumbers DEF Typed
  <2>2. f \in Older(g)
    BY <1>1, <2>1 DEF Older
  <2> QED
    BY <2>2 DEF NoGaps
<1>5. /\ Len(sql) \in Nat
      /\ Len(sql') = Len(sql) + 1
      /\ sql'[Len(sql) + 1] = f
      /\ \A i \in 1 .. Len(sql) : sql'[i] = sql[i] /\ sql[i] \in table
  BY <1>2 DEF Typed, AppliedOnceInOrder
<1>6. AppliedOnceInOrder'
  <2>1. table' = {sql'[i] : i \in 1 .. Len(sql')}
    BY <1>2, <1>5 DEF AppliedOnceInOrder
  <2>2. ASSUME NEW i \in 1 .. Len(sql'), NEW j \in 1 .. Len(sql'), i < j
        PROVE  sql'[i] < sql'[j]
    <3>1. i \in 1 .. Len(sql)
      BY <1>5, <2>2
    <3>2. CASE j = Len(sql) + 1
      BY <1>4, <1>5, <3>1, <3>2
    <3>3. CASE j # Len(sql) + 1
      <4>1. j \in 1 .. Len(sql)
        BY <1>5, <3>3
      <4> QED
        BY <1>5, <2>2, <3>1, <4>1 DEF AppliedOnceInOrder
    <3> QED
      BY <3>2, <3>3
  <2> QED
    BY <2>1, <2>2 DEF AppliedOnceInOrder
<1>7. \A g \in table' : Older(g) \subseteq table'
  BY <1>1, <1>2 DEF NoGaps
<1> QED
  BY <1>2, <1>3, <1>6, <1>7

-----------------------------------------------------------------------------
LEMMA InitInv == Init => IInv
<1> SUFFICES ASSUME Init PROVE IInv
  OBVIOUS
<1>1. Typed
  BY FilesAreNumbers DEF Init, Typed
<1>2. AppliedOnceInOrder
  BY DEF Init, AppliedOnceInOrder
<1> QED
  BY <1>1, <1>2 DEF Init, IInv, NoGaps, UnderWay, PendingIsRest, ServingIsMigrated

\* Steps that leave the database alone.
LEMMA QuietStep ==
    ASSUME IInv, UNCHANGED <<table, sql>>, Typed', UnderWay' \subseteq UnderWay,
           PendingIsRest', ServingIsMigrated'
    PROVE  IInv'
<1>1. AppliedOnceInOrder'
  BY DEF IInv, AppliedOnceInOrder
<1>2. NoGaps'
  BY DEF IInv, NoGaps, Older
<1> QED
  BY <1>1, <1>2 DEF IInv

LEMMA CommitStep == IInv /\ Commit => IInv'
<1> SUFFICES ASSUME IInv, Commit PROVE IInv'
  OBVIOUS
<1>1. current \in UnderWay /\ current \notin table /\ Effect(current)
  BY DEF Commit, UnderWay
<1>2. /\ table' \subseteq File /\ sql' \in Seq(File)
      /\ table' = table \cup {current}
      /\ AppliedOnceInOrder'
      /\ \A g \in table' : Older(g) \subseteq table'
  BY <1>1, EffectKeepsOrder DEF IInv
<1>3. Typed'
  BY <1>2 DEF IInv, Typed, Commit
<1>4. NoGaps'
  <2>1. UnderWay' \subseteq UnderWay /\ Older(current)' = Older(current)
    BY DEF Commit, UnderWay, Older
  <2> QED
    BY <1>2, <2>1 DEF IInv, NoGaps, Older
<1>5. PendingIsRest'
  BY <1>2 DEF IInv, PendingIsRest, Commit
<1>6. ServingIsMigrated'
  BY DEF Commit, ServingIsMigrated
<1> QED
  BY <1>2, <1>3, <1>4, <1>5, <1>6 DEF IInv

LEMMA OrphanStep ==
    ASSUME IInv, NEW f \in orphans, EndOrphan(f) PROVE IInv'
<1>1. UNCHANGED <<stage, version, pending, current, breaks>> /\ orphans' = orphans \ {f}
  BY DEF EndOrphan
<1>2. UnderWay' \subseteq UnderWay
  BY <1>1 DEF UnderWay
<1>3. CASE UNCHANGED <<table, sql>>
  <2>1. Typed' /\ PendingIsRest' /\ ServingIsMigrated'
    BY <1>1, <1>3 DEF IInv, Typed, PendingIsRest, ServingIsMigrated
  <2> QED
    BY <1>2, <1>3, <2>1, QuietStep
<1>4. CASE f \notin table /\ Effect(f)
  <2>1. /\ table' \subseteq File /\ sql' \in Seq(File)
        /\ table' = table \cup {f}
        /\ AppliedOnceInOrder'
        /\ \A g \in table' : Older(g) \subseteq table'
    <3>1. f \in UnderWay
      BY DEF UnderWay
    <3> QED
      BY <1>4, <3>1, EffectKeepsOrder DEF IInv
  <2>2. Typed' /\ PendingIsRest' /\ ServingIsMigrated'
    BY <1>1, <2>1 DEF IInv, Typed, PendingIsRest, ServingIsMigrated
  <2>3. NoGaps'
    BY <1>2, <2>1 DEF IInv, NoGaps, Older
  <2> QED
    BY <2>1, <2>2, <2>3 DEF IInv
<1> QED
  BY <1>3, <1>4 DEF EndOrphan

LEMMA ApplyNextStep == IInv /\ ApplyNext => IInv'
<1> SUFFICES ASSUME IInv, ApplyNext PROVE IInv'
  OBVIOUS
<1>1. /\ current' \in pending /\ \A g \in pending : current' <= g
      /\ stage = "applying" /\ stage' = "committing"
      /\ UNCHANGED <<table, sql, orphans, version, pending, breaks>>
  BY DEF ApplyNext
<1>2. /\ current' \in Files[version] /\ current' \in File
      /\ version \in Version
      /\ {0} \cup (Files[version] \ pending) \subseteq table
  BY <1>1, FilesAreNumbers DEF IInv, Typed, PendingIsRest
<1>3. Older(current') \subseteq table
  <2> SUFFICES ASSUME NEW g \in File, g < current' PROVE g \in table
    BY DEF Older
  <2>1. g = 0 \/ g \in Files[version]
    BY <1>2, OthersAreNewer
  <2>2. g \in Nat /\ current' \in Nat
    BY <1>2, FilesAreNumbers
  <2>3. g \notin pending
    BY <1>1, <2>2
  <2> QED
    BY <1>2, <2>1, <2>3
<1>4. NoGaps'
  BY <1>1, <1>3 DEF IInv, NoGaps, UnderWay, Older
<1>5. AppliedOnceInOrder'
  BY <1>1 DEF IInv, AppliedOnceInOrder
<1>6. Typed' /\ PendingIsRest' /\ ServingIsMigrated'
  BY <1>1, <1>2 DEF IInv, Typed, PendingIsRest, ServingIsMigrated
<1> QED
  BY <1>4, <1>5, <1>6 DEF IInv

LEMMA ReadLatestStep == IInv /\ ReadLatest => IInv'
<1> SUFFICES ASSUME IInv, ReadLatest PROVE IInv'
  OBVIOUS
<1>1. /\ stage = "reading" /\ stage' = "applying"
      /\ pending' = {f \in Files[version] : \A g \in table : f > g}
      /\ UNCHANGED <<table, sql, orphans, version, current, breaks>>
  BY DEF ReadLatest
<1>2. ASSUME NEW f \in Files[version] \ pending' PROVE f \in table
  <2>1. PICK g \in table : ~ (f > g)
    BY <1>1
  <2>2. f \in File /\ f \in Nat /\ g \in Nat
    BY FilesAreNumbers DEF IInv, Typed
  <2>3. f = g \/ f \in Older(g)
    BY <2>1, <2>2 DEF Older
  <2> QED
    BY <2>3 DEF IInv, NoGaps
<1>3. Typed' /\ PendingIsRest' /\ ServingIsMigrated'
  BY <1>1, <1>2 DEF IInv, Typed, PendingIsRest, ServingIsMigrated
<1>4. UnderWay' \subseteq UnderWay
  BY <1>1 DEF UnderWay
<1> QED
  BY <1>1, <1>3, <1>4, QuietStep

\* main.sql is under way before anything is older than it.
LEMMA CreateStep == IInv /\ (CheckTable \/ MisjudgeTable) => IInv'
<1> SUFFICES ASSUME IInv, CheckTable \/ MisjudgeTable PROVE IInv'
  OBVIOUS
<1>1. /\ UNCHANGED <<table, sql, orphans, version, pending>>
      /\ breaks' \in Nat
      /\ \/ stage' = "committing" /\ current' = 0
         \/ stage' = "reading" /\ current' = current /\ 0 \in table
  BY DEF CheckTable, MisjudgeTable, IInv, Typed
<1>2. Older(0) = {}
  <2>1. \A g \in File : ~ (g < 0)
    BY FilesAreNumbers
  <2> QED
    BY <2>1, Zenon DEF Older
<1>3. NoGaps'
  BY <1>1, <1>2 DEF IInv, NoGaps, UnderWay, Older
<1>4. AppliedOnceInOrder'
  BY <1>1 DEF IInv, AppliedOnceInOrder
<1>5. Typed' /\ PendingIsRest' /\ ServingIsMigrated'
  BY <1>1, FilesAreNumbers DEF IInv, Typed, PendingIsRest, ServingIsMigrated
<1> QED
  BY <1>3, <1>4, <1>5 DEF IInv

LEMMA ProcessStep == IInv /\ (Start \/ Refuse \/ Serve \/ Break) => IInv'
<1>1. ASSUME IInv, Start PROVE IInv'
  <2>1. /\ UNCHANGED <<table, sql, orphans, pending, current, breaks>>
        /\ stage' = "checking" /\ version' \in Version /\ version' >= version
    BY <1>1 DEF Start
  <2>2. Files[version] \subseteq Files[version']
    BY <1>1, <2>1, MigrationsAssumption DEF IInv, Typed
  <2>3. Typed' /\ PendingIsRest' /\ ServingIsMigrated'
    BY <1>1, <2>1, <2>2 DEF IInv, Typed, PendingIsRest, ServingIsMigrated
  <2>4. UnderWay' \subseteq UnderWay
    BY <2>1 DEF UnderWay
  <2> QED
    BY <1>1, <2>1, <2>3, <2>4, QuietStep
<1>2. ASSUME IInv, Refuse \/ Break PROVE IInv'
  <2>1. /\ UNCHANGED <<table, sql, version, current>>
        /\ stage' = "down" /\ pending' = {} /\ breaks' \in Nat
        /\ orphans' \subseteq UnderWay
    BY <1>2 DEF Refuse, Break, UnderWay, IInv, Typed
  <2>2. UnderWay \subseteq File
    BY <1>2 DEF UnderWay, IInv, Typed
  <2>3. Typed' /\ PendingIsRest' /\ ServingIsMigrated'
    BY <1>2, <2>1, <2>2 DEF IInv, Typed, PendingIsRest, ServingIsMigrated
  <2>4. UnderWay' \subseteq UnderWay
    BY <2>1 DEF UnderWay
  <2> QED
    BY <1>2, <2>1, <2>3, <2>4, QuietStep
<1>3. ASSUME IInv, Serve PROVE IInv'
  <2>1. /\ UNCHANGED <<table, sql, orphans, version, pending, current, breaks>>
        /\ stage = "applying" /\ pending = {} /\ stage' = "serving"
    BY <1>3 DEF Serve
  <2>2. Typed' /\ PendingIsRest' /\ ServingIsMigrated'
    BY <1>3, <2>1 DEF IInv, Typed, PendingIsRest, ServingIsMigrated
  <2>3. UnderWay' \subseteq UnderWay
    BY <2>1 DEF UnderWay
  <2> QED
    BY <1>3, <2>1, <2>2, <2>3, QuietStep
<1> QED
  BY <1>1, <1>2, <1>3

LEMMA NextInv == IInv /\ [Next]_vars => IInv'
<1> SUFFICES ASSUME IInv, [Next]_vars PROVE IInv'
  OBVIOUS
<1>1. CASE UNCHANGED vars
  <2>1. UNCHANGED <<table, sql, orphans, stage, version, pending, current, breaks>>
    BY <1>1 DEF vars
  <2>2. Typed' /\ PendingIsRest' /\ ServingIsMigrated' /\ UnderWay' = UnderWay
    BY <2>1 DEF IInv, Typed, PendingIsRest, ServingIsMigrated, UnderWay
  <2> QED
    BY <2>1, <2>2, QuietStep
<1>2. CASE Next
  BY <1>2, CommitStep, OrphanStep, ApplyNextStep, ReadLatestStep, CreateStep, ProcessStep
     DEF Next, Proceed
<1> QED
  BY <1>1, <1>2

(***************************************************************************)
(* The strengthened invariant is inductive for any releases and any number *)
(* of breaks: what applyMigrationFiles skips has always been applied.      *)
(***************************************************************************)
THEOREM Inductive == Spec => []IInv
BY InitInv, NextInv, PTL DEF Spec

(***************************************************************************)
(* No migration file takes effect twice or before an older one, however    *)
(* often the server stopped while it applied one.                          *)
(***************************************************************************)
THEOREM AppliedOnceInOrderHolds == Spec => []AppliedOnceInOrder
<1>1. IInv => AppliedOnceInOrder
  BY DEF IInv
<1> QED
  BY <1>1, Inductive, PTL

(***************************************************************************)
(* A server that serves has all files of its release applied.              *)
(***************************************************************************)
THEOREM ServingIsMigratedHolds == Spec => []ServingIsMigrated
<1>1. IInv => ServingIsMigrated
  BY DEF IInv
<1> QED
  BY <1>1, Inductive, PTL

=============================================================================
