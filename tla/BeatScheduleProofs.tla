------------------------- MODULE BeatScheduleProofs -------------------------
(***************************************************************************)
(* Proofs about BeatSchedule for any tasks and settings and any number of  *)
(* writes.                                                                 *)
(***************************************************************************)
EXTENDS BeatSchedule, TLAPS

\* The beat process never remembers a version that was not written yet, and
\* reads a version only after a fetch that brought nothing.
VersionInv ==
    /\ last <= version
    /\ beat = "version" => fetched = NoEntries

\* A change of the rows that the beat process cannot have seen is announced by
\* a request that has still to notify, or by a version it does not remember.
IInv == TypeOK /\ VersionInv /\ StaleOnlyWhenEmpty

-----------------------------------------------------------------------------
\* What a query returns is a schedule.
LEMMA Queries ==
    ASSUME NEW table \in [Tasks -> Row]
    PROVE  /\ Enabled(table) \in [Tasks -> Settings \union {"absent"}]
           /\ NoEntries \in [Tasks -> Settings \union {"absent"}]
           /\ NoEntries \in [Tasks -> (Settings \ Unparsable) \union {"absent"}]
  BY DEF Enabled, NoEntries, Row

\* What is installed can be parsed, and nothing fetched is nothing installed.
LEMMA Installed ==
    /\ \A list \in [Tasks -> Settings \union {"absent"}] :
          Entries(list) \in [Tasks -> (Settings \ Unparsable) \union {"absent"}]
    /\ Entries(NoEntries) = NoEntries
  BY BeatConstants DEF Entries, NoEntries

\* Every variable keeps its type.
LEMMA TypeStep ==
    ASSUME TypeOK, [Next]_vars
    PROVE  TypeOK'
<1> USE BeatConstants DEF Row, Write, Mishaps, tableVars, beatVars
<1>1. ASSUME NEW t \in Tasks, NEW row \in Row, CreateTask(t, row)
      PROVE  TypeOK'
  BY <1>1 DEF CreateTask, TypeOK
<1>2. ASSUME NEW t \in Tasks, NEW name \in Tasks, NEW row \in Row, UpdateTask(t, name, row)
      PROVE  TypeOK'
  BY <1>2 DEF UpdateTask, TypeOK
<1>3. ASSUME NEW t \in Tasks, NEW name \in Tasks, NEW row \in Row, AdminWrite(t, name, row)
      PROVE  TypeOK'
  BY <1>3 DEF AdminWrite, TypeOK
<1>4. ASSUME NEW t \in Tasks, DeleteTask(t)
      PROVE  TypeOK'
  BY <1>4 DEF DeleteTask, TypeOK
<1>5. ASSUME Notify
      PROVE  TypeOK'
  BY <1>5 DEF Notify, TypeOK
<1>6. ASSUME LoseNotify
      PROVE  TypeOK'
  BY <1>6 DEF LoseNotify, TypeOK
<1>7. ASSUME Tick
      PROVE  TypeOK'
  BY <1>7 DEF Tick, TypeOK
<1>8. ASSUME Fetch
      PROVE  TypeOK'
  <2>1. /\ Enabled(rows) \in [Tasks -> Settings \union {"absent"}]
        /\ NoEntries \in [Tasks -> Settings \union {"absent"}]
        /\ NoEntries \in [Tasks -> (Settings \ Unparsable) \union {"absent"}]
    BY Queries DEF TypeOK
  <2>2. QED
    BY <1>8, <2>1 DEF TypeOK, Fetch
<1>9. ASSUME FetchFails
      PROVE  TypeOK'
  <2>1. /\ Enabled(rows) \in [Tasks -> Settings \union {"absent"}]
        /\ NoEntries \in [Tasks -> Settings \union {"absent"}]
        /\ NoEntries \in [Tasks -> (Settings \ Unparsable) \union {"absent"}]
    BY Queries DEF TypeOK
  <2>2. QED
    BY <1>9, <2>1 DEF TypeOK, FetchFails
<1>10. ASSUME RedisReadFails
      PROVE  TypeOK'
  BY <1>10 DEF RedisReadFails, TypeOK
<1>11. ASSUME ReadVersion
      PROVE  TypeOK'
  BY <1>11, Installed DEF ReadVersion, TypeOK
<1>12. ASSUME Refetch
      PROVE  TypeOK'
  <2>1. /\ Enabled(rows) \in [Tasks -> Settings \union {"absent"}]
        /\ NoEntries \in [Tasks -> Settings \union {"absent"}]
        /\ NoEntries \in [Tasks -> (Settings \ Unparsable) \union {"absent"}]
    BY Queries DEF TypeOK
  <2>2. QED
    BY <1>12, <2>1, Installed DEF TypeOK, Refetch
<1>13. ASSUME RefetchFails
      PROVE  TypeOK'
  <2>1. /\ Enabled(rows) \in [Tasks -> Settings \union {"absent"}]
        /\ NoEntries \in [Tasks -> Settings \union {"absent"}]
        /\ NoEntries \in [Tasks -> (Settings \ Unparsable) \union {"absent"}]
    BY Queries DEF TypeOK
  <2>2. QED
    BY <1>13, <2>1 DEF TypeOK, RefetchFails
<1>14. ASSUME Restart
      PROVE  TypeOK'
  <2>1. /\ Enabled(rows) \in [Tasks -> Settings \union {"absent"}]
        /\ NoEntries \in [Tasks -> Settings \union {"absent"}]
        /\ NoEntries \in [Tasks -> (Settings \ Unparsable) \union {"absent"}]
    BY Queries DEF TypeOK
  <2>2. QED
    BY <1>14, <2>1 DEF TypeOK, Restart
<1>15. CASE UNCHANGED vars
  BY <1>15 DEF vars, TypeOK
<1>16. QED
  BY <1>1, <1>2, <1>3, <1>4, <1>5, <1>6, <1>7, <1>8, <1>9, <1>10, <1>11,
     <1>12, <1>13, <1>14, <1>15 DEF Next, BeatStep

\* Versions only grow, and the remembered one follows.
LEMMA VersionStep ==
    ASSUME TypeOK, VersionInv, [Next]_vars
    PROVE  VersionInv'
<1> USE DEF Write, tableVars, beatVars, TypeOK
<1>1. ASSUME NEW t \in Tasks, NEW row \in Row, CreateTask(t, row)
      PROVE  VersionInv'
  BY <1>1 DEF CreateTask, VersionInv
<1>2. ASSUME NEW t \in Tasks, NEW name \in Tasks, NEW row \in Row, UpdateTask(t, name, row)
      PROVE  VersionInv'
  BY <1>2 DEF UpdateTask, VersionInv
<1>3. ASSUME NEW t \in Tasks, NEW name \in Tasks, NEW row \in Row, AdminWrite(t, name, row)
      PROVE  VersionInv'
  BY <1>3 DEF AdminWrite, VersionInv
<1>4. ASSUME NEW t \in Tasks, DeleteTask(t)
      PROVE  VersionInv'
  BY <1>4 DEF DeleteTask, VersionInv
<1>5. ASSUME Notify
      PROVE  VersionInv'
  BY <1>5 DEF Notify, VersionInv, StaleOnlyWhenEmpty
<1>6. ASSUME LoseNotify
      PROVE  VersionInv'
  BY <1>6 DEF LoseNotify, VersionInv
<1>7. ASSUME Tick
      PROVE  VersionInv'
  BY <1>7 DEF Tick, VersionInv
<1>8. ASSUME Fetch
      PROVE  VersionInv'
  BY <1>8 DEF Fetch, VersionInv
<1>9. ASSUME FetchFails
      PROVE  VersionInv'
  BY <1>9 DEF FetchFails, VersionInv
<1>10. ASSUME RedisReadFails
      PROVE  VersionInv'
  BY <1>10 DEF RedisReadFails, VersionInv
<1>11. ASSUME ReadVersion
      PROVE  VersionInv'
  BY <1>11 DEF ReadVersion, VersionInv
<1>12. ASSUME Refetch
      PROVE  VersionInv'
  BY <1>12 DEF Refetch, VersionInv
<1>13. ASSUME RefetchFails
      PROVE  VersionInv'
  BY <1>13 DEF RefetchFails, VersionInv
<1>14. ASSUME Restart
      PROVE  VersionInv'
  BY <1>14 DEF Restart, VersionInv
<1>15. CASE UNCHANGED vars
  BY <1>15 DEF vars, VersionInv
<1>16. QED
  BY <1>1, <1>2, <1>3, <1>4, <1>5, <1>6, <1>7, <1>8, <1>9, <1>10, <1>11,
     <1>12, <1>13, <1>14, <1>15 DEF Next, BeatStep

(* A write leaves a notification to be sent, and a notification a version
   that is larger than the remembered one; the other steps at the end of
   which the process is idle install what they have just fetched. *)
LEMMA StaleStep ==
    ASSUME TypeOK, VersionInv, StaleOnlyWhenEmpty, [Next]_vars
    PROVE  StaleOnlyWhenEmpty'
<1> USE DEF Write, tableVars, beatVars, TypeOK
<1>1. ASSUME NEW t \in Tasks, NEW row \in Row, CreateTask(t, row)
      PROVE  StaleOnlyWhenEmpty'
  BY <1>1 DEF CreateTask, StaleOnlyWhenEmpty
<1>2. ASSUME NEW t \in Tasks, NEW name \in Tasks, NEW row \in Row, UpdateTask(t, name, row)
      PROVE  StaleOnlyWhenEmpty'
  BY <1>2 DEF UpdateTask, StaleOnlyWhenEmpty
<1>3. ASSUME NEW t \in Tasks, NEW name \in Tasks, NEW row \in Row, AdminWrite(t, name, row)
      PROVE  StaleOnlyWhenEmpty'
  BY <1>3 DEF AdminWrite, StaleOnlyWhenEmpty
<1>4. ASSUME NEW t \in Tasks, DeleteTask(t)
      PROVE  StaleOnlyWhenEmpty'
  BY <1>4 DEF DeleteTask, StaleOnlyWhenEmpty
<1>5. ASSUME Notify
      PROVE  StaleOnlyWhenEmpty'
  BY <1>5 DEF Notify, VersionInv, StaleOnlyWhenEmpty
<1>6. ASSUME LoseNotify
      PROVE  StaleOnlyWhenEmpty'
  BY <1>6 DEF LoseNotify, StaleOnlyWhenEmpty
<1>7. ASSUME Tick
      PROVE  StaleOnlyWhenEmpty'
  BY <1>7 DEF Tick, StaleOnlyWhenEmpty
<1>8. ASSUME Fetch
      PROVE  StaleOnlyWhenEmpty'
  BY <1>8 DEF Fetch, StaleOnlyWhenEmpty
<1>9. ASSUME FetchFails
      PROVE  StaleOnlyWhenEmpty'
  BY <1>9 DEF FetchFails, StaleOnlyWhenEmpty
<1>10. ASSUME RedisReadFails
      PROVE  StaleOnlyWhenEmpty'
  BY <1>10 DEF RedisReadFails, StaleOnlyWhenEmpty
<1>11. ASSUME ReadVersion
      PROVE  StaleOnlyWhenEmpty'
  BY <1>11, Installed DEF ReadVersion, VersionInv, StaleOnlyWhenEmpty
<1>12. ASSUME Refetch
      PROVE  StaleOnlyWhenEmpty'
  BY <1>12 DEF Refetch, StaleOnlyWhenEmpty
<1>13. ASSUME RefetchFails
      PROVE  StaleOnlyWhenEmpty'
  BY <1>13 DEF RefetchFails, StaleOnlyWhenEmpty
<1>14. ASSUME Restart
      PROVE  StaleOnlyWhenEmpty'
  BY <1>14 DEF Restart, StaleOnlyWhenEmpty
<1>15. CASE UNCHANGED vars
  BY <1>15 DEF vars, StaleOnlyWhenEmpty
<1>16. QED
  BY <1>1, <1>2, <1>3, <1>4, <1>5, <1>6, <1>7, <1>8, <1>9, <1>10, <1>11,
     <1>12, <1>13, <1>14, <1>15 DEF Next, BeatStep

-----------------------------------------------------------------------------
(***************************************************************************)
(* The inductive invariant: types, order of the versions, and the promise  *)
(* of the notification protocol.                                           *)
(***************************************************************************)
THEOREM Invariance == Spec => []IInv
<1>1. Init => IInv
  <2> SUFFICES ASSUME Init PROVE IInv
    OBVIOUS
  <2>1. TypeOK
    BY Queries, BeatConstants DEF Init, TypeOK
  <2>2. VersionInv /\ StaleOnlyWhenEmpty
    BY DEF Init, VersionInv, StaleOnlyWhenEmpty
  <2>3. QED
    BY <2>1, <2>2 DEF IInv
<1>2. IInv /\ [Next]_vars => IInv'
  BY TypeStep, VersionStep, StaleStep DEF IInv
<1>3. QED
  BY <1>1, <1>2, PTL DEF Spec

\* Every variable of the schedule's model keeps its shape.
THEOREM TypeCorrect == Spec => []TypeOK
<1>1. IInv => TypeOK
  BY DEF IInv
<1>2. QED
  BY <1>1, Invariance, PTL

(***************************************************************************)
(* _notify_schedule_changed and DatabaseBeatScheduler.tick: while every    *)
(* write is notified, an idle beat process that sees no newer version runs *)
(* the enabled rows that it can parse or nothing at all, however writes,   *)
(* renames, notifications and reloads interleave.                          *)
(***************************************************************************)
THEOREM SyncedOrEmpty == Spec => []StaleOnlyWhenEmpty
<1>1. IInv => StaleOnlyWhenEmpty
  BY DEF IInv
<1>2. QED
  BY <1>1, Invariance, PTL

=============================================================================
