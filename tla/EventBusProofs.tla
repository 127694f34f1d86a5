--------------------------- MODULE EventBusProofs ---------------------------
(***************************************************************************)
(* Proofs about EventBus for any sets of workers and events, any batch     *)
(* size and stream length, and with or without faults and terminations.    *)
(***************************************************************************)
EXTENDS EventBus, TLAPS

\* A worker between XREADGROUP and the last XACK holds a batch, the others
\* hold none; what is held was delivered by the group.
BatchInv ==
    \A w \in Workers :
        /\ pc[w] \in {"lock", "handle", "ack"} <=> at[w] <= upto[w]
        /\ at[w] <= upto[w] => upto[w] <= cursor

\* The group delivers an entry once: batches lie apart, and what was
\* acknowledged was delivered and is in no batch any more.
ApartInv ==
    /\ \A w, v \in Workers : w # v => (at[w]..upto[w]) \intersect (at[v]..upto[v]) = {}
    /\ \A i \in acked : i <= cursor /\ \A w \in Workers : i \notin at[w]..upto[w]

\* The handlers of an event were started under its lock, which lasts until it
\* runs out.
LockInv == \A e \in Events \ lapsed : started[e] > 0 => e \in locks

IInv == TypeOK /\ BatchInv /\ ApartInv /\ LockInv /\ StartedAtMostOnce

-----------------------------------------------------------------------------
\* XREADGROUP delivers entries of the stream that come after the cursor.
LEMMA Delivery ==
    ASSUME TypeOK, cursor # Absent, NextEntry <= Len(stream)
    PROVE  /\ NextEntry \in Nat \ {0}
           /\ LastEntry \in Nat
           /\ cursor < NextEntry
           /\ first <= NextEntry
           /\ NextEntry <= LastEntry
           /\ LastEntry <= Len(stream)
           /\ \A i \in Int : i > cursor /\ i >= first => i >= NextEntry
  BY EventBusConstants DEF TypeOK, NextEntry, LastEntry, Absent

\* The entry a worker processes is in its batch and in the stream.
LEMMA Held ==
    ASSUME TypeOK, BatchInv, NEW w \in Workers, pc[w] \in {"lock", "handle", "ack"}
    PROVE  /\ at[w] \in Nat \ {0}
           /\ upto[w] \in Nat
           /\ at[w] <= upto[w]
           /\ upto[w] <= cursor
           /\ upto[w] <= Len(stream)
           /\ Current(w) \in Events
<1>1. at[w] \in 1..(Len(stream) + 1) /\ upto[w] \in 0..Len(stream) /\ Len(stream) \in Nat
  BY DEF TypeOK
<1>2. at[w] <= upto[w] /\ upto[w] <= cursor
  BY DEF BatchInv
<1>3. at[w] \in 1..Len(stream) /\ stream \in Seq(Events)
  BY <1>1, <1>2 DEF TypeOK
<1>4. Current(w) \in Events
  BY <1>3 DEF Current
<1>5. QED
  BY <1>1, <1>2, <1>4

\* Every variable keeps its type.
LEMMA TypeStep ==
    ASSUME TypeOK, BatchInv, [Next]_vars
    PROVE  TypeOK'
<1> USE EventBusConstants DEF redisVars, Stages, Mishaps, Absent, Goto
<1>1. ASSUME NEW e \in Events, Publish(e)
      PROVE  TypeOK'
  BY <1>1, SMTT(30) DEF TypeOK, Publish
<1>2. ASSUME NEW e \in Events, LockExpires(e)
      PROVE  TypeOK'
  BY <1>2 DEF TypeOK, LockExpires
<1>3. ASSUME NEW w \in Workers, Start(w)
      PROVE  TypeOK'
  BY <1>3, SMTT(30) DEF TypeOK, Start
<1>4. ASSUME NEW w \in Workers, StartWithoutGroup(w)
      PROVE  TypeOK'
  BY <1>4 DEF TypeOK, StartWithoutGroup
<1>5. ASSUME NEW w \in Workers, Terminate(w)
      PROVE  TypeOK'
  BY <1>5 DEF TypeOK, Terminate
<1>6. ASSUME NEW w \in Workers, ReadBatch(w)
      PROVE  TypeOK'
  <2>1. /\ NextEntry \in Nat \ {0} /\ LastEntry \in Nat
        /\ NextEntry <= LastEntry /\ LastEntry <= Len(stream)
    BY <1>6, Delivery DEF ReadBatch
  <2>2. /\ NextEntry..LastEntry \subseteq 1..Len(stream)
        /\ NextEntry \in 1..(Len(stream) + 1)
        /\ LastEntry \in 0..Len(stream) /\ LastEntry \in Absent..Len(stream)
    BY <2>1 DEF TypeOK
  <2>3. QED
    BY <1>6, <2>2 DEF TypeOK, ReadBatch
<1>7. ASSUME NEW w \in Workers, ReadFails(w)
      PROVE  TypeOK'
  <2>1. /\ NextEntry \in Nat \ {0} /\ LastEntry \in Nat
        /\ NextEntry <= LastEntry /\ LastEntry <= Len(stream)
    BY <1>7, Delivery DEF ReadFails
  <2>2. /\ NextEntry..LastEntry \subseteq 1..Len(stream)
        /\ NextEntry \in 1..(Len(stream) + 1)
        /\ LastEntry \in 0..Len(stream) /\ LastEntry \in Absent..Len(stream)
    BY <2>1 DEF TypeOK
  <2>3. QED
    BY <1>7, <2>2 DEF TypeOK, ReadFails
<1>8. ASSUME NEW w \in Workers, SkipEvent(w)
      PROVE  TypeOK'
  BY <1>8 DEF TypeOK, SkipEvent
<1>9. ASSUME NEW w \in Workers, AcquireLock(w)
      PROVE  TypeOK'
  BY <1>9 DEF TypeOK, AcquireLock
<1>10. ASSUME NEW w \in Workers, DropDuplicate(w)
      PROVE  TypeOK'
  BY <1>10 DEF TypeOK, DropDuplicate
<1>11. ASSUME NEW w \in Workers, LockFails(w)
      PROVE  TypeOK'
  BY <1>11 DEF TypeOK, LockFails
<1>12. ASSUME NEW w \in Workers, RunHandlers(w)
      PROVE  TypeOK'
  <2>1. Current(w) \in Events
    BY <1>12, Held DEF RunHandlers
  <2>2. QED
    BY <1>12, <2>1 DEF TypeOK, RunHandlers
<1>13. ASSUME NEW w \in Workers, Ack(w)
      PROVE  TypeOK'
  <2>1. /\ at[w] \in 1..Len(stream)
        /\ at[w] + 1 \in 1..(Len(stream) + 1)
        /\ upto[w] + 1 \in 1..(Len(stream) + 1)
    BY <1>13, Held DEF Ack
  <2>2. QED
    BY <1>13, <2>1 DEF TypeOK, Ack
<1>14. ASSUME NEW w \in Workers, AckFails(w)
      PROVE  TypeOK'
  <2>1. /\ at[w] \in 1..Len(stream)
        /\ at[w] + 1 \in 1..(Len(stream) + 1)
        /\ upto[w] + 1 \in 1..(Len(stream) + 1)
    BY <1>14, Held DEF AckFails
  <2>2. QED
    BY <1>14, <2>1 DEF TypeOK, AckFails
<1>15. CASE UNCHANGED vars
  BY <1>15 DEF TypeOK, vars
<1>16. QED
  BY <1>1, <1>2, <1>3, <1>4, <1>5, <1>6, <1>7, <1>8, <1>9, <1>10, <1>11, <1>12, <1>13, <1>14, <1>15 DEF Next, ListenerStep

\* A batch begins behind the cursor and shrinks to nothing.
LEMMA BatchStep ==
    ASSUME TypeOK, BatchInv, [Next]_vars
    PROVE  BatchInv'
<1> USE DEF redisVars, Stages, Absent, Goto
<1>1. ASSUME NEW e \in Events, Publish(e)
      PROVE  BatchInv'
  BY <1>1 DEF Publish, BatchInv, TypeOK
<1>2. ASSUME NEW e \in Events, LockExpires(e)
      PROVE  BatchInv'
  BY <1>2 DEF LockExpires, BatchInv, TypeOK
<1>3. ASSUME NEW w \in Workers, Start(w)
      PROVE  BatchInv'
  BY <1>3 DEF Start, BatchInv, TypeOK
<1>4. ASSUME NEW w \in Workers, StartWithoutGroup(w)
      PROVE  BatchInv'
  BY <1>4 DEF StartWithoutGroup, BatchInv, TypeOK
<1>5. ASSUME NEW w \in Workers, Terminate(w)
      PROVE  BatchInv'
  BY <1>5 DEF Terminate, BatchInv, TypeOK
<1>6. ASSUME NEW w \in Workers, ReadBatch(w)
      PROVE  BatchInv'
  <2>1. /\ NextEntry \in Nat /\ LastEntry \in Nat /\ cursor \in Int
        /\ cursor < NextEntry /\ NextEntry <= LastEntry
    BY <1>6, Delivery, SMTT(30) DEF ReadBatch, TypeOK
  <2>2. QED
    BY <1>6, <2>1 DEF ReadBatch, BatchInv, TypeOK
<1>7. ASSUME NEW w \in Workers, ReadFails(w)
      PROVE  BatchInv'
  <2>1. /\ NextEntry \in Nat /\ LastEntry \in Nat /\ cursor \in Int
        /\ cursor < NextEntry /\ NextEntry <= LastEntry
    BY <1>7, Delivery, SMTT(30) DEF ReadFails, TypeOK
  <2>2. QED
    BY <1>7, <2>1 DEF ReadFails, BatchInv, TypeOK
<1>8. ASSUME NEW w \in Workers, SkipEvent(w)
      PROVE  BatchInv'
  BY <1>8 DEF SkipEvent, BatchInv, TypeOK
<1>9. ASSUME NEW w \in Workers, AcquireLock(w)
      PROVE  BatchInv'
  BY <1>9 DEF AcquireLock, BatchInv, TypeOK
<1>10. ASSUME NEW w \in Workers, DropDuplicate(w)
      PROVE  BatchInv'
  BY <1>10 DEF DropDuplicate, BatchInv, TypeOK
<1>11. ASSUME NEW w \in Workers, LockFails(w)
      PROVE  BatchInv'
  BY <1>11 DEF LockFails, BatchInv, TypeOK
<1>12. ASSUME NEW w \in Workers, RunHandlers(w)
      PROVE  BatchInv'
  BY <1>12 DEF RunHandlers, BatchInv, TypeOK
<1>13. ASSUME NEW w \in Workers, Ack(w)
      PROVE  BatchInv'
  <2>1. /\ at[w] \in Nat /\ upto[w] \in Nat
        /\ at[w] <= upto[w] /\ upto[w] <= cursor
    BY <1>13, Held DEF Ack
  <2>2. QED
    BY <1>13, <2>1, SMTT(30) DEF Ack, BatchInv, TypeOK
<1>14. ASSUME NEW w \in Workers, AckFails(w)
      PROVE  BatchInv'
  <2>1. /\ at[w] \in Nat /\ upto[w] \in Nat
        /\ at[w] <= upto[w] /\ upto[w] <= cursor
    BY <1>14, Held DEF AckFails
  <2>2. QED
    BY <1>14, <2>1, SMTT(30) DEF AckFails, BatchInv, TypeOK
<1>15. CASE UNCHANGED vars
  BY <1>15 DEF vars, BatchInv, TypeOK
<1>16. QED
  BY <1>1, <1>2, <1>3, <1>4, <1>5, <1>6, <1>7, <1>8, <1>9, <1>10, <1>11,
     <1>12, <1>13, <1>14, <1>15 DEF Next, ListenerStep

\* A new batch lies behind the cursor, where nothing was delivered before.
LEMMA ApartStep ==
    ASSUME TypeOK, BatchInv, ApartInv, [Next]_vars
    PROVE  ApartInv'
<1> USE DEF redisVars, Stages, Absent, Goto
<1>1. ASSUME NEW e \in Events, Publish(e)
      PROVE  ApartInv'
  BY <1>1 DEF Publish, ApartInv, TypeOK
<1>2. ASSUME NEW e \in Events, LockExpires(e)
      PROVE  ApartInv'
  BY <1>2 DEF LockExpires, ApartInv, TypeOK
<1>3. ASSUME NEW w \in Workers, Start(w)
      PROVE  ApartInv'
  BY <1>3 DEF Start, ApartInv, TypeOK
<1>4. ASSUME NEW w \in Workers, StartWithoutGroup(w)
      PROVE  ApartInv'
  BY <1>4 DEF StartWithoutGroup, ApartInv, TypeOK
<1>5. ASSUME NEW w \in Workers, Terminate(w)
      PROVE  ApartInv'
  BY <1>5, SMTT(30) DEF Terminate, ApartInv, TypeOK
<1>6. ASSUME NEW w \in Workers, ReadBatch(w)
      PROVE  ApartInv'
  <2>1. /\ NextEntry \in Nat /\ LastEntry \in Nat /\ cursor \in Int
        /\ cursor < NextEntry /\ NextEntry <= LastEntry
    BY <1>6, Delivery, SMTT(30) DEF ReadBatch, TypeOK
  <2>2. QED
    BY <1>6, <2>1, SMTT(30) DEF ReadBatch, BatchInv, ApartInv, TypeOK
<1>7. ASSUME NEW w \in Workers, ReadFails(w)
      PROVE  ApartInv'
  <2>1. /\ NextEntry \in Nat /\ LastEntry \in Nat /\ cursor \in Int
        /\ cursor < NextEntry /\ NextEntry <= LastEntry
    BY <1>7, Delivery, SMTT(30) DEF ReadFails, TypeOK
  <2>2. QED
    BY <1>7, <2>1, SMTT(30) DEF ReadFails, BatchInv, ApartInv, TypeOK
<1>8. ASSUME NEW w \in Workers, SkipEvent(w)
      PROVE  ApartInv'
  BY <1>8 DEF SkipEvent, ApartInv, TypeOK
<1>9. ASSUME NEW w \in Workers, AcquireLock(w)
      PROVE  ApartInv'
  BY <1>9 DEF AcquireLock, ApartInv, TypeOK
<1>10. ASSUME NEW w \in Workers, DropDuplicate(w)
      PROVE  ApartInv'
  BY <1>10 DEF DropDuplicate, ApartInv, TypeOK
<1>11. ASSUME NEW w \in Workers, LockFails(w)
      PROVE  ApartInv'
  BY <1>11 DEF LockFails, ApartInv, TypeOK
<1>12. ASSUME NEW w \in Workers, RunHandlers(w)
      PROVE  ApartInv'
  BY <1>12 DEF RunHandlers, ApartInv, TypeOK
<1>13. ASSUME NEW w \in Workers, Ack(w)
      PROVE  ApartInv'
  <2>1. /\ at[w] \in Nat /\ upto[w] \in Nat
        /\ at[w] <= upto[w] /\ upto[w] <= cursor
    BY <1>13, Held DEF Ack
  <2>2. /\ \A v \in Workers : at'[v]..upto'[v] \subseteq at[v]..upto[v]
        /\ at[w] \notin at'[w]..upto'[w]
        /\ \A v \in Workers \ {w} : at'[v] = at[v] /\ upto'[v] = upto[v]
    BY <1>13, <2>1 DEF Ack, TypeOK
  <2>3. \A v \in Workers : at[w] \notin at'[v]..upto'[v]
    BY <2>1, <2>2 DEF ApartInv
  <2>4. acked' \subseteq acked \union {at[w]} /\ at[w] <= cursor /\ cursor' = cursor
    BY <1>13, <2>1 DEF Ack, TypeOK
  <2>5. \A u, v \in Workers : u # v => (at'[u]..upto'[u]) \intersect (at'[v]..upto'[v]) = {}
    BY <2>2 DEF ApartInv
  <2>6. QED
    BY <2>2, <2>3, <2>4, <2>5 DEF ApartInv
<1>14. ASSUME NEW w \in Workers, AckFails(w)
      PROVE  ApartInv'
  <2>1. /\ at[w] \in Nat /\ upto[w] \in Nat
        /\ at[w] <= upto[w] /\ upto[w] <= cursor
    BY <1>14, Held DEF AckFails
  <2>2. /\ \A v \in Workers : at'[v]..upto'[v] \subseteq at[v]..upto[v]
        /\ at[w] \notin at'[w]..upto'[w]
        /\ \A v \in Workers \ {w} : at'[v] = at[v] /\ upto'[v] = upto[v]
    BY <1>14, <2>1 DEF AckFails, TypeOK
  <2>3. \A v \in Workers : at[w] \notin at'[v]..upto'[v]
    BY <2>1, <2>2 DEF ApartInv
  <2>4. acked' \subseteq acked \union {at[w]} /\ at[w] <= cursor /\ cursor' = cursor
    BY <1>14, <2>1 DEF AckFails, TypeOK
  <2>5. \A u, v \in Workers : u # v => (at'[u]..upto'[u]) \intersect (at'[v]..upto'[v]) = {}
    BY <2>2 DEF ApartInv
  <2>6. QED
    BY <2>2, <2>3, <2>4, <2>5 DEF ApartInv
<1>15. CASE UNCHANGED vars
  BY <1>15 DEF vars, ApartInv, TypeOK
<1>16. QED
  BY <1>1, <1>2, <1>3, <1>4, <1>5, <1>6, <1>7, <1>8, <1>9, <1>10, <1>11,
     <1>12, <1>13, <1>14, <1>15 DEF Next, ListenerStep

\* SET NX starts handlers only where there is no lock, and so, until a lock has
\* run out, where they were not started before.
LEMMA LockStep ==
    ASSUME TypeOK, BatchInv, LockInv, StartedAtMostOnce, [Next]_vars
    PROVE  LockInv' /\ StartedAtMostOnce'
<1> USE DEF redisVars
<1>1. ASSUME NEW e \in Events, Publish(e)
      PROVE  LockInv' /\ StartedAtMostOnce'
  BY <1>1 DEF Publish, LockInv, StartedAtMostOnce, TypeOK
<1>2. ASSUME NEW e \in Events, LockExpires(e)
      PROVE  LockInv' /\ StartedAtMostOnce'
  BY <1>2 DEF LockExpires, LockInv, StartedAtMostOnce, TypeOK
<1>3. ASSUME NEW w \in Workers, Start(w)
      PROVE  LockInv' /\ StartedAtMostOnce'
  BY <1>3 DEF Start, LockInv, StartedAtMostOnce, TypeOK
<1>4. ASSUME NEW w \in Workers, StartWithoutGroup(w)
      PROVE  LockInv' /\ StartedAtMostOnce'
  BY <1>4 DEF StartWithoutGroup, LockInv, StartedAtMostOnce, TypeOK
<1>5. ASSUME NEW w \in Workers, Terminate(w)
      PROVE  LockInv' /\ StartedAtMostOnce'
  BY <1>5 DEF Terminate, LockInv, StartedAtMostOnce, TypeOK
<1>6. ASSUME NEW w \in Workers, ReadBatch(w)
      PROVE  LockInv' /\ StartedAtMostOnce'
  BY <1>6 DEF ReadBatch, LockInv, StartedAtMostOnce, TypeOK
<1>7. ASSUME NEW w \in Workers, ReadFails(w)
      PROVE  LockInv' /\ StartedAtMostOnce'
  BY <1>7 DEF ReadFails, LockInv, StartedAtMostOnce, TypeOK
<1>8. ASSUME NEW w \in Workers, SkipEvent(w)
      PROVE  LockInv' /\ StartedAtMostOnce'
  BY <1>8 DEF SkipEvent, LockInv, StartedAtMostOnce, TypeOK
<1>9. ASSUME NEW w \in Workers, AcquireLock(w)
      PROVE  LockInv' /\ StartedAtMostOnce'
  <2>1. Current(w) \in Events
    BY <1>9, Held DEF AcquireLock
  <2>2. QED
    BY <1>9, <2>1 DEF AcquireLock, LockInv, StartedAtMostOnce, TypeOK
<1>10. ASSUME NEW w \in Workers, DropDuplicate(w)
      PROVE  LockInv' /\ StartedAtMostOnce'
  BY <1>10 DEF DropDuplicate, LockInv, StartedAtMostOnce, TypeOK
<1>11. ASSUME NEW w \in Workers, LockFails(w)
      PROVE  LockInv' /\ StartedAtMostOnce'
  <2>1. Current(w) \in Events
    BY <1>11, Held DEF LockFails
  <2>2. QED
    BY <1>11, <2>1 DEF LockFails, LockInv, StartedAtMostOnce, TypeOK
<1>12. ASSUME NEW w \in Workers, RunHandlers(w)
      PROVE  LockInv' /\ StartedAtMostOnce'
  BY <1>12 DEF RunHandlers, LockInv, StartedAtMostOnce, TypeOK
<1>13. ASSUME NEW w \in Workers, Ack(w)
      PROVE  LockInv' /\ StartedAtMostOnce'
  BY <1>13 DEF Ack, LockInv, StartedAtMostOnce, TypeOK
<1>14. ASSUME NEW w \in Workers, AckFails(w)
      PROVE  LockInv' /\ StartedAtMostOnce'
  BY <1>14 DEF AckFails, LockInv, StartedAtMostOnce, TypeOK
<1>15. CASE UNCHANGED vars
  BY <1>15 DEF vars, LockInv, StartedAtMostOnce, TypeOK
<1>16. QED
  BY <1>1, <1>2, <1>3, <1>4, <1>5, <1>6, <1>7, <1>8, <1>9, <1>10, <1>11,
     <1>12, <1>13, <1>14, <1>15 DEF Next, ListenerStep

\* The inductive invariant.
THEOREM Invariance == Spec => []IInv
<1>1. Init => IInv
  <2> SUFFICES ASSUME Init PROVE IInv
    OBVIOUS
  <2> USE EventBusConstants DEF Init
  <2>1. TypeOK
    BY DEF TypeOK, Stages, Mishaps, Absent
  <2>2. BatchInv /\ ApartInv
    BY DEF BatchInv, ApartInv
  <2>3. LockInv /\ StartedAtMostOnce
    BY DEF LockInv, StartedAtMostOnce
  <2>4. QED
    BY <2>1, <2>2, <2>3 DEF IInv
<1>2. IInv /\ [Next]_vars => IInv'
  BY TypeStep, BatchStep, ApartStep, LockStep DEF IInv
<1>3. QED
  BY <1>1, <1>2, PTL DEF Spec

\* Every variable keeps its shape, and batches stay inside the stream.
THEOREM TypeCorrect == Spec => []TypeOK
<1>1. IInv => TypeOK
  BY DEF IInv
<1>2. QED
  BY <1>1, Invariance, PTL

\* The handlers of an event are not started twice while its lock lasts,
\* however many workers and entries of the event there are.
THEOREM StartedOnce == Spec => []StartedAtMostOnce
<1>1. IInv => StartedAtMostOnce
  BY DEF IInv
<1>2. QED
  BY <1>1, Invariance, PTL

-----------------------------------------------------------------------------
(***************************************************************************)
(* The refinement.  In a state with the invariant the four fates of an     *)
(* entry exclude each other and can be read off the variables one by one.  *)
(***************************************************************************)
Fates ==
    /\ Box = [i \in 1..Len(stream) |-> Box[i]]
    /\ \A i \in 1..Len(stream) :
          /\ Box[i] \in Workers \union {"settled", "waiting", "lost"}
          /\ Box[i] = "settled" <=> i \in acked
          /\ Box[i] = "waiting" <=> i > cursor /\ i >= first
          /\ \A w \in Workers : Box[i] = w <=> i \in at[w]..upto[w]

LEMMA FatesOfEntries == IInv => Fates
<1> SUFFICES ASSUME IInv PROVE Fates
  OBVIOUS
<1> USE EventBusConstants
<1>1. ASSUME NEW i \in 1..Len(stream)
      PROVE  /\ Fate(i) \in Workers \union {"settled", "waiting", "lost"}
             /\ Fate(i) = "settled" <=> i \in acked
             /\ Fate(i) = "waiting" <=> i > cursor /\ i >= first
             /\ \A w \in Workers : Fate(i) = w <=> i \in at[w]..upto[w]
  <2>1. CASE i \in acked
    <3>1. Fate(i) = "settled"
      BY <2>1 DEF Fate
    <3>2. i <= cursor /\ \A w \in Workers : i \notin at[w]..upto[w]
      BY <2>1 DEF IInv, ApartInv
    <3>3. i \in Int /\ cursor \in Int
      BY DEF IInv, TypeOK, Absent
    <3>4. QED
      BY <2>1, <3>1, <3>2, <3>3
  <2>2. ASSUME i \notin acked, NEW w \in Workers, i \in at[w]..upto[w]
        PROVE  /\ Fate(i) = w
               /\ ~(i > cursor)
               /\ \A v \in Workers : v # w => i \notin at[v]..upto[v]
    <3>1. \A v \in Workers : v # w => i \notin at[v]..upto[v]
      BY <2>2 DEF IInv, ApartInv
    <3>2. Holder(i) = {w}
      BY <2>2, <3>1 DEF Holder
    <3>3. Fate(i) = w
      BY <2>2, <3>2 DEF Fate
    <3>4. at[w] \in Int /\ upto[w] \in Int /\ cursor \in Int
      BY DEF IInv, TypeOK, Absent
    <3>5. i <= upto[w] /\ at[w] <= upto[w]
      BY <2>2, <3>4
    <3>6. upto[w] <= cursor
      BY <3>5 DEF IInv, BatchInv
    <3>7. QED
      BY <3>1, <3>3, <3>4, <3>5, <3>6
  <2>3. CASE i \notin acked /\ \E w \in Workers : i \in at[w]..upto[w]
    BY <2>2, <2>3
  <2>4. CASE i \notin acked /\ \A w \in Workers : i \notin at[w]..upto[w]
    BY <2>4 DEF Fate, Holder
  <2>5. QED
    BY <2>1, <2>3, <2>4
<1>2. QED
  BY <1>1 DEF Fates, Box

\* The initial states are initial states of the mailbox.
LEMMA MailboxStart == Init => Group!MailboxInit
  BY DEF Init, Box, Group!MailboxInit

\* Entries that are waiting, or all entries in a worker's hands, become lost.
LEMMA Loss ==
    ASSUME Fates, NEW s, NEW D \in SUBSET Group!In(s),
           s = "waiting" \/ (s \in Workers /\ D = Group!In(s)),
           Box' = [i \in DOMAIN Box |-> IF i \in D THEN "lost" ELSE Box[i]]
    PROVE  [Group!MailboxNext]_Box
<1>1. CASE D = {}
  <2>1. Box' = [i \in DOMAIN Box |-> Box[i]]
    BY <1>1
  <2>2. Box' = Box
    BY <2>1 DEF Fates, Box
  <2>3. QED
    BY <2>2
<1>2. CASE D # {}
  <2>1. /\ D \in (SUBSET Group!In(s)) \ {{}}
        /\ s = "waiting" \/ D = Group!In(s)
    BY <1>2
  <2>2. Group!Lose(s)
    BY <2>1 DEF Group!Lose
  <2>3. QED
    BY <2>2 DEF Group!MailboxNext
<1>3. QED
  BY <1>1, <1>2

\* Every step is a step of the mailbox or leaves it alone.
LEMMA MailboxStep ==
    ASSUME IInv, IInv', Fates, Fates', [Next]_vars
    PROVE  [Group!MailboxNext]_Box
<1> USE EventBusConstants DEF redisVars, Goto
<1>1. Len(stream) \in Nat /\ cursor \in Int /\ first \in Nat
  BY DEF IInv, TypeOK, Absent
<1>2. ASSUME NEW e \in Events, Publish(e)
      PROVE  Group!Put
  <2> DEFINE dropped == {i \in Group!In("waiting") : i < first'}
  <2>1. /\ Len(stream') = Len(stream) + 1 /\ first' >= first /\ first' <= Len(stream')
        /\ first' \in Nat /\ UNCHANGED <<cursor, acked, at, upto>>
    BY <1>1, <1>2 DEF Publish, IInv, TypeOK
  <2>2. Len(Box) = Len(stream)
    BY <1>1 DEF Fates, Box
  <2>3. DOMAIN Box = 1..Len(stream)
    BY DEF Box
  <2>4. Box'[Len(stream) + 1] = "waiting"
    <3>1. Len(stream) + 1 > cursor /\ Len(stream) + 1 >= first'
      BY <1>1, <2>1 DEF IInv, TypeOK
    <3>2. QED
      BY <1>1, <2>1, <3>1 DEF Fates
  <2>5. ASSUME NEW i \in 1..Len(stream)
        PROVE  Box'[i] = IF i \in dropped THEN "lost" ELSE Box[i]
    <3>1. i \in 1..Len(stream') /\ i \in Nat
      BY <1>1, <2>1
    <3>2. i \in dropped <=> i > cursor /\ i >= first /\ i < first'
      BY <2>3 DEF Group!In, Fates
    <3>3. QED
      BY <1>1, <2>1, <3>1, <3>2 DEF Fates
  <2>6. Box' = [i \in 1..(Len(Box) + 1) |->
                   IF i > Len(Box) THEN "waiting" ELSE IF i \in dropped THEN "lost" ELSE Box[i]]
    BY <1>1, <2>1, <2>2, <2>4, <2>5 DEF Fates
  <2>7. dropped \in SUBSET Group!In("waiting")
    OBVIOUS
  <2>8. QED
    BY <2>6, <2>7 DEF Group!Put
<1>3. ASSUME NEW w \in Workers, Start(w)
      PROVE  [Group!MailboxNext]_Box
  <2>1. UNCHANGED <<stream, first, acked, at, upto>>
    BY <1>3 DEF Start
  <2>2. CASE cursor # Absent
    BY <1>3, <2>1, <2>2 DEF Start, Box, Fate, Holder
  <2>3. CASE cursor = Absent
    <3>1. cursor' = Len(stream)
      BY <1>3, <2>3 DEF Start
    <3>2. ASSUME NEW i \in 1..Len(stream)
          PROVE  Box'[i] = IF i \in Group!In("waiting") THEN "lost" ELSE Box[i]
      <4>1. i \in Group!In("waiting") <=> Box[i] = "waiting"
        BY DEF Group!In, Box
      <4>2. Box'[i] # "waiting"
        BY <1>1, <2>1, <3>1 DEF Fates
      <4>3. QED
        BY <2>1, <4>1, <4>2 DEF Fates
    <3>3. Box' = [i \in DOMAIN Box |-> IF i \in Group!In("waiting") THEN "lost" ELSE Box[i]]
      BY <2>1, <3>2 DEF Box
    <3>4. QED
      BY <3>3, Loss
  <2>4. QED
    BY <2>2, <2>3
<1>4. ASSUME NEW w \in Workers, Terminate(w)
      PROVE  [Group!MailboxNext]_Box
  <2>1. UNCHANGED <<stream, first, acked, cursor>>
    BY <1>4 DEF Terminate
  <2>2. /\ at'[w] = 1 /\ upto'[w] = 0
        /\ \A v \in Workers : v # w => at'[v] = at[v] /\ upto'[v] = upto[v]
    BY <1>4 DEF Terminate, IInv, TypeOK
  <2>3. ASSUME NEW i \in 1..Len(stream)
        PROVE  Box'[i] = IF i \in Group!In(w) THEN "lost" ELSE Box[i]
    <3>1. i \in Group!In(w) <=> Box[i] = w
      BY DEF Group!In, Box
    <3>2. Box'[i] # w
      BY <2>1, <2>2 DEF Fates
    <3>3. QED
      BY <2>1, <2>2, <3>1, <3>2 DEF Fates
  <2>4. Box' = [i \in DOMAIN Box |-> IF i \in Group!In(w) THEN "lost" ELSE Box[i]]
    BY <2>1, <2>3 DEF Box
  <2>5. QED
    BY <2>4, Loss
<1>5. ASSUME NEW w \in Workers, ReadBatch(w)
      PROVE  Group!Hand(w)
  <2> DEFINE batch == NextEntry..LastEntry
  <2>1. /\ cursor' = LastEntry /\ UNCHANGED <<stream, first, acked>>
        /\ at'[w] = NextEntry /\ upto'[w] = LastEntry
        /\ \A v \in Workers : v # w => at'[v] = at[v] /\ upto'[v] = upto[v]
    BY <1>5 DEF ReadBatch, IInv, TypeOK
  <2>2. /\ NextEntry \in Nat \ {0} /\ LastEntry \in Nat /\ cursor < NextEntry
        /\ first <= NextEntry /\ NextEntry <= LastEntry /\ LastEntry <= Len(stream)
        /\ \A i \in Int : i > cursor /\ i >= first => i >= NextEntry
    BY <1>5, Delivery DEF ReadBatch, IInv
  <2>3. Group!In(w) = {}
    <3>1. ~(at[w] <= upto[w])
      BY <1>5 DEF ReadBatch, IInv, BatchInv
    <3>2. at[w]..upto[w] = {}
      BY <3>1 DEF IInv, TypeOK
    <3>3. QED
      BY <3>2 DEF Fates, Group!In, Box
  <2>4. batch \in (SUBSET Group!In("waiting")) \ {{}}
    <3>1. ASSUME NEW i \in batch
          PROVE  i \in 1..Len(stream) /\ i > cursor /\ i >= first
      BY <1>1, <2>2
    <3>2. batch \subseteq Group!In("waiting")
      BY <3>1 DEF Fates, Group!In, Box
    <3>3. NextEntry \in batch
      BY <2>2
    <3>4. QED
      BY <3>2, <3>3
  <2>5. ASSUME NEW i \in 1..Len(stream)
        PROVE  Box'[i] = IF i \in batch THEN w ELSE Box[i]
    <3>1. CASE i \in batch
      BY <2>1, <3>1 DEF Fates
    <3>2. CASE i \notin batch
      <4>1. Box[i] # w
        BY <2>3 DEF Group!In, Box
      <4>2. Box'[i] # w
        BY <2>1, <3>2 DEF Fates
      <4>3. Box[i] = "waiting" <=> Box'[i] = "waiting"
        BY <1>1, <2>1, <2>2, <3>2 DEF Fates
      <4>4. \A v \in Workers : Box[i] = v <=> Box'[i] = v
        BY <2>1, <4>1, <4>2 DEF Fates
      <4>5. Box[i] = "settled" <=> Box'[i] = "settled"
        BY <2>1 DEF Fates
      <4>6. QED
        BY <2>1, <3>2, <4>3, <4>4, <4>5 DEF Fates
    <3>3. QED
      BY <3>1, <3>2
  <2>6. Box' = [i \in DOMAIN Box |-> IF i \in batch THEN w ELSE Box[i]]
    BY <2>1, <2>5 DEF Box
  <2>7. QED
    BY <2>3, <2>4, <2>6 DEF Group!Hand
<1>6. ASSUME NEW w \in Workers, ReadFails(w)
      PROVE  [Group!MailboxNext]_Box
  <2> DEFINE batch == NextEntry..LastEntry
  <2>1. cursor' = LastEntry /\ UNCHANGED <<stream, first, acked, at, upto>>
    BY <1>6 DEF ReadFails
  <2>2. /\ NextEntry \in Nat \ {0} /\ LastEntry \in Nat /\ cursor < NextEntry
        /\ first <= NextEntry /\ NextEntry <= LastEntry /\ LastEntry <= Len(stream)
        /\ \A i \in Int : i > cursor /\ i >= first => i >= NextEntry
    BY <1>6, Delivery DEF ReadFails, IInv
  <2>3. batch \in SUBSET Group!In("waiting")
    <3>1. ASSUME NEW i \in batch
          PROVE  i \in 1..Len(stream) /\ i > cursor /\ i >= first
      BY <1>1, <2>2
    <3>2. QED
      BY <3>1 DEF Fates, Group!In, Box
  <2>4. ASSUME NEW i \in 1..Len(stream)
        PROVE  Box'[i] = IF i \in batch THEN "lost" ELSE Box[i]
    <3>1. Box'[i] = "waiting" <=> Box[i] = "waiting" /\ i \notin batch
      BY <1>1, <2>1, <2>2 DEF Fates
    <3>2. i \in batch => Box[i] = "waiting"
      BY <2>3 DEF Group!In
    <3>3. QED
      BY <2>1, <3>1, <3>2 DEF Fates
  <2>5. Box' = [i \in DOMAIN Box |-> IF i \in batch THEN "lost" ELSE Box[i]]
    BY <2>1, <2>4 DEF Box
  <2>6. [Group!MailboxNext]_Box
    <3>. HIDE DEF batch
    <3>. QED
      BY <2>3, <2>5, Loss
  <2>7. QED
    BY <2>6
<1>7. ASSUME NEW w \in Workers, Ack(w)
      PROVE  Group!Settle(w)
  <2>1. /\ UNCHANGED <<stream, first, cursor, upto>> /\ acked' = acked \union {at[w]}
        /\ at'[w] = at[w] + 1 /\ \A v \in Workers : v # w => at'[v] = at[v]
    BY <1>7 DEF Ack, IInv, TypeOK
  <2>2. at[w] \in 1..Len(stream) /\ at[w] \in Nat /\ upto[w] \in Nat /\ at[w] <= upto[w]
    BY <1>1, <1>7, Held DEF Ack, IInv
  <2>3. at[w] \in Group!In(w)
    BY <2>2 DEF Fates, Group!In, Box
  <2>4. ASSUME NEW i \in 1..Len(stream)
        PROVE  Box'[i] = IF i = at[w] THEN "settled" ELSE Box[i]
    <3>1. CASE i = at[w]
      BY <2>1, <3>1 DEF Fates
    <3>2. CASE i # at[w]
      <4>1. Box'[i] = w <=> Box[i] = w
        BY <2>1, <2>2, <3>2 DEF Fates
      <4>2. QED
        BY <2>1, <3>2, <4>1 DEF Fates
    <3>3. QED
      BY <3>1, <3>2
  <2>5. Box' = [i \in DOMAIN Box |-> IF i = at[w] THEN "settled" ELSE IF i \in {} THEN "lost" ELSE Box[i]]
    BY <2>1, <2>4 DEF Box
  <2>6. QED
    BY <2>3, <2>5 DEF Group!Settle
<1>8. ASSUME NEW w \in Workers, AckFails(w)
      PROVE  [Group!MailboxNext]_Box
  <2>1. /\ UNCHANGED <<stream, first, cursor, upto>>
        /\ acked' = acked \/ acked' = acked \union {at[w]}
        /\ at'[w] = upto[w] + 1 /\ \A v \in Workers : v # w => at'[v] = at[v]
    BY <1>8 DEF AckFails, IInv, TypeOK
  <2>2. at[w] \in 1..Len(stream) /\ at[w] \in Nat /\ upto[w] \in Nat /\ at[w] <= upto[w]
    BY <1>1, <1>8, Held DEF AckFails, IInv
  <2>3. at[w] \in Group!In(w)
    BY <2>2 DEF Fates, Group!In, Box
  <2>4. \A i \in 1..Len(stream) : i \in Group!In(w) <=> Box[i] = w
    BY DEF Group!In, Box
  <2>5. \A i \in 1..Len(stream) : Box'[i] # w
    BY <2>1, <2>2 DEF Fates
  <2>6. CASE acked' = acked
    <3>1. ASSUME NEW i \in 1..Len(stream)
          PROVE  Box'[i] = IF i \in Group!In(w) THEN "lost" ELSE Box[i]
      BY <2>1, <2>4, <2>5, <2>6 DEF Fates
    <3>2. Box' = [i \in DOMAIN Box |-> IF i \in Group!In(w) THEN "lost" ELSE Box[i]]
      BY <2>1, <3>1 DEF Box
    <3>3. QED
      BY <3>2, Loss
  <2>7. CASE acked' = acked \union {at[w]}
    <3> DEFINE dropped == Group!In(w) \ {at[w]}
    <3>1. ASSUME NEW i \in 1..Len(stream)
          PROVE  Box'[i] = IF i = at[w] THEN "settled" ELSE IF i \in dropped THEN "lost" ELSE Box[i]
      <4>1. CASE i = at[w]
        BY <2>1, <2>7, <4>1 DEF Fates
      <4>2. CASE i # at[w]
        BY <2>1, <2>4, <2>5, <2>7, <4>2 DEF Fates
      <4>3. QED
        BY <4>1, <4>2
    <3>2. Box' = [i \in DOMAIN Box |-> IF i = at[w] THEN "settled"
                                      ELSE IF i \in dropped THEN "lost" ELSE Box[i]]
      BY <2>1, <3>1 DEF Box
    <3>3. Group!Settle(w)
      BY <2>3, <3>2 DEF Group!Settle
    <3>4. QED
      BY <3>3 DEF Group!MailboxNext
  <2>8. QED
    BY <2>1, <2>6, <2>7
<1>9. ASSUME UNCHANGED <<stream, first, cursor, acked, at, upto>>
      PROVE  Box' = Box
  BY <1>9 DEF Box, Fate, Holder
<1>10. ASSUME NEW w \in Workers,
              \/ StartWithoutGroup(w) \/ SkipEvent(w) \/ AcquireLock(w)
              \/ DropDuplicate(w) \/ LockFails(w) \/ RunHandlers(w)
       PROVE  Box' = Box
  BY <1>9, <1>10 DEF StartWithoutGroup, SkipEvent, AcquireLock, DropDuplicate, LockFails, RunHandlers
<1>11. ASSUME NEW e \in Events, LockExpires(e)
       PROVE  Box' = Box
  BY <1>9, <1>11 DEF LockExpires
<1>12. CASE UNCHANGED vars
  BY <1>9, <1>12 DEF vars
<1>13. QED
  BY <1>2, <1>3, <1>4, <1>5, <1>6, <1>7, <1>8, <1>10, <1>11, <1>12
     DEF Next, ListenerStep, Group!MailboxNext

(***************************************************************************)
(* The stream, its consumer group and the workers implement the mailbox:   *)
(* an entry is handed to one worker and once, and never comes back,        *)
(* whatever is repeated, trimmed, fails or crashes.                        *)
(***************************************************************************)
THEOREM Refinement == Spec => ImplementsMailbox
<1>1. IInv /\ IInv' /\ [Next]_vars => [Group!MailboxNext]_Box
  <2>1. IInv' => Fates'
    BY FatesOfEntries, PTL
  <2>2. QED
    BY <2>1, FatesOfEntries, MailboxStep
<1>2. QED
  BY <1>1, MailboxStart, Invariance, PTL DEF Spec, ImplementsMailbox, Group!MailboxSpec

=============================================================================
