------------------------------ MODULE EventBus ------------------------------
(***************************************************************************)
(* The event bus of api/core/events/bus.py: API workers publish events to  *)
(* one Redis stream and consume it through one consumer group.  A worker   *)
(* reads a batch of entries that no worker was given before (">"), and for *)
(* each entry takes a deduplication lock, runs the subscribed handlers and *)
(* acknowledges the entry.                                                 *)
(*                                                                         *)
(* Entries are numbered from 1 in the order of their XADD.  A batch is a   *)
(* range of entries: at[w]..upto[w] is what worker w has still to process. *)
(***************************************************************************)
EXTENDS Integers, Sequences

CONSTANTS
    Workers,      \* API processes, each with an EventBus of its own
    Events,       \* event ids
    Subscribed,   \* the events that have a handler in _subscribers
    BatchSize,    \* count=10 of XREADGROUP
    MaxStreamLen, \* MAX_STREAM_LEN, the length XADD trims to
    MaxEntries,   \* bound on the number of entries ever added
    RedisFaults,  \* a Redis call may fail, applied or not
    Terminations  \* workers may be stopped or die

ASSUME EventBusConstants ==
    /\ Subscribed \subseteq Events
    /\ BatchSize \in Nat \ {0}
    /\ MaxStreamLen \in Nat \ {0}
    /\ MaxEntries \in Nat
    /\ {RedisFaults, Terminations} \subseteq BOOLEAN
    /\ {"waiting", "lost", "settled"} \intersect Workers = {}

VARIABLES
    stream,   \* event_bus:stream, the event of every entry ever added
    first,    \* the oldest entry that was not trimmed away
    cursor,   \* last entry delivered to the group, or Absent
    pending,  \* entries delivered and not acknowledged
    acked,    \* history: entries acknowledged
    locks,    \* event_bus:lock:<event_id>
    pc,       \* where the listener of each worker is
    at, upto, \* the rest of the batch each worker holds
    started,  \* history: how often the handlers of an event were started
    handled,  \* history: events whose handlers ended without an exception
    lapsed,   \* history: events whose lock ran out
    mishaps   \* history: what went wrong so far

vars == <<stream, first, cursor, pending, acked, locks, pc, at, upto, started,
          handled, lapsed, mishaps>>

redisVars == <<stream, first, cursor, pending, acked, locks>>

Absent == -1

\* A Redis call failed; a listener ended; a trim removed what was not delivered.
Mishaps == {"redis", "ended", "trimmed"}

Stages == {"down", "read", "lock", "handle", "ack"}

\* The event of the entry that worker w processes.
Current(w) == stream[at[w]]

\* The entry XREADGROUP would deliver next.
NextEntry == IF first > cursor + 1 THEN first ELSE cursor + 1

\* Mutant: the batch is cut by its count only.
LastEntryUnbounded == NextEntry + BatchSize - 1

\* The last entry of that batch.
LastEntry == IF Len(stream) < NextEntry + BatchSize - 1
             THEN Len(stream) ELSE NextEntry + BatchSize - 1

Goto(w, stage) == pc' = [pc EXCEPT ![w] = stage]

-----------------------------------------------------------------------------
Init ==
    /\ stream = << >>
    /\ first = 1
    /\ cursor = Absent
    /\ pending = {}
    /\ acked = {}
    /\ locks = {}
    /\ pc = [w \in Workers |-> "down"]
    /\ at = [w \in Workers |-> 1]
    /\ upto = [w \in Workers |-> 0]
    /\ started = [e \in Events |-> 0]
    /\ handled = {}
    /\ lapsed = {}
    /\ mishaps = {}

(***************************************************************************)
(* publish: XADD with MAXLEN ~.  Redis may leave more than MaxStreamLen    *)
(* entries in place.  A request publishes an event once; the client        *)
(* library sends an XADD again whose reply was lost, which adds a second   *)
(* entry for the same event.                                               *)
(***************************************************************************)
Publish(e) ==
    /\ Len(stream) < MaxEntries
    /\ \A i \in 1..Len(stream) : stream[i] = e => RedisFaults
    /\ stream' = Append(stream, e)
    /\ first' \in {f \in first..(Len(stream) + 1) :
                      f = first \/ Len(stream) + 2 - f >= MaxStreamLen}
    /\ mishaps' = mishaps \union (IF cursor # Absent /\ first' > first /\ first' > cursor + 1
                                 THEN {"trimmed"} ELSE {})
    /\ UNCHANGED <<cursor, pending, acked, locks, pc, at, upto, started, handled, lapsed>>

\* start: XGROUP CREATE at "$" unless the group exists, then the listener.
Start(w) ==
    /\ pc[w] = "down"
    /\ cursor' = IF cursor = Absent THEN Len(stream) ELSE cursor
    /\ Goto(w, "read")
    /\ UNCHANGED <<stream, first, pending, acked, locks, at, upto, started, handled, lapsed, mishaps>>

\* start: an error other than BUSYGROUP of XGROUP CREATE is only logged.
StartWithoutGroup(w) ==
    /\ RedisFaults
    /\ pc[w] = "down"
    /\ Goto(w, "read")
    /\ mishaps' = mishaps \union {"redis"}
    /\ UNCHANGED <<redisVars, at, upto, started, handled, lapsed>>

(***************************************************************************)
(* stop cancels the listener at the await it is in; a crash ends it        *)
(* anywhere.  The batch is gone either way, and the next start of the      *)
(* process reads under a new consumer name.                                *)
(***************************************************************************)
Terminate(w) ==
    /\ Terminations
    /\ pc[w] # "down"
    /\ Goto(w, "down")
    /\ at' = [at EXCEPT ![w] = 1]
    /\ upto' = [upto EXCEPT ![w] = 0]
    /\ mishaps' = mishaps \union {"ended"}
    /\ UNCHANGED <<redisVars, started, handled, lapsed>>

-----------------------------------------------------------------------------
\* Mutant: the group's cursor is not moved, as with an explicit id and not ">".
ReadWithoutCursor(w) ==
    /\ pc[w] = "read"
    /\ cursor # Absent
    /\ NextEntry <= Len(stream)
    /\ pending' = pending \union NextEntry..LastEntry
    /\ at' = [at EXCEPT ![w] = NextEntry]
    /\ upto' = [upto EXCEPT ![w] = LastEntry]
    /\ Goto(w, "lock")
    /\ UNCHANGED <<stream, first, cursor, acked, locks, started, handled, lapsed, mishaps>>

\* XREADGROUP ">": the group delivers the next entries to this consumer.
ReadBatch(w) ==
    /\ pc[w] = "read"
    /\ cursor # Absent
    /\ NextEntry <= Len(stream)
    /\ cursor' = LastEntry
    /\ pending' = pending \union NextEntry..LastEntry
    /\ at' = [at EXCEPT ![w] = NextEntry]
    /\ upto' = [upto EXCEPT ![w] = LastEntry]
    /\ Goto(w, "lock")
    /\ UNCHANGED <<stream, first, acked, locks, started, handled, lapsed, mishaps>>

\* The reply of XREADGROUP is lost: the entries stay pending for this consumer.
ReadFails(w) ==
    /\ RedisFaults
    /\ pc[w] = "read"
    /\ cursor # Absent
    /\ NextEntry <= Len(stream)
    /\ cursor' = LastEntry
    /\ pending' = pending \union NextEntry..LastEntry
    /\ mishaps' = mishaps \union {"redis"}
    /\ UNCHANGED <<stream, first, acked, locks, pc, at, upto, started, handled, lapsed>>

\* _process_remote_event: no handler for this event, or no valid payload.
SkipEvent(w) ==
    /\ pc[w] = "lock"
    /\ Current(w) \notin Subscribed
    /\ Goto(w, "ack")
    /\ UNCHANGED <<redisVars, at, upto, started, handled, lapsed, mishaps>>

\* Mutant: the SET of the lock has no NX.
AcquireWithoutNX(w) ==
    /\ pc[w] = "lock"
    /\ Current(w) \in Subscribed
    /\ locks' = locks \union {Current(w)}
    /\ started' = [started EXCEPT ![Current(w)] = @ + 1]
    /\ Goto(w, "handle")
    /\ UNCHANGED <<stream, first, cursor, pending, acked, at, upto, handled, lapsed, mishaps>>

\* SET NX EX 60 takes the lock; the handlers start.
AcquireLock(w) ==
    /\ pc[w] = "lock"
    /\ Current(w) \in Subscribed
    /\ Current(w) \notin locks
    /\ locks' = locks \union {Current(w)}
    /\ started' = [started EXCEPT ![Current(w)] = @ + 1]
    /\ Goto(w, "handle")
    /\ UNCHANGED <<stream, first, cursor, pending, acked, at, upto, handled, lapsed, mishaps>>

\* The lock exists: the event is dropped and the entry acknowledged.
DropDuplicate(w) ==
    /\ pc[w] = "lock"
    /\ Current(w) \in Subscribed
    /\ Current(w) \in locks
    /\ Goto(w, "ack")
    /\ UNCHANGED <<redisVars, at, upto, started, handled, lapsed, mishaps>>

(***************************************************************************)
(* The SET fails.  _process_remote_event swallows the exception and        *)
(* returns, and a SET sent again finds the worker's own lock and drops the *)
(* event: the entry is acknowledged in both cases.                         *)
(***************************************************************************)
LockFails(w) ==
    /\ RedisFaults
    /\ pc[w] = "lock"
    /\ Current(w) \in Subscribed
    /\ locks' \in {locks, locks \union {Current(w)}}
    /\ Goto(w, "ack")
    /\ mishaps' = mishaps \union {"redis"}
    /\ UNCHANGED <<stream, first, cursor, pending, acked, at, upto, started, handled, lapsed>>

\* The handlers run one after the other; their exceptions are only logged.
RunHandlers(w) ==
    /\ pc[w] = "handle"
    /\ handled' \in {handled, handled \union {Current(w)}}
    /\ Goto(w, "ack")
    /\ UNCHANGED <<redisVars, at, upto, started, lapsed, mishaps>>

\* Mutant: after an XACK the loop goes back to XREADGROUP.
AckThenRead(w) ==
    /\ pc[w] = "ack"
    /\ pending' = pending \ {at[w]}
    /\ acked' = acked \union {at[w]}
    /\ at' = [at EXCEPT ![w] = upto[w] + 1]
    /\ Goto(w, "read")
    /\ UNCHANGED <<stream, first, cursor, locks, upto, started, handled, lapsed, mishaps>>

\* XACK, then the next entry of the batch or the next XREADGROUP.
Ack(w) ==
    /\ pc[w] = "ack"
    /\ pending' = pending \ {at[w]}
    /\ acked' = acked \union {at[w]}
    /\ at' = [at EXCEPT ![w] = @ + 1]
    /\ Goto(w, IF at[w] = upto[w] THEN "read" ELSE "lock")
    /\ UNCHANGED <<stream, first, cursor, locks, upto, started, handled, lapsed, mishaps>>

\* The XACK fails: the loop sleeps and reads on, the rest of the batch is lost.
AckFails(w) ==
    /\ RedisFaults
    /\ pc[w] = "ack"
    /\ \/ UNCHANGED <<pending, acked>>
       \/ pending' = pending \ {at[w]} /\ acked' = acked \union {at[w]}
    /\ at' = [at EXCEPT ![w] = upto[w] + 1]
    /\ Goto(w, "read")
    /\ mishaps' = mishaps \union {"redis"}
    /\ UNCHANGED <<stream, first, cursor, locks, upto, started, handled, lapsed>>

\* 60 s have passed since the lock of an event was set.
LockExpires(e) ==
    /\ e \in locks
    /\ locks' = locks \ {e}
    /\ lapsed' = lapsed \union {e}
    /\ UNCHANGED <<stream, first, cursor, pending, acked, pc, at, upto, started, handled, mishaps>>

-----------------------------------------------------------------------------
ListenerStep(w) ==
    \/ ReadBatch(w)
    \/ ReadFails(w)
    \/ SkipEvent(w)
    \/ AcquireLock(w)
    \/ DropDuplicate(w)
    \/ LockFails(w)
    \/ RunHandlers(w)
    \/ Ack(w)
    \/ AckFails(w)

Next ==
    \/ \E e \in Events : Publish(e) \/ LockExpires(e)
    \/ \E w \in Workers :
          \/ Start(w)
          \/ StartWithoutGroup(w)
          \/ Terminate(w)
          \/ ListenerStep(w)

Spec == Init /\ [][Next]_vars

\* A worker that is down is started again, and the event loop runs its
\* listener on.
Fairness == \A w \in Workers : WF_vars(Start(w)) /\ WF_vars(ListenerStep(w))

FairSpec == Spec /\ Fairness

-----------------------------------------------------------------------------
\* Every variable keeps its shape; cursors and batches stay in the stream.
TypeOK ==
    /\ stream \in Seq(Events)
    /\ first \in 1..(Len(stream) + 1)
    /\ cursor \in Absent..Len(stream)
    /\ pending \subseteq 1..Len(stream)
    /\ acked \subseteq 1..Len(stream)
    /\ locks \subseteq Events
    /\ pc \in [Workers -> Stages]
    /\ at \in [Workers -> 1..(Len(stream) + 1)]
    /\ upto \in [Workers -> 0..Len(stream)]
    /\ started \in [Events -> Nat]
    /\ handled \subseteq Events
    /\ lapsed \subseteq Events
    /\ mishaps \subseteq Mishaps

(***************************************************************************)
(* README: the lock "secures exactly-once processing of events, preventing *)
(* [...] duplicate notification dispatches".  The handlers of an event are *)
(* not started twice while its lock lasts, even when its XADD was repeated *)
(* and two workers hold the two entries, and whatever crashes or fails.    *)
(***************************************************************************)
StartedAtMostOnce == \A e \in Events \ lapsed : started[e] <= 1

(***************************************************************************)
(* "Load-balanced consumer dispatch": the stream, its group and the        *)
(* workers implement the mailbox.  Whatever is repeated, trimmed, crashes  *)
(* or fails, an entry is handed to one worker and once, acknowledged by    *)
(* that worker and one at a time, and never comes back.                    *)
(***************************************************************************)
Holder(i) == {w \in Workers : i \in at[w]..upto[w]}

Fate(i) == IF i \in acked THEN "settled"
           ELSE IF Holder(i) # {} THEN CHOOSE w \in Holder(i) : TRUE
           ELSE IF i > cursor /\ i >= first THEN "waiting" ELSE "lost"

Box == [i \in 1..Len(stream) |-> Fate(i)]

Group == INSTANCE Mailbox WITH Consumers <- Workers, box <- Box

ImplementsMailbox == Group!MailboxSpec

\* Entry i was added after the group was created and is not delivered yet.
Waiting(i) == cursor # Absent /\ i \in (cursor + 1)..Len(stream)

Processed(i) == stream[i] \in Subscribed => started[stream[i]] > 0

(***************************************************************************)
(* _redis_listener works off its batch and reads on: an event that is in   *)
(* the stream of the group gets its handlers started, whatever locks run   *)
(* out and handlers fail, unless a Redis call failed, a listener ended or  *)
(* the entry was trimmed.                                                  *)
(***************************************************************************)
ProcessedUnlessMishap ==
    \A i \in 1..MaxEntries :
        Waiting(i) ~> (i <= Len(stream) /\ Processed(i)) \/ mishaps # {}

(***************************************************************************)
(* EventBus "provides at-least-once message durability": if the workers    *)
(* are up for good from some time on, an event that is in the stream of    *)
(* the group gets its handlers started.                                    *)
(***************************************************************************)
AtLeastOnce ==
    <>[](\A w \in Workers : pc[w] # "down") =>
        \A i \in 1..MaxEntries : Waiting(i) ~> (i <= Len(stream) /\ Processed(i))

=============================================================================
