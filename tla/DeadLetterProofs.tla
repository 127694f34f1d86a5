-------------------------- MODULE DeadLetterProofs --------------------------
(***************************************************************************)
(* Proofs about DeadLetter for any finite set of jobs, any task names and  *)
(* documents, and any number of requests and mishaps.                      *)
(***************************************************************************)
EXTENDS DeadLetter, FiniteSetTheorems, FunctionTheorems, TLAPS

\* What a DAO has written to a column, and what merges make of it.
Strings == {Written(Object(doc)) : doc \in Docs}

Arrays == {Array(items) : items \in Seq(Strings)}

\* Rows, in the table or deleted by a request that has not sent them yet.
DeadRows == [id : Ids, job : Jobs, kwargs : Strings \union Arrays]

\* The type invariant with the rows as records; a request that has not started
\* holds none.
ShapeInv ==
    /\ name \in Namings
    /\ nextId \in Nat
    /\ queue \subseteq Messages
    /\ rows \subseteq DeadRows
    /\ sending \in [Requests -> SUBSET DeadRows]
    /\ used \in 0..Budget
    /\ \A r \in Requests : r > used => sending[r] = {}
    /\ intended \in [Jobs -> Docs]
    /\ finished \subseteq Jobs
    /\ discarded \subseteq Jobs
    /\ mishaps \subseteq Mishaps

\* No statement and no message has been repeated.
Calm == {"database", "broker"} \intersect mishaps = {}

\* Two copies of a job are the same one and in the same place, and a job that is
\* finished or given up has none.
PlacesInv ==
    /\ \A m, n \in queue : m.job = n.job => m = n
    /\ \A x, y \in rows : x.job = y.job => x = y
    /\ \A r, s \in Requests : \A x \in sending[r], y \in sending[s] :
          x.job = y.job => r = s /\ x = y
    /\ \A m \in queue : \A x \in rows : m.job # x.job
    /\ \A r \in Requests : \A y \in sending[r] :
          /\ \A m \in queue : m.job # y.job
          /\ \A x \in rows : x.job # y.job
          /\ y.job \notin finished \union discarded
    /\ \A m \in queue : m.job \notin finished \union discarded
    /\ \A x \in rows : x.job \notin finished \union discarded

OneCopyInv == Calm => PlacesInv

\* Every job that is neither finished nor given up is somewhere.
Somewhere(j) ==
    \/ j \in finished \union discarded
    \/ \E m \in queue : m.job = j
    \/ \E x \in rows : x.job = j
    \/ \E r \in Requests : \E x \in sending[r] : x.job = j

KeptInv == mishaps = {} => \A j \in Jobs : Somewhere(j)

\* A column that can be sent holds what the counted edits ask for.
Current(x) == KwargsOf(x).kind = "object" => Doc(KwargsOf(x)) = intended[x.job]

Contents ==
    /\ \A m \in queue : m.kwargs = intended[m.job]
    /\ \A x \in rows : Current(x)
    /\ \A r \in Requests : \A x \in sending[r] : Current(x)

EditsInv == Calm => Contents

IInv == ShapeInv /\ OneCopyInv /\ KeptInv /\ EditsInv

-----------------------------------------------------------------------------
\* What was written is read back as the same document.
LEMMA StringColumn ==
    ASSUME NEW doc \in Docs
    PROVE  /\ Written(Object(doc)) \in Strings
           /\ Written(Object(doc)).kind = "string"
           /\ DeadLetterRead(Written(Object(doc))) = Object(doc)
           /\ Object(doc).kind = "object"
           /\ Doc(Object(doc)) = doc
  BY DEF Strings, Written, Stored, Dumps, Loads, String, Object, Doc, DeadLetterRead, PoolRead

\* What merges leave behind is not a mapping, and is read as it is.
LEMMA ArrayColumn ==
    ASSUME NEW column \in Arrays
    PROVE  /\ column.kind = "array"
           /\ column.parts \in Seq(Strings)
           /\ DeadLetterRead(column).kind = "array"
  BY DEF Arrays, Array, DeadLetterRead, PoolRead, Loads, Dumps, String

\* A merge makes an array of any column: two encoded strings are not two objects.
LEMMA MergedColumn ==
    ASSUME NEW column \in Strings \union Arrays, NEW doc \in Docs
    PROVE  Concat(column, Written(Object(doc))) \in Arrays
<1> DEFINE new == Written(Object(doc))
<1>1. new \in Strings /\ new.kind = "string"
  BY StringColumn
<1>2. ItemsOf(column) \in Seq(Strings)
  <2>1. CASE column \in Strings
    <3>1. column.kind = "string"
      BY <2>1, StringColumn DEF Strings
    <3>2. ItemsOf(column) = <<column>>
      BY <3>1 DEF ItemsOf
    <3>3. QED
      BY <2>1, <3>2
  <2>2. CASE column \in Arrays
    BY <2>2, ArrayColumn DEF ItemsOf
  <2>3. QED
    BY <2>1, <2>2
<1>3. ItemsOf(new) = <<new>>
  BY <1>1 DEF ItemsOf
<1>4. Concat(column, new) = Array(ItemsOf(column) \o <<new>>)
  BY <1>1, <1>3 DEF Concat
<1> HIDE DEF new
<1>5. ItemsOf(column) \o <<new>> \in Seq(Strings)
  BY <1>1, <1>2
<1>6. QED
  BY <1>4, <1>5 DEF Arrays, new

\* A column that send_task accepts holds a document.
LEMMA ColumnRead ==
    ASSUME NEW column \in Strings \union Arrays,
           DeadLetterRead(column).kind = "object"
    PROVE  /\ Doc(DeadLetterRead(column)) \in Docs
           /\ column = Written(Object(Doc(DeadLetterRead(column))))
<1>1. column \in Strings
  BY ArrayColumn
<1>2. PICK doc \in Docs : column = Written(Object(doc))
  BY <1>1 DEF Strings
<1>3. QED
  BY <1>2, StringColumn

\* The documents are closed under a merge, and the empty one is among them.
LEMMA Documents ==
    /\ [f \in {} |-> f] \in Docs
    /\ \A old, new \in Docs : Override(old, new) \in Docs
<1>1. [f \in {} |-> f] \in Docs
  <2>1. [f \in {} |-> f] \in [{} -> Values]
    OBVIOUS
  <2>2. QED
    BY <2>1 DEF Docs
<1>2. ASSUME NEW old \in Docs, NEW new \in Docs
      PROVE  Override(old, new) \in Docs
  <2>1. PICK F \in SUBSET Fields : old \in [F -> Values]
    BY DEF Docs
  <2>2. PICK G \in SUBSET Fields : new \in [G -> Values]
    BY DEF Docs
  <2>3. Override(old, new) \in [F \union G -> Values]
    BY <2>1, <2>2 DEF Override
  <2>4. F \union G \in SUBSET Fields
    OBVIOUS
  <2>5. QED
    BY <2>3, <2>4 DEF Docs
<1>3. QED
  BY <1>1, <1>2

\* The rows have the shape that the type invariant asks for.
LEMMA Types ==
    ASSUME ShapeInv
    PROVE  TypeOK
<1>1. ASSUME NEW x \in DeadRows
      PROVE  IsRow(x)
  <2>1. x.id \in Ids /\ x.job \in Jobs /\ x.kwargs \in Strings \union Arrays
    BY DEF DeadRows
  <2>2. CASE x.kwargs \in Strings
    <3>1. x.kwargs.kind = "string"
      BY <2>2, StringColumn DEF Strings
    <3>2. ItemsOf(x.kwargs) = <<x.kwargs>>
      BY <3>1 DEF ItemsOf
    <3>3. ItemsOf(x.kwargs) \in Seq(Strings)
      BY <2>2, <3>2
    <3>4. QED
      BY <2>1, <3>3 DEF IsRow, Strings
  <2>3. CASE x.kwargs \in Arrays
    <3>1. ItemsOf(x.kwargs) \in Seq(Strings)
      BY <2>3, ArrayColumn DEF ItemsOf
    <3>2. QED
      BY <2>1, <3>1 DEF IsRow, Strings
  <2>4. QED
    BY <2>1, <2>2, <2>3
<1>2. Held \subseteq DeadRows
  BY DEF Held, ShapeInv
<1>3. QED
  BY <1>1, <1>2 DEF TypeOK, ShapeInv

\* Older ids stay in use when newer ones are drawn.
LEMMA IdsGrow ==
    ASSUME nextId \in Nat, NEW n \in Nat, nextId' = nextId + n
    PROVE  /\ DeadRows \subseteq DeadRows'
           /\ Messages \subseteq Messages'
<1>1. ASSUME NEW i \in Ids
      PROVE  i \in Ids'
  <2>1. i \in Int /\ 0 <= i /\ i <= nextId - 1
    BY DEF Ids
  <2>2. QED
    BY <2>1 DEF Ids
<1>2. QED
  BY <1>1 DEF DeadRows, Messages, Strings, Arrays

\* Nothing changes for the ids in use when none is drawn.
LEMMA SameIds ==
    ASSUME nextId' = nextId
    PROVE  DeadRows' = DeadRows /\ Messages' = Messages
  BY DEF DeadRows, Messages, Ids, Strings, Arrays

\* A statement selects rows of the table.
LEMMA Selection ==
    ASSUME NEW target
    PROVE  Selected(target) \subseteq rows
  BY DEF Selected

\* New rows and new messages have fresh ids.
LEMMA Drawn ==
    ASSUME nextId \in Nat, NEW n \in Nat, nextId' = nextId + n,
           NEW j \in Jobs, NEW kw \in Docs
    PROVE  /\ {Row(nextId + i, j, kw) : i \in 0..(n - 1)} \subseteq DeadRows'
           /\ {Message(nextId + i, j, kw, 0) : i \in 0..(n - 1)} \subseteq Messages'
<1> USE DeadLetterConstants
<1>1. \A i \in 0..(n - 1) : nextId + i \in Ids'
  BY DEF Ids
<1>2. Written(Object(kw)) \in Strings
  BY StringColumn
<1>3. \A i \in 0..(n - 1) : Row(nextId + i, j, kw) \in DeadRows'
  BY <1>1, <1>2 DEF Row, DeadRows, Strings, Arrays
<1>4. \A i \in 0..(n - 1) : Message(nextId + i, j, kw, 0) \in Messages'
  BY <1>1 DEF Message, Messages
<1>5. QED
  BY <1>3, <1>4

\* The rows S get the columns F, and nothing else happens in the table.
EditedRows(S, F) ==
    /\ rows' \subseteq DeadRows'
    /\ \A y \in rows' :
          \/ y \in rows /\ y \notin S
          \/ \E x \in S : y = [id |-> x.id, job |-> x.job, kwargs |-> F[x]]
    /\ \A x \in S : [id |-> x.id, job |-> x.job, kwargs |-> F[x]] \in rows'
    /\ \A x \in rows \ S : x \in rows'

\* An edit keeps a row in its place, and changes nothing but its column.
LEMMA Edited ==
    ASSUME ShapeInv, NEW S, S \subseteq rows,
           NEW F, F \in [S -> Strings \union Arrays],
           rows' = (rows \ S) \union {[x EXCEPT !.kwargs = F[x]] : x \in S},
           nextId' = nextId
    PROVE  EditedRows(S, F)
<1>1. \A x \in S : /\ [x EXCEPT !.kwargs = F[x]] = [id |-> x.id, job |-> x.job, kwargs |-> F[x]]
                   /\ [id |-> x.id, job |-> x.job, kwargs |-> F[x]] \in DeadRows
  BY SMTT(30) DEF ShapeInv, DeadRows
<1>2. DeadRows' = DeadRows
  BY DEF DeadRows, Ids, Strings, Arrays
<1>3. rows' = (rows \ S) \union {[id |-> x.id, job |-> x.job, kwargs |-> F[x]] : x \in S}
  <2> DEFINE Old(x) == [x EXCEPT !.kwargs = F[x]]
             New(x) == [id |-> x.id, job |-> x.job, kwargs |-> F[x]]
  <2>1. \A x \in S : Old(x) = New(x)
    BY <1>1
  <2>2. rows' = (rows \ S) \union {Old(x) : x \in S}
    OBVIOUS
  <2> HIDE DEF Old, New
  <2>3. {Old(x) : x \in S} = {New(x) : x \in S}
    BY <2>1
  <2>4. QED
    BY <2>2, <2>3 DEF New
<1>4. rows' \subseteq DeadRows'
  BY <1>1, <1>2, <1>3 DEF ShapeInv
<1>5. QED
  BY <1>3, <1>4 DEF EditedRows

\* What has gone wrong is not forgotten.
LEMMA MishapsStay ==
    ASSUME [Next]_vars
    PROVE  mishaps \subseteq mishaps'
<1>1. ASSUME NEW m \in queue, Succeed(m) \/ Retry(m) \/ FailExcluded(m) \/ Fail(m) \/ WorkerLost(m)
      PROVE  mishaps \subseteq mishaps'
  BY <1>1 DEF Succeed, Retry, FailExcluded, Fail, WorkerLost, Mishap
<1>2. ASSUME NEW r \in Requests, RequestStep(r)
      PROVE  mishaps \subseteq mishaps'
  BY <1>2 DEF RequestStep, Send, SendRefused, SendFails, ApiCrash, Mishap
<1>3. ASSUME NEW r, NEW target, Retrigger(r, target) \/ RetriggerReplyLost(r, target)
      PROVE  mishaps \subseteq mishaps'
  BY <1>3 DEF Retrigger, RetriggerReplyLost, Mishap
<1>4. ASSUME NEW target, NEW kw, Overwrite(target, kw) \/ Merge(target, kw)
      PROVE  mishaps \subseteq mishaps'
  BY <1>4 DEF Overwrite, Merge
<1>5. ASSUME NEW target, DeleteTasks(target)
      PROVE  mishaps \subseteq mishaps'
  BY <1>5 DEF DeleteTasks
<1>6. ASSUME NEW cutoff, Purge(cutoff)
      PROVE  mishaps \subseteq mishaps'
  BY <1>6 DEF Purge
<1>7. CASE UNCHANGED vars
  BY <1>7 DEF vars
<1>8. QED
  BY <1>1, <1>2, <1>3, <1>4, <1>5, <1>6, <1>7 DEF Next, WorkerStep

\* In calm times a failure makes one row of a message.
LEMMA OneRow ==
    ASSUME ShapeInv, Calm', NEW m \in queue, Fail(m)
    PROVE  /\ rows' = rows \union {Row(nextId, m.job, m.kwargs)}
           /\ mishaps' = mishaps
<1>1. PICK n \in 0..DbAttempts :
         /\ rows' = rows \union {Row(nextId + i, m.job, m.kwargs) : i \in 0..(n - 1)}
         /\ IF n = 1 THEN UNCHANGED mishaps ELSE Mishap("database")
  BY DEF Fail
<1>2. n = 1
  BY <1>1 DEF Calm, Mishap
<1>3. {Row(nextId + i, m.job, m.kwargs) : i \in 0..(n - 1)} = {Row(nextId, m.job, m.kwargs)}
  <2>1. 0..(n - 1) = {0} /\ nextId + 0 = nextId
    BY <1>2 DEF ShapeInv
  <2>2. QED
    BY <2>1
<1>4. QED
  BY <1>1, <1>2, <1>3

\* In calm times a send makes one message of a row.
LEMMA OneMessage ==
    ASSUME ShapeInv, Calm', NEW r \in Requests, NEW x \in sending[r], Send(r, x)
    PROVE  /\ queue' = queue \union {Message(nextId, x.job, Doc(KwargsOf(x)), 0)}
           /\ mishaps' = mishaps
<1>1. PICK n \in {1, 2} :
         /\ Enqueue(x, n)
         /\ IF n = 1 THEN UNCHANGED mishaps ELSE Mishap("broker")
  BY DEF Send
<1>2. n = 1
  BY <1>1 DEF Calm, Mishap
<1>3. {Message(nextId + i, x.job, Doc(KwargsOf(x)), 0) : i \in 0..(n - 1)}
         = {Message(nextId, x.job, Doc(KwargsOf(x)), 0)}
  <2>1. 0..(n - 1) = {0} /\ nextId + 0 = nextId
    BY <1>2 DEF ShapeInv
  <2>2. QED
    BY <2>1
<1>4. QED
  BY <1>1, <1>2, <1>3 DEF Enqueue

\* An edit that overwrites: each selected row gets the new document.
LEMMA OverwriteRows ==
    ASSUME ShapeInv, NEW target, NEW kw \in Docs, Overwrite(target, kw)
    PROVE  EditedRows(Selected(target), [x \in Selected(target) |-> Written(Object(kw))])
<1> DEFINE S == Selected(target)
           F == [x \in S |-> Written(Object(kw))]
<1>1. S \subseteq rows
  BY Selection
<1>2. F \in [S -> Strings \union Arrays]
  BY <1>1, StringColumn DEF ShapeInv, DeadRows
<1>3. rows' = (rows \ S) \union {[x EXCEPT !.kwargs = F[x]] : x \in S} /\ nextId' = nextId
  BY DEF Overwrite
<1> HIDE DEF S, F
<1>4. EditedRows(S, F)
  BY <1>1, <1>2, <1>3, Edited
<1>5. QED
  BY <1>4 DEF S, F

\* An edit that merges: each selected row gets an array.
LEMMA MergeRows ==
    ASSUME ShapeInv, NEW target, NEW kw \in Docs, Merge(target, kw)
    PROVE  EditedRows(Selected(target),
                      [x \in Selected(target) |-> Concat(x.kwargs, Written(Object(kw)))])
<1> DEFINE S == Selected(target)
           F == [x \in S |-> Concat(x.kwargs, Written(Object(kw)))]
<1>1. S \subseteq rows
  BY Selection
<1>2. F \in [S -> Strings \union Arrays]
  BY <1>1, MergedColumn DEF ShapeInv, DeadRows
<1>3. rows' = (rows \ S) \union {[x EXCEPT !.kwargs = F[x]] : x \in S} /\ nextId' = nextId
  BY DEF Merge
<1> HIDE DEF S, F
<1>4. EditedRows(S, F)
  BY <1>1, <1>2, <1>3, Edited
<1>5. QED
  BY <1>4 DEF S, F

\* A deletion takes rows out of the table and gives their jobs up.
LEMMA Deleted ==
    ASSUME ShapeInv, NEW target, DeleteTasks(target)
    PROVE  \E gone \in SUBSET rows : /\ rows' = rows \ gone
                                     /\ discarded' = discarded \union JobsOf(gone)
  BY Selection DEF DeleteTasks

\* And so does the purge.
LEMMA Purged ==
    ASSUME ShapeInv, NEW x \in rows, Purge(x.id + 1)
    PROVE  \E gone \in SUBSET rows : /\ rows' = rows \ gone
                                     /\ discarded' = discarded \union JobsOf(gone)
<1> DEFINE gone == {y \in rows : y.id < x.id + 1}
<1>1. \A y \in rows : y.id \in Int
  BY DEF ShapeInv, DeadRows, Ids
<1>2. rows' = rows \ gone
  BY <1>1 DEF Purge
<1>3. QED
  BY <1>2 DEF Purge

\* Every variable keeps its shape.
LEMMA ShapeStep ==
    ASSUME ShapeInv, [Next]_vars
    PROVE  ShapeInv'
<1> USE DeadLetterConstants DEF Requests, Mishaps, Mishap
<1>1. ASSUME NEW m \in queue, Succeed(m)
      PROVE  ShapeInv'
  <2>1. DeadRows' = DeadRows /\ Messages' = Messages
    BY <1>1, SameIds DEF Succeed
  <2>2. QED
    BY <1>1, <2>1 DEF Succeed, ShapeInv, Messages
<1>2. ASSUME NEW m \in queue, Retry(m)
      PROVE  ShapeInv'
  <2>1. DeadRows' = DeadRows /\ Messages' = Messages
    BY <1>2, SameIds DEF Retry
  <2>2. [m EXCEPT !.retries = @ + 1] \in Messages
    BY <1>2 DEF Retry, ShapeInv, Messages
  <2>3. QED
    BY <1>2, <2>1, <2>2 DEF Retry, ShapeInv
<1>3. ASSUME NEW m \in queue, FailExcluded(m)
      PROVE  ShapeInv'
  <2>1. DeadRows' = DeadRows /\ Messages' = Messages
    BY <1>3, SameIds DEF FailExcluded
  <2>2. QED
    BY <1>3, <2>1 DEF FailExcluded, ShapeInv, Messages
<1>4. ASSUME NEW m \in queue, Fail(m)
      PROVE  ShapeInv'
  <2>1. m.job \in Jobs /\ m.kwargs \in Docs
    BY DEF ShapeInv, Messages
  <2>2. PICK n \in 0..DbAttempts :
           /\ rows' = rows \union {Row(nextId + i, m.job, m.kwargs) : i \in 0..(n - 1)}
           /\ nextId' = nextId + n
           /\ IF n = 1 THEN UNCHANGED mishaps ELSE Mishap("database")
    BY <1>4 DEF Fail
  <2>3. nextId \in Nat /\ n \in Nat
    BY DEF ShapeInv
  <2>4. {Row(nextId + i, m.job, m.kwargs) : i \in 0..(n - 1)} \subseteq DeadRows'
    BY <2>1, <2>2, <2>3, Drawn
  <2>5. DeadRows \subseteq DeadRows' /\ Messages \subseteq Messages'
    BY <2>2, <2>3, IdsGrow
  <2>6. mishaps' \subseteq Mishaps
    BY <2>2 DEF ShapeInv
  <2>7. nextId' \in Nat
    BY <2>2, <2>3
  <2>8. queue' \subseteq Messages'
    BY <1>4, <2>5 DEF Fail, ShapeInv
  <2>9. rows' \subseteq DeadRows'
    <3> DEFINE new == {Row(nextId + i, m.job, m.kwargs) : i \in 0..(n - 1)}
    <3>1. rows' = rows \union new /\ new \subseteq DeadRows'
      BY <2>2, <2>4
    <3> HIDE DEF new
    <3>2. QED
      BY <3>1, <2>5 DEF ShapeInv
  <2>10. sending' \in [Requests -> SUBSET DeadRows']
    BY <1>4, <2>5 DEF Fail, ShapeInv
  <2>11. QED
    BY <1>4, <2>6, <2>7, <2>8, <2>9, <2>10 DEF Fail, ShapeInv
<1>5. ASSUME NEW m \in queue, WorkerLost(m)
      PROVE  ShapeInv'
  <2>1. DeadRows' = DeadRows /\ Messages' = Messages
    BY <1>5, SameIds DEF WorkerLost
  <2>2. QED
    BY <1>5, <2>1 DEF WorkerLost, ShapeInv
<1>6. ASSUME NEW r \in Requests, NEW target \in Targets, Retrigger(r, target)
      PROVE  ShapeInv'
  <2>1. DeadRows' = DeadRows /\ Messages' = Messages
    BY <1>6, SameIds DEF Retrigger
  <2>2. QED
    BY <1>6, <2>1, Selection DEF Retrigger, ShapeInv
<1>7. ASSUME NEW r \in Requests, NEW target \in Targets, RetriggerReplyLost(r, target)
      PROVE  ShapeInv'
  <2>1. DeadRows' = DeadRows /\ Messages' = Messages
    BY <1>7, SameIds DEF RetriggerReplyLost
  <2>2. QED
    BY <1>7, <2>1, Selection DEF RetriggerReplyLost, ShapeInv
<1>8. ASSUME NEW r \in Requests, NEW x \in sending[r], Send(r, x)
      PROVE  ShapeInv'
  <2>1. x \in DeadRows /\ x.job \in Jobs /\ x.kwargs \in Strings \union Arrays
    BY DEF ShapeInv, DeadRows
  <2>2. Doc(KwargsOf(x)) \in Docs
    BY <1>8, <2>1, ColumnRead DEF Send, KwargsOf
  <2>3. PICK n \in {1, 2} :
           /\ Enqueue(x, n)
           /\ IF n = 1 THEN UNCHANGED mishaps ELSE Mishap("broker")
    BY <1>8 DEF Send
  <2>4. nextId \in Nat /\ n \in Nat
    BY DEF ShapeInv
  <2>5. {Message(nextId + i, x.job, Doc(KwargsOf(x)), 0) : i \in 0..(n - 1)} \subseteq Messages'
    BY <2>1, <2>2, <2>3, <2>4, Drawn DEF Enqueue
  <2>6. DeadRows \subseteq DeadRows' /\ Messages \subseteq Messages'
    BY <2>3, <2>4, IdsGrow DEF Enqueue
  <2>7. mishaps' \subseteq Mishaps
    BY <1>8, <2>3 DEF Send, ShapeInv
  <2>8. nextId' \in Nat /\ rows' \subseteq DeadRows'
    BY <1>8, <2>3, <2>4, <2>6 DEF Send, Enqueue, ShapeInv
  <2>9. queue' \subseteq Messages'
    <3> DEFINE new == {Message(nextId + i, x.job, Doc(KwargsOf(x)), 0) : i \in 0..(n - 1)}
    <3>1. queue' = queue \union new /\ new \subseteq Messages'
      BY <2>3, <2>5 DEF Enqueue
    <3> HIDE DEF new
    <3>2. QED
      BY <3>1, <2>6 DEF ShapeInv
  <2>10. sending' \in [Requests -> SUBSET DeadRows']
    BY <1>8, <2>6 DEF Send, ShapeInv
  <2>11. \A s \in Requests : s > used' => sending'[s] = {}
    BY <1>8 DEF Send, ShapeInv
  <2>12. QED
    BY <1>8, <2>7, <2>8, <2>9, <2>10, <2>11 DEF Send, ShapeInv
<1>9. ASSUME NEW r \in Requests, NEW x \in sending[r], SendRefused(r, x)
      PROVE  ShapeInv'
  <2>1. DeadRows' = DeadRows /\ Messages' = Messages
    BY <1>9, SameIds DEF SendRefused
  <2>2. QED
    BY <1>9, <2>1 DEF SendRefused, ShapeInv
<1>10. ASSUME NEW r \in Requests, NEW x \in sending[r], SendFails(r, x)
      PROVE  ShapeInv'
  <2>1. x \in DeadRows /\ x.job \in Jobs /\ x.kwargs \in Strings \union Arrays
    BY DEF ShapeInv, DeadRows
  <2>2. Doc(KwargsOf(x)) \in Docs
    BY <1>10, <2>1, ColumnRead DEF SendFails, KwargsOf
  <2>3. PICK n \in {0, 1} : Enqueue(x, n)
    BY <1>10 DEF SendFails
  <2>4. nextId \in Nat /\ n \in Nat
    BY DEF ShapeInv
  <2>5. {Message(nextId + i, x.job, Doc(KwargsOf(x)), 0) : i \in 0..(n - 1)} \subseteq Messages'
    BY <2>1, <2>2, <2>3, <2>4, Drawn DEF Enqueue
  <2>6. DeadRows \subseteq DeadRows' /\ Messages \subseteq Messages'
    BY <2>3, <2>4, IdsGrow DEF Enqueue
  <2>7. mishaps' \subseteq Mishaps
    BY <1>10, <2>3 DEF SendFails, ShapeInv
  <2>8. nextId' \in Nat /\ rows' \subseteq DeadRows'
    BY <1>10, <2>3, <2>4, <2>6 DEF SendFails, Enqueue, ShapeInv
  <2>9. queue' \subseteq Messages'
    <3> DEFINE new == {Message(nextId + i, x.job, Doc(KwargsOf(x)), 0) : i \in 0..(n - 1)}
    <3>1. queue' = queue \union new /\ new \subseteq Messages'
      BY <2>3, <2>5 DEF Enqueue
    <3> HIDE DEF new
    <3>2. QED
      BY <3>1, <2>6 DEF ShapeInv
  <2>10. sending' \in [Requests -> SUBSET DeadRows']
    BY <1>10, <2>6 DEF SendFails, ShapeInv
  <2>11. \A s \in Requests : s > used' => sending'[s] = {}
    BY <1>10 DEF SendFails, ShapeInv
  <2>12. QED
    BY <1>10, <2>7, <2>8, <2>9, <2>10, <2>11 DEF SendFails, ShapeInv
<1>11. ASSUME NEW r \in Requests, ApiCrash(r)
      PROVE  ShapeInv'
  <2>1. DeadRows' = DeadRows /\ Messages' = Messages
    BY <1>11, SameIds DEF ApiCrash
  <2>2. QED
    BY <1>11, <2>1 DEF ApiCrash, ShapeInv
<1>12. ASSUME NEW target \in Targets, NEW kw \in Docs, Overwrite(target, kw)
      PROVE  ShapeInv'
  <2>1. rows' \subseteq DeadRows'
    BY <1>12, OverwriteRows DEF EditedRows
  <2>2. DeadRows' = DeadRows /\ Messages' = Messages
    BY <1>12, SameIds DEF Overwrite
  <2>3. intended' \in [Jobs -> Docs]
    BY <1>12, Documents DEF Overwrite, ShapeInv
  <2>4. QED
    BY <1>12, <2>1, <2>2, <2>3 DEF Overwrite, ShapeInv
<1>13. ASSUME NEW target \in Targets, NEW kw \in Docs, Merge(target, kw)
      PROVE  ShapeInv'
  <2>1. rows' \subseteq DeadRows'
    BY <1>13, MergeRows DEF EditedRows
  <2>2. DeadRows' = DeadRows /\ Messages' = Messages
    BY <1>13, SameIds DEF Merge
  <2>3. intended' \in [Jobs -> Docs]
    BY <1>13, Documents DEF Merge, ShapeInv
  <2>4. QED
    BY <1>13, <2>1, <2>2, <2>3 DEF Merge, ShapeInv
<1>14. ASSUME NEW target \in Targets, DeleteTasks(target)
      PROVE  ShapeInv'
  <2>1. DeadRows' = DeadRows /\ Messages' = Messages
    BY <1>14, SameIds DEF DeleteTasks
  <2>2. PICK gone \in SUBSET rows : /\ rows' = rows \ gone
                                    /\ discarded' = discarded \union JobsOf(gone)
    BY <1>14, Deleted
  <2>3. JobsOf(gone) \subseteq Jobs
    BY <2>2 DEF JobsOf, ShapeInv, DeadRows
  <2>4. QED
    BY <1>14, <2>1, <2>2, <2>3 DEF DeleteTasks, ShapeInv
<1>15. ASSUME NEW x \in rows, Purge(x.id + 1)
      PROVE  ShapeInv'
  <2>1. DeadRows' = DeadRows /\ Messages' = Messages
    BY <1>15, SameIds DEF Purge
  <2>2. PICK gone \in SUBSET rows : /\ rows' = rows \ gone
                                    /\ discarded' = discarded \union JobsOf(gone)
    BY <1>15, Purged
  <2>3. JobsOf(gone) \subseteq Jobs
    BY <2>2 DEF JobsOf, ShapeInv, DeadRows
  <2>4. QED
    BY <1>15, <2>1, <2>2, <2>3 DEF Purge, ShapeInv
<1>16. CASE UNCHANGED vars
  BY <1>16 DEF vars, ShapeInv, Ids, DeadRows, Messages, Strings, Arrays
<1>17. QED
  BY <1>1, <1>2, <1>3, <1>4, <1>5, <1>6, <1>7, <1>8, <1>9, <1>10, <1>11,
     <1>12, <1>13, <1>14, <1>15, <1>16 DEF Next, WorkerStep, RequestStep

\* Jobs move from place to place, and are never copied.
LEMMA PlacesStep ==
    ASSUME ShapeInv, PlacesInv, Calm', [Next]_vars
    PROVE  PlacesInv'
<1> USE DeadLetterConstants DEF Requests, Mishaps, Mishap
<1>1. ASSUME NEW m \in queue, Succeed(m)
      PROVE  PlacesInv'
  BY <1>1 DEF Succeed, PlacesInv
<1>2. ASSUME NEW m \in queue, Retry(m)
      PROVE  PlacesInv'
  BY <1>2 DEF Retry, PlacesInv, ShapeInv, Messages
<1>3. ASSUME NEW m \in queue, FailExcluded(m)
      PROVE  PlacesInv'
  BY <1>3 DEF FailExcluded, PlacesInv
<1>4. ASSUME NEW m \in queue, Fail(m)
      PROVE  PlacesInv'
  BY <1>4, OneRow DEF Fail, PlacesInv, Row
<1>5. ASSUME NEW m \in queue, WorkerLost(m)
      PROVE  PlacesInv'
  BY <1>5 DEF WorkerLost, PlacesInv
<1>6. ASSUME NEW r \in Requests, NEW target \in Targets, Retrigger(r, target)
      PROVE  PlacesInv'
  BY <1>6, Selection DEF Retrigger, PlacesInv, ShapeInv
<1>7. ASSUME NEW r \in Requests, NEW target \in Targets, RetriggerReplyLost(r, target)
      PROVE  PlacesInv'
  BY <1>7 DEF RetriggerReplyLost, Calm
<1>8. ASSUME NEW r \in Requests, NEW x \in sending[r], Send(r, x)
      PROVE  PlacesInv'
  <2> DEFINE new == Message(nextId, x.job, Doc(KwargsOf(x)), 0)
  <2>1. queue' = queue \union {new} /\ UNCHANGED <<rows, finished, discarded>>
    BY <1>8, OneMessage DEF Send
  <2>2. new.job = x.job
    BY DEF Message
  <2>3. \A s \in Requests : sending'[s] = IF s = r THEN sending[r] \ {x} ELSE sending[s]
    BY <1>8 DEF Send, ShapeInv
  <2> HIDE DEF new
  <2>4. QED
    BY <2>1, <2>2, <2>3 DEF PlacesInv
<1>9. ASSUME NEW r \in Requests, NEW x \in sending[r], SendRefused(r, x)
      PROVE  PlacesInv'
  <2>1. UNCHANGED <<queue, rows, finished, discarded>>
    BY <1>9 DEF SendRefused
  <2>2. \A s \in Requests : sending'[s] \subseteq sending[s]
    BY <1>9 DEF SendRefused, ShapeInv
  <2>3. QED
    BY <2>1, <2>2 DEF PlacesInv
<1>10. ASSUME NEW r \in Requests, NEW x \in sending[r], SendFails(r, x)
      PROVE  PlacesInv'
  BY <1>10 DEF SendFails, Calm
<1>11. ASSUME NEW r \in Requests, ApiCrash(r)
      PROVE  PlacesInv'
  <2>1. UNCHANGED <<queue, rows, finished, discarded>>
    BY <1>11 DEF ApiCrash
  <2>2. \A s \in Requests : sending'[s] \subseteq sending[s]
    BY <1>11 DEF ApiCrash, ShapeInv
  <2>3. QED
    BY <2>1, <2>2 DEF PlacesInv
<1>12. ASSUME NEW target \in Targets, NEW kw \in Docs, Overwrite(target, kw)
      PROVE  PlacesInv'
  <2>1. Selected(target) \subseteq rows
    BY Selection
  <2>2. \A y \in rows' : \E x \in rows : y.job = x.job
    BY <1>12, <2>1, OverwriteRows DEF EditedRows
  <2>3. \A y, z \in rows' : y.job = z.job => y = z
    BY <1>12, <2>1, OverwriteRows DEF EditedRows, PlacesInv
  <2>4. UNCHANGED <<queue, sending, finished, discarded>>
    BY <1>12 DEF Overwrite
  <2>5. QED
    BY <2>2, <2>3, <2>4 DEF PlacesInv
<1>13. ASSUME NEW target \in Targets, NEW kw \in Docs, Merge(target, kw)
      PROVE  PlacesInv'
  <2>1. Selected(target) \subseteq rows
    BY Selection
  <2>2. \A y \in rows' : \E x \in rows : y.job = x.job
    BY <1>13, <2>1, MergeRows DEF EditedRows
  <2>3. \A y, z \in rows' : y.job = z.job => y = z
    BY <1>13, <2>1, MergeRows DEF EditedRows, PlacesInv
  <2>4. UNCHANGED <<queue, sending, finished, discarded>>
    BY <1>13 DEF Merge
  <2>5. QED
    BY <2>2, <2>3, <2>4 DEF PlacesInv
<1>14. ASSUME NEW target \in Targets, DeleteTasks(target)
      PROVE  PlacesInv'
  <2>1. PICK gone \in SUBSET rows : /\ rows' = rows \ gone
                                    /\ discarded' = discarded \union JobsOf(gone)
    BY <1>14, Deleted
  <2>2. UNCHANGED <<queue, sending, finished>>
    BY <1>14 DEF DeleteTasks
  <2>3. QED
    BY <2>1, <2>2 DEF PlacesInv, JobsOf
<1>15. ASSUME NEW x \in rows, Purge(x.id + 1)
      PROVE  PlacesInv'
  <2>1. PICK gone \in SUBSET rows : /\ rows' = rows \ gone
                                    /\ discarded' = discarded \union JobsOf(gone)
    BY <1>15, Purged
  <2>2. UNCHANGED <<queue, sending, finished>>
    BY <1>15 DEF Purge
  <2>3. QED
    BY <2>1, <2>2 DEF PlacesInv, JobsOf
<1>16. CASE UNCHANGED vars
  BY <1>16 DEF vars, PlacesInv
<1>17. QED
  BY <1>1, <1>2, <1>3, <1>4, <1>5, <1>6, <1>7, <1>8, <1>9, <1>10, <1>11,
     <1>12, <1>13, <1>14, <1>15, <1>16 DEF Next, WorkerStep, RequestStep

\* No step drops a job without a mishap.
LEMMA KeptStep ==
    ASSUME ShapeInv, NEW j \in Jobs, Somewhere(j), mishaps' = {}, [Next]_vars
    PROVE  Somewhere(j)'
<1> USE DeadLetterConstants DEF Requests, Mishaps, Mishap
<1>1. ASSUME NEW m \in queue, Succeed(m)
      PROVE  Somewhere(j)'
  BY <1>1 DEF Succeed, Somewhere
<1>2. ASSUME NEW m \in queue, Retry(m)
      PROVE  Somewhere(j)'
  <2> DEFINE new == [m EXCEPT !.retries = @ + 1]
  <2>1. new.job = m.job
    BY DEF ShapeInv, Messages
  <2>2. queue' = (queue \ {m}) \union {new} /\ UNCHANGED <<rows, sending, finished, discarded>>
    BY <1>2 DEF Retry
  <2> HIDE DEF new
  <2>3. QED
    BY <2>1, <2>2 DEF Somewhere
<1>3. ASSUME NEW m \in queue, FailExcluded(m)
      PROVE  Somewhere(j)'
  BY <1>3 DEF FailExcluded, Somewhere
<1>4. ASSUME NEW m \in queue, Fail(m)
      PROVE  Somewhere(j)'
  <2> DEFINE new == Row(nextId, m.job, m.kwargs)
  <2>1. rows' = rows \union {new}
    BY <1>4, OneRow DEF Calm
  <2>2. new.job = m.job
    BY DEF Row
  <2>3. queue' = queue \ {m} /\ UNCHANGED <<sending, finished, discarded>>
    BY <1>4 DEF Fail
  <2> HIDE DEF new
  <2>4. QED
    BY <2>1, <2>2, <2>3 DEF Somewhere
<1>5. ASSUME NEW m \in queue, WorkerLost(m)
      PROVE  Somewhere(j)'
  BY <1>5 DEF WorkerLost
<1>6. ASSUME NEW r \in Requests, NEW target \in Targets, Retrigger(r, target)
      PROVE  Somewhere(j)'
  <2>1. /\ sending'[r] = Selected(target)
        /\ sending[r] = {}
        /\ \A s \in Requests : s # r => sending'[s] = sending[s]
    BY <1>6 DEF Retrigger, ShapeInv
  <2>2. rows' = rows \ Selected(target) /\ UNCHANGED <<queue, finished, discarded>>
    BY <1>6 DEF Retrigger
  <2>3. QED
    BY <2>1, <2>2 DEF Somewhere
<1>7. ASSUME NEW r \in Requests, NEW target \in Targets, RetriggerReplyLost(r, target)
      PROVE  Somewhere(j)'
  BY <1>7 DEF RetriggerReplyLost
<1>8. ASSUME NEW r \in Requests, NEW x \in sending[r], Send(r, x)
      PROVE  Somewhere(j)'
  <2> DEFINE new == Message(nextId, x.job, Doc(KwargsOf(x)), 0)
  <2>1. queue' = queue \union {new} /\ UNCHANGED <<rows, finished, discarded>>
    BY <1>8, OneMessage DEF Send, Calm
  <2>2. new.job = x.job
    BY DEF Message
  <2>3. \A s \in Requests : sending'[s] = IF s = r THEN sending[r] \ {x} ELSE sending[s]
    BY <1>8 DEF Send, ShapeInv
  <2> HIDE DEF new
  <2>4. QED
    BY <2>1, <2>2, <2>3 DEF Somewhere
<1>9. ASSUME NEW r \in Requests, NEW x \in sending[r], SendRefused(r, x)
      PROVE  Somewhere(j)'
  BY <1>9 DEF SendRefused
<1>10. ASSUME NEW r \in Requests, NEW x \in sending[r], SendFails(r, x)
      PROVE  Somewhere(j)'
  BY <1>10 DEF SendFails
<1>11. ASSUME NEW r \in Requests, ApiCrash(r)
      PROVE  Somewhere(j)'
  BY <1>11 DEF ApiCrash
<1>12. ASSUME NEW target \in Targets, NEW kw \in Docs, Overwrite(target, kw)
      PROVE  Somewhere(j)'
  <2>1. \A x \in rows : \E y \in rows' : y.job = x.job
    BY <1>12, OverwriteRows, ZenonT(30) DEF EditedRows
  <2>2. UNCHANGED <<queue, sending, finished, discarded>>
    BY <1>12 DEF Overwrite
  <2>3. QED
    BY <2>1, <2>2 DEF Somewhere
<1>13. ASSUME NEW target \in Targets, NEW kw \in Docs, Merge(target, kw)
      PROVE  Somewhere(j)'
  <2>1. \A x \in rows : \E y \in rows' : y.job = x.job
    BY <1>13, MergeRows, ZenonT(30) DEF EditedRows
  <2>2. UNCHANGED <<queue, sending, finished, discarded>>
    BY <1>13 DEF Merge
  <2>3. QED
    BY <2>1, <2>2 DEF Somewhere
<1>14. ASSUME NEW target \in Targets, DeleteTasks(target)
      PROVE  Somewhere(j)'
  <2>1. PICK gone \in SUBSET rows : /\ rows' = rows \ gone
                                    /\ discarded' = discarded \union JobsOf(gone)
    BY <1>14, Deleted
  <2>2. UNCHANGED <<queue, sending, finished>>
    BY <1>14 DEF DeleteTasks
  <2>3. QED
    BY <2>1, <2>2 DEF Somewhere, JobsOf
<1>15. ASSUME NEW x \in rows, Purge(x.id + 1)
      PROVE  Somewhere(j)'
  <2>1. PICK gone \in SUBSET rows : /\ rows' = rows \ gone
                                    /\ discarded' = discarded \union JobsOf(gone)
    BY <1>15, Purged
  <2>2. UNCHANGED <<queue, sending, finished>>
    BY <1>15 DEF Purge
  <2>3. QED
    BY <2>1, <2>2 DEF Somewhere, JobsOf
<1>16. CASE UNCHANGED vars
  BY <1>16 DEF vars, Somewhere
<1>17. QED
  BY <1>1, <1>2, <1>3, <1>4, <1>5, <1>6, <1>7, <1>8, <1>9, <1>10, <1>11,
     <1>12, <1>13, <1>14, <1>15, <1>16 DEF Next, WorkerStep, RequestStep

\* An edit changes a job only where it is, and what moves is not changed.
LEMMA ContentsStep ==
    ASSUME ShapeInv, PlacesInv, Contents, Calm', [Next]_vars
    PROVE  Contents'
<1> USE DeadLetterConstants DEF Requests, Mishaps, Mishap
<1>1. ASSUME NEW m \in queue, Succeed(m)
      PROVE  Contents'
  BY <1>1 DEF Succeed, Contents, Current
<1>2. ASSUME NEW m \in queue, Retry(m)
      PROVE  Contents'
  <2>1. [m EXCEPT !.retries = @ + 1].job = m.job /\ [m EXCEPT !.retries = @ + 1].kwargs = m.kwargs
    BY DEF ShapeInv, Messages
  <2>2. QED
    BY <1>2, <2>1 DEF Retry, Contents, Current
<1>3. ASSUME NEW m \in queue, FailExcluded(m)
      PROVE  Contents'
  BY <1>3 DEF FailExcluded, Contents, Current
<1>4. ASSUME NEW m \in queue, Fail(m)
      PROVE  Contents'
  <2>1. /\ rows' = rows \union {Row(nextId, m.job, m.kwargs)}
        /\ queue' \subseteq queue /\ UNCHANGED <<sending, intended>>
    BY <1>4, OneRow DEF Fail
  <2>2. m.kwargs \in Docs /\ m.kwargs = intended[m.job]
    BY DEF Contents, ShapeInv, Messages
  <2>3. /\ Doc(KwargsOf(Row(nextId, m.job, m.kwargs))) = m.kwargs
        /\ Row(nextId, m.job, m.kwargs).job = m.job
    BY <2>2, StringColumn DEF Row, KwargsOf
  <2>4. QED
    BY <2>1, <2>2, <2>3 DEF Contents, Current
<1>5. ASSUME NEW m \in queue, WorkerLost(m)
      PROVE  Contents'
  BY <1>5 DEF WorkerLost, Contents, Current
<1>6. ASSUME NEW r \in Requests, NEW target \in Targets, Retrigger(r, target)
      PROVE  Contents'
  <2>1. \A s \in Requests : sending'[s] \subseteq sending[s] \union rows
    BY <1>6, Selection DEF Retrigger, ShapeInv
  <2>2. rows' \subseteq rows /\ UNCHANGED <<queue, intended>>
    BY <1>6 DEF Retrigger
  <2>3. QED
    BY <2>1, <2>2 DEF Contents, Current
<1>7. ASSUME NEW r \in Requests, NEW target \in Targets, RetriggerReplyLost(r, target)
      PROVE  Contents'
  BY <1>7 DEF RetriggerReplyLost, Calm
<1>8. ASSUME NEW r \in Requests, NEW x \in sending[r], Send(r, x)
      PROVE  Contents'
  <2> DEFINE new == Message(nextId, x.job, Doc(KwargsOf(x)), 0)
  <2>1. queue' = queue \union {new} /\ UNCHANGED <<rows, intended>>
    BY <1>8, OneMessage DEF Send
  <2>2. new.job = x.job /\ new.kwargs = Doc(KwargsOf(x))
    BY DEF Message
  <2>3. Doc(KwargsOf(x)) = intended[x.job]
    BY <1>8 DEF Send, Contents, Current
  <2>4. \A s \in Requests : sending'[s] \subseteq sending[s]
    BY <1>8 DEF Send, ShapeInv
  <2> HIDE DEF new
  <2>5. QED
    BY <2>1, <2>2, <2>3, <2>4 DEF Contents, Current
<1>9. ASSUME NEW r \in Requests, NEW x \in sending[r], SendRefused(r, x)
      PROVE  Contents'
  <2>1. UNCHANGED <<queue, rows, intended>>
    BY <1>9 DEF SendRefused
  <2>2. \A s \in Requests : sending'[s] \subseteq sending[s]
    BY <1>9 DEF SendRefused, ShapeInv
  <2>3. QED
    BY <2>1, <2>2 DEF Contents, Current
<1>10. ASSUME NEW r \in Requests, NEW x \in sending[r], SendFails(r, x)
      PROVE  Contents'
  BY <1>10 DEF SendFails, Calm
<1>11. ASSUME NEW r \in Requests, ApiCrash(r)
      PROVE  Contents'
  <2>1. UNCHANGED <<queue, rows, intended>>
    BY <1>11 DEF ApiCrash
  <2>2. \A s \in Requests : sending'[s] \subseteq sending[s]
    BY <1>11 DEF ApiCrash, ShapeInv
  <2>3. QED
    BY <2>1, <2>2 DEF Contents, Current
<1>12. ASSUME NEW target \in Targets, NEW kw \in Docs, Overwrite(target, kw)
      PROVE  Contents'
  <2>1. Selected(target) \subseteq rows
    BY Selection
  <2>2. JobsOf(Selected(target)) \subseteq Jobs
    BY <2>1 DEF JobsOf, ShapeInv, DeadRows
  <2>3. \A i \in Jobs \ JobsOf(Selected(target)) : intended'[i] = intended[i]
    BY <1>12 DEF Overwrite
  <2>4. \A i \in JobsOf(Selected(target)) : intended'[i] = kw
    BY <1>12, <2>2 DEF Overwrite
  <2>5. \A y \in rows' :
           \/ y \in rows /\ y \notin Selected(target)
           \/ y.job \in JobsOf(Selected(target)) /\ y.kwargs = Written(Object(kw))
    BY <1>12, OverwriteRows DEF EditedRows, JobsOf
  <2>6. ASSUME NEW y \in rows'
        PROVE  Current(y)'
    <3>1. CASE y \in rows /\ y \notin Selected(target)
      <4>1. y.job \in Jobs \ JobsOf(Selected(target))
        BY <2>1, <3>1 DEF PlacesInv, JobsOf, ShapeInv, DeadRows
      <4>2. QED
        BY <2>3, <3>1, <4>1 DEF Contents, Current
    <3>2. CASE y.job \in JobsOf(Selected(target)) /\ y.kwargs = Written(Object(kw))
      BY <2>4, <3>2, StringColumn DEF Current, KwargsOf
    <3>3. QED
      BY <2>5, <3>1, <3>2
  <2>7. \A n \in queue : n.job \in Jobs \ JobsOf(Selected(target))
    BY <2>1 DEF PlacesInv, JobsOf, ShapeInv, Messages
  <2>8. \A s \in Requests : \A x \in sending[s] : x.job \in Jobs \ JobsOf(Selected(target))
    BY <2>1 DEF PlacesInv, JobsOf, ShapeInv, DeadRows
  <2>9. UNCHANGED <<queue, sending>>
    BY <1>12 DEF Overwrite
  <2>10. QED
    BY <2>3, <2>6, <2>7, <2>8, <2>9 DEF Contents, Current
<1>13. ASSUME NEW target \in Targets, NEW kw \in Docs, Merge(target, kw)
      PROVE  Contents'
  <2>1. Selected(target) \subseteq rows
    BY Selection
  <2>2. JobsOf(Selected(target)) \subseteq Jobs
    BY <2>1 DEF JobsOf, ShapeInv, DeadRows
  <2>3. \A i \in Jobs \ JobsOf(Selected(target)) : intended'[i] = intended[i]
    BY <1>13 DEF Merge
  <2>4. UNCHANGED <<queue, sending>>
    BY <1>13 DEF Merge
  <2>5. \A y \in rows' : \/ y \in rows /\ y \notin Selected(target)
                         \/ y.kwargs \in Arrays
    <3>1. \A x \in Selected(target) : Concat(x.kwargs, Written(Object(kw))) \in Arrays
      BY <2>1, MergedColumn DEF ShapeInv, DeadRows
    <3>2. QED
      BY <1>13, <3>1, MergeRows DEF EditedRows
  <2>6. ASSUME NEW y \in rows'
        PROVE  Current(y)'
    <3>1. CASE y \in rows /\ y \notin Selected(target)
      <4>1. y.job \in Jobs \ JobsOf(Selected(target))
        BY <2>1, <3>1 DEF PlacesInv, JobsOf, ShapeInv, DeadRows
      <4>2. QED
        BY <2>3, <3>1, <4>1 DEF Contents, Current
    <3>2. CASE y.kwargs \in Arrays
      BY <3>2, ArrayColumn DEF Current, KwargsOf
    <3>3. QED
      BY <2>5, <3>1, <3>2
  <2>7. \A n \in queue : n.job \in Jobs \ JobsOf(Selected(target))
    BY <2>1 DEF PlacesInv, JobsOf, ShapeInv, Messages
  <2>8. \A s \in Requests : \A x \in sending[s] : x.job \in Jobs \ JobsOf(Selected(target))
    BY <2>1 DEF PlacesInv, JobsOf, ShapeInv, DeadRows
  <2>9. QED
    BY <2>3, <2>4, <2>6, <2>7, <2>8 DEF Contents, Current
<1>14. ASSUME NEW target \in Targets, DeleteTasks(target)
      PROVE  Contents'
  <2>1. rows' \subseteq rows /\ UNCHANGED <<queue, sending, intended>>
    BY <1>14 DEF DeleteTasks
  <2>2. QED
    BY <2>1 DEF Contents, Current
<1>15. ASSUME NEW x \in rows, Purge(x.id + 1)
      PROVE  Contents'
  <2>1. rows' \subseteq rows /\ UNCHANGED <<queue, sending, intended>>
    BY <1>15 DEF Purge
  <2>2. QED
    BY <2>1 DEF Contents, Current
<1>16. CASE UNCHANGED vars
  BY <1>16 DEF vars, Contents, Current
<1>17. QED
  BY <1>1, <1>2, <1>3, <1>4, <1>5, <1>6, <1>7, <1>8, <1>9, <1>10, <1>11,
     <1>12, <1>13, <1>14, <1>15, <1>16 DEF Next, WorkerStep, RequestStep

-----------------------------------------------------------------------------
\* The jobs can be numbered, so the first ids are different and in use.
LEMMA Numbered ==
    /\ Cardinality(Jobs) \in Nat
    /\ FirstId \in [Jobs -> 0..(Cardinality(Jobs) - 1)]
<1> DEFINE N == Cardinality(Jobs)
<1>1. N \in Nat /\ ExistsBijection(1..N, Jobs)
  BY DeadLetterConstants, FS_CardinalityType
<1>2. PICK g : g \in Bijection(Jobs, 1..N)
  BY <1>1, Fun_ExistsBijSymmetric, Fun_ExistsBij
<1>3. /\ g \in [Jobs -> 1..N]
      /\ \A i, j \in Jobs : g[i] = g[j] => i = j
  BY <1>2 DEF Bijection, Injection, IsInjective
<1> DEFINE id == [j \in Jobs |-> g[j] - 1]
<1> HIDE DEF N
<1>4. /\ id \in [Jobs -> 0..(N - 1)]
      /\ \A i, j \in Jobs : id[i] = id[j] => i = j
  BY <1>1, <1>3
<1> HIDE DEF id
<1>5. QED
  BY <1>1, <1>4 DEF FirstId, N

\* At the start each job has its message.
LEMMA Start ==
    ASSUME Init
    PROVE  IInv
<1> DEFINE empty == [f \in {} |-> f]
<1>1. empty \in Docs
  BY Documents
<1> HIDE DEF empty
<1>2. intended = [j \in Jobs |-> empty]
  BY DEF Init, empty
<1>3. queue = {Message(FirstId[j], j, empty, 0) : j \in Jobs}
  BY <1>2 DEF Init
<1>4. \A j \in Jobs : FirstId[j] \in Ids
  BY Numbered DEF Init, Ids
<1>5. queue \subseteq Messages
  BY <1>1, <1>3, <1>4, DeadLetterConstants DEF Message, Messages
<1>6. \A m \in queue : /\ m = Message(FirstId[m.job], m.job, empty, 0)
                       /\ m.job \in Jobs /\ m.kwargs = empty
  BY <1>3 DEF Message
<1>7. ASSUME NEW j \in Jobs
      PROVE  \E m \in queue : m.job = j
  <2>1. Message(FirstId[j], j, empty, 0) \in queue
    BY <1>3
  <2>2. Message(FirstId[j], j, empty, 0).job = j
    BY DEF Message
  <2>3. QED
    BY <2>1, <2>2
<1>8. ShapeInv
  BY <1>1, <1>2, <1>5, Numbered, DeadLetterConstants DEF Init, ShapeInv, Requests
<1>9. PlacesInv
  BY <1>6 DEF Init, PlacesInv
<1>10. \A j \in Jobs : Somewhere(j)
  BY <1>7 DEF Somewhere
<1>11. Contents
  BY <1>2, <1>6 DEF Init, Contents
<1>12. QED
  BY <1>8, <1>9, <1>10, <1>11 DEF IInv, OneCopyInv, KeptInv, EditsInv

\* The invariant is inductive.
THEOREM Invariance == Spec => []IInv
<1>1. Init => IInv
  BY Start
<1>2. IInv /\ [Next]_vars => IInv'
  <2> SUFFICES ASSUME IInv, [Next]_vars
               PROVE  IInv'
    OBVIOUS
  <2>1. ShapeInv'
    BY ShapeStep DEF IInv
  <2>2. mishaps \subseteq mishaps'
    BY MishapsStay
  <2>3. OneCopyInv'
    <3>1. Calm' => PlacesInv
      BY <2>2 DEF IInv, OneCopyInv, Calm
    <3>2. QED
      BY <3>1, PlacesStep DEF IInv, OneCopyInv
  <2>4. KeptInv'
    <3>1. ASSUME mishaps' = {}, NEW j \in Jobs
          PROVE  Somewhere(j)'
      <4>1. Somewhere(j)
        BY <2>2, <3>1 DEF IInv, KeptInv
      <4>2. QED
        BY <3>1, <4>1, KeptStep DEF IInv
    <3>2. QED
      BY <3>1 DEF KeptInv
  <2>5. EditsInv'
    <3>1. Calm' => PlacesInv /\ Contents
      BY <2>2 DEF IInv, OneCopyInv, EditsInv, Calm
    <3>2. QED
      BY <3>1, ContentsStep DEF IInv, EditsInv
  <2>6. QED
    BY <2>1, <2>3, <2>4, <2>5 DEF IInv
<1>3. QED
  BY <1>1, <1>2, PTL DEF Spec

\* Every variable keeps its shape, whatever is edited, repeated or lost.
THEOREM TypeCorrect == Spec => []TypeOK
<1>1. IInv => TypeOK
  BY Types DEF IInv
<1>2. QED
  BY <1>1, Invariance, PTL

\* What may still run a job, by place.
LEMMA CopiesByPlace ==
    ASSUME NEW j, NEW x
    PROVE  x \in Copies(j) <=> /\ x.job = j
                               /\ \/ x \in queue
                                  \/ x \in rows
                                  \/ \E r \in Requests : x \in sending[r]
  BY DEF Copies

\* fetch_and_delete_tasks: no overlap of requests, deletes and purges copies a
\* job or brings a finished one back, for any number of jobs and requests.
THEOREM NeverCopied == Spec => []AtMostOneCopy
<1>1. IInv => AtMostOneCopy
  <2> SUFFICES ASSUME PlacesInv, NEW j \in Jobs
               PROVE  /\ Cardinality(Copies(j)) <= 1
                      /\ j \in finished \union discarded => Copies(j) = {}
    BY DEF IInv, OneCopyInv, Calm, AtMostOneCopy
  <2>1. \A x, y \in Copies(j) : x = y
    BY CopiesByPlace DEF PlacesInv
  <2>2. Copies(j) = {} \/ \E x : Copies(j) = {x}
    BY <2>1
  <2>3. Cardinality(Copies(j)) <= 1
    BY <2>2, FS_EmptySet, FS_Singleton, SMTT(30)
  <2>4. ASSUME j \in finished \union discarded
        PROVE  Copies(j) = {}
    BY <2>4, CopiesByPlace DEF PlacesInv
  <2>5. QED
    BY <2>3, <2>4
<1>2. QED
  BY <1>1, Invariance, PTL

\* handle_task_failure, retrigger_tasks, delete_tasks and the purge together
\* lose no job as long as nothing breaks.
THEOREM NeverLost == Spec => []NothingLost
<1>1. IInv => NothingLost
  BY CopiesByPlace DEF IInv, KeptInv, NothingLost, Somewhere
<1>2. QED
  BY <1>1, Invariance, PTL

\* update_task_payload: an edit that was counted is what a worker is given,
\* for any documents and whatever happens to the row at the same time.
THEOREM EditsArrive == Spec => []EditsReachTheJob
<1>1. IInv => EditsReachTheJob
  BY DEF IInv, EditsInv, Contents, Current, Calm, EditsReachTheJob, Held
<1>2. QED
  BY <1>1, Invariance, PTL

=============================================================================
