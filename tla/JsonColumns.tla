---------------------------- MODULE JsonColumns ----------------------------
(***************************************************************************)
(* What a jsonb column holds and what its reader sees.  The DAOs pass      *)
(* json.dumps(value), and the connections of the pools have a jsonb codec  *)
(* that applies json.dumps again (DataBase.create_pool): the column gets a *)
(* JSON string whose text is the serialized value.                         *)
(*                                                                         *)
(* JSON values, and Python values: a str that holds serialized JSON is a   *)
(* String of that JSON.  A value is a kind and the sequence of its parts.  *)
(***************************************************************************)
EXTENDS Sequences

Object(doc)  == [kind |-> "object", parts |-> <<doc>>]
String(json) == [kind |-> "string", parts |-> <<json>>]
Array(items) == [kind |-> "array", parts |-> items]

\* The document of an object.
Doc(object) == Head(object.parts)

Dumps(value) == String(value)

Loads(str) == Head(str.parts)

\* The column after a statement with a jsonb parameter: the codec serializes
\* the Python value, and PostgreSQL parses that text.
Stored(python) == Loads(Dumps(python))

\* What a DAO stores for a value.
Written(value) == Stored(Dumps(value))

\* What a pool's connection returns for a column: its text, decoded.
PoolRead(column) == Loads(Dumps(column))

\* DLQTaskResponse.__getattribute__ parses a string when it is accessed.
DeadLetterRead(column) ==
    LET value == PoolRead(column)
    IN  IF value.kind = "string" THEN Loads(value) ELSE value

\* The fields of two documents, those of the second one first.
Override(old, new) ==
    [f \in DOMAIN old \union DOMAIN new |-> IF f \in DOMAIN new THEN new[f] ELSE old[f]]

ItemsOf(json) == IF json.kind = "array" THEN json.parts ELSE <<json>>

\* PostgreSQL's jsonb || jsonb.
Concat(a, b) ==
    IF a.kind = "object" /\ b.kind = "object" THEN Object(Override(Doc(a), Doc(b)))
    ELSE Array(ItemsOf(a) \o ItemsOf(b))

=============================================================================
