------------------------------ MODULE Mailbox ------------------------------
(***************************************************************************)
(* What the consumer group of the event bus promises: an entry is handed   *)
(* to at most one consumer and at most once.  A consumer gets a batch when *)
(* it holds nothing, settles the entries of the batch one by one, and may  *)
(* lose what it holds; entries may be lost before anybody gets them.  What *)
(* is lost or settled never comes back.                                    *)
(***************************************************************************)
EXTENDS Naturals, Sequences

CONSTANT Consumers

VARIABLE box   \* the state of every entry: waiting, lost, settled or a consumer

In(state) == {i \in DOMAIN box : box[i] = state}

MailboxInit == box = << >>

\* A new entry; old ones may be dropped to make room for it.
Put ==
    \E dropped \in SUBSET In("waiting") :
        box' = [i \in 1..(Len(box) + 1) |->
                   IF i > Len(box) THEN "waiting" ELSE IF i \in dropped THEN "lost" ELSE box[i]]

Hand(c) ==
    /\ In(c) = {}
    /\ \E batch \in (SUBSET In("waiting")) \ {{}} :
          box' = [i \in DOMAIN box |-> IF i \in batch THEN c ELSE box[i]]

\* One entry is settled; the others of the consumer stay or are lost with it.
Settle(c) ==
    \E i \in In(c) : \E dropped \in {{}, In(c) \ {i}} :
        box' = [k \in DOMAIN box |-> IF k = i THEN "settled"
                                     ELSE IF k \in dropped THEN "lost" ELSE box[k]]

\* A consumer loses all it holds, or waiting entries are lost.
Lose(state) ==
    \E dropped \in (SUBSET In(state)) \ {{}} :
        /\ state = "waiting" \/ dropped = In(state)
        /\ box' = [i \in DOMAIN box |-> IF i \in dropped THEN "lost" ELSE box[i]]

MailboxNext ==
    \/ Put
    \/ \E c \in Consumers : Hand(c) \/ Settle(c) \/ Lose(c)
    \/ Lose("waiting")

MailboxSpec == MailboxInit /\ [][MailboxNext]_box

=============================================================================
