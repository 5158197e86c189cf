--------------------------- MODULE StoreAndForward ---------------------------
(***************************************************************************)
(* What the TCP send queue promises its users, whatever is in RAM and what *)
(* in flash: one sequence of rows, oldest first.  New rows go to its end,  *)
(* the consumer takes rows from its front, and may borrow the newest one.  *)
(* Only a queue longer than Keep may shed rows; it sheds the oldest and    *)
(* keeps the newest Keep.  Only while the system is down may the sequence  *)
(* be replaced by what flash remembers.                                    *)
(***************************************************************************)
EXTENDS Naturals, Sequences

CONSTANT Keep   \* the rows that are never shed: a positive number

VARIABLES
  items,     \* the rows queued
  accepted,  \* rows accepted so far; they are numbered 1..accepted
  held,      \* the borrowed row, 0 if none
  up         \* the queue is in service

absVars == <<items, accepted, held, up>>

Newest(n) == SubSeq(items, Len(items) - n + 1, Len(items))

Init == items = <<>> /\ accepted = 0 /\ held = 0 /\ up = FALSE

\* Room is made before a row is added, if at all.
Added(r) == \/ items' = Append(items, r)
            \/ Len(items) > Keep /\ items' = Append(Newest(Keep), r)

Accept == /\ up /\ Added(accepted + 1)
          /\ accepted' = accepted + 1
          /\ UNCHANGED <<held, up>>

\* The row is refused; rows may be shed all the same.
Refuse == /\ up /\ Len(items) > Keep /\ items' = Newest(Keep)
          /\ UNCHANGED <<accepted, held, up>>

\* n rows leave at the front, and the borrowed row for good.
Deliver == \E n \in 0..Len(items) :
             /\ up /\ items' = SubSeq(items, n + 1, Len(items))
             /\ held' = 0
             /\ UNCHANGED <<accepted, up>>

Borrow == /\ up /\ items # <<>>
          /\ held' = items[Len(items)]
          /\ items' = SubSeq(items, 1, Len(items) - 1)
          /\ UNCHANGED <<accepted, up>>

\* The borrowed row goes to the end again; it may be refused like any other.
GiveBack == /\ up /\ held' = 0
            /\ Added(held) \/ UNCHANGED items
                \/ (Len(items) > Keep /\ items' = Newest(Keep))
            /\ UNCHANGED <<accepted, up>>

Down == /\ up' = FALSE /\ held' = 0 /\ UNCHANGED accepted
        /\ items' \in Seq(1..accepted)

Reload == /\ ~up /\ items' \in Seq(1..accepted)
          /\ up' \in BOOLEAN
          /\ UNCHANGED <<accepted, held>>

Next == Accept \/ Refuse \/ Deliver \/ Borrow \/ GiveBack \/ Down \/ Reload

Spec == Init /\ [][Next]_absVars
=============================================================================
