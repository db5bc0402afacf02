--------------------------- MODULE MCTickContent ---------------------------
(* A tick with a transfer, a zero-amount transaction, a send-many that does *)
(* not cover its payload and a transfer to oneself, and a foreign one.      *)
EXTENDS TickContent

MCPlain == [kind |-> "none", size |-> 0, total |-> 0]
MCTx(id, source, dest, amount, payload, signed) ==
  [id |-> id, source |-> source, dest |-> dest, amount |-> amount,
   payload |-> payload, signed |-> signed]

MCTxs == {MCTx(1, "a", "b", 5, MCPlain, TRUE),
          MCTx(2, "b", "a", 0, MCPlain, TRUE),
          MCTx(3, "a", "qutil", 4, [kind |-> "sendMany", size |-> 1000, total |-> 6], TRUE),
          MCTx(4, "b", "b", 2, MCPlain, TRUE),
          MCTx(5, "a", "b", 1, MCPlain, TRUE)}

MCVotedSlots == <<3, 0, 1, 4, 2>>
MCFlew       == {1, 3, 4, 5}

\* Some orders of the transactions, an omission, a repetition, a foreign one.
MCTxReplies ==
  {<<1, 2, 3, 4>>, <<4, 3, 2, 1>>, <<3, 1, 4, 2>>, <<1, 2, 3>>, <<1, 2, 3, 3>>,
   <<1, 2, 3, 4, 4>>, <<1, 2, 3, 4, 5>>, <<>>}

\* Nodes list all transactions of the tick, with a foreign one among them.
MCStatusLists == {<<1, 2, 3, 4>>, <<4, 5, 3, 2, 1>>}

\* What the theorems assume of the network holds of this one.
ASSUME DistinctSlots /\ \A list \in MCStatusLists : CompleteList(list)

\* A node without the statuses of the tick answers without digests.
MCStatusListsOrNone == MCStatusLists \cup {<<>>}
=============================================================================
