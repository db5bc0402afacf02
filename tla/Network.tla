------------------------------ MODULE Network ------------------------------
(***************************************************************************)
(* The Qubic network as the archiver sees it (external: the archiver only   *)
(* reads it, through a pooled node connection).                            *)
(*                                                                         *)
(* The network produces ticks in segments.  A segment is a maximal run of  *)
(* consecutive ticks that start at one InitialTick, the value a node       *)
(* reports in GetTickInfo.  An epoch has one segment, or several when the  *)
(* network was restarted inside the epoch with a higher initial tick.      *)
(* A tick's votes, tick data and transactions are fixed by consensus, so a *)
(* tick number stands for its content.                                     *)
(***************************************************************************)
EXTENDS Integers, FiniteSets

CONSTANTS
  Segments,        \* records [epoch, initial, final]
  EmptyTicks,      \* ticks whose votes carry the zero TxDigest
  Identities,      \* wallet identities that send or receive transfers
  TransferIds,     \* [Ticks -> SUBSET Identities]: parties of its transfers
  NodeMayAdvance   \* may a node enter a later epoch between two requests?

Ticks == UNION {s.initial .. s.final : s \in Segments}

Epochs == {s.epoch : s \in Segments}

\* Ticks that a later segment follows never overlap it, and epochs only grow.
Precedes(s, r) == s.final < r.initial /\ s.epoch <= r.epoch

ASSUME SegmentsAssumption ==
  /\ Segments \subseteq [epoch : Nat \ {0}, initial : Nat \ {0}, final : Nat \ {0}]
  /\ \A s \in Segments : s.initial <= s.final
  /\ \A s, r \in Segments : s = r \/ Precedes(s, r) \/ Precedes(r, s)

ASSUME ContentAssumption ==
  /\ EmptyTicks \subseteq Ticks /\ IsFiniteSet(EmptyTicks)
  /\ TransferIds \in [Ticks -> SUBSET Identities]
  /\ NodeMayAdvance \in BOOLEAN

SegmentOf(t) == CHOOSE s \in Segments : t \in s.initial .. s.final

\* The epoch the votes of tick t carry.
EpochOf(t) == SegmentOf(t).epoch

\* Epochs in which the contacted node may answer GetComputors or
\* GetSystemInfo, after it has answered GetQuorumVotes for a tick of epoch e.
NodeEpochs(e) == {x \in Epochs : x = e \/ (NodeMayAdvance /\ x > e)}
=============================================================================
