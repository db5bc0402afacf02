--------------------------- MODULE ArchiverLedger ---------------------------
(***************************************************************************)
(* The archiver implements the ledger of module TickLedger.  The ledger    *)
(* sees of the store only the last processed tick, which ticks are         *)
(* complete, and the two interval lists of /status.                        *)
(***************************************************************************)
EXTENDS Archiver

ArchivedTicks == {t \in Ticks : Complete(t)}
SkippedTickNumbers == {t \in Ticks : InSkippedTicks(t)}
ClaimedTicks == {t \in Ticks : \E p \in Positions : InInterval(t, IntervalAt(p))}

Ledger == INSTANCE TickLedger WITH
  LedgerTicks <- Ticks,
  Starts      <- {s.initial : s \in Segments},
  head        <- lastProcessedTick.tickNumber,
  archive     <- ArchivedTicks,
  skipped     <- SkippedTickNumbers,
  claimed     <- ClaimedTicks

\* Every step of the archiver, crashes and failed writes included, is a step
\* of the ledger or leaves it alone: the many writes of an attempt (ValidateTick
\* and processStatus) look like one tick archived, one announcement, one move
\* of the head and one claim, in that order, however often they are interrupted.
ImplementsLedger == Ledger!LedgerSpec
=============================================================================
