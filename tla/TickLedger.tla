----------------------------- MODULE TickLedger -----------------------------
(***************************************************************************)
(* What the archiver promises, without how it does it: a ledger of ticks   *)
(* with a head.  A tick enters the archive above the head and never leaves *)
(* it; the head moves onto an archived tick, one tick on or to the start   *)
(* of a later range of ticks, and what it passes over has been announced   *)
(* as skipped; what the ledger claims to hold is in the archive.           *)
(***************************************************************************)
EXTENDS Naturals

CONSTANTS
  LedgerTicks,   \* the ticks of the network
  Starts         \* the ticks at which the network starts a range of ticks

VARIABLES
  head,      \* the last tick processed, 0 before the first
  archive,   \* the ticks that are archived
  skipped,   \* the ticks announced as skipped
  claimed    \* the ticks the archiver says it holds

ledgerVars == <<head, archive, skipped, claimed>>

LedgerInit ==
  /\ head = 0
  /\ archive = {}
  /\ skipped = {}
  /\ claimed = {}

\* A tick above the head is archived.
ArchiveTick(t) ==
  /\ t > head
  /\ archive' = archive \cup {t}
  /\ UNCHANGED <<head, skipped, claimed>>

\* Ticks are announced as skipped; no announcement is taken back.
Announce ==
  /\ skipped \subseteq skipped'
  /\ skipped' \subseteq LedgerTicks
  /\ UNCHANGED <<head, archive, claimed>>

\* The head moves onto t.
Advance(t) ==
  /\ t \in archive
  /\ t > head
  /\ t = head + 1 \/ t \in Starts
  /\ {n \in LedgerTicks : head < n /\ n < t} \subseteq skipped
  /\ head' = t
  /\ UNCHANGED <<archive, skipped, claimed>>

\* The archiver claims other ticks, all of them archived.
Claim ==
  /\ claimed' \subseteq archive
  /\ UNCHANGED <<head, archive, skipped>>

LedgerNext ==
  \/ \E t \in LedgerTicks : ArchiveTick(t) \/ Advance(t)
  \/ Announce
  \/ Claim

LedgerSpec == LedgerInit /\ [][LedgerNext]_ledgerVars
=============================================================================
