--------------------------- MODULE MCVoteRecords ---------------------------
(* Lists of three keys, before and after the change of the digest width.   *)
EXTENDS VoteRecords

\* As in the network: the keys come first.
MCKeyLists == {<<11, 12, 13>>, <<14, 15, 0>>}

\* What the theorems assume of the network's lists.
ASSUME \A keys \in MCKeyLists : KeysFirst(keys)

\* A zero key between others.
MCKeyListsWithGap == MCKeyLists \cup {<<16, 0, 17>>}

MCDissenters == {{}, {2}}
=============================================================================
