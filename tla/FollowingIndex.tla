--------------------------- MODULE FollowingIndex ---------------------------
(***************************************************************************)
(* What an undisturbed drain makes of the vector index                     *)
(* (knowledge/outbox_worker.py): a copy of the ledger that may lag behind  *)
(* but follows it.  For each claim it moves from what the ledger said      *)
(* earlier to what it said later, skipping what is outdated, and never     *)
(* back.                                                                   *)
(***************************************************************************)
EXTENDS Integers, Sequences, FiniteSets

CONSTANT Claims

VARIABLES
  said,     \* what the ledger has said, in order: [claim, version], 0 for "remove"
  reached,  \* the position in it up to which the index knows a claim, 0 for none
  index     \* the version the index holds of a claim, 0 for none

Init ==
  /\ said = <<>>
  /\ reached = [c \in Claims |-> 0]
  /\ index = [c \in Claims |-> 0]

\* A version is at most the number of times the ledger has spoken of the claim,
\* this time included; one that an import has torn may be given a version twice.
Mentions(c) == Cardinality({n \in DOMAIN said : said[n].claim = c})

Serve(c, version) ==
  /\ said' = Append(said, [claim |-> c, version |-> version])
  /\ UNCHANGED <<reached, index>>

Remove(c) ==
  /\ said' = Append(said, [claim |-> c, version |-> 0])
  /\ UNCHANGED <<reached, index>>

\* The index catches up with some claims, not necessarily to their last word.
Follow ==
  /\ reached' \in [Claims -> 0..Len(said)]
  /\ \A c \in Claims :
       reached'[c] # reached[c] => reached'[c] > reached[c] /\ said[reached'[c]].claim = c
  /\ index' = [c \in Claims |-> IF reached'[c] = reached[c] THEN index[c]
                                 ELSE said[reached'[c]].version]
  /\ UNCHANGED said

Next ==
  \/ \E c \in Claims : Remove(c) \/ \E version \in 1..(Mentions(c) + 1) : Serve(c, version)
  \/ Follow

Spec == Init /\ [][Next]_<<said, reached, index>>
=============================================================================
