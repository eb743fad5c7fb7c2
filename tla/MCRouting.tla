------------------------------ MODULE MCRouting ------------------------------
(* Routing with interchangeable commits. *)
EXTENDS Routing, TLC

Symmetry == Permutations(Heads)

\* A result that is neither blocked nor QA's nor an answer to another one counts
\* only while it is the latest: what follows such a result is like what would
\* have come in its place, and is not explored again.
Telling(r) == r.status = "blocked" \/ r.role = "qa" \/ r.resolves # {}

\* Whether the pull request can be merged counts only when Lead asks for it, and a
\* closed unit is reopened as it was: both are explored where they come first.
\* The mode without QA differs in one route, by the latest result alone.
Asks(r) == r.decision = "ready_to_merge"
Tales == /\ \A i \in 1..(Len(comments) - 1) : Telling(comments[i])
         /\ mergeable => comments # << >> /\ Asks(comments[Len(comments)])
         /\ terminal => Len(comments) <= 1
         /\ ~qaRequired => Len(comments) <= 2
=============================================================================
