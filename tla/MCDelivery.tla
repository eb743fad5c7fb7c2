----------------------------- MODULE MCDelivery -----------------------------
(* Instances of Delivery for TLC. *)
EXTENDS Delivery, TLC

\* Sound for safety: the module never orders or names these values.
Symmetry == Permutations(Ids) \cup Permutations(Requests) \cup Permutations(Handlers)
              \cup Permutations(Sessions) \cup Permutations(Contexts)
              \cup Permutations(Keys)
=============================================================================
