----------------------------- MODULE MCBindings -----------------------------
(***************************************************************************)
(* Instances of Bindings for TLC.  Sessions, targets, lanes and requests   *)
(* are alike.                                                              *)
(***************************************************************************)
EXTENDS Bindings, TLC
Symmetry == Permutations(Sessions) \union Permutations(Targets)
              \union Permutations(Lanes) \union Permutations(Requests)

\* Presence matters to requests and rows only through the check of a Put: it
\* is explored in full without them, and with them as one session or none.
NoBook == /\ \A r \in Requests : req[r] = Idle
          /\ \A l \in Lanes : row[l] = NoRow
Calm == /\ \A s, t \in DOMAIN session : s = t /\ session[s].seen = 0
        /\ \A s \in Sessions : beat[s] # None => s \in DOMAIN session /\ beat[s].age = 0
                                               /\ beat[s].target = session[s].target
        /\ \A s, t \in Sessions : s # t => heard[s] = Far \/ heard[t] = Far
        /\ \A s \in Sessions : heard[s] = 0 => s \in DOMAIN session
Apart == NoBook \/ Calm
=============================================================================
