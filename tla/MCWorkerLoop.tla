---------------------------- MODULE MCWorkerLoop ----------------------------
(* Instances of WorkerLoop for TLC. *)
EXTENDS WorkerLoop, TLC

\* Sound for safety: the module never orders or names these values.
Symmetry == Permutations(Deliveries) \cup Permutations(Requests)
              \cup Permutations(Comments)

Plan == {made[p] : p \in {x \in Commands : made[x] # None}}

\* Either the issue stays silent, and confirmations of one plan compete while the
\* head it names moves; or one confirmation of a plan that names no head is made,
\* before anything was said on the issue, and then markers come and go, while one
\* job does nothing but synchronise and the other everything else.
Silent == /\ edited = {} /\ github.body = Blank.body
          /\ \A m \in Plan : m.snap.head # None
Single == /\ Cardinality({d \in Deliveries : right[d] # "absent"}) <= 1
          /\ github.head = None /\ stored.head = None
          /\ \A j \in Jobs : job[j].snap.head = None
          /\ \A m \in Plan : m.snap = Blank
          /\ \A j \in Syncers : job[j].kind \in {"", "sync"}
Apart == Silent \/ Single
=============================================================================
