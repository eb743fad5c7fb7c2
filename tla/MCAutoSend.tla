------------------------------ MODULE MCAutoSend ------------------------------
(* AutoSend with planning explored in full beside a page that rests. *)
EXTENDS AutoSend, TLC

Symmetry == Permutations(Keys) \cup Permutations(Callers)

\* While the page is at work, at most one call of planning is about to save what it
\* decided, and one status stands for those that mean the same to the page.  The
\* lane is bound anew or gets a new presence once, and two commands with a
\* request beside them are enough.
Plain(status) == status \in {"approved", "rejected"}
Apart ==
  \/ /\ \A c \in Callers :
          \/ calls[c].pc = "idle"
          \/ calls[c].pc = "saves" /\ calls[c].mode = "opencode" /\ calls[c].attempt = 0
             /\ Plain(calls[c].answer.status)
     /\ Cardinality({c \in Callers : calls[c].pc = "saves"}) <= 1
     /\ seat.version + seat.token <= 3
     /\ Cardinality(queue) <= 2 /\ Cardinality(queue \cup wire) <= 3
     /\ \A i \in DOMAIN audit : Plain(audit[i].status)
  \/ page = AtRest /\ wire = {} /\ queue = {} /\ record = None /\ ~auto
     /\ seat = [version |-> 1, token |-> 1]
===============================================================================
