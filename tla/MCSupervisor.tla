---------------------------- MODULE MCSupervisor ----------------------------
(* Instances of Supervisor for TLC. *)
EXTENDS Supervisor

First == CHOOSE r \in Repos : TRUE
Plain == \A i \in Ids : project[i] # None =>
           project[i].polling /\ (made = 1 => project[i].repo = First)

\* Either one repository moves and one project follows it, or projects come and
\* go while repositories rest and the server lives; two of them are left to the
\* poller.
Follows == made <= 1 /\ \A r \in Repos \ {First} : github[r].head = 0
Changes == /\ news = 0 /\ up
           /\ \/ \E i \in Ids : project[i] = None
              \/ \A j \in Callers : job[j].pc = "idle"
Apart == Plain /\ (Follows \/ Changes)
=============================================================================
