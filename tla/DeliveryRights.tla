--------------------------- MODULE DeliveryRights ---------------------------
(***************************************************************************)
(* What the delivery queue promises: a command is a right to send one      *)
(* prompt once.  The right is offered, granted to at most one claim        *)
(* request for ever, and then settled; nothing settled ever moves again.   *)
(* Statuses are those of backend/internal/delivery/types.go.               *)
(***************************************************************************)
CONSTANTS Commands,   \* identities of delivery commands
          Requests,   \* identities of claim requests of the worker
          None        \* "no claim request yet"

VARIABLES right,      \* right[c]: where the command is in its life
          holder      \* holder[c]: the request the right was granted to

rightsVars == <<right, holder>>

Outcomes  == {"delivered", "failed", "uncertain"}
Withdrawn == {"cancelled", "expired", "invalidated"}
Settled   == Outcomes \cup Withdrawn
Statuses  == {"absent", "pending", "claimed"} \cup Settled

RightsTypeOK == /\ right \in [Commands -> Statuses]
                /\ holder \in [Commands -> Requests \cup {None}]

RightsInit == /\ right = [c \in Commands |-> "absent"]
              /\ holder = [c \in Commands |-> None]

Offer(c) == /\ right[c] = "absent"
            /\ right' = [right EXCEPT ![c] = "pending"]
            /\ UNCHANGED holder

\* The right goes to a request that holds no other one.
Grant(c, q) == /\ right[c] = "pending"
               /\ \A d \in Commands : holder[d] # q
               /\ right' = [right EXCEPT ![c] = "claimed"]
               /\ holder' = [holder EXCEPT ![c] = q]

Settle(c, o) == /\ right[c] = "claimed"
                /\ right' = [right EXCEPT ![c] = o]
                /\ UNCHANGED holder

Withdraw(c, w) == /\ right[c] = "pending"
                  /\ right' = [right EXCEPT ![c] = w]
                  /\ UNCHANGED holder

\* Time settles any set of offered and granted rights at once.
Lapse(S) == /\ \A c \in S : right[c] \in {"pending", "claimed"}
            /\ right' = [c \in Commands |->
                           IF c \notin S THEN right[c]
                           ELSE IF right[c] = "pending" THEN "expired"
                           ELSE "uncertain"]
            /\ UNCHANGED holder

RightsNext == \/ \E c \in Commands : Offer(c)
              \/ \E c \in Commands, q \in Requests : Grant(c, q)
              \/ \E c \in Commands, o \in Outcomes : Settle(c, o)
              \/ \E c \in Commands, w \in Withdrawn : Withdraw(c, w)
              \/ \E S \in SUBSET Commands : Lapse(S)

RightsSpec == RightsInit /\ [][RightsNext]_rightsVars

=============================================================================
