-------------------------------- MODULE AutoSend --------------------------------
(***************************************************************************)
(* web/src/browser-auto-send.ts: a page of the dashboard that confirms the *)
(* latest plan of a work unit by itself, together with the planning it     *)
(* reads from and the confirmation the backend answers with.               *)
(*                                                                         *)
(* The page is one tab; what it remembers outlives a reload.  Calls of the *)
(* browser to the backend may be lost, may fail after they had an effect,  *)
(* and may arrive after the page has stopped to wait for them.             *)
(***************************************************************************)
EXTENDS Planning

CONSTANTS Keys,      \* idempotency keys
          None,      \* no record
          MaxSeat,   \* bound on versions of the binding and on presence tokens
          MaxCopies  \* bound on requests for one intent that are under way

\* A binding of the lane with the presence of its worker, and what the page keeps
\* of an attempt.
Seats   == [version : Nat, token : Nat]
Records == [plan : Nat, seat : Seats, key : Keys \cup {None},
            status : {"pending", "submitted", "blocked"}, tried : BOOLEAN]

ASSUME AutoSendAssumption == /\ None \notin Keys /\ None \notin Records
                             /\ MaxSeat \in Nat /\ MaxCopies \in Nat

VARIABLES seat,    \* the binding of the lane: version and presence token
          auto,    \* the preference in the page's storage
          record,  \* the record in the page's storage
          page,    \* where the tick of the page is
          wire,    \* confirmations under way to the backend
          queue    \* delivery commands of the work unit

sendVars == <<seat, auto, record, page, wire, queue>>
vars == <<planningVars, sendVars>>

AtRest == [pc |-> "rest", todo |-> {}, plan |-> 0, ready |-> FALSE, listed |-> {},
           seat |-> [version |-> 0, token |-> 0], copy |-> 0, answer |-> "none"]

\* automaticDeliveryIdentity and the record kept for it.  The identity holds a 32-bit
\* hash of the presence token (presenceFingerprint), taken to tell tokens apart.
Concerns(r, plan, s) == r # None /\ r.plan = plan /\ r.seat = s
Pending(plan, s, k) == [plan |-> plan, seat |-> s, key |-> k, status |-> "pending", tried |-> FALSE]

\* createIdempotencyKey: never one that anybody still knows.
Fresh(k) == /\ \A c \in queue \cup wire : c.key # k
            /\ record # None => record.key # k

\* deliveryEligibility, as far as the plan goes.
Ready(plan) == plan \in DOMAIN audit /\ Dispatchable(plan)

\* A confirmation names everything the user or the page has seen.
Confirmation(by, k, plan, s, n) == [by |-> by, key |-> k, plan |-> plan, seat |-> s, copy |-> n]

(***************************************************************************)
(* A tick of the page.                                                     *)
(***************************************************************************)
Tick == /\ auto /\ page.pc = "rest"
        /\ page' = [AtRest EXCEPT !.pc = "reads", !.todo = {"plan", "list"}]
        /\ UNCHANGED <<planningVars, seat, auto, record, wire, queue>>

\* The requests of Promise.all are answered in any order.
ReadPlan == /\ "plan" \in page.todo
            /\ page' = [page EXCEPT !.todo = @ \ {"plan"}, !.plan = Len(audit),
                                    !.ready = Ready(Len(audit))]
            /\ UNCHANGED <<planningVars, seat, auto, record, wire, queue>>

ReadList == /\ "list" \in page.todo
            /\ page' = [page EXCEPT !.todo = @ \ {"list"},
                          !.listed = {[plan |-> c.plan, version |-> c.seat.version] : c \in queue}]
            /\ UNCHANGED <<planningVars, seat, auto, record, wire, queue>>

ReadSeat == /\ page.pc = "reads" /\ page.todo = {}
            /\ page' = [page EXCEPT !.pc = "decides", !.seat = seat]
            /\ UNCHANGED <<planningVars, seat, auto, record, wire, queue>>

\* matchingDeliveryExists asks for neither token nor status.
Matches == [plan |-> page.plan, version |-> page.seat.version] \in page.listed

Mine == Concerns(record, page.plan, page.seat)

Rest(r) == /\ page' = AtRest
           /\ record' = r
           /\ UNCHANGED <<planningVars, seat, auto, wire, queue>>

\* A read failed, the plan is not dispatchable, or the route, the binding or an
\* edited prompt speak against it.
Pause == page.pc \in {"reads", "decides"} /\ Rest(record)

\* Somebody has confirmed it already; the key of this record is never sent.
Already == /\ page.pc = "decides" /\ page.ready /\ Matches
           /\ Rest([Pending(page.plan, page.seat, IF Mine THEN record.key ELSE None)
                      EXCEPT !.status = "submitted", !.tried = TRUE])

\* Settled for this intent, or its last attempt is too young.
Holds == /\ page.pc = "decides" /\ page.ready /\ ~Matches
         /\ Mine /\ (record.status # "pending" \/ record.tried)
         /\ Rest(record)

\* (fault) every attempt gets a key of its own
RecordedAnew(k) == Pending(page.plan, page.seat, k)

\* The record for this intent, with its key or with a new one.
Recorded(k) == IF Mine THEN record ELSE Pending(page.plan, page.seat, k)

\* The record is written before the request is sent.
Send == /\ page.pc = "decides" /\ page.ready /\ ~Matches
        /\ \E k \in Keys :
             /\ Mine \/ Fresh(k)
             /\ Recorded(k).status = "pending"
             /\ record' = [Recorded(k) EXCEPT !.tried = TRUE]
        /\ \E n \in 1..MaxCopies :
             /\ \A r \in wire : r.copy # n
             /\ wire' = wire \cup {Confirmation("page", record'.key, page.plan, page.seat, n)}
             /\ page' = [AtRest EXCEPT !.pc = "sent", !.copy = n]
        /\ UNCHANGED <<planningVars, seat, auto, queue>>

\* 201 settles the intent, a definitive refusal blocks it.
Answered == /\ page.pc = "sent" /\ page.answer # "none"
            /\ Rest([record EXCEPT !.status = IF page.answer = "created" THEN "submitted" ELSE "blocked"])

\* No answer, one that cannot be read, or a 5xx: the intent stays pending.
Unresolved == page.pc = "sent" /\ Rest(record)

Reload == page.pc # "rest" /\ Rest(record)

Toggle == /\ auto' = ~auto
          /\ UNCHANGED <<planningVars, seat, record, page, wire, queue>>

\* browser-delivery.ts: without auto-send the user reviews and confirms a plan,
\* with a key of that review.
Review == /\ ~auto
          /\ Ready(Len(audit))
          /\ \E k \in Keys, n \in 1..MaxCopies :
               /\ Fresh(k) /\ \A r \in wire : r.copy # n
               /\ wire' = wire \cup {Confirmation("user", k, Len(audit), seat, n)}
          /\ UNCHANGED <<planningVars, seat, auto, record, page, queue>>

(***************************************************************************)
(* The backend.                                                            *)
(***************************************************************************)
\* authorize: the plan holds today and the binding and its presence are the ones
\* that were confirmed.
Authorized(r) == Dispatchable(r.plan) /\ r.seat = seat

\* Create: the same key is the same command.
Commanded(r) == \E c \in queue : c.key = r.key

Hear(r, answer) ==
  page' = IF page.pc = "sent" /\ page.copy = r.copy /\ r.by = "page"
          THEN [page EXCEPT !.answer = answer] ELSE page

Create(r) == /\ r \in wire
             /\ ~Commanded(r) /\ Authorized(r)
             /\ queue' = queue \cup {r}
             /\ wire' = wire \ {r}
             /\ \E answer \in {"created", "refused"} :   \* the coordinator may fail afterwards
                  Hear(r, answer)
             /\ UNCHANGED <<planningVars, seat, auto, record>>

Repeat(r) == /\ r \in wire
             /\ Commanded(r)
             /\ wire' = wire \ {r}
             /\ Hear(r, "created")
             /\ UNCHANGED <<planningVars, seat, auto, record, queue>>

\* Not authorized, or the database, the bindings or the coordinator fail.
Refuse(r) == /\ r \in wire
             /\ wire' = wire \ {r}
             /\ Hear(r, "refused")
             /\ UNCHANGED <<planningVars, seat, auto, record, queue>>

LoseRequest(r) == /\ r \in wire
                  /\ wire' = wire \ {r}
                  /\ UNCHANGED <<planningVars, seat, auto, record, page, queue>>

\* The lane is bound anew, or its worker has a new presence.
SeatChanges ==
  /\ \/ seat.version < MaxSeat /\ seat' = [seat EXCEPT !.version = @ + 1]
     \/ seat.token < MaxSeat /\ seat' = [seat EXCEPT !.token = @ + 1]
  /\ UNCHANGED <<planningVars, auto, record, page, wire, queue>>

Init == /\ PlanningInit
        /\ seat = [version |-> 1, token |-> 1]
        /\ auto = FALSE
        /\ record = None
        /\ page = AtRest
        /\ wire = {}
        /\ queue = {}

Next ==
  \/ PlanningNext /\ UNCHANGED sendVars
  \/ Tick \/ ReadPlan \/ ReadList \/ ReadSeat
  \/ Pause \/ Already \/ Holds \/ Send \/ Answered \/ Unresolved \/ Reload
  \/ Toggle \/ Review
  \/ \E r \in wire : Create(r) \/ Repeat(r) \/ Refuse(r) \/ LoseRequest(r)
  \/ SeatChanges

Spec == Init /\ [][Next]_vars

(***************************************************************************)
(* Properties.                                                             *)
(***************************************************************************)
\* One confirmation intent of the page, which is a plan, a binding and a presence,
\* becomes one command at most: whatever is lost, late, repeated or reloaded.
SameIntentOnce ==
  \A c, d \in queue :
    c.by = "page" /\ d.by = "page" /\ c.plan = d.plan /\ c.seat = d.seat => c.key = d.key

=============================================================================
