------------------------------ MODULE Delivery ------------------------------
(***************************************************************************)
(* backend/internal/delivery: the queue of browser delivery commands.      *)
(*                                                                         *)
(* One row of delivery_commands per command.  Create, Complete, Cancel and *)
(* Reconcile are single write transactions; ClaimNext is a sequence of     *)
(* separate reads and one BEGIN IMMEDIATE transaction per candidate, so    *)
(* each running ClaimNext is a handler with a program counter.  The write  *)
(* lock of SQLite is held exactly while a handler is at "check"/"commit".  *)
(*                                                                         *)
(* Time is counted in half seconds, the coarsest grain at which the text   *)
(* order of RFC3339Nano stamps differs from the order of the instants.     *)
(***************************************************************************)
EXTENDS Integers, FiniteSets

CONSTANTS Ids,         \* identities a new row may draw (opaqueID)
          Lanes,       \* lanes of issues; an idempotency key is local to one
          Keys,        \* idempotency keys of confirmations
          Contexts,    \* planning context hashes (with the plan made of each)
          Sessions,    \* sessions the worker has registered
          Requests,    \* claim_request_id values
          Handlers,    \* ClaimNext calls running at the same time
          Evidence,    \* what a completion carries besides its outcome
          None,        \* an empty column
          PendingTTL, ClaimTTL,   \* in half seconds
          MaxTime,     \* bound on the clock
          MaxSnap      \* bound on binding snapshots

ASSUME DeliveryAssumption ==
  /\ PendingTTL \in Nat /\ ClaimTTL \in Nat
  /\ MaxTime \in Nat /\ MaxSnap \in Nat
  /\ None \notin Requests /\ None \notin Sessions /\ None \notin Evidence
  /\ None \notin Ids

VARIABLES row,        \* row[i]: the row of command i, "absent" if not inserted
          handler,    \* handler[h]: a running ClaimNext
          claims,     \* claim ids minted so far
          now,        \* the wall clock, in half seconds
          context,    \* context[l]: the current planning context of the lane
          binding,    \* binding[l]: what BindingResolver.Resolve answers
          confirmed,  \* history: answers of Create
          given,      \* history: executions ClaimNext answered
          acked       \* history: completions answered with success

deliveryVars == <<row, handler, claims, now, context, binding,
                  confirmed, given, acked>>
world == <<context, binding>>

Outcomes  == {"delivered", "failed", "uncertain"}
Withdrawn == {"cancelled", "expired", "invalidated"}
Settled   == Outcomes \cup Withdrawn
Statuses  == {"absent", "pending", "claimed"} \cup Settled

NoRow == [status |-> "absent", lane |-> None, key |-> None, ctx |-> None,
          snap |-> 0, session |-> None, created |-> 0, claimed |-> 0,
          claim |-> 0, request |-> None, ended |-> 0, evidence |-> None]
Idle  == [pc |-> "idle", request |-> None, session |-> None, todo |-> {},
          cur |-> None, at |-> 0]

Expires(r)  == r.created + PendingTTL
Deadline(r) == r.claimed + ClaimTTL

\* Text order of stamps: inside one second "...:00.5Z" sorts before "...:00Z".
StampRank(t) == IF t % 2 = 0 THEN t + 1 ELSE t - 1
StampLeq(a, b) == StampRank(a) <= StampRank(b)

WriteLockFree == \A h \in Handlers : handler[h].pc \notin {"check", "commit"}

Init == /\ row = [i \in Ids |-> NoRow]
        /\ handler = [h \in Handlers |-> Idle]
        /\ claims = 0
        /\ now = 0
        /\ context \in [Lanes -> Contexts]
        /\ \E s \in [Lanes -> Sessions] :
             binding = [l \in Lanes |-> [snap |-> 1, session |-> s[l], ready |-> TRUE]]
        /\ confirmed = {} /\ given = {} /\ acked = {}

(***************************************************************************)
(* transition(): the row leaves `from' for a final status, stamped now.    *)
(***************************************************************************)
Ended(r, status, evidence) ==
  [r EXCEPT !.status = status, !.ended = now, !.evidence = evidence]

\* (fault) the UPDATE loses its "AND status = from"
UnguardedTransition(i, from, to, evidence) ==
  row' = [row EXCEPT ![i] = Ended(row[i], to, evidence)]

Transition(i, from, to, evidence) ==
  /\ row[i].status = from
  /\ row' = [row EXCEPT ![i] = Ended(row[i], to, evidence)]

(***************************************************************************)
(* Create: idempotent confirmation of the plan shown to the operator.      *)
(***************************************************************************)
\* (fault) the key is looked up among the live commands only
NoKeyLookup(l, k) == {i \in Ids : /\ row[i].status \in {"pending", "claimed"}
                                  /\ row[i].lane = l
                                  /\ row[i].key = k}

Existing(l, k) == {i \in Ids : /\ row[i].status # "absent"
                               /\ row[i].lane = l
                               /\ row[i].key = k}

Answer(i, l, k, x, s) == [id |-> i, lane |-> l, key |-> k, ctx |-> x, snap |-> s]

SameFingerprint(r, x, s) == r.ctx = x /\ r.snap = s

\* A key seen before: the same confirmation gets the same command back.
Replay(l, k, x, s) ==
  \E i \in Existing(l, k) :
     /\ SameFingerprint(row[i], x, s)
     /\ confirmed' = confirmed \cup {Answer(i, l, k, x, s)}
     /\ UNCHANGED row

Authorized(l, x, s) == /\ x = context[l]
                       /\ binding[l].ready /\ s = binding[l].snap

Insert(l, k, x, s) ==
  /\ Existing(l, k) = {}
  /\ Authorized(l, x, s)
  /\ \E i \in Ids :
       /\ row[i].status = "absent"
       /\ row' = [row EXCEPT ![i] =
                    [NoRow EXCEPT !.status = "pending", !.lane = l, !.key = k,
                       !.ctx = x, !.snap = s, !.session = binding[l].session,
                       !.created = now]]
       /\ confirmed' = confirmed \cup {Answer(i, l, k, x, s)}

\* No command is created so late that its deadlines leave the clock's bound.
Create(l, k, x, s) ==
  /\ WriteLockFree
  /\ now + PendingTTL + ClaimTTL + 1 <= MaxTime
  /\ Replay(l, k, x, s) \/ Insert(l, k, x, s)
  /\ UNCHANGED <<handler, claims, now, context, binding, given, acked>>

(***************************************************************************)
(* ClaimNext, one step per statement that reads or writes shared state.    *)
(***************************************************************************)
Execution(i, q, s, c) == [id |-> i, request |-> q, session |-> s, claim |-> c]

Return(h) == handler' = [handler EXCEPT ![h] = Idle]
Goto(h, pc) == handler' = [handler EXCEPT ![h].pc = pc, ![h].cur = None,
                                          ![h].at = 0]

HoldsRequest(q) == {i \in Ids : row[i].request = q}

\* (fault) the session of the retry is not compared
AnswerAnySession(q, s) ==
  \E i \in HoldsRequest(q) :
     IF row[i].status = "claimed"
     THEN given' = given \cup {Execution(i, q, s, row[i].claim)}
     ELSE UNCHANGED given

\* The answer to a request that already holds a command.
AnswerAgain(q, s) ==
  \E i \in HoldsRequest(q) :
     IF row[i].session = s /\ row[i].status = "claimed"
     THEN given' = given \cup {Execution(i, q, s, row[i].claim)}
     ELSE UNCHANGED given

Lookup(h, q, s) ==
  /\ handler[h].pc = "idle"
  /\ \/ /\ HoldsRequest(q) # {}
        /\ AnswerAgain(q, s)
        /\ UNCHANGED handler
     \/ /\ HoldsRequest(q) = {}
        /\ handler' = [handler EXCEPT ![h] =
                         [Idle EXCEPT !.pc = "list", !.request = q, !.session = s]]
        /\ UNCHANGED given
  /\ UNCHANGED <<row, claims, now, context, binding, confirmed, acked>>

List(h) ==
  /\ handler[h].pc = "list"
  /\ handler' = [handler EXCEPT ![h].pc = "next",
                   ![h].todo = {i \in Ids : row[i].status = "pending"}]
  /\ UNCHANGED <<row, claims, now, context, binding, confirmed, given, acked>>

Oldest(S) == {i \in S : \A j \in S : StampLeq(row[i].created, row[j].created)}

TakeCandidate(h, i) ==
  handler' = [handler EXCEPT ![h].pc = "check", ![h].cur = i,
                ![h].at = now, ![h].todo = @ \ {i}]

\* BEGIN IMMEDIATE and the re-read of the next candidate.
Begin(h) ==
  /\ handler[h].pc = "next"
  /\ WriteLockFree
  /\ \E i \in Oldest(handler[h].todo) :
       \/ /\ row[i].status # "pending"
          /\ handler' = [handler EXCEPT ![h].todo = @ \ {i}]
          /\ UNCHANGED row
       \/ /\ now >= Expires(row[i])
          /\ Transition(i, "pending", "expired", None)
          /\ handler' = [handler EXCEPT ![h].todo = @ \ {i}]
       \/ /\ row[i].status = "pending"
          /\ now < Expires(row[i])
          /\ TakeCandidate(h, i)
          /\ UNCHANGED row
  /\ UNCHANGED <<claims, now, context, binding, confirmed, given, acked>>

Exhausted(h) ==
  /\ handler[h].pc = "next"
  /\ handler[h].todo = {}
  /\ Return(h)
  /\ UNCHANGED <<row, claims, now, context, binding, confirmed, given, acked>>

\* current(): the plan, the context, the head and the binding are still those
\* the command was confirmed with.
Current(r) == /\ r.ctx = context[r.lane]
              /\ binding[r.lane].ready
              /\ r.snap = binding[r.lane].snap
              /\ r.session = binding[r.lane].session

\* The write lock is held; planning state and presence can still change.
Judge(h) ==
  LET i == handler[h].cur IN
  /\ handler[h].pc = "check"
  /\ \/ /\ ~Current(row[i])
        /\ row' = [row EXCEPT ![i] = [Ended(row[i], "invalidated", None)
                                        EXCEPT !.ended = handler[h].at]]
        /\ Goto(h, "next")
     \/ /\ Current(row[i])
        /\ handler[h].session # row[i].session
        /\ Return(h)
        /\ UNCHANGED row
     \/ /\ Current(row[i])
        /\ handler[h].session = row[i].session
        /\ handler' = [handler EXCEPT ![h].pc = "commit"]
        /\ UNCHANGED row
  /\ UNCHANGED <<claims, now, context, binding, confirmed, given, acked>>

\* (fault) no unique index on (worker_id, claim_request_id)
NoUniqueIndex(q) == FALSE

RequestTaken(q) == HoldsRequest(q) # {}

\* UPDATE ... claimed; the unique index on (worker, claim_request_id) sends a
\* request that claimed something meanwhile back to what it holds.
Commit(h) ==
  LET i == handler[h].cur
      q == handler[h].request
      s == handler[h].session IN
  /\ handler[h].pc = "commit"
  /\ \/ /\ RequestTaken(q)
        /\ AnswerAgain(q, s)
        /\ UNCHANGED <<row, claims>>
     \/ /\ ~RequestTaken(q)
        /\ row[i].status = "pending"
        /\ claims' = claims + 1
        /\ row' = [row EXCEPT ![i] = [row[i] EXCEPT !.status = "claimed", !.request = q,
                                       !.claim = claims + 1, !.claimed = handler[h].at]]
        /\ given' = given \cup {Execution(i, q, s, claims + 1)}
  /\ Return(h)
  /\ UNCHANGED <<now, context, binding, confirmed, acked>>

\* Any error on the way (an unreadable plan, a busy database, a cancelled
\* request, a crash of the process) rolls back and ends the call.
Abort(h) ==
  /\ handler[h].pc # "idle"
  /\ Return(h)
  /\ UNCHANGED <<row, claims, now, context, binding, confirmed, given, acked>>

(***************************************************************************)
(* Complete, Cancel, Reconcile and the coordinator's invalidation.         *)
(***************************************************************************)
Ack(i, o) == acked' = acked \cup {[id |-> i, outcome |-> o]}

InTime(r) == now < Deadline(r)

Complete(i, c, o, e) ==
  /\ row[i].status # "absent"
  /\ row[i].claim = c
  /\ \/ /\ row[i].status = o /\ row[i].evidence = e
        /\ Ack(i, o)
        /\ UNCHANGED row
     \/ /\ WriteLockFree
        /\ ~InTime(row[i])
        /\ Transition(i, "claimed", "uncertain", None)
        /\ UNCHANGED acked
     \/ /\ WriteLockFree
        /\ InTime(row[i])
        /\ Transition(i, "claimed", o, e)
        /\ Ack(i, o)
  /\ UNCHANGED <<handler, claims, now, context, binding, confirmed, given>>

Cancel(i) ==
  /\ WriteLockFree
  /\ Transition(i, "pending", "cancelled", None)
  /\ UNCHANGED <<handler, claims, now, context, binding, confirmed, given, acked>>

\* workerloop's invalidatePendingDelivery: a create that failed half way.
InvalidatePending(i) ==
  /\ WriteLockFree
  /\ Transition(i, "pending", "invalidated", None)
  /\ UNCHANGED <<handler, claims, now, context, binding, confirmed, given, acked>>

\* (fault) the second UPDATE loses its "status = 'claimed'"
ReconcileAnyStatus(r) ==
  IF r.claim # 0 /\ StampLeq(Deadline(r), now) THEN Ended(r, "uncertain", None) ELSE r

\* (fault) the first UPDATE compares created_at
ReconcileByCreation(r) ==
  IF r.status = "pending" /\ StampLeq(r.created, now) THEN Ended(r, "expired", None) ELSE r

\* (fault) only pending commands are reconciled
ReconcilePendingOnly(r) ==
  IF r.status = "pending" /\ StampLeq(Expires(r), now) THEN Ended(r, "expired", None) ELSE r

\* The two UPDATEs compare the stamps as text.
Reconciled(r) ==
  IF r.status = "pending" /\ StampLeq(Expires(r), now)
    THEN Ended(r, "expired", None)
  ELSE IF r.status = "claimed" /\ StampLeq(Deadline(r), now)
    THEN Ended(r, "uncertain", None)
  ELSE r

Reconcile ==
  /\ WriteLockFree
  /\ row' = [i \in Ids |-> Reconciled(row[i])]
  /\ UNCHANGED <<handler, claims, now, context, binding, confirmed, given, acked>>

(***************************************************************************)
(* The world the queue reads.                                              *)
(***************************************************************************)
ContextChange(l) ==
  /\ \E x \in Contexts \ {context[l]} : context' = [context EXCEPT ![l] = x]
  /\ UNCHANGED <<row, handler, claims, now, binding, confirmed, given, acked>>

\* A new target, version, session or presence token: a snapshot never recurs.
Rebind(l) ==
  /\ binding[l].snap < MaxSnap
  /\ \E s \in Sessions, r \in BOOLEAN :
       binding' = [binding EXCEPT ![l] =
                     [snap |-> binding[l].snap + 1, session |-> s, ready |-> r]]
  /\ UNCHANGED <<row, handler, claims, now, context, confirmed, given, acked>>

\* Presence goes stale and comes back with the same token.
PresenceFlip(l) ==
  /\ binding' = [binding EXCEPT ![l].ready = ~@]
  /\ UNCHANGED <<row, handler, claims, now, context, confirmed, given, acked>>

Tick ==
  /\ now < MaxTime
  /\ now' = now + 1
  /\ UNCHANGED <<row, handler, claims, context, binding, confirmed, given, acked>>

HandlerStep(h) ==
  \/ List(h) \/ Begin(h) \/ Exhausted(h) \/ Judge(h) \/ Commit(h)

Next ==
  \/ \E l \in Lanes, k \in Keys, x \in Contexts, s \in 1..MaxSnap : Create(l, k, x, s)
  \/ \E h \in Handlers, q \in Requests, s \in Sessions : Lookup(h, q, s)
  \/ \E h \in Handlers : HandlerStep(h) \/ Abort(h)
  \/ \E i \in Ids, o \in Outcomes, e \in Evidence :
       \E c \in 1..claims : Complete(i, c, o, e)
  \/ \E i \in Ids : Cancel(i) \/ InvalidatePending(i)
  \/ Reconcile
  \/ \E l \in Lanes : ContextChange(l) \/ Rebind(l) \/ PresenceFlip(l)
  \/ Tick

Spec == Init /\ [][Next]_deliveryVars

\* The clock advances, a claim handler runs to its end, and the periodic
\* reconciliation, retried by SQLite's busy handler and by every later period,
\* gets the write lock again and again.
FairSpec == /\ Spec
            /\ WF_deliveryVars(Tick)
            /\ \A h \in Handlers : WF_deliveryVars(HandlerStep(h))
            /\ SF_deliveryVars(Reconcile)

(***************************************************************************)
(* Properties.                                                             *)
(***************************************************************************)
Rows == [status : Statuses, lane : Lanes \cup {None}, key : Keys \cup {None},
         ctx : Contexts \cup {None}, snap : Nat, session : Sessions \cup {None},
         created : Nat, claimed : Nat, claim : Nat,
         request : Requests \cup {None}, ended : Nat,
         evidence : Evidence \cup {None}]
HandlerRecords == [pc : {"idle", "list", "next", "check", "commit"},
                   request : Requests \cup {None}, session : Sessions \cup {None},
                   todo : SUBSET Ids, cur : Ids \cup {None}, at : Nat]
HandlerStates ==
  {s \in HandlerRecords : /\ s.pc # "idle" => s.request \in Requests /\ s.session \in Sessions
                          /\ s.pc \in {"check", "commit"} => s.cur \in Ids}
Answers    == [id : Ids, lane : Lanes, key : Keys, ctx : Contexts, snap : Nat]
Executions == [id : Ids, request : Requests, session : Sessions, claim : Nat]
Acks       == [id : Ids, outcome : Outcomes]

\* Every variable stays in its type; a running handler knows its request and,
\* once it holds the write lock, its candidate.
TypeOK ==
  /\ row \in [Ids -> Rows]
  /\ handler \in [Handlers -> HandlerStates]
  /\ claims \in Nat
  /\ now \in Nat
  /\ context \in [Lanes -> Contexts]
  /\ binding \in [Lanes -> [snap : Nat, session : Sessions, ready : BOOLEAN]]
  /\ confirmed \in SUBSET Answers
  /\ given \in SUBSET Executions
  /\ acked \in SUBSET Acks

\* One ClaimNext at a time holds the write lock, and the candidate it read
\* under the lock is still pending, and still its session's, when it commits,
\* although List read it long before: nothing else settles it in between.
LockDiscipline ==
  /\ \A g, h \in Handlers :
       (handler[g].pc \in {"check", "commit"} /\ handler[h].pc \in {"check", "commit"})
          => g = h
  /\ \A h \in Handlers :
       /\ handler[h].pc \in {"check", "commit"} => row[handler[h].cur].status = "pending"
       /\ handler[h].pc = "commit" => handler[h].session = row[handler[h].cur].session

\* The claim columns are the memory of every execution handed out: exactly the
\* commands that were claimed carry a request and a claim id, no two carry the
\* same one, and every answered execution is still what its row says.
ClaimBook ==
  /\ \A i \in Ids :
       IF row[i].status \in {"claimed"} \cup Outcomes
       THEN row[i].request \in Requests /\ row[i].claim \in 1..claims
       ELSE row[i].request = None /\ row[i].claim = 0
  /\ \A i, j \in Ids :
       (\/ row[i].request = row[j].request /\ row[i].request # None
        \/ row[i].claim = row[j].claim /\ row[i].claim # 0) => i = j
  /\ \A e \in given : /\ row[e.id].request = e.request
                       /\ row[e.id].claim = e.claim
                       /\ row[e.id].session = e.session

\* One row per idempotency key of a lane, and every answered confirmation is
\* what its row was inserted with.
KeyBook ==
  /\ \A i, j \in Ids :
       (/\ row[i].status # "absent" /\ row[j].status # "absent"
        /\ row[i].lane = row[j].lane /\ row[i].key = row[j].key) => i = j
  /\ \A a \in confirmed : /\ row[a.id].status # "absent"
                           /\ row[a.id].lane = a.lane /\ row[a.id].key = a.key
                           /\ row[a.id].ctx = a.ctx /\ row[a.id].snap = a.snap

\* At most one execution: whatever ClaimNext answered, however often a request
\* was retried and whichever handlers raced, one claim request holds one
\* command and one command was given under one claim id, to the session it was
\* bound to.
OneExecution ==
  \A e, f \in given :
     /\ (e.request = f.request \/ e.id = f.id \/ e.claim = f.claim) => e = f
     /\ e.session = row[e.id].session

\* An idempotency key binds one confirmation to one command for ever, also
\* after the command ended.
KeyBindsOneCommand ==
  \A a, b \in confirmed :
     (a.lane = b.lane /\ a.key = b.key) => a = b

\* What a completion was told is what the queue remembers, whatever the
\* deadline, the reconciliation or another completion did before or since.
AckedOutcomeStands ==
  \A a \in acked : row[a.id].status = a.outcome

\* The clock decides every race the same way: an outcome the worker reported was
\* reported before the claim deadline and a claim was taken before the command
\* expired, and no right ends more than a second early, although one side compares
\* instants and the other text.
NotLate(r) ==
  /\ r.claim # 0 => r.claimed < Expires(r)
  /\ r.evidence # None => r.ended < Deadline(r)
NotEarly(r) ==
  /\ r.status = "expired" => r.ended + 1 >= Expires(r)
  /\ (r.status = "uncertain" /\ r.evidence = None) => r.ended + 1 >= Deadline(r)
DeadlinesHold == \A i \in Ids : NotLate(row[i]) /\ NotEarly(row[i])

\* A settled command never moves again, and a claimed one never becomes
\* claimable again.
NeverReopened ==
  [][\A i \in Ids :
       /\ row[i].status \in Settled => row'[i] = row[i]
       /\ row[i].status = "claimed" =>
            /\ row'[i].status \in {"claimed"} \cup Outcomes
            /\ row'[i].claim = row[i].claim /\ row'[i].request = row[i].request]_deliveryVars

\* Every command is settled in the end, claimed or not, even if the worker and
\* every ClaimNext disappear.
EventuallySettled ==
  \A i \in Ids : (row[i].status = "pending") ~> (row[i].status \in Settled)

\* The queue keeps the promise of DeliveryRights.
Rights == INSTANCE DeliveryRights WITH
            Commands <- Ids,
            right    <- [i \in Ids |-> row[i].status],
            holder   <- [i \in Ids |-> row[i].request]
KeepsRights == Rights!RightsSpec

=============================================================================
