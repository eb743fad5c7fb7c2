---------------------------- MODULE DeliveryProof ----------------------------
(***************************************************************************)
(* Theorems about Delivery, for any number of commands, lanes, sessions,   *)
(* claim requests and concurrent ClaimNext handlers, and any time limits.  *)
(***************************************************************************)
EXTENDS Delivery, TLAPS

-----------------------------------------------------------------------------
(* Type correctness. *)

LEMMA EndedType ==
  ASSUME NEW r \in Rows, NEW s \in Statuses, NEW e \in Evidence \cup {None}, now \in Nat
  PROVE  Ended(r, s, e) \in Rows
  BY DEF Ended, Rows

LEMMA ReconciledType ==
  ASSUME NEW r \in Rows, now \in Nat
  PROVE  Reconciled(r) \in Rows
<1>1. "expired" \in Statuses /\ "uncertain" \in Statuses
  BY DEF Statuses, Settled, Outcomes, Withdrawn
<1> QED BY <1>1, EndedType DEF Reconciled

LEMMA ClaimedType ==
  ASSUME NEW r \in Rows, NEW q \in Requests, NEW c \in Nat, NEW t \in Nat
  PROVE  [r EXCEPT !.status = "claimed", !.request = q, !.claim = c, !.claimed = t] \in Rows
BY DEF Rows, Statuses

LEMMA IdleType == Idle \in HandlerStates
BY DEF Idle, HandlerStates, HandlerRecords

LEMMA InitType == Init => TypeOK
<1> SUFFICES ASSUME Init PROVE TypeOK OBVIOUS
<1> USE DeliveryAssumption
<1>1. NoRow \in Rows BY DEF NoRow, Rows, Statuses
<1>2. binding \in [Lanes -> [snap : Nat, session : Sessions, ready : BOOLEAN]] BY DEF Init
<1> QED BY <1>1, <1>2, IdleType DEF Init, TypeOK

LEMMA StatusFacts ==
  /\ {"absent", "pending", "claimed"} \cup Settled \subseteq Statuses
  /\ Outcomes \subseteq Settled /\ Withdrawn \subseteq Settled
  /\ "expired" \in Withdrawn /\ "invalidated" \in Withdrawn /\ "cancelled" \in Withdrawn
  /\ "uncertain" \in Outcomes
BY DEF Statuses, Settled, Outcomes, Withdrawn

\* A write transaction of one row by transition() keeps the table typed.
LEMMA TransitionType ==
  ASSUME TypeOK, NEW i \in Ids, NEW f, NEW t \in Settled, NEW e \in Evidence \cup {None},
         Transition(i, f, t, e)
  PROVE  row' \in [Ids -> Rows]
BY StatusFacts, EndedType DEF Transition, TypeOK

LEMMA AnswerAgainType ==
  ASSUME TypeOK, NEW q \in Requests, NEW s \in Sessions, AnswerAgain(q, s)
  PROVE  given' \in SUBSET Executions
<1>1. PICK i \in HoldsRequest(q) :
        \/ given' = given \cup {Execution(i, q, s, row[i].claim)}
        \/ given' = given
  BY DEF AnswerAgain
<1>2. i \in Ids BY DEF HoldsRequest
<1>3. row[i].claim \in Nat BY <1>2 DEF TypeOK, Rows
<1>4. Execution(i, q, s, row[i].claim) \in Executions BY <1>2, <1>3 DEF Execution, Executions
<1> QED BY <1>1, <1>4 DEF TypeOK

LEMMA StepType == TypeOK /\ [Next]_deliveryVars => TypeOK'
<1> SUFFICES ASSUME TypeOK, [Next]_deliveryVars PROVE TypeOK' OBVIOUS
<1> USE DeliveryAssumption, StatusFacts
<1>1. ASSUME NEW l \in Lanes, NEW k \in Keys, NEW x \in Contexts, NEW s \in 1..MaxSnap,
             Create(l, k, x, s)
      PROVE  TypeOK'
  <2>1. CASE Replay(l, k, x, s)
    <3>1. confirmed' \in SUBSET Answers
      BY <2>1 DEF Replay, TypeOK, Existing, Answer, Answers
    <3> QED BY <1>1, <2>1, <3>1 DEF Create, Replay, TypeOK
  <2>2. CASE Insert(l, k, x, s)
    <3>1. PICK i \in Ids :
            /\ row' = [row EXCEPT ![i] =
                    [NoRow EXCEPT !.status = "pending", !.lane = l, !.key = k,
                       !.ctx = x, !.snap = s, !.session = binding[l].session,
                       !.created = now]]
            /\ confirmed' = confirmed \cup {Answer(i, l, k, x, s)}
      BY <2>2 DEF Insert
    <3>2. row' \in [Ids -> Rows]
      <4>1. "pending" \in Statuses /\ s \in Nat /\ binding[l].session \in Sessions
        BY DEF TypeOK, Statuses
      <4>2. [NoRow EXCEPT !.status = "pending", !.lane = l, !.key = k,
               !.ctx = x, !.snap = s, !.session = binding[l].session,
               !.created = now] \in Rows
        BY <4>1 DEF TypeOK, Rows, NoRow
      <4> QED BY <3>1, <4>2 DEF TypeOK
    <3>3. confirmed' \in SUBSET Answers
      BY <3>1 DEF TypeOK, Answer, Answers
    <3> QED BY <1>1, <3>2, <3>3 DEF Create, TypeOK
  <2> QED BY <1>1, <2>1, <2>2 DEF Create
<1>2. ASSUME NEW h \in Handlers, NEW q \in Requests, NEW s \in Sessions, Lookup(h, q, s)
      PROVE  TypeOK'
  <2>1. CASE AnswerAgain(q, s) /\ UNCHANGED handler
    BY <1>2, <2>1, AnswerAgainType DEF Lookup, TypeOK
  <2>2. CASE handler' = [handler EXCEPT ![h] =
                         [Idle EXCEPT !.pc = "list", !.request = q, !.session = s]]
             /\ UNCHANGED given
    <3>1. [Idle EXCEPT !.pc = "list", !.request = q, !.session = s] \in HandlerStates
      BY DEF Idle, HandlerStates, HandlerRecords
    <3> QED BY <1>2, <2>2, <3>1 DEF Lookup, TypeOK
  <2> QED BY <1>2, <2>1, <2>2 DEF Lookup
<1>3. ASSUME NEW h \in Handlers, List(h) PROVE TypeOK'
  <2> DEFINE waiting == {i \in Ids : row[i].status = "pending"}
  <2>1. waiting \in SUBSET Ids OBVIOUS
  <2>2. handler' = [handler EXCEPT ![h].pc = "next", ![h].todo = waiting]
    BY <1>3 DEF List
  <2> HIDE DEF waiting
  <2>3. handler' \in [Handlers -> HandlerStates]
    <3>1. handler[h] \in HandlerStates BY DEF TypeOK
    <3>2. [handler[h] EXCEPT !.pc = "next", !.todo = waiting] \in HandlerStates
      BY <1>3, <2>1, <3>1 DEF List, HandlerStates, HandlerRecords
    <3>3. handler' = [handler EXCEPT ![h] = [handler[h] EXCEPT !.pc = "next", !.todo = waiting]]
      BY <2>2, <3>1 DEF TypeOK, HandlerStates, HandlerRecords
    <3> QED BY <3>2, <3>3 DEF TypeOK
  <2> QED BY <1>3, <2>3 DEF List, TypeOK
<1>4. ASSUME NEW h \in Handlers, Begin(h) PROVE TypeOK'
  <2>1. PICK i \in Oldest(handler[h].todo) :
       \/ /\ handler' = [handler EXCEPT ![h].todo = @ \ {i}]
          /\ UNCHANGED row
       \/ /\ Transition(i, "pending", "expired", None)
          /\ handler' = [handler EXCEPT ![h].todo = @ \ {i}]
       \/ /\ TakeCandidate(h, i)
          /\ UNCHANGED row
    BY <1>4 DEF Begin
  <2>2. i \in Ids BY <2>1 DEF Oldest, TypeOK, HandlerStates, HandlerRecords
  <2>3. row' \in [Ids -> Rows]
    BY <2>1, <2>2, TransitionType DEF TypeOK
  <2>4. handler' \in [Handlers -> HandlerStates]
    <3>1. handler[h] \in HandlerStates /\ handler[h].pc = "next" /\ now \in Nat
      BY <1>4 DEF Begin, TypeOK
    <3>2. CASE handler' = [handler EXCEPT ![h].todo = @ \ {i}]
      <4>1. [handler[h] EXCEPT !.todo = @ \ {i}] \in HandlerStates
        BY <2>2, <3>1 DEF HandlerStates, HandlerRecords
      <4> QED BY <3>2, <4>1 DEF TypeOK
    <3>3. CASE TakeCandidate(h, i)
      <4>1. [handler[h] EXCEPT !.pc = "check", !.cur = i, !.at = now, !.todo = @ \ {i}]
              \in HandlerStates
        BY <2>2, <3>1 DEF HandlerStates, HandlerRecords
      <4> QED BY <3>3, <4>1 DEF TakeCandidate, TypeOK
    <3> QED BY <2>1, <3>2, <3>3
  <2> QED BY <1>4, <2>3, <2>4 DEF Begin, TypeOK
<1>5. ASSUME NEW h \in Handlers, Exhausted(h) \/ Abort(h) PROVE TypeOK'
  BY <1>5, IdleType DEF Exhausted, Abort, Return, TypeOK
<1>6. ASSUME NEW h \in Handlers, Judge(h) PROVE TypeOK'
  <2>1. handler[h].cur \in Ids /\ handler[h].at \in Nat
    BY <1>6 DEF Judge, TypeOK, HandlerStates, HandlerRecords
  <2>2. row' \in [Ids -> Rows]
    <3>1. Ended(row[handler[h].cur], "invalidated", None) \in Rows
      BY <2>1, EndedType DEF TypeOK
    <3>2. [Ended(row[handler[h].cur], "invalidated", None) EXCEPT !.ended = handler[h].at] \in Rows
      BY <2>1, <3>1 DEF Rows
    <3> QED BY <1>6, <2>1, <3>2 DEF Judge, TypeOK
  <2>3. handler' \in [Handlers -> HandlerStates]
    <3>1. CASE Goto(h, "next")
      BY <1>6, <3>1 DEF Judge, Goto, TypeOK, HandlerStates, HandlerRecords
    <3>2. CASE Return(h) BY <3>2, IdleType DEF Return, TypeOK
    <3>3. CASE handler' = [handler EXCEPT ![h].pc = "commit"]
      BY <1>6, <2>1, <3>3 DEF Judge, TypeOK, HandlerStates, HandlerRecords
    <3> QED BY <1>6, <3>1, <3>2, <3>3 DEF Judge
  <2> QED BY <1>6, <2>2, <2>3 DEF Judge, TypeOK
<1>7. ASSUME NEW h \in Handlers, Commit(h) PROVE TypeOK'
  <2> DEFINE i == handler[h].cur
             q == handler[h].request
             s == handler[h].session
  <2>1. i \in Ids /\ q \in Requests /\ s \in Sessions /\ handler[h].at \in Nat
    BY <1>7 DEF Commit, TypeOK, HandlerStates, HandlerRecords
  <2>2. handler' \in [Handlers -> HandlerStates]
    BY <1>7, IdleType DEF Commit, Return, TypeOK
  <2>3. CASE AnswerAgain(q, s) /\ UNCHANGED <<row, claims>>
    BY <1>7, <2>1, <2>2, <2>3, AnswerAgainType DEF Commit, TypeOK
  <2>4. CASE /\ claims' = claims + 1
             /\ row' = [row EXCEPT ![i] = [row[i] EXCEPT !.status = "claimed", !.request = q,
                                       !.claim = claims + 1, !.claimed = handler[h].at]]
             /\ given' = given \cup {Execution(i, q, s, claims + 1)}
    <3>1. row' \in [Ids -> Rows]
      <4>1. [row[i] EXCEPT !.status = "claimed", !.request = q,
               !.claim = claims + 1, !.claimed = handler[h].at] \in Rows
        <5>1. row[i] \in Rows /\ claims + 1 \in Nat BY <2>1 DEF TypeOK
        <5> QED BY <2>1, <5>1, ClaimedType
      <4> QED BY <2>1, <2>4, <4>1 DEF TypeOK
    <3>2. given' \in SUBSET Executions BY <2>1, <2>4 DEF TypeOK, Execution, Executions
    <3> QED BY <1>7, <2>2, <2>4, <3>1, <3>2 DEF Commit, TypeOK
  <2> QED BY <1>7, <2>3, <2>4 DEF Commit
<1>8. ASSUME NEW i \in Ids, NEW o \in Outcomes, NEW e \in Evidence, NEW c \in 1..claims,
             Complete(i, c, o, e)
      PROVE  TypeOK'
  <2>1. row' \in [Ids -> Rows]
    <3>1. CASE UNCHANGED row BY <3>1 DEF TypeOK
    <3>2. CASE Transition(i, "claimed", "uncertain", None) BY <3>2, TransitionType
    <3>3. CASE Transition(i, "claimed", o, e) BY <3>3, TransitionType
    <3> QED BY <1>8, <3>1, <3>2, <3>3 DEF Complete
  <2>2. acked' \in SUBSET Acks
    BY <1>8 DEF Complete, Ack, Acks, TypeOK
  <2> QED BY <1>8, <2>1, <2>2 DEF Complete, TypeOK
<1>9. ASSUME NEW i \in Ids, Cancel(i) \/ InvalidatePending(i) PROVE TypeOK'
  <2>1. row' \in [Ids -> Rows]
    BY <1>9, TransitionType DEF Cancel, InvalidatePending
  <2> QED BY <1>9, <2>1 DEF Cancel, InvalidatePending, TypeOK
<1>10. CASE Reconcile
  <2>1. row' \in [Ids -> Rows] BY <1>10, ReconciledType DEF Reconcile, TypeOK
  <2> QED BY <1>10, <2>1 DEF Reconcile, TypeOK
<1>11. ASSUME NEW l \in Lanes, ContextChange(l) \/ Rebind(l) \/ PresenceFlip(l) PROVE TypeOK'
  <2>1. CASE ContextChange(l) BY <2>1 DEF ContextChange, TypeOK
  <2>2. CASE Rebind(l) BY <2>2 DEF Rebind, TypeOK
  <2>3. CASE PresenceFlip(l) BY <2>3 DEF PresenceFlip, TypeOK
  <2> QED BY <1>11, <2>1, <2>2, <2>3
<1>12. CASE Tick BY <1>12 DEF Tick, TypeOK
<1>13. CASE UNCHANGED deliveryVars BY <1>13 DEF deliveryVars, TypeOK
<1> QED
  BY <1>1, <1>2, <1>3, <1>4, <1>5, <1>6, <1>7, <1>8, <1>9, <1>10, <1>11, <1>12, <1>13
  DEF Next, HandlerStep

\* The variables of the queue keep their types whatever the handlers, the
\* worker, the reconciliation and the world do.
THEOREM TypeCorrect == Spec => []TypeOK
<1>1. Init => TypeOK BY InitType
<1>2. TypeOK /\ [Next]_deliveryVars => TypeOK' BY StepType
<1> QED BY <1>1, <1>2, PTL DEF Spec

-----------------------------------------------------------------------------
(* The inductive invariant: types, lock, claim and key books.               *)

IInv == TypeOK /\ LockDiscipline /\ ClaimBook /\ KeyBook /\ AckedOutcomeStands

\* What every step but an insertion and a claim does to a row: nothing, or one
\* of the two final moves, leaving all the other columns alone.
SameColumns(r, s) == /\ s.lane = r.lane /\ s.key = r.key /\ s.ctx = r.ctx
                     /\ s.snap = r.snap /\ s.session = r.session
                     /\ s.request = r.request /\ s.claim = r.claim

Moves(i) == \/ row'[i] = row[i]
            \/ /\ row[i].status = "pending" /\ row'[i].status \in Withdrawn
               /\ SameColumns(row[i], row'[i])
            \/ /\ row[i].status = "claimed" /\ row'[i].status \in Outcomes
               /\ SameColumns(row[i], row'[i])

\* The insertion of one row.
Inserts(i, l, k, x, s) ==
  /\ row[i].status = "absent"
  /\ row'[i].status = "pending" /\ row'[i].lane = l /\ row'[i].key = k
  /\ row'[i].ctx = x /\ row'[i].snap = s
  /\ row'[i].request = None /\ row'[i].claim = 0
  /\ \A j \in Ids \ {i} : row'[j] = row[j]

\* The claim of one row.
Claims(i, q) ==
  /\ row[i].status = "pending"
  /\ row'[i].status = "claimed" /\ row'[i].request = q /\ row'[i].claim = claims + 1
  /\ row'[i].lane = row[i].lane /\ row'[i].key = row[i].key
  /\ row'[i].ctx = row[i].ctx /\ row'[i].snap = row[i].snap
  /\ row'[i].session = row[i].session
  /\ \A j \in Ids \ {i} : row'[j] = row[j]

LEMMA EndedColumns ==
  ASSUME NEW r \in Rows, NEW t, NEW e
  PROVE  Ended(r, t, e).status = t /\ SameColumns(r, Ended(r, t, e))
BY DEF Ended, Rows, SameColumns

LEMMA TransitionMoves ==
  ASSUME TypeOK, NEW i \in Ids, NEW f, NEW t, NEW e, Transition(i, f, t, e),
         \/ f = "pending" /\ t \in Withdrawn
         \/ f = "claimed" /\ t \in Outcomes
  PROVE  \A j \in Ids : Moves(j)
<1>1. row[i] \in Rows BY DEF TypeOK
<1>2. row'[i] = Ended(row[i], t, e) /\ row[i].status = f
  BY DEF Transition, TypeOK
<1>3. \A j \in Ids \ {i} : row'[j] = row[j] BY DEF Transition, TypeOK
<1>4. Moves(i) BY <1>1, <1>2, EndedColumns DEF Moves
<1> QED BY <1>3, <1>4 DEF Moves

LEMMA ReconcileMoves ==
  ASSUME TypeOK, Reconcile
  PROVE  \A i \in Ids : Moves(i)
<1> SUFFICES ASSUME NEW i \in Ids PROVE Moves(i) OBVIOUS
<1>1. row[i] \in Rows /\ row'[i] = Reconciled(row[i]) BY DEF Reconcile, TypeOK
<1> QED BY <1>1, EndedColumns, StatusFacts DEF Reconciled, Moves

LEMMA CompleteMoves ==
  ASSUME TypeOK, NEW i \in Ids, NEW o \in Outcomes, NEW e \in Evidence, NEW c \in 1..claims,
         Complete(i, c, o, e)
  PROVE  \A j \in Ids : Moves(j)
<1>1. CASE UNCHANGED row BY <1>1 DEF Moves
<1>2. CASE Transition(i, "claimed", "uncertain", None)
  BY <1>2, TransitionMoves, StatusFacts
<1>3. CASE Transition(i, "claimed", o, e) BY <1>3, TransitionMoves
<1> QED BY <1>1, <1>2, <1>3 DEF Complete

LEMMA JudgeMoves ==
  ASSUME TypeOK, LockDiscipline, NEW h \in Handlers, Judge(h)
  PROVE  \A j \in Ids : Moves(j)
<1>1. CASE UNCHANGED row BY <1>1 DEF Moves
<1>2. CASE row' = [row EXCEPT ![handler[h].cur] =
                     [Ended(row[handler[h].cur], "invalidated", None)
                        EXCEPT !.ended = handler[h].at]]
  <2> DEFINE i == handler[h].cur
  <2>1. i \in Ids /\ row[i].status = "pending"
    BY DEF Judge, TypeOK, HandlerStates, LockDiscipline
  <2>2. row[i] \in Rows BY <2>1 DEF TypeOK
  <2>3. /\ row'[i].status = "invalidated" /\ SameColumns(row[i], row'[i])
    BY <1>2, <2>1, <2>2 DEF TypeOK, Ended, Rows, SameColumns
  <2>4. \A j \in Ids \ {i} : row'[j] = row[j] BY <1>2, <2>1 DEF TypeOK
  <2> QED BY <2>1, <2>3, <2>4, StatusFacts DEF Moves
<1> QED BY <1>1, <1>2 DEF Judge

\* Steps that only move rows keep the books.
LEMMA MovesKeepClaimBook ==
  ASSUME TypeOK, ClaimBook, \A i \in Ids : Moves(i), UNCHANGED <<claims, given>>
  PROVE  ClaimBook'
<1>1. \A i \in Ids : row'[i].request = row[i].request /\ row'[i].claim = row[i].claim
                     /\ row'[i].session = row[i].session
  BY DEF Moves, SameColumns
<1>2. \A i \in Ids : (row'[i].status \in {"claimed"} \cup Outcomes)
                       <=> (row[i].status \in {"claimed"} \cup Outcomes)
  BY DEF Moves, Outcomes, Withdrawn
<1>3. \A e \in given : e.id \in Ids BY DEF TypeOK, Executions
<1> QED BY <1>1, <1>2, <1>3 DEF ClaimBook

LEMMA MovesKeepKeyBook ==
  ASSUME TypeOK, KeyBook, \A i \in Ids : Moves(i), UNCHANGED confirmed
  PROVE  KeyBook'
<1>1. \A i \in Ids : /\ row'[i].lane = row[i].lane /\ row'[i].key = row[i].key
                     /\ row'[i].ctx = row[i].ctx /\ row'[i].snap = row[i].snap
                     /\ (row'[i].status = "absent") <=> (row[i].status = "absent")
  BY DEF Moves, SameColumns, Outcomes, Withdrawn
<1>2. \A a \in confirmed : a.id \in Ids BY DEF TypeOK, Answers
<1> QED BY <1>1, <1>2 DEF KeyBook

LEMMA MovesKeepAcks ==
  ASSUME TypeOK, AckedOutcomeStands, \A i \in Ids : Moves(i), UNCHANGED acked
  PROVE  AckedOutcomeStands'
<1>1. \A i \in Ids : row[i].status \in Outcomes => row'[i].status = row[i].status
  BY DEF Moves, Outcomes
<1>2. \A a \in acked : a.id \in Ids /\ a.outcome \in Outcomes BY DEF TypeOK, Acks
<1> QED BY <1>1, <1>2 DEF AckedOutcomeStands

\* The one row an insertion adds, and the one a claim grants.
LEMMA InsertShape ==
  ASSUME TypeOK, NEW l \in Lanes, NEW k \in Keys, NEW x \in Contexts, NEW s \in 1..MaxSnap,
         Insert(l, k, x, s)
  PROVE  \E i \in Ids : /\ Inserts(i, l, k, x, s)
                        /\ confirmed' = confirmed \cup {Answer(i, l, k, x, s)}
BY DEF Insert, Inserts, TypeOK, NoRow

LEMMA CommitShape ==
  ASSUME TypeOK, LockDiscipline, NEW h \in Handlers, Commit(h)
  PROVE  \/ /\ AnswerAgain(handler[h].request, handler[h].session)
            /\ UNCHANGED <<row, claims>>
         \/ /\ HoldsRequest(handler[h].request) = {}
            /\ handler[h].cur \in Ids /\ handler[h].request \in Requests
            /\ handler[h].session = row[handler[h].cur].session
            /\ Claims(handler[h].cur, handler[h].request)
            /\ claims' = claims + 1
            /\ given' = given \cup {Execution(handler[h].cur, handler[h].request,
                                              handler[h].session, claims + 1)}
<1> DEFINE i == handler[h].cur
           q == handler[h].request
           s == handler[h].session
<1>1. i \in Ids /\ q \in Requests /\ s = row[i].session
  BY DEF Commit, LockDiscipline, TypeOK, HandlerStates, HandlerRecords
<1>2. CASE ~RequestTaken(q)
  <2>1. /\ row[i].status = "pending" /\ claims' = claims + 1
        /\ row' = [row EXCEPT ![i] = [row[i] EXCEPT !.status = "claimed", !.request = q,
                                       !.claim = claims + 1, !.claimed = handler[h].at]]
        /\ given' = given \cup {Execution(i, q, s, claims + 1)}
    BY <1>2 DEF Commit
  <2>2. row[i] \in Rows BY <1>1 DEF TypeOK
  <2>3. Claims(i, q) BY <1>1, <2>1, <2>2 DEF Claims, TypeOK, Rows
  <2> QED BY <1>1, <1>2, <2>1, <2>3 DEF RequestTaken
<1>3. CASE RequestTaken(q) BY <1>3 DEF Commit
<1> QED BY <1>2, <1>3

\* Every answer to a repeated request repeats the row that holds it.
LEMMA AnswerAgainKeepsClaimBook ==
  ASSUME TypeOK, ClaimBook, NEW q \in Requests, NEW s \in Sessions, AnswerAgain(q, s),
         UNCHANGED <<row, claims>>
  PROVE  ClaimBook'
<1>1. PICK i \in HoldsRequest(q) :
        \/ row[i].session = s /\ given' = given \cup {Execution(i, q, s, row[i].claim)}
        \/ given' = given
  BY DEF AnswerAgain
<1>2. i \in Ids /\ row[i].request = q BY DEF HoldsRequest
<1>3. \A e \in given' : /\ row[e.id].request = e.request
                        /\ row[e.id].claim = e.claim
                        /\ row[e.id].session = e.session
  BY <1>1, <1>2 DEF ClaimBook, Execution
<1> QED BY <1>3 DEF ClaimBook

LEMMA ClaimKeepsClaimBook ==
  ASSUME TypeOK, ClaimBook, NEW i \in Ids, NEW q \in Requests, HoldsRequest(q) = {},
         Claims(i, q), claims' = claims + 1,
         given' = given \cup {Execution(i, q, row[i].session, claims + 1)}
  PROVE  ClaimBook'
<1> USE DeliveryAssumption
<1>1. \A j \in Ids : row[j].claim \in Nat /\ row[j].claim <= claims
                     /\ row[j].request # q
  BY DEF ClaimBook, HoldsRequest, TypeOK
<1>2. claims \in Nat BY DEF TypeOK
<1>3. \A j \in Ids :
        IF row'[j].status \in {"claimed"} \cup Outcomes
        THEN row'[j].request \in Requests /\ row'[j].claim \in 1..claims'
        ELSE row'[j].request = None /\ row'[j].claim = 0
  BY <1>2 DEF ClaimBook, Claims
<1>4. \A j, k \in Ids :
        (\/ row'[j].request = row'[k].request /\ row'[j].request # None
         \/ row'[j].claim = row'[k].claim /\ row'[j].claim # 0) => j = k
  BY <1>1, <1>2 DEF ClaimBook, Claims
<1>5. \A e \in given' : /\ row'[e.id].request = e.request
                        /\ row'[e.id].claim = e.claim
                        /\ row'[e.id].session = e.session
  <2>1. row[i].request = None /\ row[i].claim = 0
    BY DEF ClaimBook, Claims, Outcomes
  <2>2. \A e \in given : e.id \in Ids /\ e.request \in Requests BY DEF TypeOK, Executions
  <2>3. \A e \in given : e.id # i BY <2>1, <2>2 DEF ClaimBook
  <2> QED BY <2>2, <2>3 DEF ClaimBook, Claims, Execution
<1> QED BY <1>3, <1>4, <1>5 DEF ClaimBook

LEMMA ClaimKeepsTheRest ==
  ASSUME TypeOK, KeyBook, AckedOutcomeStands, NEW i \in Ids, NEW q, Claims(i, q),
         UNCHANGED <<confirmed, acked>>
  PROVE  KeyBook' /\ AckedOutcomeStands'
<1>1. \A j \in Ids : /\ row'[j].lane = row[j].lane /\ row'[j].key = row[j].key
                     /\ row'[j].ctx = row[j].ctx /\ row'[j].snap = row[j].snap
                     /\ (row'[j].status = "absent") <=> (row[j].status = "absent")
  BY DEF Claims
<1>2. \A j \in Ids : row[j].status \in Outcomes => row'[j].status = row[j].status
  BY DEF Claims, Outcomes
<1>3. \A a \in confirmed : a.id \in Ids BY DEF TypeOK, Answers
<1>4. \A a \in acked : a.id \in Ids /\ a.outcome \in Outcomes BY DEF TypeOK, Acks
<1>5. KeyBook' BY <1>1, <1>3 DEF KeyBook
<1>6. AckedOutcomeStands' BY <1>2, <1>4 DEF AckedOutcomeStands
<1> QED BY <1>5, <1>6

LEMMA InsertKeepsBooks ==
  ASSUME TypeOK, ClaimBook, KeyBook, AckedOutcomeStands,
         NEW i \in Ids, NEW l, NEW k, NEW x, NEW s, Inserts(i, l, k, x, s),
         Existing(l, k) = {},
         confirmed' = confirmed \cup {Answer(i, l, k, x, s)},
         UNCHANGED <<claims, given, acked>>
  PROVE  ClaimBook' /\ KeyBook' /\ AckedOutcomeStands'
<1> USE DeliveryAssumption
<1>1. ClaimBook'
  <2>1. \A e \in given : e.id \in Ids /\ e.request \in Requests BY DEF TypeOK, Executions
  <2>2. \A e \in given : e.id # i
    BY <2>1 DEF ClaimBook, Inserts, Outcomes
  <2>3. "pending" \notin {"claimed"} \cup Outcomes BY DEF Outcomes
  <2> QED BY <2>1, <2>2, <2>3 DEF ClaimBook, Inserts
<1>2. KeyBook'
  <2>1. \A a \in confirmed : a.id \in Ids BY DEF TypeOK, Answers
  <2>2. \A j \in Ids : row[j].status # "absent" => ~ (row[j].lane = l /\ row[j].key = k)
    BY DEF Existing
  <2>3. \A j, m \in Ids :
          (/\ row'[j].status # "absent" /\ row'[m].status # "absent"
           /\ row'[j].lane = row'[m].lane /\ row'[j].key = row'[m].key) => j = m
    BY <2>2 DEF KeyBook, Inserts
  <2>4. \A a \in confirmed' : /\ row'[a.id].status # "absent"
                              /\ row'[a.id].lane = a.lane /\ row'[a.id].key = a.key
                              /\ row'[a.id].ctx = a.ctx /\ row'[a.id].snap = a.snap
    <3>1. \A a \in confirmed : a.id # i BY DEF KeyBook, Inserts
    <3> QED BY <2>1, <3>1 DEF KeyBook, Inserts, Answer
  <2> QED BY <2>3, <2>4 DEF KeyBook
<1>3. AckedOutcomeStands'
  <2>1. \A a \in acked : a.id \in Ids /\ a.outcome \in Outcomes BY DEF TypeOK, Acks
  <2>2. \A a \in acked : a.id # i BY <2>1 DEF AckedOutcomeStands, Inserts, Outcomes
  <2> QED BY <2>1, <2>2 DEF AckedOutcomeStands, Inserts
<1> QED BY <1>1, <1>2, <1>3

-----------------------------------------------------------------------------
(* The write lock. *)

\* A step that leaves the handlers alone, and the table too unless the lock is
\* free, keeps the lock discipline.
LEMMA TableStepKeepsLock ==
  ASSUME LockDiscipline, UNCHANGED handler, WriteLockFree \/ UNCHANGED row
  PROVE  LockDiscipline'
BY DEF LockDiscipline, WriteLockFree

\* A handler that lets the lock go, or never had it, keeps it too.
LEMMA ReleaseKeepsLock ==
  ASSUME TypeOK, LockDiscipline, NEW h \in Handlers,
         \A g \in Handlers \ {h} : handler'[g] = handler[g],
         handler'[h].pc \notin {"check", "commit"},
         \/ UNCHANGED row
         \/ WriteLockFree
         \/ handler[h].pc \in {"check", "commit"}
  PROVE  LockDiscipline'
<1>1. \A g \in Handlers \ {h} :
        handler[g].pc \in {"check", "commit"} => UNCHANGED row
  BY DEF LockDiscipline, WriteLockFree
<1> QED BY <1>1 DEF LockDiscipline

LEMMA ReturnShape ==
  ASSUME TypeOK, NEW h \in Handlers, Return(h)
  PROVE  /\ \A g \in Handlers \ {h} : handler'[g] = handler[g]
         /\ handler'[h].pc \notin {"check", "commit"}
BY DEF TypeOK, Return, Idle

LEMMA StepLock == TypeOK /\ LockDiscipline /\ [Next]_deliveryVars => LockDiscipline'
<1> SUFFICES ASSUME TypeOK, LockDiscipline, [Next]_deliveryVars PROVE LockDiscipline' OBVIOUS
<1>1. ASSUME NEW l \in Lanes, NEW k \in Keys, NEW x \in Contexts, NEW s \in 1..MaxSnap,
             Create(l, k, x, s)
      PROVE  LockDiscipline'
  BY <1>1, TableStepKeepsLock DEF Create
<1>2. ASSUME NEW h \in Handlers, NEW q \in Requests, NEW s \in Sessions, Lookup(h, q, s)
      PROVE  LockDiscipline'
  <2>1. CASE UNCHANGED handler BY <1>2, <2>1, TableStepKeepsLock DEF Lookup
  <2>2. CASE handler' = [handler EXCEPT ![h] =
                         [Idle EXCEPT !.pc = "list", !.request = q, !.session = s]]
    BY <1>2, <2>2, ReleaseKeepsLock DEF Lookup, TypeOK, Idle
  <2> QED BY <1>2, <2>1, <2>2 DEF Lookup
<1>3. ASSUME NEW h \in Handlers, List(h) PROVE LockDiscipline'
  <2>1. /\ \A g \in Handlers \ {h} : handler'[g] = handler[g]
        /\ handler'[h].pc \notin {"check", "commit"}
    BY <1>3 DEF List, TypeOK, HandlerStates, HandlerRecords
  <2> QED BY <1>3, <2>1, ReleaseKeepsLock DEF List
<1>4. ASSUME NEW h \in Handlers, Begin(h) PROVE LockDiscipline'
  <2>1. PICK i \in Oldest(handler[h].todo) :
       \/ handler' = [handler EXCEPT ![h].todo = @ \ {i}]
       \/ /\ row[i].status = "pending"
          /\ TakeCandidate(h, i)
          /\ UNCHANGED row
    BY <1>4 DEF Begin
  <2>2. i \in Ids BY <2>1 DEF Oldest, TypeOK, HandlerStates, HandlerRecords
  <2>3. CASE handler' = [handler EXCEPT ![h].todo = @ \ {i}]
    <3>1. /\ \A g \in Handlers \ {h} : handler'[g] = handler[g]
          /\ handler'[h].pc \notin {"check", "commit"}
      BY <1>4, <2>3 DEF Begin, TypeOK, HandlerStates, HandlerRecords
    <3> QED BY <1>4, <3>1, ReleaseKeepsLock DEF Begin
  <2>4. CASE /\ row[i].status = "pending"
             /\ TakeCandidate(h, i)
             /\ UNCHANGED row
    <3>1. /\ \A g \in Handlers \ {h} : handler'[g] = handler[g]
          /\ handler'[h].pc = "check" /\ handler'[h].cur = i
      BY <2>4 DEF TakeCandidate, TypeOK, HandlerStates, HandlerRecords
    <3>2. \A g \in Handlers \ {h} : handler'[g].pc \notin {"check", "commit"}
      BY <1>4, <3>1 DEF Begin, WriteLockFree
    <3> QED BY <2>4, <3>1, <3>2 DEF LockDiscipline
  <2> QED BY <2>1, <2>3, <2>4
<1>5. ASSUME NEW h \in Handlers, Exhausted(h) \/ Abort(h) PROVE LockDiscipline'
  BY <1>5, ReturnShape, ReleaseKeepsLock DEF Exhausted, Abort
<1>6. ASSUME NEW h \in Handlers, Judge(h) PROVE LockDiscipline'
  <2>0. handler[h].pc = "check" BY <1>6 DEF Judge
  <2>1. CASE Goto(h, "next")
    <3>1. /\ \A g \in Handlers \ {h} : handler'[g] = handler[g]
          /\ handler'[h].pc \notin {"check", "commit"}
      BY <2>1 DEF Goto, TypeOK, HandlerStates, HandlerRecords
    <3> QED BY <2>0, <3>1, ReleaseKeepsLock
  <2>2. CASE Return(h) BY <2>0, <2>2, ReturnShape, ReleaseKeepsLock
  <2>3. CASE /\ handler[h].session = row[handler[h].cur].session
             /\ handler' = [handler EXCEPT ![h].pc = "commit"]
             /\ UNCHANGED row
    <3>1. /\ \A g \in Handlers \ {h} : handler'[g] = handler[g]
          /\ handler'[h].pc = "commit" /\ handler'[h].cur = handler[h].cur
          /\ handler'[h].session = handler[h].session
      BY <2>3 DEF TypeOK, HandlerStates, HandlerRecords
    <3> QED BY <2>0, <2>3, <3>1 DEF LockDiscipline
  <2> QED BY <1>6, <2>1, <2>2, <2>3 DEF Judge
<1>7. ASSUME NEW h \in Handlers, Commit(h) PROVE LockDiscipline'
  BY <1>7, ReturnShape, ReleaseKeepsLock DEF Commit
<1>8. ASSUME NEW i \in Ids, NEW o \in Outcomes, NEW e \in Evidence, NEW c \in 1..claims,
             Complete(i, c, o, e)
      PROVE  LockDiscipline'
  BY <1>8, TableStepKeepsLock DEF Complete
<1>9. ASSUME NEW i \in Ids, Cancel(i) \/ InvalidatePending(i) PROVE LockDiscipline'
  BY <1>9, TableStepKeepsLock DEF Cancel, InvalidatePending
<1>10. CASE Reconcile BY <1>10, TableStepKeepsLock DEF Reconcile
<1>11. ASSUME NEW l \in Lanes, ContextChange(l) \/ Rebind(l) \/ PresenceFlip(l)
       PROVE  LockDiscipline'
  BY <1>11, TableStepKeepsLock DEF ContextChange, Rebind, PresenceFlip
<1>12. CASE Tick BY <1>12, TableStepKeepsLock DEF Tick
<1>13. CASE UNCHANGED deliveryVars BY <1>13, TableStepKeepsLock DEF deliveryVars
<1> QED
  BY <1>1, <1>2, <1>3, <1>4, <1>5, <1>6, <1>7, <1>8, <1>9, <1>10, <1>11, <1>12, <1>13
  DEF Next, HandlerStep

-----------------------------------------------------------------------------
(* Every step, seen as what it does to the rows and to the histories. *)

Quiet == /\ \A i \in Ids : Moves(i)
         /\ UNCHANGED <<claims, confirmed, given, acked>>

LEMMA QuietSteps ==
  ASSUME TypeOK, LockDiscipline,
         \/ \E h \in Handlers : \/ List(h) \/ Begin(h) \/ Exhausted(h) \/ Judge(h) \/ Abort(h)
         \/ \E i \in Ids : Cancel(i) \/ InvalidatePending(i)
         \/ Reconcile
         \/ \E l \in Lanes : ContextChange(l) \/ Rebind(l) \/ PresenceFlip(l)
         \/ Tick
         \/ UNCHANGED deliveryVars
  PROVE  Quiet
<1>1. ASSUME UNCHANGED <<row, claims, confirmed, given, acked>> PROVE Quiet
  BY <1>1 DEF Quiet, Moves
<1>2. ASSUME NEW h \in Handlers, List(h) \/ Exhausted(h) \/ Abort(h) PROVE Quiet
  BY <1>1, <1>2 DEF List, Exhausted, Abort
<1>3. ASSUME NEW h \in Handlers, Begin(h) PROVE Quiet
  <2>1. PICK i \in Oldest(handler[h].todo) :
          UNCHANGED row \/ Transition(i, "pending", "expired", None)
    BY <1>3 DEF Begin
  <2>2. i \in Ids BY <2>1 DEF Oldest, TypeOK, HandlerStates, HandlerRecords
  <2>3. UNCHANGED <<claims, confirmed, given, acked>> BY <1>3 DEF Begin
  <2>4. CASE UNCHANGED row BY <1>1, <2>3, <2>4
  <2>5. CASE Transition(i, "pending", "expired", None)
    BY <2>2, <2>3, <2>5, TransitionMoves, StatusFacts DEF Quiet
  <2> QED BY <2>1, <2>4, <2>5
<1>4. ASSUME NEW h \in Handlers, Judge(h) PROVE Quiet
  BY <1>4, JudgeMoves DEF Judge, Quiet
<1>5. ASSUME NEW i \in Ids, Cancel(i) \/ InvalidatePending(i) PROVE Quiet
  BY <1>5, TransitionMoves, StatusFacts DEF Cancel, InvalidatePending, Quiet
<1>6. CASE Reconcile BY <1>6, ReconcileMoves DEF Reconcile, Quiet
<1>7. ASSUME NEW l \in Lanes, ContextChange(l) \/ Rebind(l) \/ PresenceFlip(l) PROVE Quiet
  BY <1>1, <1>7 DEF ContextChange, Rebind, PresenceFlip
<1>8. CASE Tick BY <1>1, <1>8 DEF Tick
<1>9. CASE UNCHANGED deliveryVars BY <1>1, <1>9 DEF deliveryVars
<1> QED BY <1>2, <1>3, <1>4, <1>5, <1>6, <1>7, <1>8, <1>9

LEMMA StepBooks ==
  TypeOK /\ LockDiscipline /\ ClaimBook /\ KeyBook /\ AckedOutcomeStands /\ [Next]_deliveryVars
    => ClaimBook' /\ KeyBook' /\ AckedOutcomeStands'
<1> SUFFICES ASSUME TypeOK, LockDiscipline, ClaimBook, KeyBook, AckedOutcomeStands,
                    [Next]_deliveryVars
             PROVE  ClaimBook' /\ KeyBook' /\ AckedOutcomeStands'
  OBVIOUS
<1>1. CASE Quiet
  BY <1>1, MovesKeepClaimBook, MovesKeepKeyBook, MovesKeepAcks DEF Quiet
<1>2. ASSUME NEW l \in Lanes, NEW k \in Keys, NEW x \in Contexts, NEW s \in 1..MaxSnap,
             Create(l, k, x, s)
      PROVE  ClaimBook' /\ KeyBook' /\ AckedOutcomeStands'
  <2>1. CASE Replay(l, k, x, s)
    <3>1. UNCHANGED <<row, claims, given, acked>> BY <1>2, <2>1 DEF Create, Replay
    <3>2. PICK i \in Existing(l, k) :
            /\ row[i].ctx = x /\ row[i].snap = s
            /\ confirmed' = confirmed \cup {Answer(i, l, k, x, s)}
      BY <2>1 DEF Replay, SameFingerprint
    <3>3. ClaimBook' BY <3>1 DEF ClaimBook
    <3>4. AckedOutcomeStands' BY <3>1 DEF AckedOutcomeStands
    <3>5. KeyBook' BY <3>1, <3>2 DEF KeyBook, Existing, Answer
    <3> QED BY <3>3, <3>4, <3>5
  <2>2. CASE Insert(l, k, x, s)
    <3>1. UNCHANGED <<claims, given, acked>> BY <1>2 DEF Create
    <3>2. Existing(l, k) = {} BY <2>2 DEF Insert
    <3> QED BY <2>2, <3>1, <3>2, InsertShape, InsertKeepsBooks
  <2> QED BY <1>2, <2>1, <2>2 DEF Create
<1>3. ASSUME NEW h \in Handlers, NEW q \in Requests, NEW s \in Sessions, Lookup(h, q, s)
      PROVE  ClaimBook' /\ KeyBook' /\ AckedOutcomeStands'
  <2>1. UNCHANGED <<row, claims, confirmed, acked>> BY <1>3 DEF Lookup
  <2>2. KeyBook' /\ AckedOutcomeStands' BY <2>1 DEF KeyBook, AckedOutcomeStands
  <2>3. CASE AnswerAgain(q, s) BY <2>1, <2>2, <2>3, AnswerAgainKeepsClaimBook
  <2>4. CASE UNCHANGED given BY <2>1, <2>2, <2>4 DEF ClaimBook
  <2> QED BY <1>3, <2>3, <2>4 DEF Lookup
<1>4. ASSUME NEW h \in Handlers, Commit(h)
      PROVE  ClaimBook' /\ KeyBook' /\ AckedOutcomeStands'
  <2>1. UNCHANGED <<confirmed, acked>> BY <1>4 DEF Commit
  <2>2. handler[h].request \in Requests /\ handler[h].session \in Sessions
    BY <1>4 DEF Commit, TypeOK, HandlerStates, HandlerRecords
  <2>3. CASE /\ AnswerAgain(handler[h].request, handler[h].session)
             /\ UNCHANGED <<row, claims>>
    <3>1. KeyBook' /\ AckedOutcomeStands' BY <2>1, <2>3 DEF KeyBook, AckedOutcomeStands
    <3> QED BY <2>2, <2>3, <3>1, AnswerAgainKeepsClaimBook
  <2>4. CASE /\ HoldsRequest(handler[h].request) = {}
             /\ handler[h].cur \in Ids /\ handler[h].request \in Requests
             /\ handler[h].session = row[handler[h].cur].session
             /\ Claims(handler[h].cur, handler[h].request)
             /\ claims' = claims + 1
             /\ given' = given \cup {Execution(handler[h].cur, handler[h].request,
                                               handler[h].session, claims + 1)}
    BY <2>1, <2>4, ClaimKeepsClaimBook, ClaimKeepsTheRest
  <2> QED BY <1>4, <2>3, <2>4, CommitShape
<1>5. ASSUME NEW i \in Ids, NEW o \in Outcomes, NEW e \in Evidence, NEW c \in 1..claims,
             Complete(i, c, o, e)
      PROVE  ClaimBook' /\ KeyBook' /\ AckedOutcomeStands'
  <2>1. \A j \in Ids : Moves(j) BY <1>5, CompleteMoves
  <2>2. UNCHANGED <<claims, given, confirmed>> BY <1>5 DEF Complete
  <2>3. ClaimBook' /\ KeyBook' BY <2>1, <2>2, MovesKeepClaimBook, MovesKeepKeyBook
  <2>4. \A j \in Ids : row[j].status \in Outcomes => row'[j].status = row[j].status
    BY <2>1 DEF Moves, Outcomes
  <2>5. \A a \in acked : a.id \in Ids /\ a.outcome \in Outcomes BY DEF TypeOK, Acks
  <2>6. \A a \in acked' \ acked : a.id = i /\ a.outcome = o /\ row'[i].status = o
    <3>1. CASE UNCHANGED acked BY <3>1
    <3>2. CASE /\ row[i].status = o /\ Ack(i, o) /\ UNCHANGED row BY <3>2 DEF Ack
    <3>3. CASE Transition(i, "claimed", o, e) /\ Ack(i, o)
      <4>1. row[i] \in Rows BY DEF TypeOK
      <4>2. row'[i].status = o
        BY <3>3, <4>1, EndedColumns DEF Transition, TypeOK
      <4> QED BY <3>3, <4>2 DEF Ack
    <3> QED BY <1>5, <3>1, <3>2, <3>3 DEF Complete
  <2>7. AckedOutcomeStands' BY <2>4, <2>5, <2>6 DEF AckedOutcomeStands
  <2> QED BY <2>3, <2>7
<1> QED BY <1>1, <1>2, <1>3, <1>4, <1>5, QuietSteps DEF Next, HandlerStep

LEMMA InitInv == Init => IInv
<1> SUFFICES ASSUME Init PROVE IInv OBVIOUS
<1>1. TypeOK BY InitType
<1>2. LockDiscipline BY DEF Init, LockDiscipline, Idle
<1>3. ClaimBook BY DEF Init, ClaimBook, NoRow, Outcomes
<1>4. KeyBook BY DEF Init, KeyBook, NoRow
<1>5. AckedOutcomeStands BY DEF Init, AckedOutcomeStands
<1> QED BY <1>1, <1>2, <1>3, <1>4, <1>5 DEF IInv

LEMMA StepInv == IInv /\ [Next]_deliveryVars => IInv'
BY StepType, StepLock, StepBooks DEF IInv

LEMMA Invariance == Spec => []IInv
<1> QED BY InitInv, StepInv, PTL DEF Spec

-----------------------------------------------------------------------------
(* What follows from it. *)

LEMMA ExecutionFromBook == IInv => OneExecution
<1> SUFFICES ASSUME IInv, NEW e \in given, NEW f \in given
             PROVE  /\ (e.request = f.request \/ e.id = f.id \/ e.claim = f.claim) => e = f
                    /\ e.session = row[e.id].session
  BY DEF OneExecution
<1> USE DeliveryAssumption DEF IInv
<1>1. e \in Executions /\ f \in Executions BY DEF TypeOK
<1>2. /\ row[e.id].request = e.request /\ row[e.id].claim = e.claim
      /\ row[e.id].session = e.session
      /\ row[f.id].request = f.request /\ row[f.id].claim = f.claim
      /\ row[f.id].session = f.session
  BY DEF ClaimBook
<1>3. e.id \in Ids /\ f.id \in Ids /\ e.request \in Requests /\ f.request \in Requests
  BY <1>1 DEF Executions
<1>4. row[e.id].claim # 0 /\ row[f.id].claim # 0
  BY <1>2, <1>3 DEF ClaimBook, TypeOK
<1>5. ASSUME e.request = f.request \/ e.id = f.id \/ e.claim = f.claim PROVE e = f
  <2>1. e.id = f.id BY <1>2, <1>3, <1>4, <1>5 DEF ClaimBook
  <2>2. e.request = f.request /\ e.claim = f.claim /\ e.session = f.session
    BY <1>2, <2>1
  <2> QED BY <1>1, <2>1, <2>2 DEF Executions
<1> QED BY <1>2, <1>5

LEMMA KeyFromBook == IInv => KeyBindsOneCommand
<1> SUFFICES ASSUME IInv, NEW a \in confirmed, NEW b \in confirmed,
                    a.lane = b.lane, a.key = b.key
             PROVE  a = b
  BY DEF KeyBindsOneCommand
<1>1. a \in Answers /\ b \in Answers BY DEF IInv, TypeOK
<1>2. a.id \in Ids /\ b.id \in Ids BY <1>1 DEF Answers
<1>3. a.id = b.id BY <1>2 DEF IInv, KeyBook
<1>4. a.ctx = b.ctx /\ a.snap = b.snap BY <1>3 DEF IInv, KeyBook
<1> QED BY <1>1, <1>3, <1>4 DEF Answers

\* Whatever races with whatever, one claim request obtains one command and one
\* command is handed to one request, one session and one claim id.
THEOREM AtMostOnce == Spec => []OneExecution
BY Invariance, ExecutionFromBook, PTL

\* An idempotency key stands for one command for ever.
THEOREM Idempotence == Spec => []KeyBindsOneCommand
BY Invariance, KeyFromBook, PTL

\* A completion that was answered with success is never rewritten.
THEOREM AckedIsFinal == Spec => []AckedOutcomeStands
<1>1. IInv => AckedOutcomeStands BY DEF IInv
<1> QED BY <1>1, Invariance, PTL

\* The candidate a claim commits is the pending row it read under the lock.
THEOREM LockHolds == Spec => []LockDiscipline
<1>1. IInv => LockDiscipline BY DEF IInv
<1> QED BY <1>1, Invariance, PTL

\* Every step moves rows to their ends, inserts one row, or grants one claim.
LEMMA StepShape ==
  ASSUME IInv, [Next]_deliveryVars
  PROVE  \/ \A i \in Ids : Moves(i)
         \/ \E i \in Ids, l \in Lanes, k \in Keys, x \in Contexts, s \in 1..MaxSnap :
              Inserts(i, l, k, x, s)
         \/ \E i \in Ids, q \in Requests : Claims(i, q) /\ HoldsRequest(q) = {}
<1> USE DEF IInv
<1>1. ASSUME UNCHANGED row PROVE \A i \in Ids : Moves(i) BY <1>1 DEF Moves
<1>2. CASE Quiet BY <1>2 DEF Quiet
<1>3. ASSUME NEW l \in Lanes, NEW k \in Keys, NEW x \in Contexts, NEW s \in 1..MaxSnap,
             Create(l, k, x, s)
      PROVE  \/ \A i \in Ids : Moves(i)
             \/ \E i \in Ids : Inserts(i, l, k, x, s)
  <2>1. CASE Replay(l, k, x, s) BY <1>1, <2>1 DEF Replay
  <2>2. CASE Insert(l, k, x, s) BY <2>2, InsertShape
  <2> QED BY <1>3, <2>1, <2>2 DEF Create
<1>4. ASSUME NEW h \in Handlers, NEW q \in Requests, NEW s \in Sessions, Lookup(h, q, s)
      PROVE  \A i \in Ids : Moves(i)
  BY <1>1, <1>4 DEF Lookup
<1>5. ASSUME NEW h \in Handlers, Commit(h)
      PROVE  \/ \A i \in Ids : Moves(i)
             \/ \E i \in Ids, q \in Requests : Claims(i, q) /\ HoldsRequest(q) = {}
  BY <1>1, <1>5, CommitShape
<1>6. ASSUME NEW i \in Ids, NEW o \in Outcomes, NEW e \in Evidence, NEW c \in 1..claims,
             Complete(i, c, o, e)
      PROVE  \A j \in Ids : Moves(j)
  BY <1>6, CompleteMoves
<1> QED BY <1>2, <1>3, <1>4, <1>5, <1>6, QuietSteps DEF Next, HandlerStep

\* No transition leaves a settled status, and none leads from claimed back to
\* pending or to another claim.
THEOREM NothingReopens == Spec => NeverReopened
<1> DEFINE Fixed(i) ==
       /\ row[i].status \in Settled => row'[i] = row[i]
       /\ row[i].status = "claimed" =>
            /\ row'[i].status \in {"claimed"} \cup Outcomes
            /\ row'[i].claim = row[i].claim /\ row'[i].request = row[i].request
<1>1. ASSUME IInv, [Next]_deliveryVars, NEW i \in Ids PROVE Fixed(i)
  <2>0. /\ "pending" \notin Settled /\ "claimed" \notin Settled /\ "absent" \notin Settled
    BY DEF Settled, Outcomes, Withdrawn
  <2>1. CASE Moves(i) BY <2>0, <2>1 DEF Moves, SameColumns
  <2>2. ASSUME NEW j \in Ids, NEW l, NEW k, NEW x, NEW s, Inserts(j, l, k, x, s) PROVE Fixed(i)
    BY <2>0, <2>2 DEF Inserts
  <2>3. ASSUME NEW j \in Ids, NEW q, Claims(j, q) PROVE Fixed(i)
    BY <2>0, <2>3 DEF Claims
  <2> QED BY <1>1, <2>1, <2>2, <2>3, StepShape
<1>2. IInv /\ [Next]_deliveryVars => [\A i \in Ids : Fixed(i)]_deliveryVars
  BY <1>1
<1> QED BY <1>2, Invariance, PTL DEF Spec, NeverReopened

\* Exactly the claimed commands carry a request and a claim id, and no two
\* carry the same.
THEOREM ClaimsOnBook == Spec => []ClaimBook
<1>1. IInv => ClaimBook BY DEF IInv
<1> QED BY <1>1, Invariance, PTL

-----------------------------------------------------------------------------
(* Time.  A row is timely if no deadline was missed or anticipated in it;  *)
(* a handler that commits compared the expiry when it began.               *)

Timely(r) ==
  /\ r.status \in {"absent", "pending", "claimed"} => r.evidence = None
  /\ r.claim # 0 => r.claimed < Expires(r)
  /\ r.evidence # None => r.ended < Deadline(r)
  /\ r.status = "expired" => r.ended + 1 >= Expires(r)
  /\ r.status = "uncertain" /\ r.evidence = None => r.ended + 1 >= Deadline(r)

TimeBook ==
  /\ \A i \in Ids : Timely(row[i])
  /\ \A h \in Handlers : handler[h].pc \in {"check", "commit"} =>
       handler[h].at < Expires(row[handler[h].cur])

\* Compared as text, stamps are out of order by a second at the most.
LEMMA StampsNearly == \A a, b \in Nat : StampLeq(a, b) => b + 1 >= a
<1> SUFFICES ASSUME NEW a \in Nat, NEW b \in Nat, StampLeq(a, b), a >= b + 2 PROVE FALSE
  OBVIOUS
<1>1. StampRank(a) <= StampRank(b)
  BY DEF StampLeq
<1>2. StampRank(a) \in {a - 1, a + 1} /\ StampRank(b) \in {b - 1, b + 1}
  BY DEF StampRank
<1>3. a = b + 2
  BY <1>1, <1>2
<1>4. a % 2 = b % 2
  BY <1>3
<1> QED
  BY <1>1, <1>3, <1>4 DEF StampRank

\* How a row ends: withdrawn, expired, given up, or with evidence in time.
EndsTimely(r, t, e) ==
  \/ t \in {"cancelled", "invalidated"} /\ e = None
  \/ t = "expired" /\ e = None /\ now + 1 >= Expires(r)
  \/ t = "uncertain" /\ e = None /\ now + 1 >= Deadline(r)
  \/ t \in Outcomes /\ e # None /\ now < Deadline(r)

LEMMA EndedTimely ==
  ASSUME NEW r \in Rows, Timely(r), now \in Nat, NEW t, NEW e, EndsTimely(r, t, e)
  PROVE  Timely(Ended(r, t, e))
<1> DEFINE w == Ended(r, t, e)
<1>1. /\ w.status = t /\ w.evidence = e /\ w.ended = now /\ w.claim = r.claim
      /\ w.claimed = r.claimed /\ w.created = r.created
  BY DEF Ended, Rows
<1>2. Expires(w) = Expires(r) /\ Deadline(w) = Deadline(r)
  BY <1>1 DEF Expires, Deadline
<1> HIDE DEF w
<1>3. r.claim # 0 => r.claimed < Expires(r)
  BY DEF Timely
<1>4. Timely(w)
  BY <1>1, <1>2, <1>3 DEF Timely, EndsTimely, Outcomes
<1> QED
  BY <1>4 DEF w

\* A step of the table alone keeps the book if it keeps every row timely and
\* every candidate where it is.
LEMMA TableKeepsTime ==
  ASSUME TimeBook, UNCHANGED handler, \A i \in Ids : Timely(row'[i]),
         WriteLockFree \/ UNCHANGED row
  PROVE  TimeBook'
<1>1. \A i \in Ids : Timely(row[i])'
  BY DEF Timely, Expires, Deadline
<1>2. \A h \in Handlers : handler[h].pc \in {"check", "commit"} => row' = row
  BY DEF WriteLockFree
<1> QED
  BY <1>1, <1>2 DEF TimeBook, Expires

LEMMA TransitionKeepsTime ==
  ASSUME TypeOK, TimeBook, NEW i \in Ids, NEW f, NEW t, NEW e, Transition(i, f, t, e),
         EndsTimely(row[i], t, e)
  PROVE  \A j \in Ids : Timely(row'[j])
<1>1. row[i] \in Rows /\ now \in Nat /\ row \in [Ids -> Rows]
  BY DEF TypeOK
<1>2. row'[i] = Ended(row[i], t, e) /\ \A j \in Ids \ {i} : row'[j] = row[j]
  BY <1>1 DEF Transition
<1> QED
  BY <1>1, <1>2, EndedTimely DEF TimeBook

\* A handler that lets the write lock go, or does not take it, has no candidate.
LEMMA HandlerKeepsTime ==
  ASSUME TypeOK, TimeBook, LockDiscipline, NEW h \in Handlers, \A i \in Ids : Timely(row'[i]),
         \A g \in Handlers \ {h} : handler'[g] = handler[g],
         handler'[h].pc \notin {"check", "commit"},
         UNCHANGED row \/ WriteLockFree \/ handler[h].pc \in {"check", "commit"}
  PROVE  TimeBook'
<1>1. \A i \in Ids : Timely(row[i])'
  BY DEF Timely, Expires, Deadline
<1>2. \A g \in Handlers \ {h} : handler[g].pc \in {"check", "commit"} => row' = row
  BY DEF WriteLockFree, LockDiscipline
<1> QED
  BY <1>1, <1>2 DEF TimeBook, Expires

LEMMA CreateTime ==
  ASSUME IInv, TimeBook, NEW l \in Lanes, NEW k \in Keys, NEW x \in Contexts,
         NEW s \in 1..MaxSnap, Create(l, k, x, s)
  PROVE  TimeBook'
<1>1. WriteLockFree /\ UNCHANGED handler
  BY DEF Create
<1>2. CASE UNCHANGED row
  BY <1>1, <1>2, TableKeepsTime DEF TimeBook
<1>3. CASE Insert(l, k, x, s)
  <2> PICK i \in Ids :
         row' = [row EXCEPT ![i] =
                   [NoRow EXCEPT !.status = "pending", !.lane = l, !.key = k,
                      !.ctx = x, !.snap = s, !.session = binding[l].session,
                      !.created = now]]
    BY <1>3 DEF Insert
  <2>1. /\ row'[i].status = "pending" /\ row'[i].claim = 0 /\ row'[i].evidence = None
        /\ \A j \in Ids \ {i} : row'[j] = row[j]
    BY DEF NoRow, IInv, TypeOK
  <2>2. Timely(row'[i])
    BY <2>1 DEF Timely
  <2>3. \A j \in Ids : Timely(row'[j])
    BY <2>1, <2>2 DEF TimeBook
  <2> QED
    BY <1>1, <2>3, TableKeepsTime
<1> QED
  BY <1>2, <1>3 DEF Create, Replay

LEMMA BeginTime ==
  ASSUME IInv, TimeBook, NEW h \in Handlers, Begin(h)
  PROVE  TimeBook'
<1> USE DEF IInv
<1>1. PICK i \in Oldest(handler[h].todo) :
        \/ /\ handler' = [handler EXCEPT ![h].todo = @ \ {i}]
           /\ UNCHANGED row
        \/ /\ now >= Expires(row[i])
           /\ Transition(i, "pending", "expired", None)
           /\ handler' = [handler EXCEPT ![h].todo = @ \ {i}]
        \/ /\ now < Expires(row[i])
           /\ TakeCandidate(h, i)
           /\ UNCHANGED row
  BY DEF Begin
<1>2. /\ i \in Ids /\ row[i] \in Rows /\ now \in Nat /\ handler[h] \in HandlerRecords
      /\ handler[h].pc = "next" /\ WriteLockFree /\ handler \in [Handlers -> HandlerStates]
  BY <1>1 DEF Begin, Oldest, TypeOK, HandlerStates, HandlerRecords
<1>3. ASSUME handler' = [handler EXCEPT ![h].todo = @ \ {i}]
      PROVE  /\ \A g \in Handlers \ {h} : handler'[g] = handler[g]
             /\ handler'[h].pc \notin {"check", "commit"}
  BY <1>2, <1>3 DEF HandlerRecords
<1>4. CASE handler' = [handler EXCEPT ![h].todo = @ \ {i}] /\ UNCHANGED row
  BY <1>3, <1>4, HandlerKeepsTime DEF TimeBook
<1>5. CASE /\ now >= Expires(row[i])
           /\ Transition(i, "pending", "expired", None)
           /\ handler' = [handler EXCEPT ![h].todo = @ \ {i}]
  <2>1. now + 1 >= Expires(row[i])
    BY <1>2, <1>5, DeliveryAssumption DEF Expires, Rows
  <2>2. EndsTimely(row[i], "expired", None)
    BY <2>1 DEF EndsTimely
  <2>3. \A j \in Ids : Timely(row'[j])
    BY <1>2, <1>5, <2>2, TransitionKeepsTime
  <2> QED
    BY <1>2, <1>3, <1>5, <2>3, HandlerKeepsTime
<1>6. CASE now < Expires(row[i]) /\ TakeCandidate(h, i) /\ UNCHANGED row
  <2>1. /\ handler'[h].cur = i /\ handler'[h].at = now
        /\ \A g \in Handlers \ {h} : handler'[g] = handler[g]
    BY <1>2, <1>6 DEF TakeCandidate, HandlerRecords
  <2>2. \A j \in Ids : Timely(row[j])'
    BY <1>6 DEF TimeBook, Timely, Expires, Deadline
  <2> QED
    BY <1>6, <2>1, <2>2 DEF TimeBook, Expires
<1> QED
  BY <1>1, <1>4, <1>5, <1>6

LEMMA JudgeTime ==
  ASSUME IInv, TimeBook, NEW h \in Handlers, Judge(h)
  PROVE  TimeBook'
<1> USE DEF IInv
<1> DEFINE i == handler[h].cur
<1>1. /\ i \in Ids /\ row[i].status = "pending" /\ row[i] \in Rows /\ handler[h].pc = "check"
      /\ row[i].evidence = None /\ row[i].claim = 0 /\ handler \in [Handlers -> HandlerStates]
  BY DEF Judge, TypeOK, HandlerStates, LockDiscipline, ClaimBook, Outcomes, TimeBook, Timely
<1>2. CASE /\ row' = [row EXCEPT ![i] = [Ended(row[i], "invalidated", None)
                                          EXCEPT !.ended = handler[h].at]]
           /\ Goto(h, "next")
  <2>1. /\ row'[i].status = "invalidated" /\ row'[i].claim = 0 /\ row'[i].evidence = None
        /\ \A j \in Ids \ {i} : row'[j] = row[j]
    BY <1>1, <1>2 DEF Ended, Rows, TypeOK
  <2>2. \A j \in Ids : Timely(row'[j])
    BY <2>1 DEF Timely, TimeBook
  <2>3. handler'[h].pc = "next" /\ \A g \in Handlers \ {h} : handler'[g] = handler[g]
    BY <1>1, <1>2 DEF Goto, HandlerStates, HandlerRecords
  <2> QED
    BY <1>1, <2>2, <2>3, HandlerKeepsTime
<1>3. CASE Return(h) /\ UNCHANGED row
  BY <1>3, ReturnShape, HandlerKeepsTime DEF TimeBook
<1>4. CASE handler' = [handler EXCEPT ![h].pc = "commit"] /\ UNCHANGED row
  <2>1. /\ \A g \in Handlers \ {h} : handler'[g] = handler[g]
        /\ handler'[h].cur = i /\ handler'[h].at = handler[h].at
    BY <1>1, <1>4 DEF HandlerStates, HandlerRecords
  <2>2. \A j \in Ids : Timely(row[j])'
    BY <1>4 DEF TimeBook, Timely, Expires, Deadline
  <2> QED
    BY <1>1, <1>4, <2>1, <2>2 DEF TimeBook, Expires
<1> QED
  BY <1>2, <1>3, <1>4 DEF Judge

LEMMA CommitTime ==
  ASSUME IInv, TimeBook, NEW h \in Handlers, Commit(h)
  PROVE  TimeBook'
<1> USE DEF IInv
<1> DEFINE i == handler[h].cur
<1>1. /\ i \in Ids /\ row[i].status = "pending" /\ row[i] \in Rows /\ handler[h].pc = "commit"
      /\ row[i].evidence = None /\ handler[h].at < Expires(row[i])
  BY DEF Commit, TypeOK, HandlerStates, LockDiscipline, TimeBook, Timely
<1>2. /\ \A g \in Handlers \ {h} : handler'[g] = handler[g]
      /\ handler'[h].pc \notin {"check", "commit"}
  BY ReturnShape DEF Commit
<1>3. CASE UNCHANGED row
  BY <1>2, <1>3, HandlerKeepsTime DEF TimeBook
<1>4. CASE row' = [row EXCEPT ![i] =
                     [row[i] EXCEPT !.status = "claimed", !.request = handler[h].request,
                        !.claim = claims + 1, !.claimed = handler[h].at]]
  <2>1. /\ row'[i].status = "claimed" /\ row'[i].claimed = handler[h].at
        /\ row'[i].evidence = None /\ row'[i].created = row[i].created
        /\ \A j \in Ids \ {i} : row'[j] = row[j]
    BY <1>1, <1>4 DEF Rows, TypeOK
  <2>2. Timely(row'[i])
    BY <1>1, <2>1 DEF Timely, Expires
  <2>3. \A j \in Ids : Timely(row'[j])
    BY <2>1, <2>2 DEF TimeBook
  <2> QED
    BY <1>1, <1>2, <2>3, HandlerKeepsTime
<1> QED
  BY <1>3, <1>4 DEF Commit

LEMMA CompleteTime ==
  ASSUME IInv, TimeBook, NEW i \in Ids, NEW o \in Outcomes, NEW e \in Evidence,
         NEW c \in 1..claims, Complete(i, c, o, e)
  PROVE  TimeBook'
<1> USE DEF IInv
<1>1. row[i] \in Rows /\ now \in Nat /\ UNCHANGED handler
  BY DEF Complete, TypeOK
<1>2. CASE UNCHANGED row
  BY <1>1, <1>2, TableKeepsTime DEF TimeBook
<1>3. CASE WriteLockFree /\ ~InTime(row[i]) /\ Transition(i, "claimed", "uncertain", None)
  <2>1. now + 1 >= Deadline(row[i])
    BY <1>1, <1>3, DeliveryAssumption DEF InTime, Deadline, Rows
  <2>2. EndsTimely(row[i], "uncertain", None)
    BY <2>1 DEF EndsTimely
  <2> QED
    BY <1>1, <1>3, <2>2, TransitionKeepsTime, TableKeepsTime
<1>4. CASE WriteLockFree /\ InTime(row[i]) /\ Transition(i, "claimed", o, e)
  <2>1. EndsTimely(row[i], o, e)
    BY <1>4, DeliveryAssumption DEF EndsTimely, InTime
  <2> QED
    BY <1>1, <1>4, <2>1, TransitionKeepsTime, TableKeepsTime
<1> QED
  BY <1>2, <1>3, <1>4 DEF Complete

LEMMA WithdrawTime ==
  ASSUME IInv, TimeBook, NEW i \in Ids, Cancel(i) \/ InvalidatePending(i)
  PROVE  TimeBook'
<1>1. PICK t \in {"cancelled", "invalidated"} : Transition(i, "pending", t, None)
  BY DEF Cancel, InvalidatePending
<1>2. EndsTimely(row[i], t, None)
  BY DEF EndsTimely
<1>3. \A j \in Ids : Timely(row'[j])
  BY <1>1, <1>2, TransitionKeepsTime DEF IInv
<1> QED
  BY <1>3, TableKeepsTime DEF Cancel, InvalidatePending

LEMMA ReconcileTime ==
  ASSUME IInv, TimeBook, Reconcile
  PROVE  TimeBook'
<1>1. ASSUME NEW i \in Ids PROVE Timely(row'[i])
  <2>1. /\ row[i] \in Rows /\ now \in Nat /\ Timely(row[i]) /\ row'[i] = Reconciled(row[i])
    BY DEF Reconcile, IInv, TypeOK, TimeBook
  <2>2. Expires(row[i]) \in Nat /\ Deadline(row[i]) \in Nat
    BY <2>1, DeliveryAssumption DEF Expires, Deadline, Rows
  <2>3. CASE StampLeq(Expires(row[i]), now) /\ Reconciled(row[i]) = Ended(row[i], "expired", None)
    <3>1. now + 1 >= Expires(row[i])
      BY <2>1, <2>2, <2>3, StampsNearly
    <3>2. EndsTimely(row[i], "expired", None)
      BY <3>1 DEF EndsTimely
    <3> QED
      BY <2>1, <2>3, <3>2, EndedTimely
  <2>4. CASE StampLeq(Deadline(row[i]), now) /\ Reconciled(row[i]) = Ended(row[i], "uncertain", None)
    <3>1. now + 1 >= Deadline(row[i])
      BY <2>1, <2>2, <2>4, StampsNearly
    <3>2. EndsTimely(row[i], "uncertain", None)
      BY <3>1 DEF EndsTimely
    <3> QED
      BY <2>1, <2>4, <3>2, EndedTimely
  <2>5. CASE Reconciled(row[i]) = row[i]
    BY <2>1, <2>5
  <2> QED
    BY <2>3, <2>4, <2>5 DEF Reconciled
<1> QED
  BY <1>1, TableKeepsTime DEF Reconcile

LEMMA StepTime == IInv /\ TimeBook /\ [Next]_deliveryVars => TimeBook'
<1> SUFFICES ASSUME IInv, TimeBook, [Next]_deliveryVars PROVE TimeBook'
  OBVIOUS
<1>1. ASSUME UNCHANGED row, UNCHANGED handler PROVE TimeBook'
  BY <1>1, TableKeepsTime DEF TimeBook
<1>2. ASSUME NEW h \in Handlers, UNCHANGED row, Return(h) PROVE TimeBook'
  BY <1>2, ReturnShape, HandlerKeepsTime DEF TimeBook, IInv
<1>3. ASSUME NEW h \in Handlers, NEW q \in Requests, NEW s \in Sessions, Lookup(h, q, s)
      PROVE  TimeBook'
  <2>1. CASE UNCHANGED handler
    BY <1>1, <1>3, <2>1 DEF Lookup
  <2>2. CASE handler' = [handler EXCEPT ![h] =
                           [Idle EXCEPT !.pc = "list", !.request = q, !.session = s]]
    <3>1. /\ \A g \in Handlers \ {h} : handler'[g] = handler[g]
          /\ handler'[h].pc \notin {"check", "commit"}
      BY <2>2 DEF Idle, IInv, TypeOK
    <3> QED
      BY <1>3, <3>1, HandlerKeepsTime DEF Lookup, TimeBook, IInv
  <2> QED
    BY <1>3, <2>1, <2>2 DEF Lookup
<1>4. ASSUME NEW h \in Handlers, List(h) PROVE TimeBook'
  <2>1. /\ \A g \in Handlers \ {h} : handler'[g] = handler[g]
        /\ handler'[h].pc \notin {"check", "commit"}
    BY <1>4 DEF List, IInv, TypeOK, HandlerStates, HandlerRecords
  <2> QED
    BY <1>4, <2>1, HandlerKeepsTime DEF List, TimeBook, IInv
<1>5. ASSUME NEW h \in Handlers, HandlerStep(h) \/ Abort(h) PROVE TimeBook'
  BY <1>2, <1>4, <1>5, BeginTime, JudgeTime, CommitTime DEF HandlerStep, Exhausted, Abort
<1> QED
  BY <1>1, <1>3, <1>5, CreateTime, CompleteTime, WithdrawTime, ReconcileTime
     DEF Next, ContextChange, Rebind, PresenceFlip, Tick, deliveryVars

LEMMA InitTime == Init => TimeBook
BY DEF Init, TimeBook, Timely, NoRow, Idle

LEMMA OnTime == Spec => []TimeBook
BY InitInv, StepInv, InitTime, StepTime, PTL DEF Spec

\* For any time limits and whatever races with the clock: an outcome with evidence
\* was reported before the claim deadline, a claim was taken before the command
\* expired, and stamps compared as text end no right more than a second early.
THEOREM OnTimeAlways == Spec => []DeadlinesHold
<1>1. TimeBook => DeadlinesHold
  BY DEF TimeBook, Timely, DeadlinesHold, NotLate, NotEarly
<1> QED
  BY <1>1, OnTime, PTL

-----------------------------------------------------------------------------
(* The queue implements DeliveryRights. *)

LEMMA RightsStatuses == Rights!Outcomes = Outcomes /\ Rights!Withdrawn = Withdrawn
BY DEF Rights!Outcomes, Rights!Withdrawn, Outcomes, Withdrawn

LEMMA TransitionRefines ==
  ASSUME TypeOK, NEW i \in Ids, NEW f, NEW t, NEW e, Transition(i, f, t, e),
         \/ f = "pending" /\ t \in Withdrawn
         \/ f = "claimed" /\ t \in Outcomes
  PROVE  Rights!RightsNext
<1>1. row[i] \in Rows BY DEF TypeOK
<1>2. row'[i].status = t /\ row[i].status = f /\ row'[i].request = row[i].request
  BY <1>1, EndedColumns DEF Transition, TypeOK, SameColumns
<1>3. \A j \in Ids \ {i} : row'[j] = row[j] BY DEF Transition, TypeOK
<1>4. [j \in Ids |-> row'[j].request] = [j \in Ids |-> row[j].request] BY <1>2, <1>3
<1>5. [j \in Ids |-> row'[j].status]
        = [[j \in Ids |-> row[j].status] EXCEPT ![i] = t] BY <1>2, <1>3
<1>6. CASE f = "pending" /\ t \in Withdrawn
  <2>1. Rights!Withdraw(i, t) BY <1>2, <1>4, <1>5, <1>6 DEF Rights!Withdraw
  <2> QED BY <1>6, <2>1, RightsStatuses DEF Rights!RightsNext
<1>7. CASE f = "claimed" /\ t \in Outcomes
  <2>1. Rights!Settle(i, t) BY <1>2, <1>4, <1>5, <1>7 DEF Rights!Settle
  <2> QED BY <1>7, <2>1, RightsStatuses DEF Rights!RightsNext
<1> QED BY <1>6, <1>7

LEMMA StutterRefines ==
  ASSUME UNCHANGED row PROVE UNCHANGED Rights!rightsVars
BY DEF Rights!rightsVars

LEMMA InsertRefines ==
  ASSUME TypeOK, ClaimBook, NEW i \in Ids, NEW l, NEW k, NEW x, NEW s, Inserts(i, l, k, x, s)
  PROVE  Rights!RightsNext
<1>1. row[i].request = None BY DEF ClaimBook, Inserts, Outcomes
<1>2. [j \in Ids |-> row'[j].request] = [j \in Ids |-> row[j].request] BY <1>1 DEF Inserts
<1>3. [j \in Ids |-> row'[j].status]
        = [[j \in Ids |-> row[j].status] EXCEPT ![i] = "pending"] BY DEF Inserts
<1>4. Rights!Offer(i) BY <1>2, <1>3 DEF Rights!Offer, Inserts
<1> QED BY <1>4 DEF Rights!RightsNext

LEMMA ClaimRefines ==
  ASSUME NEW i \in Ids, NEW q \in Requests, Claims(i, q), HoldsRequest(q) = {}
  PROVE  Rights!RightsNext
<1>1. \A j \in Ids : row[j].request # q BY DEF HoldsRequest
<1>2. [j \in Ids |-> row'[j].request]
        = [[j \in Ids |-> row[j].request] EXCEPT ![i] = q] BY DEF Claims
<1>3. [j \in Ids |-> row'[j].status]
        = [[j \in Ids |-> row[j].status] EXCEPT ![i] = "claimed"] BY DEF Claims
<1>4. Rights!Grant(i, q) BY <1>1, <1>2, <1>3 DEF Rights!Grant, Claims
<1> QED BY <1>4 DEF Rights!RightsNext

LEMMA ReconcileRefines ==
  ASSUME TypeOK, Reconcile
  PROVE  Rights!RightsNext
<1>0. PICK S \in SUBSET Ids : S = {i \in Ids : row'[i].status # row[i].status}
  OBVIOUS
<1>1. ASSUME NEW i \in Ids
      PROVE  /\ row'[i].request = row[i].request
             /\ i \in S => row[i].status \in {"pending", "claimed"}
             /\ row'[i].status = IF i \notin S THEN row[i].status
                                 ELSE IF row[i].status = "pending" THEN "expired"
                                 ELSE "uncertain"
  <2>1. row[i] \in Rows /\ row'[i] = Reconciled(row[i]) BY DEF Reconcile, TypeOK
  <2>2. /\ Ended(row[i], "expired", None).status = "expired"
        /\ Ended(row[i], "expired", None).request = row[i].request
        /\ Ended(row[i], "uncertain", None).status = "uncertain"
        /\ Ended(row[i], "uncertain", None).request = row[i].request
    BY <2>1, EndedColumns DEF SameColumns
  <2> QED BY <1>0, <2>1, <2>2 DEF Reconciled
<1>2. [j \in Ids |-> row'[j].request] = [j \in Ids |-> row[j].request] BY <1>1
<1>3. [j \in Ids |-> row'[j].status]
        = [c \in Ids |-> IF c \notin S THEN [j \in Ids |-> row[j].status][c]
                         ELSE IF [j \in Ids |-> row[j].status][c] = "pending" THEN "expired"
                         ELSE "uncertain"]
  BY <1>1
<1>4. \A c \in S : [j \in Ids |-> row[j].status][c] \in {"pending", "claimed"} BY <1>1
<1>5. Rights!Lapse(S) BY <1>2, <1>3, <1>4 DEF Rights!Lapse
<1> QED BY <1>5 DEF Rights!RightsNext

LEMMA JudgeRefines ==
  ASSUME TypeOK, LockDiscipline, NEW h \in Handlers, Judge(h), row' # row
  PROVE  Rights!RightsNext
<1> DEFINE i == handler[h].cur
<1>1. i \in Ids /\ row[i].status = "pending"
  BY DEF Judge, TypeOK, HandlerStates, LockDiscipline
<1>2. row[i] \in Rows BY <1>1 DEF TypeOK
<1>3. row' = [row EXCEPT ![i] = [Ended(row[i], "invalidated", None)
                                   EXCEPT !.ended = handler[h].at]]
  BY DEF Judge
<1>4. row'[i].status = "invalidated" /\ row'[i].request = row[i].request
  BY <1>1, <1>2, <1>3 DEF TypeOK, Ended, Rows
<1>5. \A j \in Ids \ {i} : row'[j] = row[j] BY <1>1, <1>3 DEF TypeOK
<1>6. [j \in Ids |-> row'[j].request] = [j \in Ids |-> row[j].request] BY <1>4, <1>5
<1>7. [j \in Ids |-> row'[j].status]
        = [[j \in Ids |-> row[j].status] EXCEPT ![i] = "invalidated"] BY <1>4, <1>5
<1>8. Rights!Withdraw(i, "invalidated") BY <1>1, <1>6, <1>7 DEF Rights!Withdraw
<1> QED BY <1>1, <1>8, StatusFacts, RightsStatuses DEF Rights!RightsNext

LEMMA StepRefines ==
  IInv /\ [Next]_deliveryVars => [Rights!RightsNext]_(Rights!rightsVars)
<1> SUFFICES ASSUME IInv, [Next]_deliveryVars, row' # row PROVE Rights!RightsNext
  BY StutterRefines
<1> USE DEF IInv
<1>1. ASSUME NEW l \in Lanes, NEW k \in Keys, NEW x \in Contexts, NEW s \in 1..MaxSnap,
             Create(l, k, x, s)
      PROVE  Rights!RightsNext
  BY <1>1, InsertShape, InsertRefines DEF Create, Replay
<1>2. ASSUME NEW h \in Handlers, HandlerStep(h) \/ Abort(h) PROVE Rights!RightsNext
  <2>1. CASE Begin(h)
    <3>1. PICK i \in Oldest(handler[h].todo) : Transition(i, "pending", "expired", None)
      BY <2>1 DEF Begin
    <3>2. i \in Ids BY <3>1 DEF Oldest, TypeOK, HandlerStates, HandlerRecords
    <3> QED BY <3>1, <3>2, TransitionRefines, StatusFacts
  <2>2. CASE Judge(h) BY <2>2, JudgeRefines
  <2>3. CASE Commit(h) BY <2>3, CommitShape, ClaimRefines
  <2> QED BY <1>2, <2>1, <2>2, <2>3 DEF HandlerStep, List, Exhausted, Abort
<1>3. ASSUME NEW i \in Ids, NEW o \in Outcomes, NEW e \in Evidence, NEW c \in 1..claims,
             Complete(i, c, o, e)
      PROVE  Rights!RightsNext
  BY <1>3, TransitionRefines, StatusFacts DEF Complete
<1>4. ASSUME NEW i \in Ids, Cancel(i) \/ InvalidatePending(i) PROVE Rights!RightsNext
  BY <1>4, TransitionRefines, StatusFacts DEF Cancel, InvalidatePending
<1>5. CASE Reconcile BY <1>5, ReconcileRefines
<1> QED BY <1>1, <1>2, <1>3, <1>4, <1>5
  DEF Next, Lookup, ContextChange, Rebind, PresenceFlip, Tick, deliveryVars

\* The queue, with all its handlers, deadlines and retries, implements
\* DeliveryRights: every right is offered once, granted to one request, and
\* settled once.
THEOREM ImplementsRights == Spec => KeepsRights
<1>1. Init => Rights!RightsInit
  BY DEF Init, NoRow, Rights!RightsInit
<1> QED BY <1>1, InitInv, StepInv, StepRefines, PTL DEF Spec, KeepsRights, Rights!RightsSpec

=============================================================================
