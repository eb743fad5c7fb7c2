----------------------------- MODULE AutoSendProof -----------------------------
(***************************************************************************)
(* Proofs about Planning and AutoSend: one generation runs for a context   *)
(* and every caller is answered about its own, and an intent of the page   *)
(* becomes one command, for any number of contexts, callers, plans,        *)
(* bindings, presences and keys.                                           *)
(***************************************************************************)
EXTENDS AutoSend, TLAPS

(***************************************************************************)
(* Planning.                                                               *)
(***************************************************************************)
Working == {"plans", "falls", "saves"}

Generations == [ctx : Contexts, status : Statuses]
Answers     == [id : Nat, status : Statuses \cup {"error"}]
CallStates  == [pc : {"idle", "asks", "waits", "saved", "done"} \cup Working, ctx : Contexts,
                mode : Modes, attempt : {0, 1}, leader : SUBSET Callers, answer : Answers]

PlanTypes == /\ current \in Contexts
             /\ audit \in Seq(Generations)
             /\ calls \in [Callers -> CallStates]

\* One caller runs the generation of a context and a mode.
OneFlight == \A c, d \in Callers :
               /\ calls[c].pc \in Working /\ calls[d].pc \in Working
               /\ calls[c].ctx = calls[d].ctx /\ calls[c].mode = calls[d].mode
               => c = d

\* A call that has an id has ended and is about the context it asked with; a call
\* that is about to be saved has a status the audit takes; and who waits waits for
\* a generation of its own context that has not ended.
Sound(v) ==
  /\ v.answer.id # 0 => /\ v.pc \in {"saved", "done"}
                        /\ v.answer.id \in 1..Len(audit)
                        /\ audit[v.answer.id] = [ctx |-> v.ctx, status |-> v.answer.status]
  /\ v.pc = "saves" => v.answer.status \in Statuses
  /\ v.pc = "waits" => \A d \in v.leader : calls[d].pc \in Working /\ calls[d].ctx = v.ctx

CallBook == \A c \in Callers : Sound(calls[c])

PlanInv == PlanTypes /\ OneFlight /\ CallBook

\* Only what caller c is at changes.
Alone(c) == /\ calls' \in [Callers -> CallStates]
            /\ \A d \in Callers \ {c} : calls'[d] = calls[d]
            /\ UNCHANGED <<current, audit>>

\* A caller that neither runs a generation nor begins to may do as it likes, as
\* long as it is sound afterwards.
LEMMA Bystander ==
  ASSUME PlanInv, NEW c \in Callers, Alone(c),
         calls[c].pc \notin Working, calls'[c].pc \notin Working, Sound(calls'[c])
  PROVE  PlanInv'
<1>1. PlanTypes'
  BY DEF PlanInv, PlanTypes, Alone
<1>2. OneFlight'
  BY DEF PlanInv, OneFlight, Alone
<1>3. ASSUME NEW e \in Callers PROVE Sound(calls[e])'
  <2>1. Sound(calls'[e])
    BY DEF PlanInv, CallBook, Alone
  <2>2. \A d \in Callers : calls[d].pc \in Working => calls'[d] = calls[d]
    BY DEF Alone
  <2>3. calls'[e].leader \subseteq Callers
    BY DEF Alone, CallStates
  <2> QED
    BY <2>1, <2>2, <2>3 DEF Sound, Alone
<1> QED
  BY <1>1, <1>2, <1>3 DEF PlanInv, CallBook

\* A caller that runs a generation goes on with it, or begins one that nobody runs.
LEMMA Runner ==
  ASSUME PlanInv, NEW c \in Callers, Alone(c), calls'[c].pc \in Working, Sound(calls'[c]),
         calls'[c].ctx = calls[c].ctx, calls'[c].mode = calls[c].mode,
         \/ calls[c].pc \in Working
         \/ \A d \in Callers \ {c} : ~(calls[d].pc \in Working /\ SameKey(c, d))
  PROVE  PlanInv'
<1>1. PlanTypes'
  BY DEF PlanInv, PlanTypes, Alone
<1>2. OneFlight'
  BY DEF PlanInv, OneFlight, Alone, SameKey
<1>3. ASSUME NEW e \in Callers PROVE Sound(calls[e])'
  <2>1. Sound(calls'[e])
    BY DEF PlanInv, CallBook, Alone
  <2>2. \A d \in Callers : calls[d].pc \in Working => calls'[d].pc \in Working /\ calls'[d].ctx = calls[d].ctx
    BY DEF Alone
  <2>3. calls'[e].leader \subseteq Callers
    BY DEF Alone, CallStates
  <2> QED
    BY <2>1, <2>2, <2>3 DEF Sound, Alone
<1> QED
  BY <1>1, <1>2, <1>3 DEF PlanInv, CallBook

LEMMA Resting ==
  ASSUME current \in Contexts
  PROVE  Idle \in CallStates /\ Idle.pc = "idle" /\ Sound(Idle) /\ Failed \in Answers
BY DEF Idle, CallStates, Sound, Failed, Answers, Modes

\* What a caller may become by moving on.
LEMMA GoKeeps ==
  ASSUME PlanInv, NEW c \in Callers, NEW pc \in {"plans", "falls", "done"}, Go(c, pc),
         UNCHANGED <<current, audit>>
  PROVE  /\ Alone(c)
         /\ calls'[c].pc = pc /\ calls'[c].ctx = calls[c].ctx /\ calls'[c].mode = calls[c].mode
         /\ calls'[c].answer = calls[c].answer
<1>1. calls[c] \in CallStates
  BY DEF PlanInv, PlanTypes
<1>2. [calls[c] EXCEPT !.pc = pc] \in CallStates
  BY <1>1 DEF CallStates, Working
<1> QED
  BY <1>1, <1>2 DEF Go, PlanInv, PlanTypes, Alone, CallStates

\* A planned or rendered generation is about to be saved.
LEMMA DecideKeeps ==
  ASSUME PlanInv, NEW c \in Callers, calls[c].pc \in {"plans", "falls"},
         NEW status \in Statuses, Decide(c, status), UNCHANGED <<current, audit>>
  PROVE  PlanInv'
<1> DEFINE a == [calls[c].answer EXCEPT !.status = status]
           v == [calls[c] EXCEPT !.pc = "saves", !.answer = a]
<1>1. calls[c] \in CallStates /\ calls[c].answer \in Answers /\ Sound(calls[c])
  BY DEF PlanInv, PlanTypes, CallStates, CallBook
<1>2. calls[c].answer.id = 0
  BY <1>1 DEF Sound
<1>3. a \in Answers /\ a.id = 0 /\ a.status = status
  BY <1>1, <1>2 DEF Answers
<1>4. calls'[c] = v /\ \A d \in Callers \ {c} : calls'[d] = calls[d]
  BY <1>1 DEF Decide, PlanInv, PlanTypes, CallStates
<1>5. calls' \in [Callers -> CallStates]
  <2>1. v \in CallStates
    BY <1>1, <1>3 DEF CallStates, Working
  <2> QED
    BY <2>1 DEF Decide, PlanInv, PlanTypes, CallStates
<1>6. /\ v.pc = "saves" /\ v.ctx = calls[c].ctx /\ v.mode = calls[c].mode /\ v.answer = a
  BY <1>1 DEF CallStates
<1>7. Sound(v)
  BY <1>3, <1>6 DEF Sound
<1> HIDE DEF v
<1> QED
  BY <1>4, <1>5, <1>6, <1>7, Runner DEF Alone, Working

LEMMA NoPlanKeeps ==
  ASSUME PlanInv, NEW c \in Callers, calls[c].pc = "plans", NoPlan(c), UNCHANGED <<current, audit>>
  PROVE  PlanInv'
<1>1. CASE Go(c, "falls")
  <2>1. Sound(calls[c]) /\ calls[c].answer.id = 0
    BY DEF PlanInv, CallBook, Sound
  <2>2. /\ Alone(c) /\ calls'[c].pc = "falls" /\ calls'[c].answer = calls[c].answer
        /\ calls'[c].ctx = calls[c].ctx /\ calls'[c].mode = calls[c].mode
    BY <1>1, GoKeeps
  <2>3. Sound(calls'[c])
    BY <2>1, <2>2 DEF Sound
  <2> QED
    BY <2>2, <2>3, Runner DEF Working
<1>2. CASE Decide(c, "planner_error")
  BY <1>2, DecideKeeps DEF Statuses
<1> QED
  BY <1>1, <1>2 DEF NoPlan

\* The policy says one of the words the audit takes.
LEMMA Verdicts ==
  ASSUME NEW output \in Outputs, NEW x
  PROVE  /\ Verdict(x) \in Statuses /\ VerdictOn(output, x) \in Statuses
         /\ (IF VerdictOn(output, x) = "approved" THEN "fallback" ELSE VerdictOn(output, x)) \in Statuses
BY DEF Outputs, Verdict, VerdictOn, Statuses

\* The end of a generation: its caller and those that wait for it have the answer.
LEMMA CloseKeeps ==
  ASSUME PlanInv, NEW c \in Callers, calls[c].pc \in Working, NEW a \in Answers, Close(c, a),
         UNCHANGED current, audit' \in Seq(Generations), Len(audit) <= Len(audit'),
         \A i \in 1..Len(audit) : audit'[i] = audit[i],
         a.id # 0 => /\ a.id \in 1..Len(audit')
                     /\ audit'[a.id] = [ctx |-> calls[c].ctx, status |-> a.status]
  PROVE  PlanInv'
<1> DEFINE Waiter(d) == calls[d].pc = "waits" /\ c \in calls[d].leader
<1>0. \A d \in Callers : calls[d] \in CallStates /\ Sound(calls[d])
  BY DEF PlanInv, PlanTypes, CallBook
<1>1. /\ [calls[c] EXCEPT !.pc = "saved", !.answer = a] \in CallStates
      /\ \A d \in Callers : [calls[d] EXCEPT !.pc = "done", !.answer = a] \in CallStates
  BY <1>0 DEF CallStates
<1>2. calls' \in [Callers -> CallStates]
  BY <1>0, <1>1 DEF Close
<1>3. /\ calls'[c].pc = "saved" /\ calls'[c].answer = a
      /\ calls'[c].ctx = calls[c].ctx
  BY <1>0 DEF Close, CallStates
<1>4. ASSUME NEW d \in Callers \ {c}, Waiter(d)
      PROVE  /\ calls'[d].pc = "done" /\ calls'[d].answer = a
             /\ calls'[d].ctx = calls[d].ctx /\ calls[d].ctx = calls[c].ctx
  BY <1>0, <1>4 DEF Close, CallStates, Sound
<1>5. ASSUME NEW d \in Callers \ {c}, ~Waiter(d) PROVE calls'[d] = calls[d]
  BY <1>5 DEF Close
<1>6. OneFlight'
  <2>1. \A d \in Callers : calls'[d].pc \in Working => calls'[d] = calls[d]
    BY <1>3, <1>4, <1>5 DEF Working
  <2> QED
    BY <2>1 DEF PlanInv, OneFlight
<1>7. ASSUME NEW d \in Callers PROVE Sound(calls[d])'
  <2>1. CASE d = c
    BY <1>3, <2>1 DEF Sound
  <2>2. CASE d # c /\ Waiter(d)
    BY <1>4, <2>2 DEF Sound
  <2>3. CASE d # c /\ ~Waiter(d)
    <3>1. calls'[d] = calls[d] /\ Sound(calls[d]) /\ Len(audit) \in Nat /\ Len(audit') \in Nat
      BY <1>0, <1>5, <2>3 DEF PlanInv, PlanTypes
    <3>2. \A e \in Callers \ {c} : calls[e].pc \in Working => calls'[e] = calls[e]
      BY <1>5 DEF Working
    <3>3. calls[d].pc = "waits" => calls[d].leader \subseteq Callers \ {c}
      BY <1>0, <2>3 DEF CallStates
    <3>4. calls[d].answer.id # 0 => /\ calls[d].answer.id \in 1..Len(audit')
                                    /\ audit'[calls[d].answer.id] = audit[calls[d].answer.id]
      BY <3>1 DEF Sound
    <3> QED
      BY <3>1, <3>2, <3>3, <3>4 DEF Sound
  <2> QED
    BY <2>1, <2>2, <2>3
<1> QED
  BY <1>2, <1>6, <1>7 DEF PlanInv, PlanTypes, CallBook

LEMMA AskKeeps ==
  ASSUME PlanInv, NEW c \in Callers, Ask(c)
  PROVE  PlanInv'
<1> PICK mode \in Modes : calls' = [calls EXCEPT ![c] = [Idle EXCEPT !.pc = "asks", !.ctx = current, !.mode = mode]]
  BY DEF Ask
<1> DEFINE v == [Idle EXCEPT !.pc = "asks", !.ctx = current, !.mode = mode]
<1>1. current \in Contexts
  BY DEF PlanInv, PlanTypes
<1>2. v \in CallStates /\ v.pc = "asks" /\ v.answer.id = 0
  BY <1>1, Resting DEF Idle, CallStates, Failed
<1>3. Sound(v)
  BY <1>2 DEF Sound
<1> HIDE DEF v
<1>4. Alone(c) /\ calls'[c] = v
  BY <1>2 DEF PlanInv, PlanTypes, Alone, Ask, v
<1> QED
  BY <1>2, <1>3, <1>4, Bystander DEF Ask, Working

LEMMA JoinKeeps ==
  ASSUME PlanInv, NEW c \in Callers, Join(c)
  PROVE  PlanInv'
<1>0. calls[c] \in CallStates /\ Sound(calls[c]) /\ calls[c].pc = "asks" /\ calls[c].answer.id = 0
  BY DEF PlanInv, PlanTypes, CallBook, Join, Sound
<1>1. CASE Flights(c) # {}
  <2> PICK d \in Flights(c) :
        calls' = [calls EXCEPT ![c].pc = IF calls[d].pc = "saved" THEN "done" ELSE "waits",
                               ![c].leader = {d}, ![c].answer = calls[d].answer]
    BY <1>1 DEF Join
  <2>1. /\ d \in Callers \ {c} /\ calls[d].pc \in Working \cup {"saved"} /\ calls[d].ctx = calls[c].ctx
        /\ calls[d] \in CallStates /\ calls[d].answer \in Answers /\ Sound(calls[d])
    BY DEF Flights, Flying, SameKey, Working, PlanInv, PlanTypes, CallBook, CallStates
  <2> DEFINE v == [calls[c] EXCEPT !.pc = IF calls[d].pc = "saved" THEN "done" ELSE "waits",
                                   !.leader = {d}, !.answer = calls[d].answer]
  <2>2. v \in CallStates
    BY <1>0, <2>1 DEF CallStates
  <2>3. calls'[c] = v /\ \A e \in Callers \ {c} : calls'[e] = calls[e]
    BY <1>0 DEF PlanInv, PlanTypes, CallStates
  <2>4. calls' \in [Callers -> CallStates]
    BY <2>2, <1>0 DEF PlanInv, PlanTypes, CallStates
  <2>5. /\ v.pc = (IF calls[d].pc = "saved" THEN "done" ELSE "waits")
        /\ v.leader = {d} /\ v.answer = calls[d].answer /\ v.ctx = calls[d].ctx
    BY <1>0, <2>1 DEF CallStates
  <2> HIDE DEF v
  <2>6. Sound(v)
    BY <2>1, <2>5 DEF Sound, Working
  <2>7. UNCHANGED <<current, audit>>
    BY DEF Join
  <2>8. Alone(c) /\ calls[c].pc \notin Working /\ calls'[c].pc \notin Working
    BY <1>0, <2>3, <2>4, <2>5, <2>7 DEF Alone, Working
  <2> QED
    BY <2>3, <2>6, <2>8, Bystander
<1>2. CASE Flights(c) = {}
  <2> DEFINE pc == IF calls[c].mode = "fallback" THEN "falls" ELSE "plans"
  <2>1. Go(c, pc) /\ pc \in {"plans", "falls"} /\ UNCHANGED <<current, audit>>
    BY <1>2 DEF Join
  <2>2. /\ Alone(c) /\ calls'[c].pc = pc /\ calls'[c].ctx = calls[c].ctx
        /\ calls'[c].mode = calls[c].mode /\ calls'[c].answer = calls[c].answer
    BY <2>1, GoKeeps
  <2>3. Sound(calls'[c])
    BY <1>0, <2>1, <2>2 DEF Sound
  <2>4. \A d \in Callers \ {c} : ~(calls[d].pc \in Working /\ SameKey(c, d))
    BY <1>2 DEF Flights, Flying, Working
  <2> HIDE DEF pc
  <2> QED
    BY <2>1, <2>2, <2>3, <2>4, Runner DEF Working
<1> QED
  BY <1>1, <1>2

LEMMA PlannerKeeps ==
  ASSUME PlanInv, NEW c \in Callers, PlannerFails(c) \/ PlannerAnswers(c)
  PROVE  PlanInv'
<1>1. CASE PlannerFails(c)
  BY <1>1, NoPlanKeeps DEF PlannerFails
<1>2. CASE PlannerAnswers(c)
  <2>0. calls[c].pc = "plans" /\ UNCHANGED <<current, audit>>
    BY <1>2 DEF PlannerAnswers
  <2> PICK output \in Outputs :
        LET status == VerdictOn(output, calls[c].ctx) IN
        IF status # "rejected" THEN Decide(c, status)
        ELSE IF calls[c].attempt = 0 THEN calls' = [calls EXCEPT ![c].attempt = 1]
        ELSE NoPlan(c)
    BY <1>2 DEF PlannerAnswers
  <2>1. CASE Decide(c, VerdictOn(output, calls[c].ctx))
    BY <2>0, <2>1, Verdicts, DecideKeeps
  <2>2. CASE calls' = [calls EXCEPT ![c].attempt = 1]
    <3> DEFINE v == [calls[c] EXCEPT !.attempt = 1]
    <3>1. calls[c] \in CallStates /\ Sound(calls[c])
      BY DEF PlanInv, PlanTypes, CallBook
    <3>2. v \in CallStates /\ v.pc = "plans" /\ v.ctx = calls[c].ctx /\ v.mode = calls[c].mode /\ v.answer = calls[c].answer
      BY <2>0, <3>1 DEF CallStates
    <3>3. Sound(v)
      BY <2>0, <3>1, <3>2 DEF Sound
    <3>4. calls' = [calls EXCEPT ![c] = v]
      BY <2>2
    <3> HIDE DEF v
    <3>5. Alone(c) /\ calls'[c] = v
      BY <2>0, <3>2, <3>4 DEF Alone, PlanInv, PlanTypes
    <3> QED
      BY <2>0, <3>2, <3>3, <3>5, Runner DEF Working
  <2>3. CASE NoPlan(c)
    BY <2>0, <2>3, NoPlanKeeps
  <2> QED
    BY <2>1, <2>2, <2>3
<1> QED
  BY <1>1, <1>2

LEMMA SaveKeeps ==
  ASSUME PlanInv, NEW c \in Callers, Save(c)
  PROVE  PlanInv'
<1> DEFINE g == [ctx |-> calls[c].ctx, status |-> calls[c].answer.status]
           a == [calls[c].answer EXCEPT !.id = Len(audit')]
<1>1. /\ calls[c] \in CallStates /\ calls[c].answer \in Answers /\ calls[c].pc = "saves"
      /\ calls[c].answer.status \in Statuses /\ calls[c].ctx \in Contexts
  BY DEF Save, PlanInv, PlanTypes, CallBook, Sound, CallStates
<1>2. audit' = Append(audit, g) /\ Close(c, a) /\ UNCHANGED current
  BY DEF Save
<1>3. g \in Generations
  BY <1>1 DEF Generations
<1>4. audit \in Seq(Generations) /\ Len(audit) \in Nat
  BY DEF PlanInv, PlanTypes
<1>5. /\ audit' \in Seq(Generations) /\ Len(audit') = Len(audit) + 1
      /\ audit'[Len(audit')] = g /\ \A i \in 1..Len(audit) : audit'[i] = audit[i]
  BY <1>2, <1>3, <1>4
<1>6. a \in Answers /\ a.id = Len(audit') /\ a.status = g.status
  BY <1>1, <1>4, <1>5 DEF Answers
<1>7. Len(audit) <= Len(audit') /\ Len(audit') \in 1..Len(audit')
  BY <1>4, <1>5
<1>8. g = [ctx |-> calls[c].ctx, status |-> a.status]
  BY <1>6
<1> HIDE DEF a, g
<1> QED
  BY <1>1, <1>2, <1>5, <1>6, <1>7, <1>8, CloseKeeps DEF Working

LEMMA EndKeeps ==
  ASSUME PlanInv, NEW c \in Callers, Abort(c) \/ Release(c) \/ GiveUp(c) \/ Leave(c)
  PROVE  PlanInv'
<1>0. /\ calls[c] \in CallStates /\ Sound(calls[c]) /\ current \in Contexts
      /\ audit \in Seq(Generations) /\ Len(audit) \in Nat
  BY DEF PlanInv, PlanTypes, CallBook
<1>1. CASE Abort(c)
  <2>1. Failed \in Answers /\ Failed.id = 0
    BY <1>0, Resting DEF Failed
  <2>2. audit' = audit /\ UNCHANGED current /\ calls[c].pc \in Working /\ Close(c, Failed)
    BY <1>1 DEF Abort, Working
  <2>3. /\ audit' \in Seq(Generations) /\ Len(audit) <= Len(audit')
        /\ \A i \in 1..Len(audit) : audit'[i] = audit[i]
    BY <1>0, <2>2
  <2> HIDE DEF Failed
  <2> QED
    BY <2>1, <2>2, <2>3, CloseKeeps
<1>2. CASE Release(c)
  <2>1. /\ Alone(c) /\ calls'[c].pc = "done" /\ calls'[c].ctx = calls[c].ctx
        /\ calls'[c].answer = calls[c].answer
    BY <1>2, GoKeeps DEF Release
  <2>2. Sound(calls'[c])
    BY <1>0, <2>1 DEF Sound
  <2> QED
    BY <1>2, <2>1, <2>2, Bystander DEF Release, Working
<1>3. CASE GiveUp(c)
  <2> DEFINE v == [calls[c] EXCEPT !.pc = "done", !.answer = Failed]
  <2>1. v \in CallStates /\ v.pc = "done" /\ v.answer.id = 0
    BY <1>0, Resting DEF CallStates, Failed
  <2>2. calls'[c] = v /\ \A d \in Callers \ {c} : calls'[d] = calls[d]
    BY <1>0, <1>3 DEF GiveUp, PlanInv, PlanTypes, CallStates
  <2>3. calls' \in [Callers -> CallStates]
    BY <1>3, <2>1 DEF GiveUp, PlanInv, PlanTypes, CallStates
  <2>4. Sound(v)
    BY <2>1 DEF Sound
  <2> HIDE DEF v
  <2> QED
    BY <1>3, <2>1, <2>2, <2>3, <2>4, Bystander DEF GiveUp, Alone, Working
<1>4. CASE Leave(c)
  <2>1. Idle \in CallStates /\ Idle.pc = "idle" /\ Sound(Idle)
    BY <1>0, Resting
  <2> HIDE DEF Idle
  <2>2. Alone(c) /\ calls'[c] = Idle
    BY <1>4, <2>1 DEF Leave, PlanInv, PlanTypes, Alone
  <2> QED
    BY <1>4, <2>1, <2>2, Bystander DEF Leave, Working
<1> QED
  BY <1>1, <1>2, <1>3, <1>4

\* Every step of planning keeps the invariant.
LEMMA PlanningKeeps ==
  ASSUME PlanInv, PlanningNext
  PROVE  PlanInv'
<1>1. CASE ContextChanges
  BY <1>1 DEF ContextChanges, PlanInv, PlanTypes, OneFlight, CallBook, Sound
<1>2. ASSUME NEW c \in Callers, RenderFallback(c) PROVE PlanInv'
  <2> PICK output \in Outputs \ {"malformed"} :
        Decide(c, IF VerdictOn(output, calls[c].ctx) = "approved" THEN "fallback"
                  ELSE VerdictOn(output, calls[c].ctx))
    BY <1>2 DEF RenderFallback
  <2> QED
    BY <1>2, Verdicts, DecideKeeps DEF RenderFallback
<1> QED
  BY <1>1, <1>2, AskKeeps, JoinKeeps, PlannerKeeps, SaveKeeps, EndKeeps DEF PlanningNext

LEMMA PlanningBegins ==
  ASSUME PlanningInit
  PROVE  PlanInv
<1>1. Idle \in CallStates /\ Idle.pc = "idle" /\ Sound(Idle)
  BY Resting DEF PlanningInit
<1> QED
  BY <1>1 DEF PlanningInit, PlanInv, PlanTypes, OneFlight, CallBook, Working

\* The audit only grows.
LEMMA AuditGrows ==
  ASSUME PlanInv, PlanningNext
  PROVE  Len(audit) <= Len(audit')
<1>0. Len(audit) \in Nat
  BY DEF PlanInv, PlanTypes
<1>1. ASSUME NEW c \in Callers, Save(c) PROVE Len(audit') = Len(audit) + 1
  BY <1>1, <1>0 DEF Save, PlanInv, PlanTypes
<1>2. audit' = audit \/ Len(audit') = Len(audit) + 1
  BY <1>1 DEF PlanningNext, ContextChanges, Ask, Join, PlannerFails, PlannerAnswers, RenderFallback,
              Abort, Release, GiveUp, Leave
<1> QED
  BY <1>0, <1>2

(***************************************************************************)
(* Auto-send.                                                              *)
(***************************************************************************)
Pages == [pc : {"rest", "reads", "decides", "sent"}, todo : SUBSET {"plan", "list"}, plan : Nat,
          ready : BOOLEAN, listed : SUBSET [plan : Nat, version : Nat], seat : Seats, copy : Nat,
          answer : {"none", "created", "refused"}]

Asked == queue \cup wire

\* What the page has asked for by itself.
Own == {r \in Asked : r.by = "page"}

SendTypes == /\ seat \in Seats
             /\ record \in Records \cup {None}
             /\ page \in Pages
             /\ \A r \in Asked : r.plan \in Nat /\ r.seat \in Seats

\* Plans, versions and presences only get newer.
NotAfter(p, s, q, t) == p <= q /\ s.version <= t.version /\ s.token <= t.token

\* What the page remembers is not newer than what it reads, and that is not newer
\* than what is there.
PageBook ==
  /\ page.todo # {} => page.pc = "reads"
  /\ page.pc = "sent" => record # None
  /\ page.pc = "decides" => NotAfter(page.plan, page.seat, Len(audit), seat)
  /\ page.pc = "reads" => page.plan <= Len(audit)
  /\ record # None =>
       /\ NotAfter(record.plan, record.seat, Len(audit), seat)
       /\ page.pc = "reads" /\ "plan" \notin page.todo => record.plan <= page.plan
       /\ page.pc = "decides" => NotAfter(record.plan, record.seat, page.plan, page.seat)

\* The record is of the latest intent: what was asked before is for an earlier one,
\* or for this one and under its key.
IntentBook ==
  /\ \A r \in Own : /\ record # None
                    /\ NotAfter(r.plan, r.seat, record.plan, record.seat)
                    /\ r.plan = record.plan /\ r.seat = record.seat => r.key = record.key
  /\ \A r, q \in Own : r.plan = q.plan /\ r.seat = q.seat => r.key = q.key

SendInv == SendTypes /\ PageBook /\ IntentBook
IInv    == PlanInv /\ SendInv

LEMMA Numbers == PlanInv => Len(audit) \in Nat
BY DEF PlanInv, PlanTypes

\* Two intents neither of which is after the other are the same.
LEMMA SameIntent ==
  ASSUME NEW p \in Nat, NEW q \in Nat, NEW s \in Seats, NEW t \in Seats,
         NotAfter(p, s, q, t), NotAfter(q, t, p, s)
  PROVE  p = q /\ s = t
BY DEF NotAfter, Seats

LEMMA Chain ==
  ASSUME NEW p \in Nat, NEW q \in Nat, NEW n \in Nat, NEW s \in Seats, NEW t \in Seats, NEW u \in Seats,
         NotAfter(p, s, q, t), NotAfter(q, t, n, u)
  PROVE  NotAfter(p, s, n, u)
BY DEF NotAfter, Seats

\* The requests keep their order when nothing new is asked by the page.
LEMMA NoNewIntent ==
  ASSUME IntentBook, UNCHANGED record, Own' \subseteq Own
  PROVE  IntentBook'
BY DEF IntentBook

LEMMA RestIsPage == AtRest \in Pages /\ AtRest.pc = "rest" /\ AtRest.todo = {}
BY DEF AtRest, Pages, Seats

\* The page comes to rest with a record of the same intent and key.
LEMMA RestKeeps ==
  ASSUME IInv, NEW r \in Records \cup {None}, Rest(r),
         IF record = None THEN r = None
         ELSE r # None /\ r.plan = record.plan /\ r.seat = record.seat /\ r.key = record.key
  PROVE  SendInv'
<1>1. SendTypes'
  BY RestIsPage DEF IInv, SendInv, SendTypes, Rest, Asked
<1>2. page'.pc = "rest" /\ page'.todo = {} /\ record' = r
  BY RestIsPage DEF Rest
<1>3. PageBook'
  BY <1>2 DEF IInv, SendInv, PageBook, Rest, planningVars
<1>4. Own' = Own
  BY DEF Rest, Own, Asked
<1>5. IntentBook'
  BY <1>2, <1>4 DEF IInv, SendInv, IntentBook
<1> QED
  BY <1>1, <1>3, <1>5 DEF SendInv

\* What the page decides on is never before what it remembers; and if it is not the
\* intent of the record, it was never asked.
LEMMA NewIntent ==
  ASSUME IInv, page.pc = "decides", ~Mine
  PROVE  \A r \in Own : ~(r.plan = page.plan /\ r.seat = page.seat)
<1> SUFFICES ASSUME NEW r \in Own, r.plan = page.plan, r.seat = page.seat PROVE FALSE
  OBVIOUS
<1>1. /\ record # None /\ record \in Records /\ page \in Pages
      /\ NotAfter(r.plan, r.seat, record.plan, record.seat)
      /\ NotAfter(record.plan, record.seat, page.plan, page.seat)
  BY DEF IInv, SendInv, SendTypes, PageBook, IntentBook
<1>2. record.plan \in Nat /\ record.seat \in Seats /\ page.plan \in Nat /\ page.seat \in Seats
  BY <1>1 DEF Records, Pages
<1>3. record.plan = page.plan /\ record.seat = page.seat
  BY <1>1, <1>2, SameIntent
<1> QED
  BY <1>1, <1>3 DEF Mine, Concerns

\* The page takes up the intent it decides on, and may ask for it under the key
\* that it records.
LEMMA Decides ==
  ASSUME IInv, page.pc = "decides", NEW w \in Records,
         w.plan = page.plan, w.seat = page.seat, Mine => w.key = record.key,
         record' = w, UNCHANGED <<planningVars, seat>>,
         page' \in Pages, page'.pc \in {"rest", "sent"}, page'.todo = {},
         Own \subseteq Own',
         \A r \in Own' \ Own : r.plan = w.plan /\ r.seat = w.seat /\ r.key = w.key,
         \A r \in Asked' \ Asked : r.plan \in Nat /\ r.seat \in Seats
  PROVE  SendInv'
<1>1. w # None
  BY AutoSendAssumption
<1>2. SendTypes'
  BY DEF IInv, SendInv, SendTypes
<1>3. PageBook'
  BY <1>1 DEF IInv, SendInv, PageBook, planningVars
<1>4. /\ page \in Pages /\ page.plan \in Nat /\ page.seat \in Seats
      /\ record # None => record \in Records /\ record.plan \in Nat /\ record.seat \in Seats
  BY DEF IInv, SendInv, SendTypes, Pages, Records
<1>5. ASSUME NEW r \in Own
      PROVE  /\ NotAfter(r.plan, r.seat, w.plan, w.seat)
             /\ r.plan = w.plan /\ r.seat = w.seat => r.key = w.key
  <2>1. /\ record # None /\ NotAfter(r.plan, r.seat, record.plan, record.seat)
        /\ r.plan = record.plan /\ r.seat = record.seat => r.key = record.key
        /\ NotAfter(record.plan, record.seat, page.plan, page.seat)
        /\ r.plan \in Nat /\ r.seat \in Seats
    BY DEF IInv, SendInv, SendTypes, IntentBook, PageBook, Own
  <2>2. NotAfter(r.plan, r.seat, w.plan, w.seat)
    BY <1>4, <2>1, Chain
  <2>3. CASE Mine
    BY <2>1, <2>2, <2>3 DEF Mine, Concerns
  <2>4. CASE ~Mine
    BY <2>2, <2>4, NewIntent
  <2> QED
    BY <2>3, <2>4
<1>6. ASSUME NEW r \in Own' \ Own PROVE NotAfter(r.plan, r.seat, w.plan, w.seat)
  BY <1>4, <1>6 DEF NotAfter, Seats
<1>7. \A r \in Own' : /\ NotAfter(r.plan, r.seat, w.plan, w.seat)
                      /\ r.plan = w.plan /\ r.seat = w.seat => r.key = w.key
  BY <1>5, <1>6
<1>8. \A r, q \in Own' : r.plan = q.plan /\ r.seat = q.seat => r.key = q.key
  <2> SUFFICES ASSUME NEW r \in Own', NEW q \in Own', r.plan = q.plan, r.seat = q.seat PROVE r.key = q.key
    OBVIOUS
  <2>1. CASE r \in Own /\ q \in Own
    BY <2>1 DEF IInv, SendInv, IntentBook
  <2>2. CASE r \notin Own \/ q \notin Own
    BY <1>7, <2>2
  <2> QED
    BY <2>1, <2>2
<1>9. IntentBook'
  BY <1>1, <1>7, <1>8 DEF IntentBook
<1> QED
  BY <1>2, <1>3, <1>9 DEF SendInv

LEMMA ReadKeeps ==
  ASSUME IInv, Tick \/ ReadPlan \/ ReadList \/ ReadSeat
  PROVE  SendInv'
<1>0. /\ page \in Pages /\ seat \in Seats /\ Len(audit) \in Nat
      /\ record # None => record \in Records /\ record.plan \in Nat /\ record.seat \in Seats
      /\ UNCHANGED <<planningVars, seat, auto, record, wire, queue>>
      /\ UNCHANGED audit
  BY Numbers DEF IInv, SendInv, SendTypes, Records, Tick, ReadPlan, ReadList, ReadSeat, planningVars
<1>1. Own' = Own /\ Asked' = Asked
  BY <1>0 DEF Own, Asked
<1>2. IntentBook'
  BY <1>0, <1>1, NoNewIntent DEF IInv, SendInv
<1> SUFFICES page' \in Pages /\ PageBook'
  BY <1>0, <1>1, <1>2 DEF IInv, SendInv, SendTypes
<1>3. CASE Tick
  <2>1. page' \in Pages /\ page'.pc = "reads" /\ page'.todo = {"plan", "list"} /\ page'.plan = 0
    BY <1>3, RestIsPage DEF Tick, AtRest, Pages
  <2> QED
    BY <1>0, <2>1 DEF PageBook, IInv, SendInv
<1>4. CASE ReadPlan
  <2>1. /\ page' \in Pages /\ page'.pc = page.pc /\ page'.todo = page.todo \ {"plan"}
        /\ page'.plan = Len(audit) /\ page.pc = "reads"
    BY <1>0, <1>4 DEF ReadPlan, Pages, Ready, Dispatchable, IInv, SendInv, PageBook
  <2> QED
    BY <1>0, <2>1 DEF PageBook, NotAfter, IInv, SendInv
<1>5. CASE ReadList
  <2>0. {[plan |-> c.plan, version |-> c.seat.version] : c \in queue} \in SUBSET [plan : Nat, version : Nat]
    BY DEF IInv, SendInv, SendTypes, Asked, Seats
  <2>1. /\ page' \in Pages /\ page'.pc = page.pc /\ page'.todo = page.todo \ {"list"}
        /\ page'.plan = page.plan /\ page'.seat = page.seat /\ page.pc = "reads"
    BY <1>0, <1>5, <2>0 DEF ReadList, Pages, IInv, SendInv, PageBook
  <2> QED
    BY <1>0, <2>1 DEF PageBook, IInv, SendInv
<1>6. CASE ReadSeat
  <2>1. /\ page' \in Pages /\ page'.pc = "decides" /\ page'.todo = {} /\ page.pc = "reads" /\ page.todo = {}
        /\ page'.plan = page.plan /\ page'.seat = seat
    BY <1>0, <1>6 DEF ReadSeat, Pages
  <2>2. seat.version \in Nat /\ seat.token \in Nat /\ page.plan \in Nat
    BY <1>0 DEF Seats, Pages
  <2> QED
    BY <1>0, <2>1, <2>2 DEF PageBook, NotAfter, IInv, SendInv
<1> QED
  BY <1>3, <1>4, <1>5, <1>6

LEMMA RestsKeep ==
  ASSUME IInv, Pause \/ Holds \/ Unresolved \/ Reload \/ Answered
  PROVE  SendInv'
<1>0. record \in Records \cup {None}
  BY DEF IInv, SendInv, SendTypes
<1>1. CASE Rest(record)
  BY <1>0, <1>1, RestKeeps
<1>2. CASE Answered
  <2> DEFINE s == IF page.answer = "created" THEN "submitted" ELSE "blocked"
             w == [record EXCEPT !.status = s]
  <2>1. record # None /\ record \in Records
    BY <1>0, <1>2 DEF Answered, IInv, SendInv, PageBook
  <2>2. w \in Records /\ w.plan = record.plan /\ w.seat = record.seat /\ w.key = record.key
    BY <2>1 DEF Records
  <2>3. w # None /\ Rest(w)
    BY <1>2, <2>2, AutoSendAssumption DEF Answered
  <2> HIDE DEF w
  <2> QED
    BY <2>1, <2>2, <2>3, RestKeeps
<1> QED
  BY <1>1, <1>2 DEF Pause, Holds, Unresolved, Reload

LEMMA AlreadyKeeps ==
  ASSUME IInv, Already
  PROVE  SendInv'
<1> DEFINE k == IF Mine THEN record.key ELSE None
           w == [Pending(page.plan, page.seat, k) EXCEPT !.status = "submitted", !.tried = TRUE]
<1>1. page \in Pages /\ (record # None => record \in Records)
  BY DEF IInv, SendInv, SendTypes
<1>2. k \in Keys \cup {None}
  BY <1>1 DEF Mine, Concerns, Records
<1>3. w \in Records /\ w.plan = page.plan /\ w.seat = page.seat /\ w.key = k
  BY <1>1, <1>2 DEF Pending, Records, Pages
<1>4. page.pc = "decides" /\ Rest(w)
  BY DEF Already
<1>5. Own' = Own /\ Asked' = Asked
  BY <1>4 DEF Rest, Own, Asked
<1>6. Mine => w.key = record.key
  BY <1>3
<1> HIDE DEF w, k
<1>7. record' = w /\ page' = AtRest /\ UNCHANGED <<planningVars, seat>>
  BY <1>4 DEF Rest
<1> QED
  BY <1>3, <1>4, <1>5, <1>6, <1>7, RestIsPage, Decides

LEMMA SendKeeps ==
  ASSUME IInv, Send
  PROVE  SendInv'
<1> PICK k \in Keys : /\ Mine \/ Fresh(k)
                      /\ Recorded(k).status = "pending"
                      /\ record' = [Recorded(k) EXCEPT !.tried = TRUE]
  BY DEF Send
<1> PICK n \in 1..MaxCopies :
           /\ wire' = wire \cup {Confirmation("page", record'.key, page.plan, page.seat, n)}
           /\ page' = [AtRest EXCEPT !.pc = "sent", !.copy = n]
  BY DEF Send
<1> DEFINE w == [Recorded(k) EXCEPT !.tried = TRUE]
           r == Confirmation("page", record'.key, page.plan, page.seat, n)
<1>1. page \in Pages /\ (record # None => record \in Records) /\ page.plan \in Nat /\ page.seat \in Seats
  BY DEF IInv, SendInv, SendTypes, Pages
<1>2. /\ Recorded(k) \in Records /\ Recorded(k).plan = page.plan /\ Recorded(k).seat = page.seat
      /\ Mine => Recorded(k).key = record.key
  BY <1>1 DEF Recorded, Mine, Concerns, Pending, Records
<1>3. /\ w \in Records /\ w.plan = page.plan /\ w.seat = page.seat
      /\ Mine => w.key = record.key
  BY <1>2 DEF Records
<1>4. record' = w /\ page.pc = "decides" /\ UNCHANGED <<planningVars, seat>> /\ queue' = queue
  BY DEF Send
<1> HIDE DEF w
<1>5. r.by = "page" /\ r.plan = w.plan /\ r.seat = w.seat /\ r.key = w.key
  BY <1>3, <1>4 DEF Confirmation
<1>6. wire' = wire \cup {r}
  OBVIOUS
<1> HIDE DEF r
<1>7. Asked' = Asked \cup {r} /\ Own' = Own \cup {r}
  BY <1>4, <1>5, <1>6 DEF Asked, Own
<1>8. page' \in Pages /\ page'.pc = "sent" /\ page'.todo = {}
  <2>1. n \in Nat
    BY AutoSendAssumption
  <2> HIDE DEF AtRest
  <2> QED
    BY <2>1, RestIsPage DEF Pages
<1> QED
  BY <1>1, <1>3, <1>4, <1>5, <1>7, <1>8, Decides

\* Whoever hears nothing but an answer stays where it is.
LEMMA HearKeeps ==
  ASSUME IInv, NEW r, NEW answer \in {"created", "refused"}, Hear(r, answer),
         UNCHANGED <<planningVars, seat, record>>, Asked' \subseteq Asked
  PROVE  SendInv'
<1>1. page \in Pages
  BY DEF IInv, SendInv, SendTypes
<1>2. /\ page' \in Pages /\ page'.pc = page.pc /\ page'.todo = page.todo
      /\ page'.plan = page.plan /\ page'.seat = page.seat
  BY <1>1 DEF Hear, Pages
<1>3. PageBook' /\ SendTypes'
  BY <1>2 DEF PageBook, SendTypes, IInv, SendInv, planningVars
<1>4. Own' \subseteq Own
  BY DEF Own
<1> QED
  BY <1>3, <1>4, NoNewIntent DEF IInv, SendInv

LEMMA BackendKeeps ==
  ASSUME IInv, NEW r \in wire, Create(r) \/ Repeat(r) \/ Refuse(r) \/ LoseRequest(r)
  PROVE  SendInv'
<1>1. CASE Create(r) \/ Repeat(r) \/ Refuse(r)
  <2>1. PICK answer \in {"created", "refused"} : Hear(r, answer)
    BY <1>1 DEF Create, Repeat, Refuse
  <2>2. Asked' \subseteq Asked /\ UNCHANGED <<planningVars, seat, record>>
    BY <1>1 DEF Create, Repeat, Refuse, Asked
  <2> QED
    BY <2>1, <2>2, HearKeeps
<1>2. CASE LoseRequest(r)
  <2>1. Own' \subseteq Own /\ Asked' \subseteq Asked
    BY <1>2 DEF LoseRequest, Own, Asked
  <2>2. SendTypes' /\ PageBook'
    BY <1>2, <2>1 DEF LoseRequest, SendTypes, PageBook, IInv, SendInv, planningVars
  <2> QED
    BY <1>2, <2>1, <2>2, NoNewIntent DEF LoseRequest, IInv, SendInv
<1> QED
  BY <1>1, <1>2

LEMMA AroundKeeps ==
  ASSUME IInv, Toggle \/ Review \/ SeatChanges
  PROVE  SendInv'
<1>1. CASE Toggle
  BY <1>1 DEF Toggle, SendInv, IInv, SendTypes, PageBook, IntentBook, Own, Asked, planningVars
<1>2. CASE Review
  <2> PICK k \in Keys, n \in 1..MaxCopies :
         wire' = wire \cup {Confirmation("user", k, Len(audit), seat, n)}
    BY <1>2 DEF Review
  <2> DEFINE r == Confirmation("user", k, Len(audit), seat, n)
  <2>1. r.by = "user" /\ r.plan \in Nat /\ r.seat \in Seats
    BY Numbers DEF Confirmation, IInv, SendInv, SendTypes
  <2>2. wire' = wire \cup {r} /\ queue' = queue
    BY <1>2 DEF Review
  <2> HIDE DEF r
  <2>3. Asked' = Asked \cup {r} /\ Own' \subseteq Own
    BY <2>1, <2>2 DEF Asked, Own
  <2>4. SendTypes' /\ PageBook'
    BY <1>2, <2>1, <2>3 DEF Review, SendTypes, PageBook, IInv, SendInv, planningVars
  <2> QED
    BY <1>2, <2>3, <2>4, NoNewIntent DEF Review, IInv, SendInv
<1>3. CASE SeatChanges
  <2>1. /\ seat \in Seats /\ seat' \in Seats
        /\ seat.version <= seat'.version /\ seat.token <= seat'.token
    BY <1>3 DEF SeatChanges, IInv, SendInv, SendTypes, Seats
  <2>2. Own' = Own /\ Asked' = Asked
    BY <1>3 DEF SeatChanges, Own, Asked
  <2>3. SendTypes'
    BY <1>3, <2>1, <2>2 DEF SeatChanges, SendTypes, IInv, SendInv
  <2>4. PageBook'
    <3>1. \A p, q, s : s \in Seats /\ NotAfter(p, s, q, seat) => NotAfter(p, s, q, seat')
      BY <2>1 DEF NotAfter, Seats
    <3>2. page.seat \in Seats /\ (record # None => record.seat \in Seats)
      BY DEF IInv, SendInv, SendTypes, Pages, Records
    <3> QED
      BY <1>3, <3>1, <3>2 DEF SeatChanges, PageBook, IInv, SendInv, planningVars
  <2> QED
    BY <1>3, <2>2, <2>3, <2>4, NoNewIntent DEF SeatChanges, IInv, SendInv
<1> QED
  BY <1>1, <1>2, <1>3

\* Planning goes on beside the page.
LEMMA BesideKeeps ==
  ASSUME IInv, PlanningNext, UNCHANGED sendVars
  PROVE  SendInv'
<1>1. Len(audit) \in Nat /\ Len(audit') \in Nat /\ Len(audit) <= Len(audit')
  BY PlanningKeeps, AuditGrows, Numbers DEF IInv, PlanInv, PlanTypes
<1>2. /\ page.plan \in Nat /\ (record # None => record.plan \in Nat)
  BY DEF IInv, SendInv, SendTypes, Pages, Records
<1>3. PageBook'
  BY <1>1, <1>2 DEF PageBook, NotAfter, sendVars, IInv, SendInv
<1>4. Own' = Own /\ Asked' = Asked
  BY DEF sendVars, Own, Asked
<1> QED
  BY <1>3, <1>4, NoNewIntent DEF sendVars, SendTypes, IInv, SendInv

\* The invariant holds in every behaviour.
THEOREM Invariance == Spec => []IInv
<1>1. Init => IInv
  <2> SUFFICES ASSUME Init PROVE IInv
    OBVIOUS
  <2>1. PlanInv
    BY PlanningBegins DEF Init
  <2>2. SendTypes
    BY RestIsPage DEF Init, SendTypes, Seats, Asked
  <2>3. PageBook /\ IntentBook
    BY RestIsPage DEF Init, PageBook, IntentBook, Own, Asked
  <2> QED
    BY <2>1, <2>2, <2>3 DEF IInv, SendInv
<1>2. IInv /\ [Next]_vars => IInv'
  <2> SUFFICES ASSUME IInv, [Next]_vars PROVE IInv'
    OBVIOUS
  <2>1. CASE PlanningNext /\ UNCHANGED sendVars
    BY <2>1, PlanningKeeps, BesideKeeps DEF IInv
  <2>2. ASSUME UNCHANGED planningVars PROVE PlanInv'
    BY <2>2 DEF planningVars, IInv, PlanInv, PlanTypes, OneFlight, CallBook, Sound
  <2>3. CASE UNCHANGED vars
    <3>1. UNCHANGED planningVars /\ UNCHANGED sendVars
      BY <2>3 DEF vars
    <3>2. SendInv'
      BY <3>1 DEF sendVars, planningVars, IInv, SendInv, SendTypes, PageBook, IntentBook, Own, Asked
    <3> QED
      BY <2>2, <3>1, <3>2 DEF IInv
  <2>4. CASE Tick \/ ReadPlan \/ ReadList \/ ReadSeat
    BY <2>2, <2>4, ReadKeeps DEF IInv, Tick, ReadPlan, ReadList, ReadSeat
  <2>5. CASE Pause \/ Holds \/ Unresolved \/ Reload \/ Answered
    BY <2>2, <2>5, RestsKeep DEF IInv, Pause, Holds, Unresolved, Reload, Answered, Rest
  <2>6. CASE Already \/ Send
    BY <2>2, <2>6, AlreadyKeeps, SendKeeps DEF IInv, Already, Send, Rest
  <2>7. CASE Toggle \/ Review \/ SeatChanges
    BY <2>2, <2>7, AroundKeeps DEF IInv, Toggle, Review, SeatChanges
  <2>8. CASE \E r \in wire : Create(r) \/ Repeat(r) \/ Refuse(r) \/ LoseRequest(r)
    BY <2>2, <2>8, BackendKeeps DEF IInv, Create, Repeat, Refuse, LoseRequest
  <2> QED
    BY <2>1, <2>3, <2>4, <2>5, <2>6, <2>7, <2>8 DEF Next
<1> QED
  BY <1>1, <1>2, PTL DEF Spec

\* One generation runs per context and mode, and whoever asked for a plan, and ran
\* or joined a generation, is answered about its own context: for any number of
\* callers, contexts and plans.
THEOREM OneGeneration == Spec => []SharedFlight
<1>1. IInv => SharedFlight
  <2> SUFFICES ASSUME IInv PROVE SharedFlight
    OBVIOUS
  <2>1. \A c, d \in Callers :
          /\ {calls[c].pc, calls[d].pc} \subseteq {"plans", "falls", "saves"}
          /\ calls[c].ctx = calls[d].ctx /\ calls[c].mode = calls[d].mode
          => c = d
    BY DEF IInv, PlanInv, OneFlight, Working
  <2>2. ASSUME NEW c \in Callers, calls[c].answer.id # 0
        PROVE  /\ audit[calls[c].answer.id].ctx = calls[c].ctx
               /\ audit[calls[c].answer.id].status = calls[c].answer.status
    <3>1. audit[calls[c].answer.id] = [ctx |-> calls[c].ctx, status |-> calls[c].answer.status]
      BY <2>2 DEF IInv, PlanInv, CallBook, Sound
    <3> QED
      BY <3>1
  <2> QED
    BY <2>1, <2>2 DEF SharedFlight
<1> QED
  BY <1>1, Invariance, PTL

\* One intent of the page is one command at most, for any number of plans, versions
\* of the binding, presences, keys and copies of a request.
THEOREM OneCommandPerIntent == Spec => []SameIntentOnce
<1>1. IInv => SameIntentOnce
  BY DEF IInv, SendInv, IntentBook, SameIntentOnce, Own, Asked
<1> QED
  BY <1>1, Invariance, PTL
================================================================================
