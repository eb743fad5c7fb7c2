-------------------------------- MODULE Planning --------------------------------
(***************************************************************************)
(* backend/internal/planning: callers ask for a prompt plan of one work    *)
(* unit; the planner (external) or the template writes it, the policy      *)
(* judges it against the context GitHub's snapshot gives at that moment,   *)
(* and the audit keeps the generation.                                     *)
(*                                                                         *)
(* A context is what its hash stands for: two contexts are the same if and *)
(* only if their hashes are.                                               *)
(***************************************************************************)
EXTENDS Integers, Sequences, FiniteSets

CONSTANTS Contexts,         \* what the snapshot may derive for the work unit
          Guarded,          \* contexts for which the policy passes no plan at all
          Callers,          \* requests of Generate that run side by side
          FallbackEnabled,  \* configuration
          MaxPlans          \* bound on the audit

ASSUME PlanningAssumption == /\ Guarded \subseteq Contexts
                             /\ FallbackEnabled \in BOOLEAN
                             /\ MaxPlans \in Nat

VARIABLES current,   \* the context derived from the persisted snapshot now
          audit,     \* generations in the order of their ids
          calls      \* what each caller is at

planningVars == <<current, audit, calls>>

Modes    == {"opencode", "fallback"}
Statuses == {"approved", "fallback", "rejected", "stale", "planner_error"}
Failed   == [id |-> 0, status |-> "error"]

\* A caller: the context and mode it asked with, the attempt at the planner, and
\* whose generation it waits for, and what it will save or has been answered.
Idle == [pc |-> "idle", ctx |-> CHOOSE x \in Contexts : TRUE, mode |-> "opencode",
         attempt |-> 0, leader |-> {}, answer |-> Failed]

(***************************************************************************)
(* The policy.                                                             *)
(***************************************************************************)
\* ValidatePlan, for a plan that agrees with its own context in every field.
\* Guarded contexts are those with an active blocker whose route is not to Lead,
\* with several Candidates and a route to a worker, or with an Issue that is too
\* long: ValidatePlan refuses every plan for them.
Verdict(ctx) == IF ctx # current THEN "stale"
                ELSE IF ctx \in Guarded THEN "rejected" ELSE "approved"

\* What the planner's text may be: a plan that says what its context says and
\* claims no authority, one that does not, or no plan.
Outputs == {"right", "wrong", "malformed"}

\* What cannot be parsed is not judged against today's context.
VerdictOn(output, ctx) ==
  CASE output = "right"     -> Verdict(ctx)
    [] output = "wrong"     -> IF ctx # current THEN "stale" ELSE "rejected"
    [] output = "malformed" -> "rejected"

(***************************************************************************)
(* Single flight.                                                          *)
(***************************************************************************)
Flying == {"plans", "falls", "saves", "saved"}

\* (fault) the key without the hash of the context
SameUnit(c, d) == calls[c].mode = calls[d].mode

\* The key of the map of running generations.
SameKey(c, d) == calls[c].ctx = calls[d].ctx /\ calls[c].mode = calls[d].mode

Flights(c) == {d \in Callers \ {c} : calls[d].pc \in Flying /\ SameKey(c, d)}

Go(c, pc) == calls' = [calls EXCEPT ![c].pc = pc]

\* freshContext at the start of Generate.
Ask(c) == /\ calls[c].pc = "idle"
          /\ \E mode \in Modes :
               calls' = [calls EXCEPT ![c] = [Idle EXCEPT !.pc = "asks", !.ctx = current,
                                                          !.mode = mode]]
          /\ UNCHANGED <<current, audit>>

\* Under the mutex: wait for the generation that runs for the same key, or run it.
Join(c) == /\ calls[c].pc = "asks"
           /\ IF Flights(c) # {}
              THEN \E d \in Flights(c) :
                     calls' = [calls EXCEPT ![c].pc = IF calls[d].pc = "saved" THEN "done" ELSE "waits",
                                            ![c].leader = {d}, ![c].answer = calls[d].answer]
              ELSE Go(c, IF calls[c].mode = "fallback" THEN "falls" ELSE "plans")
           /\ UNCHANGED <<current, audit>>

Decide(c, status) == calls' = [calls EXCEPT ![c].pc = "saves", ![c].answer.status = status]

NoPlan(c) == IF FallbackEnabled THEN Go(c, "falls") ELSE Decide(c, "planner_error")

\* The planner is disabled, unavailable or too slow.
PlannerFails(c) == /\ calls[c].pc = "plans"
                   /\ NoPlan(c)
                   /\ UNCHANGED <<current, audit>>

\* Its output is judged by a fresh context; what is rejected may be repaired once.
PlannerAnswers(c) ==
  /\ calls[c].pc = "plans"
  /\ \E output \in Outputs :
       LET status == VerdictOn(output, calls[c].ctx) IN
       IF status # "rejected" THEN Decide(c, status)
       ELSE IF calls[c].attempt = 0 THEN calls' = [calls EXCEPT ![c].attempt = 1]
       ELSE NoPlan(c)
  /\ UNCHANGED <<current, audit>>

\* persistFallback: the template's plan follows the route, but the policy may refuse
\* it where it would pass another one: it restates the issue, whose words may read
\* like a claim or an authority, and asks the route alone whether the Owner is needed.
RenderFallback(c) ==
  /\ calls[c].pc = "falls"
  /\ \E output \in Outputs \ {"malformed"} :
       LET status == VerdictOn(output, calls[c].ctx) IN
       Decide(c, IF status = "approved" THEN "fallback" ELSE status)
  /\ UNCHANGED <<current, audit>>

\* The call ends with its answer, and so do those that wait for it.
Close(c, answer) ==
  calls' = [d \in Callers |->
              IF d = c THEN [calls[c] EXCEPT !.pc = "saved", !.answer = answer]
              ELSE IF calls[d].pc = "waits" /\ c \in calls[d].leader
              THEN [calls[d] EXCEPT !.pc = "done", !.answer = answer]
              ELSE calls[d]]

Save(c) == /\ calls[c].pc = "saves"
           /\ Len(audit) < MaxPlans
           /\ audit' = Append(audit, [ctx |-> calls[c].ctx, status |-> calls[c].answer.status])
           /\ Close(c, [calls[c].answer EXCEPT !.id = Len(audit')])
           /\ UNCHANGED current

\* The database fails, or the caller that runs the generation is gone: its context
\* is the one the planner, the snapshot and the audit are called with.
Abort(c) == /\ calls[c].pc \in {"plans", "falls", "saves"}
            /\ Close(c, Failed)
            /\ UNCHANGED <<current, audit>>

\* The key is given back after the answer is there.
Release(c) == /\ calls[c].pc = "saved"
              /\ Go(c, "done")
              /\ UNCHANGED <<current, audit>>

\* The caller that waits is gone.
GiveUp(c) == /\ calls[c].pc = "waits"
             /\ calls' = [calls EXCEPT ![c].pc = "done", ![c].answer = Failed]
             /\ UNCHANGED <<current, audit>>

Leave(c) == /\ calls[c].pc = "done"
            /\ calls' = [calls EXCEPT ![c] = Idle]
            /\ UNCHANGED <<current, audit>>

\* A synchronisation, or a command that becomes active or ends.
ContextChanges == /\ current' \in Contexts \ {current}
                  /\ UNCHANGED <<audit, calls>>

PlanningInit == /\ current \in Contexts
                /\ audit = << >>
                /\ calls = [c \in Callers |-> Idle]

PlanningNext ==
  \/ ContextChanges
  \/ \E c \in Callers : \/ Ask(c) \/ Join(c) \/ PlannerFails(c) \/ PlannerAnswers(c)
                        \/ RenderFallback(c) \/ Save(c) \/ Abort(c) \/ Release(c)
                        \/ GiveUp(c) \/ Leave(c)

(***************************************************************************)
(* Reading a plan.                                                         *)
(***************************************************************************)
\* resultWithStaleness: Get and Latest say what a generation is worth today.
StatusNow(id) == IF audit[id].ctx # current THEN "stale" ELSE audit[id].status

Dispatchable(id) == StatusNow(id) \in {"approved", "fallback"}

(***************************************************************************)
(* Properties.                                                             *)
(***************************************************************************)
\* One generation runs per context and mode, and every caller, the one that ran
\* it or one that joined it, is answered about the context it asked with.
SharedFlight ==
  /\ \A c, d \in Callers :
       /\ {calls[c].pc, calls[d].pc} \subseteq {"plans", "falls", "saves"}
       /\ calls[c].ctx = calls[d].ctx /\ calls[c].mode = calls[d].mode
       => c = d
  /\ \A c \in Callers :
       calls[c].pc \in {"saved", "done"} /\ calls[c].answer.id # 0 =>
         /\ audit[calls[c].answer.id].ctx = calls[c].ctx
         /\ audit[calls[c].answer.id].status = calls[c].answer.status

=============================================================================
