-------------------------------- MODULE Routing --------------------------------
(***************************************************************************)
(* backend/internal/workflow: from the comments on an issue and its pull   *)
(* requests to the active blocker and the next route.                      *)
(*                                                                         *)
(* The state is what GitHub says of one work unit; everything else is      *)
(* derived from it anew each time, as DeriveProject does.  A comment is    *)
(* the terminal result it carries, either in a supervisor:event envelope   *)
(* (parser.go) or, `bound' to a command, in a dashboard marker that        *)
(* workerloop has accepted (state.go).  A comment's id is its position.    *)
(***************************************************************************)
EXTENDS Integers, Sequences, FiniteSets

CONSTANTS Heads,        \* commits that may head a pull request
          None,         \* no commit
          MaxComments   \* bound on the comments

ASSUME RoutingAssumption == None \notin Heads /\ MaxComments \in Nat

VARIABLES comments,   \* terminal results in canonical order
          open,       \* heads of the open pull requests linked to the issue
          ci,         \* conclusion of CI for the head of the one open pull request
          mergeable,  \* whether GitHub calls that pull request mergeable
          terminal,   \* the issue is closed or labelled terminal
          qaRequired  \* the workflow mode of the project, which never changes

vars == <<comments, open, ci, mergeable, terminal, qaRequired>>

(***************************************************************************)
(* Terminal results.                                                       *)
(***************************************************************************)
Blank == [role |-> "none", status |-> "none", bound |-> FALSE, safe |-> TRUE,
          head |-> None, verdict |-> "none", decision |-> "none",
          resume |-> "none", resolves |-> {}, queued |-> FALSE]

Said(role, status) == [Blank EXCEPT !.role = role, !.status = status]
OnHead(r, h)  == [r EXCEPT !.head = h]
Bound(r)      == [r EXCEPT !.bound = TRUE]
Judged(v)     == [Said("qa", "completed") EXCEPT !.verdict = v]
Decided(d, w) == [Said("lead", "completed") EXCEPT !.decision = d, !.resume = w]
Resuming(w, s) == [Decided("continue", w) EXCEPT !.resolves = s]
Escalating(e, s) == [Said("lead", e) EXCEPT !.decision = "owner_required", !.resolves = s]
Holding(d) == [Said("lead", "blocked") EXCEPT !.decision = d]
Stuck(s, q) == [Said("qa", s) EXCEPT !.verdict = "inconclusive", !.queued = q]

\* A marker that was not accepted or an envelope that cannot be read; an
\* envelope of QA that is only not safe (two in a comment) still has its fields.
Unreadable == [Blank EXCEPT !.safe = FALSE]
Doubtful(h) == [OnHead(Judged("approved"), h) EXCEPT !.safe = FALSE]

Roles == {"lead", "implementor", "qa"}

\* Lead names comments before its own, of which there are n.
Answers(n) ==
  {Resuming(w, s) : w \in Roles, s \in SUBSET (1..n)}
  \cup {Escalating(e, s) : e \in {"blocked", "completed"}, s \in SUBSET (1..n)}

Reported  == {Said("implementor", "completed"), Stuck("blocked", FALSE), Judged("approved"),
              Judged("changes_required"), Judged("inconclusive")}
Envelopes ==
  {OnHead(r, h) : r \in Reported, h \in Heads}
  \cup {Doubtful(h) : h \in Heads}
  \cup {Said("implementor", "blocked"), Said("lead", "blocked"), Unreadable}

Claimed  == {Said("implementor", "completed"), Decided("ready_to_merge", "none"),
             Judged("approved"), Judged("changes_required"),
             Stuck("inconclusive", FALSE), Stuck("inconclusive", TRUE)}
Unheaded == {Said("implementor", s) : s \in {"continue", "blocked", "no_op"}}
            \cup {Decided("dispatch", w) : w \in Roles}
            \cup {Decided("continue", "lead"), Decided("correct", "implementor")}
            \cup {Holding("owner_required"), Holding("hold")}
Markers  == {Bound(OnHead(r, h)) : r \in Claimed, h \in Heads} \cup {Bound(r) : r \in Unheaded}

(***************************************************************************)
(* The Candidate and the evidence bound to it.                             *)
(***************************************************************************)
Ambiguous == \E g, h \in open : g # h
CurrentHead == IF \E h \in Heads : open = {h} THEN CHOOSE h \in Heads : open = {h} ELSE None
CISucceeded == ci = "success"

\* (fault) a conclusion is not recognised
NoFailure == FALSE

CIFailed == ci = "failure"

\* projectResult: claims on the Candidate are compared with the pull request.
Claims(r) == /\ r.bound
             /\ \/ r.role = "implementor" /\ r.status = "completed"
                \/ r.decision = "ready_to_merge"
Safe(r) == r.safe /\ (Claims(r) => CurrentHead # None /\ r.head = CurrentHead)

\* (fault) only an absent head is refused
AnyKnownHead(r) == r.head # None

ExactHead(r) == CurrentHead # None /\ r.head = CurrentHead

\* correlateEvidence; "continue" and "no_op" of a command are not about the
\* Candidate and skip it.
Correlated(r) ==
  \/ r.bound /\ r.role = "implementor" /\ r.status \in {"continue", "no_op"}
  \/ /\ Ambiguous => r.status = "blocked"
     /\ (r.role = "qa" \/ (r.role = "implementor" /\ r.status # "blocked")) => ExactHead(r)

Effective(i) == Safe(comments[i]) /\ Correlated(comments[i])

\* A comment that holds no event at all leaves no result.
Results == {i \in DOMAIN comments : comments[i].role # "none"}
Latest  == CHOOSE i \in Results : \A j \in Results : j <= i

(***************************************************************************)
(* The active blocker: blocked results wait in a queue for Lead.           *)
(***************************************************************************)
Escalates(i) == /\ comments[i].role = "lead" /\ Effective(i)
                /\ comments[i].decision = "owner_required"

Actionable(i) ==
  \/ Escalates(i)
  \/ /\ comments[i].role = "lead" /\ Effective(i)
     /\ comments[i].status = "completed"
     /\ comments[i].resume \in {"implementor", "qa"}
     /\ comments[i].decision \in {"continue", "correct"}

\* The queue is in the order of the comments: who waits in it says it all.
First(queue) == CHOOSE b \in queue : \A c \in queue : b <= c

Names(i, queue) == Actionable(i) /\ queue # {} /\ First(queue) \in comments[i].resolves

\* (fault) a resolution that names nothing is taken for the first blocker
ResolvesFirst(i, queue) ==
  IF queue # {} /\ Actionable(i) /\ ~Escalates(i)
  THEN queue \ {First(queue)} ELSE queue

\* An escalation leaves the blocker pending until Owner has acted.
AfterLead(i, queue) ==
  IF Names(i, queue) /\ ~Escalates(i) THEN queue \ comments[i].resolves ELSE queue

Queues(i, queue) == /\ comments[i].status = "blocked" /\ Effective(i)
                    /\ ~ (Names(i, queue) /\ Escalates(i))

After(i, queue) == AfterLead(i, queue) \cup (IF Queues(i, queue) THEN {i} ELSE {})

Unresolved[n \in Nat] == IF n = 0 THEN {} ELSE After(n, Unresolved[n - 1])

ActiveBlocker == LET queue == Unresolved[Len(comments)]
                 IN  IF queue = {} THEN 0 ELSE First(queue)

\* (fault) an approval counts until another head is there
StickyApproval ==
  IF \E i \in Results : comments[i].verdict = "approved" /\ Effective(i)
  THEN CurrentHead ELSE None

\* QAApprovedHead: the latest result of QA, whatever it is worth, decides.
QAApprovedHead ==
  LET qa == {i \in Results : comments[i].role = "qa"}
      i  == CHOOSE j \in qa : \A k \in qa : k <= j
  IN  IF qa # {} /\ comments[i].verdict = "approved" /\ Effective(i)
      THEN comments[i].head ELSE None

(***************************************************************************)
(* deriveRoute.                                                            *)
(***************************************************************************)
Dispatch(role, reason) == [action |-> "dispatch", role |-> role, reason |-> reason]
Manual(reason) == [action |-> "manual_attention", role |-> "lead", reason |-> reason]
Rest(reason)   == [action |-> "none", role |-> "none", reason |-> reason]

EvidenceUnsafe == comments # << >> /\ ~Safe(comments[Len(comments)])

MergeReady == CISucceeded /\ QAApprovedHead = CurrentHead /\ ActiveBlocker = 0

MergeGate ==
  IF CurrentHead = None THEN Manual("merge_gate_missing_candidate")
  ELSE IF ~MergeReady THEN Manual("merge_gate_incomplete")
  ELSE IF ~mergeable THEN Manual("merge_gate_not_mergeable")
  ELSE [action |-> "merge_gate", role |-> "lead", reason |-> "ready_to_merge_verification"]

InconclusiveRoute(r) ==
  IF ~r.queued THEN Dispatch("lead", "qa_inconclusive")
  ELSE IF CISucceeded THEN Dispatch("qa", "qa_retry_after_ci")
  ELSE Rest("waiting_for_ci")

ImplementorRoute(r) ==
  IF r.status = "continue" THEN Dispatch("implementor", "implementation_continue")
  ELSE IF r.status = "no_op" THEN Dispatch("lead", "implementation_no_op")
  ELSE IF CIFailed THEN Dispatch("implementor", "candidate_ci_failed")
  ELSE IF ~CISucceeded THEN Rest("waiting_for_ci")
  ELSE IF qaRequired THEN Dispatch("qa", "implementation_completed")
  ELSE Dispatch("lead", "implementation_completed_no_qa")

QARoute(r) ==
  IF r.verdict = "approved" /\ r.bound /\ ~CISucceeded THEN Rest("waiting_for_ci")
  ELSE IF r.verdict = "approved" THEN Dispatch("lead", "qa_approved")
  ELSE IF r.verdict = "changes_required"
    THEN Dispatch(IF r.bound THEN "lead" ELSE "implementor", "qa_changes_required")
  ELSE Dispatch("lead", "qa_inconclusive")

LeadRoute(r) ==
  CASE r.bound /\ r.decision = "dispatch" -> Dispatch(r.resume, "lead_dispatch")
    [] r.bound /\ r.decision = "continue" -> Dispatch("lead", "lead_continue")
    [] r.bound /\ r.decision = "correct"  -> Dispatch("implementor", "lead_correction")
    [] r.bound /\ r.decision = "ready_to_merge" -> MergeGate
    [] ~r.bound /\ r.decision = "continue" ->
         IF r.resume = "lead" THEN Manual("invalid_lead_resume_role")
         ELSE Dispatch(r.resume, "lead_resume")
    [] OTHER -> Manual("unhandled_terminal_result")

BlockedRoute(r) == IF r.role = "lead" THEN Manual("lead_blocked_requires_decision")
                   ELSE Dispatch("lead", "lead_first_blocker")

\* (fault) a blocker counts only until somebody says something else
ForgottenBlocker(i) == FALSE

OtherBlocker(i) == ActiveBlocker # 0 /\ ActiveBlocker # i

EscalationRoute(i) ==
  IF OtherBlocker(i) /\ ActiveBlocker \notin comments[i].resolves
  THEN Manual("unresolved_active_blocker")
  ELSE [action |-> "owner_attention", role |-> "none", reason |-> "owner_required"]

RouteFrom(i) ==
  LET r == comments[i] IN
  IF ~Effective(i) THEN Manual("unsafe_terminal_result")
  ELSE IF Escalates(i) THEN EscalationRoute(i)
  ELSE IF r.bound /\ r.role = "qa" /\ r.status = "inconclusive" THEN InconclusiveRoute(r)
  ELSE IF OtherBlocker(i) THEN Manual("unresolved_active_blocker")
  ELSE IF r.status = "blocked" THEN BlockedRoute(r)
  ELSE IF r.role = "implementor" THEN ImplementorRoute(r)
  ELSE IF r.role = "qa" THEN QARoute(r)
  ELSE LeadRoute(r)

Route ==
  IF terminal THEN Rest("terminal_work_unit")
  ELSE IF Ambiguous THEN Manual("ambiguous_candidate")
  ELSE IF EvidenceUnsafe THEN Manual("unsafe_terminal_result")
  ELSE IF Results = {} THEN Dispatch("implementor", "initial_implementation")
  ELSE RouteFrom(Latest)

(***************************************************************************)
(* What the dashboard shows.                                               *)
(***************************************************************************)
\* routeWithExternalCommand: a command of workerloop that is at work, or that failed
\* or is ambiguous, closes the route.
Commands == {"none", "at_work", "exceptional"}

RouteWith(command) ==
  CASE command = "at_work"     -> Rest("awaiting_worker_result")
    [] command = "exceptional" -> Manual("workflow_command_failed")
    [] OTHER -> Route

\* An approval of another head is lost until QA has judged the current one.
QAInvalidated ==
  LET qa == {i \in Results : comments[i].role = "qa"}
  IN  /\ CurrentHead \notin {None, QAApprovedHead}
      /\ ~ \E i \in qa : /\ \A j \in qa : j <= i
                        /\ Effective(i) /\ ExactHead(comments[i])
      /\ \E i \in qa : /\ comments[i].verdict = "approved"
                      /\ comments[i].head \notin {None, CurrentHead}

\* deriveAttention.  Whether the last comment or CI raises a warning about the
\* protocol is left open, except that an unsafe comment always does.
Attentions(command) ==
  LET route == RouteWith(command) IN
  IF terminal THEN {"terminal"}
  ELSE IF Ambiguous THEN {"ambiguous"}
  ELSE IF route.action = "owner_attention" THEN {"owner_required"}
  ELSE IF ActiveBlocker # 0 THEN {"blocked"}
  ELSE IF CIFailed THEN {"ci_failed"}
  ELSE IF QAInvalidated THEN {"qa_invalidated"}
  ELSE IF EvidenceUnsafe THEN {"protocol_warning"}
  ELSE {"protocol_warning",
        IF route.reason = "waiting_for_ci" THEN "waiting_for_ci"
        ELSE IF route.action \in {"dispatch", "manual_attention"} THEN "action_required"
        ELSE "normal"}

\* planning's ValidatePlan passes no plan that would go around a blocker.
PolicyPasses == ~ /\ Route.action = "dispatch"
                  /\ Ambiguous \/ (ActiveBlocker # 0 /\ Route.role # "lead")

(***************************************************************************)
(* What happens on GitHub between two synchronisations.                    *)
(***************************************************************************)
\* A finished run may also be neither: "skipped" stands for neutral and stale as well.
Conclusions == {"none", "success", "failure", "skipped"}

Init == /\ comments = << >>
        /\ open = {}
        /\ ci = "none"
        /\ mergeable = FALSE
        /\ terminal = FALSE
        /\ qaRequired \in BOOLEAN

Post == /\ Len(comments) < MaxComments
        /\ \E r \in Answers(Len(comments)) \cup Envelopes \cup Markers : comments' = Append(comments, r)
        /\ UNCHANGED <<open, ci, mergeable, terminal, qaRequired>>

\* A pull request is opened or closed, or its head moves, also back to a commit
\* that was judged before.
PullRequests ==
  /\ open' \in {s \in SUBSET Heads : Cardinality(s) <= 2} \ {open}   \* two stand for more
  /\ ci' \in IF CurrentHead' # None THEN Conclusions ELSE {"none"}
  /\ mergeable' = FALSE
  /\ UNCHANGED <<comments, terminal, qaRequired>>

Conclude == /\ CurrentHead # None
            /\ ci' \in Conclusions \ {ci}
            /\ UNCHANGED <<comments, open, mergeable, terminal, qaRequired>>

Mergeability == /\ CurrentHead # None
                /\ mergeable' = ~mergeable
                /\ UNCHANGED <<comments, open, ci, terminal, qaRequired>>

\* While the unit is terminal nothing is routed; what is posted then is seen
\* when it is reopened.
Terminate == /\ terminal' = ~terminal
             /\ UNCHANGED <<comments, open, ci, mergeable, qaRequired>>

Next == IF terminal THEN Terminate
        ELSE Post \/ PullRequests \/ Conclude \/ Mergeability \/ Terminate

Spec == Init /\ [][Next]_vars

(***************************************************************************)
(* Properties.                                                             *)
(***************************************************************************)
Words == [role : Roles \cup {"none"},
          status : {"none", "completed", "blocked", "continue", "no_op", "inconclusive"},
          bound : BOOLEAN, safe : BOOLEAN, head : Heads \cup {None},
          verdict : {"none", "approved", "changes_required", "inconclusive"},
          decision : {"none", "continue", "correct", "dispatch", "ready_to_merge",
                      "owner_required", "hold"},
          resume : Roles \cup {"none"}, resolves : SUBSET Nat, queued : BOOLEAN]

\* Comments are results; one without an event is never safe to act on.
TypeOK == /\ comments \in Seq(Words)
          /\ \A i \in DOMAIN comments : comments[i].role = "none" => ~comments[i].safe
          /\ open \in SUBSET Heads
          /\ ci \in Conclusions
          /\ mergeable \in BOOLEAN /\ terminal \in BOOLEAN /\ qaRequired \in BOOLEAN

\* The merge gate opens only on what GitHub says now: one open pull request,
\* CI succeeded for its head, it can be merged, the last word of QA approves
\* exactly this head, and the last word of all is Lead's claim for this head.
MergeVerified ==
  Route.action = "merge_gate" =>
    \E h \in Heads :
       /\ open = {h} /\ ci = "success" /\ mergeable /\ ~terminal
       /\ comments[Len(comments)].decision = "ready_to_merge"
       /\ comments[Len(comments)].head = h
       /\ \E i \in Results :
            /\ comments[i].role = "qa" /\ comments[i].verdict = "approved"
            /\ comments[i].head = h /\ comments[i].safe
            /\ \A j \in Results : j > i => comments[j].role # "qa"

\* Lead has answered comment b: a later safe result names it and resumes a worker.
Answered(b) == \E j \in Results : /\ j > b /\ comments[j].role = "lead" /\ comments[j].safe
                                  /\ b \in comments[j].resolves
                                  /\ comments[j].resume \in {"implementor", "qa"}

\* A worker is blocked by what counts today, and Lead has not answered.
Unanswered(b) == /\ comments[b].role \in {"implementor", "qa"} /\ comments[b].status = "blocked"
                 /\ Effective(b)
                 /\ ~Answered(b)

\* Blockers go to Lead first: while a blocked worker is unanswered nothing is
\* merged and no worker is sent to work, whoever spoke since.  The route of the
\* retry of QA after CI does not ask for blockers; the policy does, so that there
\* is no plan for it.
LeadFirst ==
  (\E b \in Results : Unanswered(b)) =>
     /\ Route.action # "merge_gate"
     /\ Route.action = "dispatch" /\ Route.role # "lead" =>
          Route.reason = "qa_retry_after_ci" /\ ~PolicyPasses

\* The active blocker goes only when Lead has answered it; or when the pull
\* requests changed and either an earlier blocker is back before it or it was
\* QA's, or Lead's word on QA's: evidence about a Candidate goes with its head.
BlockerNeedsLead ==
  [][\A b \in {ActiveBlocker} \ {0} :
       ActiveBlocker' # b =>
         \/ Answered(b)'
         \/ /\ open' # open
            /\ comments[b].role # "implementor" \/ ActiveBlocker' \in 1..b]_vars

\* A push of a commit nobody has spoken of stops every advance that rests on a
\* judgement of an earlier one: no merge, no review of a finished Candidate, no
\* Lead decision on an approval, no retry.
PushStopsAdvance ==
  [][(/\ open' # open
      /\ \A i \in Results : comments[i].head \notin open') =>
        /\ (Route').action # "merge_gate"
        /\ (Route').reason \notin {"implementation_completed", "implementation_completed_no_qa",
                                   "qa_approved", "qa_changes_required", "qa_retry_after_ci"}]_vars

\* Calm is never shown of a unit that stands still for good: nothing needs attention
\* only while a command is at work or the merge gate is open, and a unit waits for CI
\* only while its one pull request has neither passed nor failed; in neither case is
\* a blocked worker unanswered or the last word unsafe.
CalmIsTrue ==
  \A command \in Commands :
    LET shown == Attentions(command) IN
    shown \cap {"normal", "waiting_for_ci"} # {} =>
      /\ "normal" \in shown => command = "at_work" \/ Route.action = "merge_gate"
      /\ "waiting_for_ci" \in shown =>
           ci \in {"none", "skipped"} /\ \E h \in Heads : open = {h}
      /\ \A b \in Results : ~Unanswered(b)
      /\ comments = << >> \/ Safe(comments[Len(comments)])

=============================================================================
