----------------------------- MODULE RoutingProof -----------------------------
(***************************************************************************)
(* Proofs about Routing: types, the queue of blockers, what the merge gate   *)
(* and an advance rest on, and what is shown of a unit.                     *)
(***************************************************************************)
EXTENDS Routing, FiniteSetTheorems, WellFoundedInduction, TLAPS

\* A set of numbers that is not empty has a least one: the intervals up to its
\* members are finite sets, and inclusion of these is well-founded.
LEMMA LeastNumber ==
  ASSUME NEW T \in SUBSET Nat, T # {}
  PROVE  \E m \in T : \A k \in T : m <= k
<1> DEFINE I == {1..n : n \in T}
<1>1. \A n \in Nat : 1..n \in FiniteSubsetsOf(Nat)
  <2> SUFFICES ASSUME NEW n \in Nat PROVE 1..n \in FiniteSubsetsOf(Nat)
    OBVIOUS
  <2>1. IsFiniteSet(1..n)
    BY FS_Interval
  <2> QED BY <2>1 DEF FiniteSubsetsOf
<1>2. I \subseteq FiniteSubsetsOf(Nat) /\ I # {}
  BY <1>1
<1>3. PICK x \in I : \A y \in I : ~ (<<y, x>> \in StrictSubsetOrdering(Nat))
  <2> HIDE DEF I
  <2> QED BY <1>2, FS_StrictSubsetOrderingWellFounded, WFMin
<1>4. PICK m \in T : x = 1..m
  OBVIOUS
<1>5. ASSUME NEW k \in T, k < m PROVE FALSE
  <2>1. 1..k \subseteq 1..m /\ m \in 1..m /\ m \notin 1..k
    BY <1>5
  <2>2. 1..k # x /\ 1..k \subseteq x /\ 1..k \in SUBSET Nat /\ x \in SUBSET Nat
    BY <1>4, <2>1
  <2>3. <<1..k, x>> \in StrictSubsetOrdering(Nat)
    BY <2>2 DEF StrictSubsetOrdering
  <2> QED BY <1>3, <2>3
<1> QED BY <1>5

\* Induction, for a set of numbers.
LEMMA NatInd ==
  ASSUME NEW S \in SUBSET Nat, 0 \in S, \A n \in S : n + 1 \in S
  PROVE  S = Nat
<1> SUFFICES ASSUME Nat \ S # {} PROVE FALSE
  OBVIOUS
<1>1. PICK m \in Nat \ S : \A k \in Nat \ S : m <= k
  <2> PICK T : T = Nat \ S
    OBVIOUS
  <2> QED BY LeastNumber
<1>2. m # 0 /\ m - 1 \in Nat /\ m - 1 \in S
  BY <1>1
<1> QED BY <1>1, <1>2

\* What a comment may be: a word, without an event only if it is not safe, and
\* with a decision only if it is Lead's.
Fair(r) == /\ r \in Words
           /\ r.role = "none" => ~r.safe
           /\ r.decision # "none" => r.role = "lead"

\* Marking a word as bound, or as about a commit, keeps it fair.
LEMMA MarksAreFair ==
  ASSUME NEW r, Fair(r)
  PROVE  Fair(Bound(r)) /\ \A h \in Heads : Fair(OnHead(r, h))
  BY DEF Fair, Words, Bound, OnHead

LEMMA SaidIsFair ==
  ASSUME NEW p \in Roles, NEW s \in {"completed", "blocked", "continue", "no_op", "inconclusive"}
  PROVE  Fair(Said(p, s)) /\ Said(p, s) \in Words /\ Said(p, s).role = p
  BY DEF Fair, Said, Blank, Words, Roles

LEMMA ResultsFair ==
  ASSUME NEW n \in Nat, NEW r \in Answers(n) \cup Envelopes \cup Markers
  PROVE  Fair(r)
<1>0. "lead" \in Roles /\ "qa" \in Roles /\ "implementor" \in Roles
  BY DEF Roles
<1>j. \A v \in {"approved", "changes_required", "inconclusive"} : Fair(Judged(v))
  BY DEF Fair, Judged, Said, Blank, Words, Roles
<1>s. \A s \in {"blocked", "inconclusive"}, q \in BOOLEAN : Fair(Stuck(s, q))
  BY DEF Fair, Stuck, Said, Blank, Words, Roles
<1>d. \A w \in Roles \cup {"none"}, d \in {"dispatch", "continue", "correct", "ready_to_merge"} :
         Fair(Decided(d, w))
  BY DEF Fair, Decided, Said, Blank, Words, Roles
<1>h. Fair(Holding("owner_required")) /\ Fair(Holding("hold"))
  BY DEF Fair, Holding, Said, Blank, Words, Roles
<1>u. Fair(Unreadable) /\ \A h \in Heads : Fair(Doubtful(h))
  BY DEF Fair, Unreadable, Doubtful, OnHead, Judged, Said, Blank, Words, Roles
<1> HIDE DEF Fair
<1>1. CASE r \in Envelopes
  <2>1. \A e \in Reported : Fair(e)
    BY <1>0, <1>j, <1>s, SaidIsFair DEF Reported
  <2>2. Fair(Said("implementor", "blocked")) /\ Fair(Said("lead", "blocked"))
    BY <1>0, SaidIsFair
  <2> QED BY <1>1, <1>u, <2>1, <2>2, MarksAreFair DEF Envelopes
<1>2. CASE r \in Markers
  <2>1. \A e \in Claimed : Fair(e)
    BY <1>0, <1>j, <1>s, <1>d, SaidIsFair DEF Claimed
  <2>2. \A e \in Unheaded : Fair(e)
    BY <1>0, <1>d, <1>h, SaidIsFair DEF Unheaded
  <2> QED BY <1>2, <2>1, <2>2, MarksAreFair DEF Markers
<1>3. CASE r \in Answers(n)
  <2>n. SUBSET (1..n) \subseteq SUBSET Nat
    OBVIOUS
  <2> USE DEF Fair
  <2>5. \A w \in Roles, s \in SUBSET Nat : Fair(Resuming(w, s))
    BY DEF Fair, Resuming, Decided, Said, Blank, Words, Roles
  <2>6. \A e \in {"blocked", "completed"}, s \in SUBSET Nat :
           Fair(Escalating(e, s))
    BY DEF Fair, Escalating, Said, Blank, Words, Roles
  <2> HIDE DEF Fair
  <2>c. \/ \E w \in Roles, s \in SUBSET (1..n) : r = Resuming(w, s)
        \/ \E e \in {"blocked", "completed"}, s \in SUBSET (1..n) : r = Escalating(e, s)
    BY <1>3, SMT DEF Answers
  <2> QED BY <2>c, <2>n, <2>5, <2>6
<1> QED BY <1>1, <1>2, <1>3

\* Every set of comments that is not empty has a latest one.
HasLatest == \A S \in SUBSET DOMAIN comments :
               S # {} => \E m \in S : \A k \in S : k <= m

LEMMA LatestExists ==
  ASSUME TypeOK
  PROVE  HasLatest
<1> SUFFICES ASSUME NEW S \in SUBSET DOMAIN comments, S # {}
             PROVE  \E m \in S : \A k \in S : k <= m
  BY DEF HasLatest
<1>1. S \subseteq 1..Len(comments) /\ Len(comments) \in Nat
  BY DEF TypeOK
<1> PICK N \in Nat : N = Len(comments)
  BY <1>1
<1> DEFINE T == {N - k : k \in S}
<1>2. T \in SUBSET Nat /\ T # {}
  BY <1>1
<1>3. PICK t \in T : \A u \in T : t <= u
  <2> HIDE DEF T
  <2> QED BY <1>2, LeastNumber
<1>4. PICK m \in S : t = N - m
  OBVIOUS
<1>5. ASSUME NEW k \in S PROVE k <= m
  <2>1. N - m <= N - k
    BY <1>3, <1>4
  <2> QED BY <1>1, <2>1
<1> QED BY <1>5

\* Only Lead decides.
LeadDecides == \A i \in DOMAIN comments :
                 comments[i].decision # "none" => comments[i].role = "lead"

IInv == TypeOK /\ LeadDecides

LEMMA PostKeeps ==
  ASSUME IInv, Post
  PROVE  IInv'
<1> PICK r \in Answers(Len(comments)) \cup Envelopes \cup Markers : comments' = Append(comments, r)
  BY DEF Post
<1>1. Len(comments) \in Nat /\ DOMAIN comments = 1..Len(comments)
  BY DEF IInv, TypeOK
<1>2. Fair(r)
  BY <1>1, ResultsFair
<1>3. /\ comments' \in Seq(Words) /\ DOMAIN comments' = 1..(Len(comments) + 1)
      /\ \A i \in DOMAIN comments : comments'[i] = comments[i]
      /\ comments'[Len(comments) + 1] = r
  BY <1>1, <1>2 DEF IInv, TypeOK, Fair
<1>4. TypeOK'
  BY <1>1, <1>2, <1>3 DEF IInv, TypeOK, Post, Fair
<1>5. LeadDecides'
  BY <1>1, <1>2, <1>3 DEF IInv, LeadDecides, Fair
<1> QED BY <1>4, <1>5 DEF IInv

\* The invariant holds in every behaviour.
THEOREM Invariance == Spec => []IInv
<1>1. Init => IInv
  <2> SUFFICES ASSUME Init PROVE IInv
    OBVIOUS
  <2>1. comments = << >> /\ DOMAIN comments = {} /\ comments \in Seq(Words)
    BY DEF Init
  <2> QED BY <2>1 DEF Init, IInv, TypeOK, LeadDecides, Conclusions
<1>2. IInv /\ [Next]_vars => IInv'
  <2> SUFFICES ASSUME IInv, [Next]_vars PROVE IInv'
    OBVIOUS
  <2>1. CASE Post
    BY <2>1, PostKeeps
  <2>2. CASE UNCHANGED comments /\ TypeOK'
    BY <2>2 DEF IInv, LeadDecides
  <2>3. CASE PullRequests
    <3>1. open' \in SUBSET Heads /\ ci' \in Conclusions
      BY <2>3 DEF PullRequests, Conclusions
    <3> QED BY <2>2, <2>3, <3>1 DEF PullRequests, IInv, TypeOK
  <2>4. CASE Conclude
    BY <2>2, <2>4 DEF Conclude, IInv, TypeOK
  <2>5. CASE Mergeability
    BY <2>2, <2>5 DEF Mergeability, IInv, TypeOK
  <2>6. CASE Terminate
    BY <2>2, <2>6 DEF Terminate, IInv, TypeOK
  <2>7. CASE UNCHANGED vars
    BY <2>2, <2>7 DEF vars, IInv, TypeOK
  <2> QED BY <2>1, <2>3, <2>4, <2>5, <2>6, <2>7 DEF Next
<1> QED BY <1>1, <1>2, PTL DEF Spec

\* Every reachable state is well typed.
THEOREM TypeCorrect == Spec => []TypeOK
<1>1. IInv => TypeOK
  BY DEF IInv
<1> QED BY <1>1, Invariance, PTL

\* The one open pull request has the current head.
LEMMA OneHead ==
  ASSUME CurrentHead # None
  PROVE  open = {CurrentHead} /\ CurrentHead \in Heads
<1>1. \E h \in Heads : open = {h}
  BY DEF CurrentHead
<1> QED BY <1>1 DEF CurrentHead

\* When the last comment is safe it is the latest result.
LEMMA LastIsLatest ==
  ASSUME TypeOK, Results # {}, ~EvidenceUnsafe
  PROVE  /\ Len(comments) \in Results /\ Latest = Len(comments)
         /\ Safe(comments[Len(comments)])
<1>1. DOMAIN comments = 1..Len(comments) /\ Len(comments) \in Nat
  BY DEF TypeOK
<1>2. Len(comments) \in DOMAIN comments /\ comments # << >>
  BY <1>1 DEF Results
<1>3. Safe(comments[Len(comments)])
  BY <1>2 DEF EvidenceUnsafe
<1>4. Len(comments) \in Results
  BY <1>2, <1>3 DEF Results, Safe, TypeOK
<1>5. Results \subseteq 1..Len(comments)
  BY <1>1 DEF Results
<1>6. ASSUME NEW i \in Results, \A j \in Results : j <= i
      PROVE  i = Len(comments)
  <2>1. Len(comments) <= i
    BY <1>4, <1>6
  <2>2. i \in 1..Len(comments)
    BY <1>5
  <2>3. \A n \in Nat : \A k \in 1..n : n <= k => k = n
    OBVIOUS
  <2> QED BY <1>1, <2>1, <2>2, <2>3
<1>7. \A j \in Results : j <= Len(comments)
  BY <1>1, <1>5
<1> QED BY <1>3, <1>4, <1>6, <1>7 DEF Latest

\* The merge gate asks for everything MergeReady names.
LEMMA GateRoute ==
  ASSUME Route.action = "merge_gate"
  PROVE  /\ ~terminal /\ ~EvidenceUnsafe /\ Results # {}
         /\ comments[Latest].decision = "ready_to_merge" /\ comments[Latest].bound
         /\ CurrentHead # None /\ MergeReady /\ mergeable
<1>1. /\ ~terminal /\ ~EvidenceUnsafe /\ Results # {}
      /\ RouteFrom(Latest).action = "merge_gate"
  BY DEF Route, Rest, Manual, Dispatch
<1>2. LeadRoute(comments[Latest]).action = "merge_gate"
  BY <1>1 DEF RouteFrom, EscalationRoute, InconclusiveRoute, BlockedRoute, ImplementorRoute,
              QARoute, Rest, Manual, Dispatch
<1>3. /\ comments[Latest].bound /\ comments[Latest].decision = "ready_to_merge"
      /\ MergeGate.action = "merge_gate"
  BY <1>2 DEF LeadRoute, Manual, Dispatch
<1>4. CurrentHead # None /\ MergeReady /\ mergeable
  BY <1>3 DEF MergeGate, Manual
<1> QED BY <1>1, <1>3, <1>4

\* An approved head is the verdict of the latest result of QA.
LEMMA ApprovalIsLatest ==
  ASSUME IInv, CurrentHead # None, QAApprovedHead = CurrentHead
  PROVE  \E i \in Results :
           /\ comments[i].role = "qa" /\ comments[i].verdict = "approved"
           /\ comments[i].head = CurrentHead /\ comments[i].safe
           /\ \A j \in Results : j > i => comments[j].role # "qa"
<1> DEFINE qa == {i \in Results : comments[i].role = "qa"}
           last == CHOOSE j \in qa : \A k \in qa : k <= j
<1>1. qa # {} /\ comments[last].verdict = "approved" /\ Effective(last) /\ comments[last].head = CurrentHead
  BY DEF QAApprovedHead
<1>2. qa \in SUBSET DOMAIN comments /\ DOMAIN comments \subseteq Nat
  BY DEF Results, IInv, TypeOK
<1>3. \E j \in qa : \A k \in qa : k <= j
  BY <1>1, <1>2, LatestExists DEF IInv, HasLatest
<1>4. last \in qa /\ \A k \in qa : k <= last
  BY <1>3
<1>5. comments[last].safe
  BY <1>1 DEF Effective, Safe
<1>6. \A j \in Results : j > last => comments[j].role # "qa"
  <2> SUFFICES ASSUME NEW j \in Results, j > last, comments[j].role = "qa" PROVE FALSE
    OBVIOUS
  <2>1. j \in qa /\ j \in Nat /\ last \in Nat
    BY <1>2, <1>4
  <2> QED BY <2>1, <1>4
<1> HIDE DEF last
<1> QED BY <1>1, <1>4, <1>5, <1>6

\* The merge gate rests on what GitHub says now, for any number of comments
\* and commits.
THEOREM MergeOnFacts == Spec => []MergeVerified
<1>1. IInv => MergeVerified
  <2> SUFFICES ASSUME IInv, Route.action = "merge_gate"
               PROVE  MergeVerified
    BY DEF MergeVerified
  <2>1. /\ ~terminal /\ ~EvidenceUnsafe /\ Results # {}
        /\ comments[Latest].decision = "ready_to_merge" /\ comments[Latest].bound
        /\ CurrentHead # None /\ MergeReady /\ mergeable
    BY GateRoute
  <2>2. Latest = Len(comments) /\ Safe(comments[Len(comments)])
    BY <2>1, LastIsLatest DEF IInv
  <2>3. comments[Len(comments)].head = CurrentHead
    BY <2>1, <2>2 DEF Safe, Claims
  <2>4. ci = "success" /\ QAApprovedHead = CurrentHead
    BY <2>1 DEF MergeReady, CISucceeded
  <2>5. open = {CurrentHead} /\ CurrentHead \in Heads
    BY <2>1, OneHead
  <2> QED BY <2>1, <2>2, <2>3, <2>4, <2>5, ApprovalIsLatest DEF MergeVerified
<1> QED BY <1>1, Invariance, PTL

Advances == {"implementation_completed", "implementation_completed_no_qa",
             "qa_approved", "qa_changes_required", "qa_retry_after_ci"}

\* A result that reports on a Candidate is effective only for the current head.
LEMMA ReportsOnHead ==
  ASSUME NEW i \in Results, Effective(i),
         \/ comments[i].role = "qa"
         \/ comments[i].role = "implementor" /\ comments[i].status \notin {"blocked", "continue", "no_op"}
  PROVE  CurrentHead # None /\ comments[i].head = CurrentHead
BY DEF Effective, Correlated, ExactHead

\* An advance rests on a report of the latest result, which is then of the head.
LEMMA AdvanceOnHead ==
  ASSUME IInv, Route.reason \in Advances
  PROVE  \E i \in Results : comments[i].head \in open
<1> DEFINE r == comments[Latest]
<1>1. ~terminal /\ ~EvidenceUnsafe /\ Results # {} /\ RouteFrom(Latest).reason \in Advances
  BY DEF Route, Rest, Manual, Dispatch, Advances
<1>2. Latest \in Results
  BY <1>1, LastIsLatest DEF IInv
<1>3. Effective(Latest) /\ ~Escalates(Latest)
  BY <1>1 DEF RouteFrom, Manual, EscalationRoute, Advances
<1>4. \/ r.role = "qa"
      \/ r.role = "implementor" /\ r.status \notin {"blocked", "continue", "no_op"}
  <2>1. CASE r.bound /\ r.role = "qa" /\ r.status = "inconclusive"
    BY <2>1
  <2>2. CASE ~(r.bound /\ r.role = "qa" /\ r.status = "inconclusive")
    <3>1. ~OtherBlocker(Latest) /\ r.status # "blocked"
      BY <1>1, <1>3, <2>2 DEF RouteFrom, BlockedRoute, Manual, Dispatch, Advances
    <3>2. CASE r.role = "implementor"
      <4>1. ImplementorRoute(r).reason \in Advances
        BY <1>1, <1>3, <2>2, <3>1, <3>2 DEF RouteFrom
      <4> QED BY <3>1, <3>2, <4>1 DEF ImplementorRoute, Dispatch, Advances
    <3>3. CASE r.role \notin {"implementor", "qa"}
      <4>1. LeadRoute(r).reason \in Advances
        BY <1>1, <1>3, <2>2, <3>1, <3>3 DEF RouteFrom
      <4>2. MergeGate.reason \notin Advances
        BY DEF MergeGate, Manual, Advances
      <4> QED BY <4>1, <4>2 DEF LeadRoute, Dispatch, Manual, Advances
    <3> QED BY <3>2, <3>3
  <2> QED BY <2>1, <2>2
<1>5. CurrentHead # None /\ r.head = CurrentHead
  BY <1>2, <1>3, <1>4, ReportsOnHead
<1>6. open = {CurrentHead}
  BY <1>5, OneHead
<1> QED BY <1>2, <1>5, <1>6

LEMMA GateOnHead ==
  ASSUME IInv, Route.action = "merge_gate"
  PROVE  \E i \in Results : comments[i].head \in open
<1>1. /\ ~EvidenceUnsafe /\ Results # {} /\ CurrentHead # None
      /\ comments[Latest].decision = "ready_to_merge" /\ comments[Latest].bound
  BY GateRoute
<1>2. Latest \in Results /\ Latest = Len(comments) /\ Safe(comments[Latest])
  BY <1>1, LastIsLatest DEF IInv
<1>3. comments[Latest].head = CurrentHead
  BY <1>1, <1>2 DEF Safe, Claims
<1> QED BY <1>1, <1>2, <1>3, OneHead

\* A push of commits nobody has spoken of leaves neither the merge gate nor an
\* advance that rests on a judgement, for any history and any commits.
THEOREM PushStops == Spec => PushStopsAdvance
<1> DEFINE Rested == (Route.action = "merge_gate" \/ Route.reason \in Advances)
                        => \E i \in Results : comments[i].head \in open
           A == (/\ open' # open
                 /\ \A i \in Results : comments[i].head \notin open') =>
                   /\ (Route').action # "merge_gate"
                   /\ (Route').reason \notin {"implementation_completed", "implementation_completed_no_qa",
                                              "qa_approved", "qa_changes_required", "qa_retry_after_ci"}
<1>1. IInv => Rested
  BY AdvanceOnHead, GateOnHead
<1>2. Rested' /\ [Next]_vars => A
  <2> SUFFICES ASSUME Rested', [Next]_vars, open' # open,
                      \A i \in Results : comments[i].head \notin open'
               PROVE  (Route').action # "merge_gate" /\ (Route').reason \notin Advances
    BY DEF Advances
  <2>1. comments' = comments
    BY DEF Next, Post, PullRequests, Conclude, Mergeability, Terminate, vars
  <2>2. Results' = Results
    BY <2>1 DEF Results
  <2>3. ~ \E i \in Results' : comments'[i].head \in open'
    BY <2>1, <2>2
  <2> QED BY <2>3
<1>3. [][A]_vars <=> PushStopsAdvance
  BY DEF PushStopsAdvance
<1> HIDE DEF A, Rested
<1> QED BY <1>1, <1>2, <1>3, Invariance, PTL DEF Spec

\* What a comment leaves of the queue is again a set of comments so far.
LEMMA AfterType ==
  ASSUME NEW n \in Nat, NEW q \in SUBSET (1..n)
  PROVE  After(n + 1, q) \in SUBSET (1..(n + 1))
<1>1. AfterLead(n + 1, q) \subseteq q
  BY DEF AfterLead
<1>2. n + 1 \in 1..(n + 1) /\ 1..n \subseteq 1..(n + 1)
  OBVIOUS
<1> QED BY <1>1, <1>2 DEF After

\* The queue after each of the first n comments.
Queue(n, g) == /\ g \in [0..n -> SUBSET Nat]
               /\ g[0] = {}
               /\ \A k \in 1..n : g[k] = After(k, g[k - 1]) /\ g[k] \subseteq 1..k

LEMMA QueueExists ==
  ASSUME NEW n \in Nat
  PROVE  \E g : Queue(n, g)
<1> DEFINE S == {m \in Nat : \E g : Queue(m, g)}
<1>1. 0 \in S
  <2>1. Queue(0, [k \in 0..0 |-> {}])
    BY DEF Queue
  <2> QED BY <2>1
<1>2. ASSUME NEW m \in S PROVE m + 1 \in S
  <2>1. m \in Nat
    OBVIOUS
  <2>2. PICK g : Queue(m, g)
    OBVIOUS
  <2>3. g[m] \in SUBSET (1..m)
    BY <2>1, <2>2 DEF Queue
  <2>4. After(m + 1, g[m]) \in SUBSET (1..(m + 1))
    BY <2>1, <2>3, AfterType
  <2> PICK a : a = After(m + 1, g[m])
    OBVIOUS
  <2> DEFINE h == [k \in 0..(m + 1) |-> IF k = m + 1 THEN a ELSE g[k]]
  <2>5. \A k \in 0..m : h[k] = g[k]
    BY <2>1
  <2>6. h[m + 1] = After(m + 1, h[m]) /\ h[m + 1] \subseteq 1..(m + 1)
    BY <2>1, <2>4, <2>5
  <2>7. h[0] = {} /\ h \in [0..(m + 1) -> SUBSET Nat]
    BY <2>1, <2>2, <2>4, <2>5 DEF Queue
  <2>8. ASSUME NEW k \in 1..m PROVE h[k] = After(k, h[k - 1]) /\ h[k] \subseteq 1..k
    <3>1. k \in 0..m /\ k - 1 \in 0..m
      BY <2>1
    <3>2. g[k] = After(k, g[k - 1]) /\ g[k] \subseteq 1..k
      BY <2>2 DEF Queue
    <3> HIDE DEF h
    <3>3. h[k] = g[k] /\ h[k - 1] = g[k - 1]
      BY <2>5, <3>1
    <3> QED BY <3>2, <3>3
  <2> HIDE DEF h
  <2>9. Queue(m + 1, h)
    <3>1. \A k \in 1..(m + 1) : k = m + 1 \/ k \in 1..m
      BY <2>1
    <3>2. (m + 1) - 1 = m
      BY <2>1
    <3>3. ASSUME NEW k \in 1..(m + 1) PROVE h[k] = After(k, h[k - 1]) /\ h[k] \subseteq 1..k
      BY <3>1, <3>2, <2>6, <2>8
    <3> QED BY <2>7, <3>3 DEF Queue
  <2> QED BY <2>1, <2>9
<1> HIDE DEF S
<1>3. S = Nat
  <2>1. S \in SUBSET Nat
    BY DEF S
  <2> QED BY <1>1, <1>2, <2>1, NatInd
<1> QED BY <1>3 DEF S

\* Two accounts of the same comments agree as far as both go.
LEMMA QueueAgrees ==
  ASSUME NEW n \in Nat, NEW m \in Nat, n <= m, NEW g, Queue(n, g), NEW h, Queue(m, h)
  PROVE  \A k \in 0..n : g[k] = h[k]
<1> DEFINE S == {k \in Nat : k <= n => g[k] = h[k]}
<1>1. 0 \in S
  BY DEF Queue
<1>2. ASSUME NEW k \in S PROVE k + 1 \in S
  <2>1. SUFFICES ASSUME k + 1 <= n PROVE g[k + 1] = h[k + 1]
    OBVIOUS
  <2>2. k \in Nat /\ k + 1 \in 1..n /\ k + 1 \in 1..m /\ (k + 1) - 1 = k /\ k <= n
    BY <2>1
  <2>3. g[k] = h[k]
    BY <2>2
  <2>4. g[k + 1] = After(k + 1, g[k]) /\ h[k + 1] = After(k + 1, h[k])
    BY <2>2 DEF Queue
  <2> QED BY <2>3, <2>4
<1>3. S = Nat
  <2>1. S \in SUBSET Nat
    OBVIOUS
  <2> HIDE DEF S
  <2> QED BY <1>1, <1>2, <2>1, NatInd
<1> QED BY <1>3

\* The recursive function is what its equation says, and the queue after n
\* comments holds some of them.
QueueLaw == /\ Unresolved[0] = {}
            /\ \A n \in Nat : /\ Unresolved[n + 1] = After(n + 1, Unresolved[n])
                              /\ Unresolved[n] \in SUBSET (1..n)

LEMMA QueueDefined == QueueLaw
<1> DEFINE q == [n \in Nat |-> (CHOOSE g : Queue(n, g))[n]]
           Body(f) == [n \in Nat |-> IF n = 0 THEN {} ELSE After(n, f[n - 1])]
<1>1. ASSUME NEW n \in Nat PROVE Queue(n, CHOOSE g : Queue(n, g))
  BY QueueExists
<1>2. q[0] = {}
  BY <1>1 DEF Queue
<1>3. ASSUME NEW n \in Nat PROVE q[n + 1] = After(n + 1, q[n]) /\ q[n + 1] \subseteq 1..(n + 1)
  <2> PICK g : g = CHOOSE f : Queue(n, f)
    OBVIOUS
  <2> PICK h : h = CHOOSE f : Queue(n + 1, f)
    OBVIOUS
  <2>1. Queue(n, g) /\ Queue(n + 1, h)
    BY <1>1
  <2>2. n \in 0..n /\ n + 1 \in 1..(n + 1) /\ (n + 1) - 1 = n /\ n <= n + 1 /\ n + 1 \in Nat
    OBVIOUS
  <2>3. g[n] = h[n]
    BY <2>1, <2>2, QueueAgrees
  <2>4. h[n + 1] = After(n + 1, h[n]) /\ h[n + 1] \subseteq 1..(n + 1)
    BY <2>1, <2>2 DEF Queue
  <2>5. q[n] = g[n] /\ q[n + 1] = h[n + 1]
    OBVIOUS
  <2> HIDE DEF q
  <2> QED BY <2>3, <2>4, <2>5
<1>4. q = Body(q)
  <2>1. ASSUME NEW n \in Nat PROVE q[n] = IF n = 0 THEN {} ELSE After(n, q[n - 1])
    <3>1. CASE n = 0
      BY <3>1, <1>2
    <3>2. CASE n # 0
      <4>1. n - 1 \in Nat /\ (n - 1) + 1 = n
        BY <3>2
      <4> HIDE DEF q
      <4> QED BY <4>1, <3>2, <1>3
    <3> QED BY <3>1, <3>2
  <2>2. q = [n \in Nat |-> q[n]]
    OBVIOUS
  <2> HIDE DEF q
  <2> QED BY <2>1, <2>2
<1>5. Unresolved = Body(Unresolved)
  <2> HIDE DEF q
  <2>1. Unresolved = CHOOSE f : f = Body(f)
    BY DEF Unresolved
  <2> HIDE DEF Body
  <2> QED BY <1>4, <2>1
<1> DEFINE S == {n \in Nat : Unresolved[n] \in SUBSET (1..n)}
<1>6. Unresolved[0] = {} /\ \A n \in Nat : Unresolved[n + 1] = After(n + 1, Unresolved[n])
  <2>1. \A f : Body(f)[0] = {}
    OBVIOUS
  <2>2. \A f : \A n \in Nat : Body(f)[n + 1] = After(n + 1, f[n])
    OBVIOUS
  <2> HIDE DEF Body
  <2> QED BY <1>5, <2>1, <2>2
<1>7. 0 \in S
  BY <1>6
<1>8. \A n \in S : n + 1 \in S
  BY <1>6, AfterType
<1>9. S = Nat
  <2>1. S \in SUBSET Nat
    OBVIOUS
  <2> HIDE DEF S
  <2> QED BY <1>7, <1>8, <2>1, NatInd
<1> QED BY <1>6, <1>9 DEF QueueLaw

\* The first of a queue is in it, and nobody in it comes before.
LEMMA FirstIsLeast ==
  ASSUME NEW q \in SUBSET Nat, q # {}
  PROVE  First(q) \in q /\ \A c \in q : First(q) <= c
<1>1. \E b \in q : \A c \in q : b <= c
  BY LeastNumber
<1> QED BY <1>1 DEF First

\* A blocked worker who is heard waits from his comment on.
LEMMA BlockedQueues ==
  ASSUME QueueLaw, NEW b \in Nat \ {0}, comments[b].role \in {"implementor", "qa"},
         comments[b].status = "blocked", Effective(b)
  PROVE  b \in Unresolved[b]
<1>1. Unresolved[b] = After(b, Unresolved[b - 1])
  <2>1. b - 1 \in Nat /\ (b - 1) + 1 = b
    OBVIOUS
  <2> QED BY <2>1 DEF QueueLaw
<1>2. ~Escalates(b)
  BY DEF Escalates
<1> QED BY <1>1, <1>2 DEF After, Queues

\* Who waits and is not answered goes on waiting.
LEMMA StaysQueued ==
  ASSUME IInv, QueueLaw, NEW b \in Nat, NEW m \in Nat, NEW n \in Nat, b <= m, m <= n,
         n <= Len(comments), b \in Unresolved[m], ~Answered(b)
  PROVE  b \in Unresolved[n]
<1> DEFINE S == {k \in Nat : (m <= k /\ k <= n) => b \in Unresolved[k]}
<1>1. 0 \in S
  OBVIOUS
<1>2. ASSUME NEW k \in S PROVE k + 1 \in S
  <2>1. SUFFICES ASSUME m < k + 1, k + 1 <= n PROVE b \in Unresolved[k + 1]
    <3>1. m <= k + 1 => (m < k + 1 \/ m = k + 1)
      OBVIOUS
    <3> QED BY <3>1
  <2>2. k \in Nat /\ m <= k /\ k <= n
    BY <2>1
  <2>3. b \in Unresolved[k]
    BY <2>2
  <2>4. Unresolved[k + 1] = After(k + 1, Unresolved[k])
    BY <2>2 DEF QueueLaw
  <2>5. k + 1 \in DOMAIN comments /\ k + 1 > b
    <3>1. DOMAIN comments = 1..Len(comments) /\ Len(comments) \in Nat
      BY DEF IInv, TypeOK
    <3> QED BY <2>1, <2>2, <3>1
  <2>6. ASSUME Names(k + 1, Unresolved[k]), ~Escalates(k + 1), b \in comments[k + 1].resolves
        PROVE  FALSE
    <3>1. /\ comments[k + 1].role = "lead" /\ Effective(k + 1)
          /\ comments[k + 1].resume \in {"implementor", "qa"}
      BY <2>6 DEF Names, Actionable
    <3>2. comments[k + 1].safe
      BY <3>1 DEF Effective, Safe
    <3>3. k + 1 \in Results
      BY <2>5, <3>1 DEF Results
    <3> QED BY <2>5, <2>6, <3>1, <3>2, <3>3 DEF Answered
  <2> QED BY <2>3, <2>4, <2>6 DEF After, AfterLead
<1>3. S = Nat
  <2>1. S \in SUBSET Nat
    OBVIOUS
  <2> HIDE DEF S
  <2> QED BY <1>1, <1>2, <2>1, NatInd
<1> QED BY <1>3

\* The active blocker is the first who waits.
LEMMA ActiveIsFirst ==
  ASSUME IInv, QueueLaw
  PROVE  /\ Len(comments) \in Nat
         /\ Unresolved[Len(comments)] \in SUBSET (1..Len(comments))
         /\ \A b \in Unresolved[Len(comments)] :
              ActiveBlocker \in Unresolved[Len(comments)] /\ ActiveBlocker <= b
         /\ ActiveBlocker # 0 => ActiveBlocker \in Unresolved[Len(comments)]
<1>1. Len(comments) \in Nat
  BY DEF IInv, TypeOK
<1>2. Unresolved[Len(comments)] \in SUBSET (1..Len(comments))
  BY <1>1 DEF QueueLaw
<1> PICK q : q = Unresolved[Len(comments)]
  OBVIOUS
<1>3. ActiveBlocker = IF q = {} THEN 0 ELSE First(q)
  BY DEF ActiveBlocker
<1>4. q \in SUBSET Nat
  BY <1>2
<1> QED BY <1>1, <1>2, <1>3, <1>4, FirstIsLeast

\* While a blocked worker is unanswered there is an active blocker, and it does
\* not come after him.
LEMMA UnansweredWaits ==
  ASSUME IInv, QueueLaw, NEW b \in Results, Unanswered(b)
  PROVE  /\ b \in 1..Len(comments) /\ Len(comments) \in Nat
         /\ b \in Unresolved[Len(comments)]
         /\ ActiveBlocker # 0 /\ ActiveBlocker \in 1..b
<1>1. DOMAIN comments = 1..Len(comments) /\ Len(comments) \in Nat
  BY DEF IInv, TypeOK
<1>2. b \in 1..Len(comments) /\ b \in Nat \ {0} /\ b <= b
  BY <1>1 DEF Results
<1>3. b \in Unresolved[b] /\ ~Answered(b)
  BY <1>2, BlockedQueues DEF Unanswered
<1>4. b \in Unresolved[Len(comments)]
  BY <1>1, <1>2, <1>3, StaysQueued
<1>5. ActiveBlocker \in 1..Len(comments) /\ ActiveBlocker <= b
  BY <1>4, ActiveIsFirst
<1> QED BY <1>1, <1>2, <1>4, <1>5

\* Only blocked results wait, and only while they count.
LEMMA QueuedAreBlocked ==
  ASSUME QueueLaw, NEW n \in Nat, NEW c \in Unresolved[n]
  PROVE  comments[c].status = "blocked" /\ Effective(c)
<1> DEFINE Held(k) == \A d \in Unresolved[k] : comments[d].status = "blocked" /\ Effective(d)
           S == {k \in Nat : Held(k)}
<1>1. 0 \in S
  BY DEF QueueLaw
<1>2. ASSUME NEW k \in S PROVE k + 1 \in S
  <2>1. Unresolved[k + 1] = After(k + 1, Unresolved[k])
    BY DEF QueueLaw
  <2>2. After(k + 1, Unresolved[k]) \subseteq Unresolved[k] \cup {k + 1}
    BY DEF After, AfterLead
  <2>3. ASSUME k + 1 \in After(k + 1, Unresolved[k]), k + 1 \notin Unresolved[k]
        PROVE  comments[k + 1].status = "blocked" /\ Effective(k + 1)
    BY <2>3 DEF After, AfterLead, Queues
  <2>4. Held(k)
    OBVIOUS
  <2>5. Held(k + 1)
    BY <2>1, <2>2, <2>3, <2>4
  <2> HIDE DEF Held
  <2> QED BY <2>5
<1>3. S = Nat
  <2>1. S \in SUBSET Nat
    OBVIOUS
  <2> HIDE DEF S
  <2> QED BY <1>1, <1>2, <2>1, NatInd
<1> QED BY <1>3

\* No worker is sent past an active blocker, whosever it is, except for a retry of
\* QA after CI.
LEMMA WorkersWait ==
  ASSUME IInv, QueueLaw, ActiveBlocker # 0, Route.action = "dispatch", Route.role # "lead"
  PROVE  Route.reason = "qa_retry_after_ci"
<1> DEFINE r == comments[Latest]
<1>0. ActiveBlocker \in Results /\ comments[ActiveBlocker].status = "blocked"
  <2>1. ActiveBlocker \in Unresolved[Len(comments)] /\ Len(comments) \in Nat
    BY ActiveIsFirst
  <2>2. comments[ActiveBlocker].status = "blocked" /\ Effective(ActiveBlocker)
    BY <2>1, QueuedAreBlocked
  <2>3. ActiveBlocker \in DOMAIN comments
    BY <2>1, ActiveIsFirst DEF IInv, TypeOK
  <2> QED BY <2>2, <2>3 DEF Results, Effective, Safe, IInv, TypeOK
<1>1. ~terminal /\ ~EvidenceUnsafe /\ Results # {} /\ Route = RouteFrom(Latest)
  BY <1>0 DEF Route, Rest, Manual, Dispatch
<1>3. Effective(Latest) /\ ~Escalates(Latest)
  BY <1>1 DEF RouteFrom, Manual, EscalationRoute
<1>4. CASE r.bound /\ r.role = "qa" /\ r.status = "inconclusive"
  <2>1. Route = InconclusiveRoute(r)
    BY <1>1, <1>3, <1>4 DEF RouteFrom
  <2> QED BY <2>1 DEF InconclusiveRoute, Dispatch, Rest
<1>5. CASE ~(r.bound /\ r.role = "qa" /\ r.status = "inconclusive")
  <2>1. ActiveBlocker = Latest
    BY <1>1, <1>3, <1>5 DEF RouteFrom, Manual, OtherBlocker
  <2>2. Route = BlockedRoute(r)
    BY <1>0, <1>1, <1>3, <1>5, <2>1 DEF RouteFrom, OtherBlocker
  <2> QED BY <2>2 DEF BlockedRoute, Manual, Dispatch
<1> QED BY <1>4, <1>5

\* For any history of comments and any commits: while a blocked worker is
\* unanswered the route neither merges nor sends a worker to work, however many
\* results of whatever kind came since.
THEOREM BlockersGoToLead == Spec => []LeadFirst
<1>1. IInv /\ QueueLaw => LeadFirst
  <2> SUFFICES ASSUME IInv, QueueLaw, NEW b \in Results, Unanswered(b)
               PROVE  /\ Route.action # "merge_gate"
                      /\ Route.action = "dispatch" /\ Route.role # "lead" =>
                           Route.reason = "qa_retry_after_ci" /\ ~PolicyPasses
    BY DEF LeadFirst
  <2>1. /\ b \in 1..Len(comments) /\ Len(comments) \in Nat
        /\ ActiveBlocker # 0 /\ ActiveBlocker \in 1..b
    BY UnansweredWaits
  <2>2. Route.action # "merge_gate"
    BY <2>1, GateRoute DEF MergeReady
  <2>3. ASSUME Route.action = "dispatch", Route.role # "lead"
        PROVE  Route.reason = "qa_retry_after_ci" /\ ~PolicyPasses
    <3>1. ~PolicyPasses
      BY <2>1, <2>3 DEF PolicyPasses
    <3>2. Route.reason = "qa_retry_after_ci"
      BY <2>1, <2>3, WorkersWait
    <3> QED BY <3>1, <3>2
  <2> QED BY <2>2, <2>3
<1> QED BY <1>1, Invariance, QueueDefined, PTL

\* A route that rests asks for nothing: the unit is terminal or waits for CI.
LEMMA RestingRoutes ==
  ASSUME Route.action \notin {"dispatch", "manual_attention", "owner_attention", "merge_gate"}
  PROVE  terminal \/ Route.reason = "waiting_for_ci"
<1> DEFINE r == comments[Latest]
           Busy(x) == x.action \in {"dispatch", "manual_attention", "owner_attention", "merge_gate"}
<1> SUFFICES ASSUME ~terminal PROVE Route.reason = "waiting_for_ci"
  OBVIOUS
<1>1. ~Ambiguous /\ ~EvidenceUnsafe /\ Results # {} /\ Route = RouteFrom(Latest)
  BY DEF Route, Manual, Dispatch
<1>3. Busy(LeadRoute(r))
  BY DEF LeadRoute, MergeGate, Manual, Dispatch
<1>4. Busy(InconclusiveRoute(r)) \/ InconclusiveRoute(r).reason = "waiting_for_ci"
  BY DEF InconclusiveRoute, Dispatch, Rest
<1>5. Busy(ImplementorRoute(r)) \/ ImplementorRoute(r).reason = "waiting_for_ci"
  BY DEF ImplementorRoute, Dispatch, Rest
<1>6. Busy(QARoute(r)) \/ QARoute(r).reason = "waiting_for_ci"
  BY DEF QARoute, Dispatch, Rest
<1>7. Busy(EscalationRoute(Latest)) /\ Busy(BlockedRoute(r))
  BY DEF EscalationRoute, BlockedRoute, Manual, Dispatch
<1>8. Busy(Manual("unsafe_terminal_result")) /\ Busy(Manual("unresolved_active_blocker"))
  BY DEF Manual
<1>9. ~Busy(Route)
  OBVIOUS
<1> HIDE DEF Busy
<1> QED BY <1>1, <1>3, <1>4, <1>5, <1>6, <1>7, <1>8, <1>9 DEF RouteFrom

\* A unit that waits for CI has one open pull request, whose CI has not passed.
LEMMA WaitingRoutes ==
  ASSUME IInv, Route.reason = "waiting_for_ci"
  PROVE  CurrentHead # None /\ ~CISucceeded
<1> DEFINE r == comments[Latest]
<1>1. ~EvidenceUnsafe /\ Results # {} /\ Route = RouteFrom(Latest)
  BY DEF Route, Rest, Manual, Dispatch
<1>2. Latest \in Results
  BY <1>1, LastIsLatest DEF IInv
<1>3. Effective(Latest) /\ ~Escalates(Latest)
  BY <1>1 DEF RouteFrom, Manual, EscalationRoute
<1>4. CASE r.bound /\ r.role = "qa" /\ r.status = "inconclusive"
  <2>1. Route = InconclusiveRoute(r)
    BY <1>1, <1>3, <1>4 DEF RouteFrom
  <2>2. ~CISucceeded
    BY <2>1 DEF InconclusiveRoute, Dispatch
  <2> QED BY <1>2, <1>3, <1>4, <2>2, ReportsOnHead
<1>5. CASE ~(r.bound /\ r.role = "qa" /\ r.status = "inconclusive")
  <2>1. r.status # "blocked" /\ ~OtherBlocker(Latest)
    BY <1>1, <1>3, <1>5 DEF RouteFrom, BlockedRoute, Manual, Dispatch
  <2>2. CASE r.role = "implementor"
    <3>1. Route = ImplementorRoute(r)
      BY <1>1, <1>3, <1>5, <2>1, <2>2 DEF RouteFrom
    <3>2. r.status \notin {"continue", "no_op"} /\ ~CISucceeded
      BY <3>1 DEF ImplementorRoute, Dispatch
    <3> QED BY <1>2, <1>3, <2>1, <2>2, <3>2, ReportsOnHead
  <2>3. CASE r.role = "qa"
    <3>1. Route = QARoute(r)
      BY <1>1, <1>3, <1>5, <2>1, <2>3 DEF RouteFrom
    <3>2. ~CISucceeded
      BY <3>1 DEF QARoute, Dispatch
    <3> QED BY <1>2, <1>3, <2>3, <3>2, ReportsOnHead
  <2>4. CASE r.role \notin {"implementor", "qa"}
    <3>1. Route = LeadRoute(r)
      BY <1>1, <1>3, <1>5, <2>1, <2>4 DEF RouteFrom
    <3>2. Route.reason # "waiting_for_ci"
      BY <3>1 DEF LeadRoute, MergeGate, Dispatch, Manual
    <3> QED BY <3>2
  <2> QED BY <2>2, <2>3, <2>4
<1> QED BY <1>4, <1>5

\* For any history and any commits: what is shown as normal or as waiting for CI is
\* a unit at work, at the open merge gate, or with one pull request whose CI has
\* neither passed nor failed; and nobody blocked is unanswered then.
THEOREM CalmTells == Spec => []CalmIsTrue
<1>1. IInv /\ QueueLaw => CalmIsTrue
  <2> SUFFICES ASSUME IInv, QueueLaw, NEW command \in Commands,
                      Attentions(command) \cap {"normal", "waiting_for_ci"} # {}
               PROVE  /\ "normal" \in Attentions(command) =>
                           command = "at_work" \/ Route.action = "merge_gate"
                      /\ "waiting_for_ci" \in Attentions(command) =>
                           ci \in {"none", "skipped"} /\ \E h \in Heads : open = {h}
                      /\ \A b \in Results : ~Unanswered(b)
                      /\ comments = << >> \/ Safe(comments[Len(comments)])
    BY DEF CalmIsTrue
  <2> DEFINE route == RouteWith(command)
  <2>1. /\ ~terminal /\ route.action # "owner_attention"
        /\ ActiveBlocker = 0 /\ ~CIFailed /\ ~EvidenceUnsafe
        /\ "waiting_for_ci" \in Attentions(command) => route.reason = "waiting_for_ci"
        /\ "normal" \in Attentions(command) =>
             /\ route.reason # "waiting_for_ci"
             /\ route.action \notin {"dispatch", "manual_attention"}
    BY DEF Attentions
  <2>2. ASSUME "normal" \in Attentions(command), command # "at_work"
        PROVE  Route.action = "merge_gate"
    <3>1. route = Route
      <4>1. command # "exceptional"
        BY <2>1, <2>2 DEF RouteWith, Manual
      <4> QED BY <4>1, <2>2 DEF RouteWith
    <3> HIDE DEF route
    <3> QED BY <2>1, <2>2, <3>1, RestingRoutes
  <2>3. ASSUME "waiting_for_ci" \in Attentions(command)
        PROVE  ci \in {"none", "skipped"} /\ \E h \in Heads : open = {h}
    <3>1. Route.reason = "waiting_for_ci"
      BY <2>1, <2>3 DEF RouteWith, Rest, Manual
    <3>2. CurrentHead # None /\ ~CISucceeded
      BY <3>1, WaitingRoutes
    <3>3. ci \in {"none", "skipped"}
      BY <2>1, <3>2 DEF CISucceeded, CIFailed, IInv, TypeOK, Conclusions
    <3> QED BY <3>2, <3>3, OneHead
  <2>4. ASSUME NEW b \in Results, Unanswered(b) PROVE FALSE
    BY <2>1, <2>4, UnansweredWaits
  <2>5. comments = << >> \/ Safe(comments[Len(comments)])
    BY <2>1 DEF EvidenceUnsafe
  <2> QED BY <2>2, <2>3, <2>4, <2>5
<1> QED BY <1>1, Invariance, QueueDefined, PTL

\* What a comment does to a queue depends on the comment and the pull requests.
LEMMA AfterSame ==
  ASSUME NEW k, comments'[k] = comments[k], open' = open, NEW q
  PROVE  After(k, q)' = After(k, q)
<1>1. CurrentHead' = CurrentHead /\ Ambiguous' = Ambiguous
  BY DEF CurrentHead, Ambiguous
<1>2. Effective(k)' = Effective(k)
  BY <1>1 DEF Effective, Safe, Claims, Correlated, ExactHead
<1>3. Escalates(k)' = Escalates(k)
  BY <1>2 DEF Escalates
<1>4. Actionable(k)' = Actionable(k)
  BY <1>2, <1>3 DEF Actionable
<1>5. Names(k, q)' = Names(k, q)
  BY <1>4 DEF Names
<1>6. AfterLead(k, q)' = AfterLead(k, q)
  BY <1>3, <1>5 DEF AfterLead
<1>7. Queues(k, q)' = Queues(k, q)
  BY <1>2, <1>3, <1>5 DEF Queues
<1> QED BY <1>6, <1>7 DEF After

\* A queue does not change behind what was said.
LEMMA QueueKept ==
  ASSUME QueueLaw, QueueLaw', NEW n \in Nat, open' = open,
         \A k \in 1..n : comments'[k] = comments[k]
  PROVE  Unresolved'[n] = Unresolved[n]
<1> DEFINE S == {k \in Nat : k <= n => Unresolved'[k] = Unresolved[k]}
<1>1. 0 \in S
  BY DEF QueueLaw
<1>2. ASSUME NEW k \in S PROVE k + 1 \in S
  <2>1. SUFFICES ASSUME k + 1 <= n PROVE Unresolved'[k + 1] = Unresolved[k + 1]
    OBVIOUS
  <2>2. k \in Nat /\ k <= n /\ k + 1 \in 1..n
    BY <2>1
  <2>3. \A q : After(k + 1, q)' = After(k + 1, q)
    BY <2>2, AfterSame
  <2> PICK p : p = Unresolved[k]
    OBVIOUS
  <2>4. Unresolved'[k] = p
    BY <2>2
  <2>5. Unresolved[k + 1] = After(k + 1, p)
    BY <2>2 DEF QueueLaw
  <2>6. Unresolved'[k + 1] = After(k + 1, p)'
    BY <2>2, <2>4 DEF QueueLaw
  <2> QED BY <2>3, <2>5, <2>6
<1>3. S = Nat
  <2>1. S \in SUBSET Nat
    OBVIOUS
  <2> HIDE DEF S
  <2> QED BY <1>1, <1>2, <2>1, NatInd
<1> QED BY <1>3

\* What a state says of its queue, gathered to be used of two states.
Waiting ==
  /\ \A b, m \in Nat : (/\ b <= m /\ m <= Len(comments) /\ b \in Unresolved[m] /\ ~Answered(b))
                          => b \in Unresolved[Len(comments)]
  /\ \A b \in 1..Len(comments) :
       (/\ comments[b].role = "implementor" /\ comments[b].status = "blocked" /\ Effective(b))
          => b \in Unresolved[b]
  /\ Unresolved[Len(comments)] \in SUBSET (1..Len(comments))
  /\ \A b \in Unresolved[Len(comments)] :
       ActiveBlocker \in Unresolved[Len(comments)] /\ ActiveBlocker <= b
  /\ ActiveBlocker # 0 => ActiveBlocker \in Unresolved[Len(comments)]
  /\ \A b \in Unresolved[Len(comments)] : comments[b].status = "blocked" /\ Effective(b)

LEMMA WaitingHolds ==
  ASSUME IInv, QueueLaw
  PROVE  Waiting
<1>1. Len(comments) \in Nat /\ Len(comments) <= Len(comments)
  BY DEF IInv, TypeOK
<1>2. ASSUME NEW b \in Nat, NEW m \in Nat, b <= m, m <= Len(comments), b \in Unresolved[m], ~Answered(b)
      PROVE  b \in Unresolved[Len(comments)]
  BY <1>1, <1>2, StaysQueued
<1>3. \A b \in 1..Len(comments) :
        (/\ comments[b].role = "implementor" /\ comments[b].status = "blocked" /\ Effective(b))
           => b \in Unresolved[b]
  <2>1. 1..Len(comments) \subseteq Nat \ {0}
    BY <1>1
  <2> QED BY <2>1, BlockedQueues
<1>4. \A b \in Unresolved[Len(comments)] : comments[b].status = "blocked" /\ Effective(b)
  BY <1>1, QueuedAreBlocked
<1> QED BY <1>2, <1>3, <1>4, ActiveIsFirst DEF Waiting

\* A comment moves the active blocker only if Lead's answers it.
LEMMA PostNeedsLead ==
  ASSUME IInv, QueueLaw, Waiting, QueueLaw', Waiting', Post, ActiveBlocker # 0,
         ActiveBlocker' # ActiveBlocker, NEW b, b = ActiveBlocker
  PROVE  Answered(b)'
<1> SUFFICES ASSUME ~Answered(b)' PROVE FALSE
  OBVIOUS
<1>0. PICK r \in Answers(Len(comments)) \cup Envelopes \cup Markers : comments' = Append(comments, r)
  BY DEF Post
<1> PICK n : n = Len(comments)
  OBVIOUS
<1>1. /\ n \in Nat /\ Len(comments') = n + 1 /\ open' = open
      /\ \A i \in 1..n : comments'[i] = comments[i]
  BY <1>0 DEF Post, IInv, TypeOK
<1>2. Unresolved'[n] = Unresolved[n]
  BY <1>1, QueueKept
<1>3. b \in Unresolved[n] /\ b \in 1..n
  BY DEF Waiting
<1>4. b \in Unresolved'[n + 1]
  BY <1>1, <1>2, <1>3 DEF Waiting
<1>5. ActiveBlocker' \in Unresolved'[n + 1] /\ ActiveBlocker' <= b /\ ActiveBlocker' \in 1..(n + 1)
  BY <1>1, <1>4 DEF Waiting
<1>6. Unresolved'[n + 1] \subseteq Unresolved'[n] \cup {n + 1}
  <2>1. Unresolved'[n + 1] = After(n + 1, Unresolved[n])'
    BY <1>1 DEF QueueLaw
  <2> QED BY <2>1 DEF After, AfterLead
<1>7. ActiveBlocker' \in Unresolved[n]
  BY <1>1, <1>2, <1>3, <1>5, <1>6
<1>8. b <= ActiveBlocker'
  BY <1>7 DEF Waiting
<1> QED BY <1>1, <1>3, <1>5, <1>8

\* A change of the pull requests takes the place of a blocked implementor only for
\* an earlier blocker, or makes an answer of Lead count.
LEMMA PushNeedsLead ==
  ASSUME IInv, Waiting, Waiting', PullRequests, NEW b, b = ActiveBlocker, b # 0,
         comments[b].role = "implementor", ~Answered(b)'
  PROVE  ActiveBlocker' \in 1..b
<1> PICK n : n = Len(comments)
  OBVIOUS
<1>1. n \in Nat /\ comments' = comments /\ Len(comments') = n /\ DOMAIN comments = 1..n
  BY DEF PullRequests, IInv, TypeOK
<1>2. b \in Unresolved[n] /\ b \in 1..n
  BY DEF Waiting
<1>3. comments[b].status = "blocked" /\ Effective(b)
  BY <1>2 DEF Waiting
<1>4. ~Claims(comments[b])
  BY <1>1, <1>2, <1>3 DEF Claims, IInv, LeadDecides
<1>5. Effective(b)'
  <2>1. Safe(comments[b])' /\ comments'[b] = comments[b]
    <3>1. comments'[b] = comments[b]
      BY <1>1
    <3>2. ~Claims(comments[b])'
      BY <3>1, <1>4 DEF Claims
    <3>3. comments[b].safe
      BY <1>3 DEF Effective, Safe
    <3> QED BY <3>1, <3>2, <3>3 DEF Safe
  <2>2. comments'[b].role = "implementor" /\ comments'[b].status = "blocked"
    BY <1>3, <2>1
  <2>3. Correlated(comments[b])'
    BY <2>2 DEF Correlated
  <2> QED BY <2>1, <2>3 DEF Effective
<1>6. b \in Unresolved'[b]
  BY <1>1, <1>2, <1>3, <1>5 DEF Waiting
<1>7. b \in Unresolved'[n]
  BY <1>1, <1>2, <1>6 DEF Waiting
<1>8. ActiveBlocker' \in 1..n /\ ActiveBlocker' <= b
  BY <1>1, <1>7 DEF Waiting
<1> QED BY <1>2, <1>8

\* For any history and any commits: the active blocker goes only when Lead has
\* answered it, or with its evidence when the pull requests change; what other
\* workers, QA, CI or the merge state say never takes its place.
THEOREM BlockersStay == Spec => BlockerNeedsLead
<1> DEFINE A == \A b \in {ActiveBlocker} \ {0} :
                  ActiveBlocker' # b =>
                    \/ Answered(b)'
                    \/ /\ open' # open
                       /\ comments[b].role # "implementor" \/ ActiveBlocker' \in 1..b
<1>1. IInv /\ QueueLaw /\ Waiting /\ QueueLaw' /\ Waiting' /\ [Next]_vars => A
  <2> SUFFICES ASSUME IInv, QueueLaw, Waiting, QueueLaw', Waiting', [Next]_vars,
                      NEW b, b = ActiveBlocker, b # 0, ActiveBlocker' # b, ~Answered(b)'
               PROVE  open' # open /\ (comments[b].role # "implementor" \/ ActiveBlocker' \in 1..b)
    OBVIOUS
  <2>1. ~Post
    BY PostNeedsLead
  <2>2. CASE PullRequests
    <3>1. open' # open
      BY <2>2 DEF PullRequests
    <3> QED BY <2>2, <3>1, PushNeedsLead
  <2>3. CASE comments' = comments /\ open' = open
    <3>1. Len(comments) \in Nat
      BY DEF IInv, TypeOK
    <3>2. Unresolved'[Len(comments)] = Unresolved[Len(comments)]
      BY <2>3, <3>1, QueueKept
    <3>3. ActiveBlocker' = ActiveBlocker
      BY <2>3, <3>2 DEF ActiveBlocker
    <3> QED BY <3>3
  <2> QED BY <2>1, <2>2, <2>3 DEF Next, Conclude, Mergeability, Terminate, vars
<1>2. IInv /\ QueueLaw => Waiting
  BY WaitingHolds
<1>3. [][A]_vars <=> BlockerNeedsLead
  BY DEF BlockerNeedsLead
<1> HIDE DEF A
<1> QED BY <1>1, <1>2, <1>3, Invariance, QueueDefined, PTL DEF Spec
=============================================================================
