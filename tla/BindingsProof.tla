---------------------------- MODULE BindingsProof ----------------------------
(***************************************************************************)
(* Proofs about Bindings: types, presence tokens, and the transactions     *)
(* that write rows.                                                        *)
(***************************************************************************)
EXTENDS Bindings, TLAPS

\* A token that was shown belongs to a session without company; none is spent.
Sound(f) == \A s \in DOMAIN f : /\ f[s].token # "spent"
                                /\ f[s].token = "seen" => Alone(f)

\* Presence as it is between two sections of the mutex.
Kept(f) == /\ DOMAIN f \subseteq Sessions
           /\ f \in [DOMAIN f -> SessionStates]
           /\ \A s \in DOMAIN f : f[s].conflict = ~Alone(f)

\* What markConflictLocked is given: a conflict already flagged has no shown token.
Markable(f) == /\ DOMAIN f \subseteq Sessions
               /\ f \in [DOMAIN f -> SessionStates]
               /\ \A s \in DOMAIN f : f[s].token # "spent"
               /\ (~Alone(f) /\ \E x \in DOMAIN f : f[x].conflict)
                     => \A s \in DOMAIN f : f[s].token # "seen"

PresenceInv == /\ Kept(session) /\ Sound(session)
               /\ beat \in [Sessions -> [target : Targets \union {None}, age : 0..MaxDelay] \union {None}]
               /\ heard \in [Sessions -> 0..Far]

BookInv == /\ row \in [Lanes -> [version : Versions, target : Targets \union {None}, enabled : BOOLEAN]]
           /\ \A l \in Lanes : row[l].target = None <=> row[l] = NoRow
           /\ finished \subseteq Lanes \X Versions
           /\ sweep = None \/ sweep \subseteq finished

ReqTypes == req \in [Requests -> [pc : {"idle", "read", "write"}, kind : {"put", "disable"},
                                 lane : Lanes \union {None}, target : Targets \union {None},
                                 expected : Versions, clean : BOOLEAN]]

\* A transaction that has read and may still write works on the rows as they are.
SnapshotHolds ==
  \A r \in Requests : req[r].pc = "write" /\ req[r].clean =>
     /\ req[r].lane \in Lanes /\ req[r].expected = row[req[r].lane].version
     /\ req[r].kind = "put" => req[r].target \in Targets
     /\ req[r].kind = "disable" => row[req[r].lane].version > 0
     /\ IndexHolds(req[r])

\* A request under way has a lane, and a target if it is a Put.
RequestsNamed ==
  \A r \in Requests : req[r].pc # "idle" =>
     /\ req[r].lane \in Lanes
     /\ req[r].kind = "put" => req[r].target \in Targets

ReqInv == ReqTypes /\ SnapshotHolds /\ RequestsNamed

IInv == PresenceInv /\ BookInv /\ ReqInv

(***************************************************************************)
(* Presence                                                                *)
(***************************************************************************)
\* The domain of a map of sessions is that of its marked form.
LEMMA MarkedShape ==
  ASSUME NEW f, Markable(f)
  PROVE  /\ DOMAIN Marked(f) = DOMAIN f
         /\ Alone(Marked(f)) = Alone(f)
         /\ \A s \in DOMAIN f :
              /\ Marked(f)[s].seen = f[s].seen /\ Marked(f)[s].target = f[s].target
              /\ Marked(f)[s].conflict = ~Alone(f)
              /\ Marked(f)[s].token = IF ~Alone(f) /\ \A x \in DOMAIN f : ~f[x].conflict
                                      THEN "new" ELSE f[s].token
              /\ Marked(f)[s] \in SessionStates
<1> DEFINE erupts == ~Alone(f) /\ \A s \in DOMAIN f : ~f[s].conflict
           new(s) == [f[s] EXCEPT !.conflict = ~Alone(f),
                                  !.token = IF erupts THEN "new" ELSE @]
<1>1. Marked(f) = [s \in DOMAIN f |-> new(s)]
  BY DEF Marked
<1>2. DOMAIN Marked(f) = DOMAIN f
  BY <1>1
<1>3. Alone(Marked(f)) = Alone(f)
  BY <1>2 DEF Alone
<1>4. ASSUME NEW s \in DOMAIN f
      PROVE  /\ new(s).seen = f[s].seen /\ new(s).target = f[s].target
             /\ new(s).conflict = ~Alone(f)
             /\ new(s).token = IF erupts THEN "new" ELSE f[s].token
             /\ new(s) \in SessionStates
  <2>1. f[s] \in SessionStates
    BY DEF Markable
  <2>2. Alone(f) \in BOOLEAN /\ erupts \in BOOLEAN
    BY DEF Alone
  <2> QED BY <2>1, <2>2 DEF SessionStates
<1>5. ASSUME NEW s \in DOMAIN f PROVE Marked(f)[s] = new(s)
  BY <1>1
<1> HIDE DEF new
<1> QED BY <1>2, <1>3, <1>4, <1>5

\* Marking leaves presence consistent, and every shown token without company.
LEMMA MarkedIsKept ==
  ASSUME NEW f, Markable(f)
  PROVE  Kept(Marked(f)) /\ Sound(Marked(f))
<1>1. Marked(f) = [s \in DOMAIN Marked(f) |-> Marked(f)[s]]
  BY DEF Marked
<1>2. Kept(Marked(f))
  BY <1>1, MarkedShape DEF Kept, Markable
<1>3. Sound(Marked(f))
  BY MarkedShape DEF Sound, Markable
<1> QED BY <1>2, <1>3

\* Pruning keeps what holds of presence.
LEMMA PrunedIsKept ==
  ASSUME NEW f, NEW n \in Nat, Kept(f), Sound(f)
  PROVE  Kept(Pruned(f, n)) /\ Sound(Pruned(f, n)) /\ DOMAIN Pruned(f, n) \subseteq DOMAIN f
<1> DEFINE D == {x \in DOMAIN f : f[x].seen <= TTL + n}
           g == [s \in D |-> f[s]]
<1>1. Pruned(f, n) = Marked(g)
  BY DEF Pruned
<1>2. D \subseteq DOMAIN f /\ DOMAIN g = D /\ \A s \in D : g[s] = f[s]
  OBVIOUS
<1>3. g \in [D -> SessionStates]
  BY <1>2 DEF Kept
<1>4. Alone(f) => Alone(g)
  BY <1>2 DEF Alone
<1>5. Markable(g)
  BY <1>2, <1>3, <1>4 DEF Markable, Kept, Sound
<1> HIDE DEF g, D
<1> QED BY <1>1, <1>2, <1>5, MarkedIsKept, MarkedShape

\* A session that registers leaves a map that can be marked.
LEMMA RegisteredIsMarkable ==
  ASSUME NEW f, Kept(f), Sound(f), NEW s \in Sessions, NEW t \in Targets \union {None},
         NEW now \in 0..Far
  PROVE  Markable(Registered(f, s, t, now))
<1> DEFINE keep == s \in DOMAIN f /\ SameTarget(f[s].target, t)
           mine == [seen |-> now, target |-> t,
                    token |-> IF keep THEN f[s].token ELSE "new",
                    conflict |-> s \in DOMAIN f /\ f[s].conflict]
           D == DOMAIN f \union {s}
           g == [x \in D |-> IF x = s THEN mine ELSE f[x]]
<1>1. Registered(f, s, t, now) = g
  BY DEF Registered
<1>2. DOMAIN g = D /\ D \subseteq Sessions
  BY DEF Kept
<1>3. mine \in SessionStates
  <2>1. CASE s \in DOMAIN f
    BY <2>1 DEF Kept, SessionStates, SameTarget
  <2>2. CASE s \notin DOMAIN f
    BY <2>2 DEF SessionStates
  <2> QED BY <2>1, <2>2
<1>4. g \in [D -> SessionStates]
  BY <1>3 DEF Kept
<1>5. mine.token # "spent" /\ (mine.token = "seen" => s \in DOMAIN f /\ f[s].token = "seen")
  BY DEF Sound, SameTarget
<1>6. \A x \in D : g[x].token # "spent"
  BY <1>5 DEF Sound
<1>7. ASSUME ~Alone(g), NEW x \in D, g[x].conflict, NEW y \in D
      PROVE  g[y].token # "seen"
  <2>1. x \in DOMAIN f /\ f[x].conflict
    BY <1>7
  <2>2. ~Alone(f)
    BY <2>1 DEF Kept
  <2>3. y \in DOMAIN f => f[y].token # "seen"
    BY <2>2 DEF Sound
  <2> QED BY <2>3, <1>5
<1> HIDE DEF g, D, mine
<1> QED BY <1>1, <1>2, <1>4, <1>6, <1>7 DEF Markable

\* A look at presence spends no token.
LEMMA NotedIsKept ==
  ASSUME NEW f, Kept(f), Sound(f), NEW t \in Targets
  PROVE  Kept(Noted(f, t)) /\ Sound(Noted(f, t))
<1> DEFINE tok(s) == IF f[s].target # t THEN f[s].token
                     ELSE IF Readiness(f, t) = "ready" /\ f[s].token = "new" THEN "seen"
                     ELSE IF Readiness(f, t) # "ready" /\ f[s].token = "seen" THEN "spent"
                     ELSE f[s].token
           g == Noted(f, t)
<1>1. g = [s \in DOMAIN f |-> [f[s] EXCEPT !.token = tok(s)]]
  BY DEF Noted
<1>2. DOMAIN g = DOMAIN f /\ Alone(g) = Alone(f)
  BY <1>1 DEF Alone
<1>3. t # None
  BY BindingsAssumption
<1>4. Readiness(f, t) = "ready" => Alone(f)
  BY DEF Readiness
<1>5. ASSUME NEW s \in DOMAIN f, f[s].target = t, f[s].token = "seen"
      PROVE  Readiness(f, t) = "ready"
  <2>1. Alone(f) /\ ~f[s].conflict
    BY <1>5 DEF Sound, Kept
  <2>2. (CHOOSE x \in DOMAIN f : TRUE) = s
    <3>1. (CHOOSE x \in DOMAIN f : TRUE) \in DOMAIN f
      OBVIOUS
    <3> QED BY <3>1, <2>1 DEF Alone
  <2> QED BY <2>1, <2>2, <1>3, <1>5 DEF Readiness, SameTarget
<1>6. ASSUME NEW s \in DOMAIN f
      PROVE  /\ tok(s) \in {"new", "seen"}
             /\ tok(s) = "seen" => Alone(f)
  <2>1. f[s].token \in {"new", "seen"}
    BY DEF Sound, Kept, SessionStates
  <2>2. f[s].token = "seen" => Alone(f)
    BY DEF Sound
  <2>3. CASE f[s].target # t
    BY <2>1, <2>2, <2>3
  <2>4. CASE f[s].target = t /\ f[s].token = "seen"
    BY <2>2, <2>4, <1>5
  <2>5. CASE f[s].target = t /\ f[s].token = "new"
    BY <2>5, <1>4
  <2> QED BY <2>1, <2>3, <2>4, <2>5
<1>7. ASSUME NEW s \in DOMAIN f
      PROVE  /\ g[s] \in SessionStates /\ g[s].token = tok(s)
             /\ g[s].conflict = f[s].conflict
  <2>1. f[s] \in SessionStates
    BY DEF Kept
  <2> HIDE DEF tok
  <2> QED BY <2>1, <1>1, <1>6 DEF SessionStates
<1>8. Kept(g)
  BY <1>1, <1>2, <1>7 DEF Kept
<1>9. Sound(g)
  BY <1>2, <1>6, <1>7 DEF Sound
<1> QED BY <1>8, <1>9

(***************************************************************************)
(* Steps                                                                   *)
(***************************************************************************)
LEMMA Numbers ==
  /\ Far \in Nat /\ MaxDelay < Far /\ 0 \in 0..Far /\ Far \in 0..Far
  /\ \A n \in 0..Far : Older(n) \in 0..Far
  /\ 0 \in Versions /\ Versions \subseteq Nat
BY BindingsAssumption DEF Far, Older, Versions

\* Any ageing leaves presence consistent.
LEMMA AgedIsKept ==
  ASSUME NEW f, Kept(f), Sound(f)
  PROVE  LET g == [s \in DOMAIN f |-> [f[s] EXCEPT !.seen = Older(@)]]
         IN Kept(g) /\ Sound(g)
<1> DEFINE g == [s \in DOMAIN f |-> [f[s] EXCEPT !.seen = Older(@)]]
<1>1. DOMAIN g = DOMAIN f /\ Alone(g) = Alone(f)
  BY DEF Alone
<1>2. ASSUME NEW s \in DOMAIN f
      PROVE  /\ g[s] \in SessionStates
             /\ g[s].token = f[s].token /\ g[s].conflict = f[s].conflict
  <2>1. f[s] \in SessionStates
    BY DEF Kept
  <2>2. Older(f[s].seen) \in 0..Far
    BY <2>1, Numbers DEF SessionStates
  <2> QED BY <2>1, <2>2 DEF SessionStates
<1>3. g = [s \in DOMAIN g |-> g[s]]
  OBVIOUS
<1> HIDE DEF g
<1>4. Kept(g) /\ Sound(g)
  BY <1>1, <1>2, <1>3 DEF Kept, Sound
<1> QED BY <1>4 DEF g

\* Presence after each of its steps.
LEMMA PresenceStep ==
  ASSUME PresenceInv, [Next]_vars
  PROVE  PresenceInv'
<1> USE DEF PresenceInv
<1>1. ASSUME NEW s \in Sessions, Beat(s) PROVE PresenceInv'
  BY <1>1, BindingsAssumption DEF Beat
<1>2. ASSUME NEW s \in Sessions, Register(s) PROVE PresenceInv'
  <2>1. beat[s].age \in Nat /\ beat[s].age \in 0..Far /\ beat[s].target \in Targets \union {None}
    <3>1. beat[s] \in [target : Targets \union {None}, age : 0..MaxDelay]
      BY <1>2 DEF Register
    <3>2. beat[s].age \in 0..MaxDelay /\ beat[s].target \in Targets \union {None}
      BY <3>1
    <3>3. \A n \in 0..MaxDelay : n \in Nat /\ n \in 0..Far
      BY Numbers, BindingsAssumption
    <3> QED BY <3>2, <3>3
  <2>2. /\ Kept(Pruned(session, beat[s].age)) /\ Sound(Pruned(session, beat[s].age))
    BY <2>1, PrunedIsKept
  <2>3. Markable(Registered(Pruned(session, beat[s].age), s, beat[s].target, beat[s].age))
    BY <2>1, <2>2, RegisteredIsMarkable
  <2>4. Kept(session') /\ Sound(session')
    BY <1>2, <2>3, MarkedIsKept DEF Register
  <2> QED BY <1>2, <2>4, Numbers DEF Register
<1>3. ASSUME NEW s \in Sessions, RegisterFails(s) PROVE PresenceInv'
  BY <1>3 DEF RegisterFails
<1>4. ASSUME ListWorkers PROVE PresenceInv'
  BY <1>4, PrunedIsKept DEF ListWorkers
<1>5. ASSUME NEW t \in Targets, Get(t) PROVE PresenceInv'
  BY <1>5, PrunedIsKept, NotedIsKept DEF Get
<1>6. ASSUME Tick PROVE PresenceInv'
  <2>1. Kept(session') /\ Sound(session')
    BY <1>6, AgedIsKept DEF Tick
  <2>2. beat' \in [Sessions -> [target : Targets \union {None}, age : 0..MaxDelay] \union {None}]
    BY <1>6, BindingsAssumption DEF Tick
  <2>3. heard' \in [Sessions -> 0..Far]
    BY <1>6, Numbers DEF Tick
  <2> QED BY <2>1, <2>2, <2>3
<1>7. ASSUME NEW r \in Requests, NEW l \in Lanes, NEW t \in Targets, PutCheck(r, l, t)
      PROVE  PresenceInv'
  BY <1>7, PrunedIsKept DEF PutCheck
<1>8. ASSUME Restart PROVE PresenceInv'
  BY <1>8, Numbers DEF Restart, Kept, Sound, Alone
<1>9. CASE UNCHANGED presence
  BY <1>9 DEF presence
<1> QED
  BY <1>1, <1>2, <1>3, <1>4, <1>5, <1>6, <1>7, <1>8, <1>9
     DEF Next, vars, presence, DisableStart, Read, Write, Fail, Finish, RetireRead, Retire, RetireFails

\* The rows after each step.
LEMMA BookStep ==
  ASSUME BookInv, ReqInv, [Next]_vars
  PROVE  BookInv'
<1> USE DEF BookInv
<1>1. ASSUME NEW r \in Requests, Write(r) PROVE BookInv'
  <2> DEFINE q == req[r]
  <2>1. /\ q.lane \in Lanes /\ q.kind \in {"put", "disable"} /\ q.expected \in Versions
        /\ q.clean /\ q.pc = "write" /\ q.expected + 1 \in Versions /\ q.expected + 1 > 0
        /\ q.kind = "put" => q.target \in Targets
        /\ q.expected = row[q.lane].version
        /\ q.kind = "disable" => row[q.lane].version > 0
    BY <1>1, BindingsAssumption DEF Write, MayWrite, ReqInv, ReqTypes, SnapshotHolds, RequestsNamed, Versions
  <2>2. row[q.lane] \in [version : Versions, target : Targets \union {None}, enabled : BOOLEAN]
    BY <2>1
  <2>3. Written(q) \in [version : Versions, target : Targets \union {None}, enabled : BOOLEAN]
    BY <2>1, <2>2 DEF Written
  <2>4. Written(q).target # None /\ Written(q).version > 0
    <3>1. CASE q.kind = "put"
      BY <2>1, <3>1, BindingsAssumption DEF Written
    <3>2. CASE q.kind = "disable"
      <4>1. row[q.lane] # NoRow
        BY <2>1, <3>2 DEF NoRow
      <4> QED BY <2>1, <3>2, <4>1 DEF Written
    <3> QED BY <2>1, <3>1, <3>2
  <2>5. row' = [row EXCEPT ![q.lane] = Written(q)] /\ UNCHANGED <<finished, sweep>>
    BY <1>1 DEF Write
  <2>6. Written(q) # NoRow
    BY <2>4 DEF NoRow
  <2> HIDE DEF q
  <2> QED BY <2>1, <2>3, <2>4, <2>5, <2>6
<1>2. ASSUME NEW l \in Lanes, Finish(l) PROVE BookInv'
  <2>1. row[l].version \in Versions
    OBVIOUS
  <2> QED BY <1>2, <2>1 DEF Finish
<1>3. ASSUME RetireRead PROVE BookInv'
  BY <1>3 DEF RetireRead
<1>4. ASSUME NEW c \in finished, Retire(c) PROVE BookInv'
  <2>1. sweep' = None \/ sweep' \subseteq finished'
    BY <1>4 DEF Retire
  <2>2. CASE UNCHANGED row
    BY <1>4, <2>1, <2>2 DEF Retire
  <2>3. CASE Retirable(c) /\ row[c[1]].version < MaxVersion
             /\ row' = [row EXCEPT ![c[1]].enabled = FALSE, ![c[1]].version = @ + 1]
    <3> DEFINE l == c[1]
               w == [row[l] EXCEPT !.enabled = FALSE, !.version = @ + 1]
    <3>1. l \in Lanes
      OBVIOUS
    <3>2. row[l] \in [version : Versions, target : Targets \union {None}, enabled : BOOLEAN]
      BY <3>1
    <3>3. row[l].version + 1 \in Versions
      BY <2>3, <3>2, BindingsAssumption DEF Versions
    <3>4. row[l] # NoRow
      BY <2>3 DEF Retirable, NoRow
    <3>5. w \in [version : Versions, target : Targets \union {None}, enabled : BOOLEAN]
          /\ w.target = row[l].target /\ w.target # None
      BY <3>1, <3>2, <3>3, <3>4
    <3>6. w # NoRow
      BY <3>5 DEF NoRow
    <3>7. row' = [row EXCEPT ![l] = w]
      BY <2>3
    <3> HIDE DEF l, w
    <3>8. \A m \in Lanes : row'[m] = IF m = l THEN w ELSE row[m]
      BY <3>1, <3>7
    <3> QED BY <1>4, <2>1, <3>1, <3>5, <3>6, <3>7, <3>8 DEF Retire
  <2> QED BY <1>4, <2>2, <2>3 DEF Retire
<1>5. ASSUME RetireFails PROVE BookInv'
  BY <1>5 DEF RetireFails
<1>6. ASSUME Restart PROVE BookInv'
  BY <1>6 DEF Restart
<1>7. CASE UNCHANGED book
  BY <1>7 DEF book
<1> QED
  BY <1>1, <1>2, <1>3, <1>4, <1>5, <1>6, <1>7
     DEF Next, vars, presence, book, Beat, Register, RegisterFails, ListWorkers, Get, Tick,
         PutCheck, DisableStart, Read, Fail

\* What a transaction may write depends on the rows alone: while they do not
\* move, and after they did if nobody may write, requests stay as they should.
LEMMA SpoiltIsFine ==
  ASSUME ReqTypes, RequestsNamed, req' = Spoilt
  PROVE  ReqInv'
<1>1. \A r \in Requests : req'[r] = [req[r] EXCEPT !.clean = FALSE]
  BY DEF Spoilt
<1>2. ReqTypes'
  BY DEF ReqTypes, Spoilt
<1>3. \A r \in Requests : /\ req'[r].pc = req[r].pc /\ req'[r].lane = req[r].lane
                          /\ req'[r].kind = req[r].kind /\ req'[r].target = req[r].target
                          /\ req'[r].clean = FALSE
  BY <1>1 DEF ReqTypes
<1> QED BY <1>2, <1>3 DEF ReqInv, RequestsNamed, SnapshotHolds

\* The requests after each step.
LEMMA ReqStep ==
  ASSUME BookInv, ReqInv, [Next]_vars
  PROVE  ReqInv'
<1> USE DEF ReqInv
<1>1. Idle \in [pc : {"idle", "read", "write"}, kind : {"put", "disable"},
               lane : Lanes \union {None}, target : Targets \union {None},
               expected : Versions, clean : BOOLEAN]
  BY Numbers DEF Idle
<1>2. ASSUME UNCHANGED row, NEW r \in Requests,
             NEW q \in [pc : {"idle", "read", "write"}, kind : {"put", "disable"},
                        lane : Lanes \union {None}, target : Targets \union {None},
                        expected : Versions, clean : BOOLEAN],
             q.pc # "idle" => q.lane \in Lanes /\ (q.kind = "put" => q.target \in Targets),
             (q.pc = "write" /\ q.clean) =>
                /\ q.expected = row[q.lane].version
                /\ q.kind = "disable" => row[q.lane].version > 0
                /\ IndexHolds(q),
             req' = [req EXCEPT ![r] = q]
      PROVE  ReqInv'
  <2>1. \A x \in Requests : req'[x] = IF x = r THEN q ELSE req[x]
    BY <1>2 DEF ReqTypes
  <2>2. ReqTypes'
    BY <1>2 DEF ReqTypes
  <2>3. RequestsNamed'
    BY <1>2, <2>1 DEF RequestsNamed
  <2>4. SnapshotHolds'
    <3> SUFFICES ASSUME NEW x \in Requests, req'[x].pc = "write", req'[x].clean
                 PROVE  /\ req'[x].lane \in Lanes /\ req'[x].expected = row[req'[x].lane].version
                        /\ req'[x].kind = "put" => req'[x].target \in Targets
                        /\ req'[x].kind = "disable" => row[req'[x].lane].version > 0
                        /\ IndexHolds(req'[x])
      BY <1>2 DEF SnapshotHolds, IndexHolds
    <3>1. CASE x = r
      BY <1>2, <2>1, <3>1
    <3>2. CASE x # r
      BY <2>1, <3>2 DEF SnapshotHolds
    <3> QED BY <3>1, <3>2
  <2> QED BY <2>2, <2>3, <2>4
<1>3. ASSUME NEW s \in Sessions, Register(s) PROVE ReqInv'
  BY <1>3, SpoiltIsFine DEF Register
<1>4. ASSUME NEW r \in Requests, NEW l \in Lanes, NEW t \in Targets, PutCheck(r, l, t)
      PROVE  ReqInv'
  <2>1. UNCHANGED row
    BY <1>4 DEF PutCheck, book
  <2>2. CASE UNCHANGED req
    BY <2>1, <2>2 DEF ReqTypes, RequestsNamed, SnapshotHolds, IndexHolds
  <2>3. ASSUME NEW e \in 0..row[l].version,
               req' = [req EXCEPT ![r] = [Idle EXCEPT !.pc = "read", !.lane = l,
                                                      !.target = t, !.expected = e]]
        PROVE  ReqInv'
    <3> DEFINE q == [Idle EXCEPT !.pc = "read", !.lane = l, !.target = t, !.expected = e]
    <3>1. e \in Versions
      BY BindingsAssumption DEF BookInv, Versions
    <3>2. q.pc = "read" /\ q.lane = l /\ q.target = t
          /\ q \in [pc : {"idle", "read", "write"}, kind : {"put", "disable"},
                    lane : Lanes \union {None}, target : Targets \union {None},
                    expected : Versions, clean : BOOLEAN]
      BY <3>1 DEF Idle
    <3> HIDE DEF q
    <3>3. req' = [req EXCEPT ![r] = q]
      BY <2>3 DEF q
    <3> QED BY <2>1, <3>2, <3>3, <1>2
  <2> QED BY <1>4, <2>2, <2>3 DEF PutCheck
<1>5. ASSUME NEW r \in Requests, NEW l \in Lanes, DisableStart(r, l)
      PROVE  ReqInv'
  <2>1. UNCHANGED row
    BY <1>5 DEF DisableStart, book
  <2>2. PICK e \in 0..row[l].version :
           req' = [req EXCEPT ![r] = [Idle EXCEPT !.pc = "read", !.kind = "disable",
                                                  !.lane = l, !.expected = e]]
    BY <1>5 DEF DisableStart
  <2> DEFINE q == [Idle EXCEPT !.pc = "read", !.kind = "disable", !.lane = l, !.expected = e]
  <2>3. e \in Versions
    BY BindingsAssumption DEF BookInv, Versions
  <2>4. q.pc = "read" /\ q.lane = l /\ q.kind = "disable"
        /\ q \in [pc : {"idle", "read", "write"}, kind : {"put", "disable"},
                  lane : Lanes \union {None}, target : Targets \union {None},
                  expected : Versions, clean : BOOLEAN]
    BY <2>3 DEF Idle
  <2>5. req' = [req EXCEPT ![r] = q]
    BY <2>2
  <2> HIDE DEF q
  <2> QED BY <2>1, <2>4, <2>5, <1>2
<1>6. ASSUME NEW r \in Requests, Read(r) PROVE ReqInv'
  <2>1. UNCHANGED row
    BY <1>6 DEF Read, book
  <2>2. CASE Accepted(req[r])
    <3> DEFINE q == [req[r] EXCEPT !.pc = "write", !.clean = TRUE]
    <3>1. /\ q \in [pc : {"idle", "read", "write"}, kind : {"put", "disable"},
                    lane : Lanes \union {None}, target : Targets \union {None},
                    expected : Versions, clean : BOOLEAN]
          /\ q.lane = req[r].lane /\ q.kind = req[r].kind /\ q.target = req[r].target
          /\ q.expected = req[r].expected
      BY DEF ReqTypes
    <3>2. req[r].lane \in Lanes /\ (req[r].kind = "put" => req[r].target \in Targets)
      BY <1>6 DEF Read, RequestsNamed
    <3>3. /\ req[r].expected = row[req[r].lane].version
          /\ req[r].kind = "disable" => row[req[r].lane].version > 0
          /\ IndexHolds(req[r])
      BY <2>2, <3>2 DEF Accepted, RowExists, TargetFree, IndexHolds, ReqTypes
    <3>4. req' = [req EXCEPT ![r] = q]
      BY <1>6, <2>2 DEF Read
    <3> HIDE DEF q
    <3>5. IndexHolds(q)
      BY <3>1, <3>3 DEF IndexHolds
    <3> QED BY <2>1, <3>1, <3>2, <3>3, <3>4, <3>5, <1>2
  <2>3. CASE ~Accepted(req[r])
    BY <1>1, <1>2, <1>6, <2>1, <2>3 DEF Read, Idle
  <2> QED BY <2>2, <2>3
<1>7. ASSUME NEW r \in Requests, Write(r) PROVE ReqInv'
  <2>1. req' = [Spoilt EXCEPT ![r] = Idle]
    BY <1>7 DEF Write
  <2>2. ReqTypes'
    BY <2>1, <1>1 DEF ReqTypes, Spoilt
  <2>3. \A x \in Requests : req'[x] = IF x = r THEN Idle ELSE [req[x] EXCEPT !.clean = FALSE]
    BY <2>1 DEF Spoilt
  <2>4. \A x \in Requests : /\ req'[x].clean = FALSE
                            /\ req'[x].pc # "idle" =>
                                 /\ x # r /\ req'[x].pc = req[x].pc /\ req'[x].kind = req[x].kind
                                 /\ req'[x].lane = req[x].lane /\ req'[x].target = req[x].target
    <3> TAKE x \in Requests
    <3>1. CASE x = r
      <4>1. req'[x] = Idle
        BY <2>3, <3>1
      <4>2. Idle.clean = FALSE /\ Idle.pc = "idle"
        BY DEF Idle
      <4> QED BY <4>1, <4>2
    <3>2. CASE x # r
      <4>1. req'[x] = [req[x] EXCEPT !.clean = FALSE]
        BY <2>3, <3>2
      <4> QED BY <4>1, <3>2 DEF ReqTypes
    <3> QED BY <3>1, <3>2
  <2> QED BY <2>2, <2>4 DEF RequestsNamed, SnapshotHolds
<1>8. ASSUME NEW r \in Requests, Fail(r) PROVE ReqInv'
  <2>1. UNCHANGED row /\ req' = [req EXCEPT ![r] = Idle] /\ Idle.pc = "idle"
    BY <1>8 DEF Fail, book, Idle
  <2> QED BY <2>1, <1>1, <1>2
<1>9. ASSUME NEW c \in finished, Retire(c) PROVE ReqInv'
  <2>1. CASE req' = Spoilt
    BY <2>1, SpoiltIsFine
  <2>2. CASE UNCHANGED <<row, req>>
    BY <2>2 DEF ReqTypes, RequestsNamed, SnapshotHolds, IndexHolds
  <2> QED BY <1>9, <2>1, <2>2 DEF Retire
<1>10. ASSUME Restart PROVE ReqInv'
  BY <1>10, <1>1 DEF Restart, ReqTypes, RequestsNamed, SnapshotHolds, Idle
<1>11. CASE UNCHANGED <<row, req>>
  BY <1>11 DEF ReqTypes, RequestsNamed, SnapshotHolds, IndexHolds
<1> QED
  BY <1>3, <1>4, <1>5, <1>6, <1>7, <1>8, <1>9, <1>10, <1>11
     DEF Next, vars, book, Beat, RegisterFails, ListWorkers, Get, Tick, Finish, RetireRead, RetireFails

\* The invariant holds in every reachable state.
THEOREM Invariance == Spec => []IInv
<1>1. Init => IInv
  <2> SUFFICES ASSUME Init PROVE IInv
    OBVIOUS
  <2> USE DEF Init
  <2>1. PresenceInv
    BY Numbers DEF PresenceInv, Kept, Sound, Alone
  <2>2. BookInv
    BY Numbers DEF BookInv, NoRow
  <2>3. ReqInv
    BY Numbers DEF ReqInv, ReqTypes, RequestsNamed, SnapshotHolds, Idle
  <2> QED BY <2>1, <2>2, <2>3 DEF IInv
<1>2. IInv /\ [Next]_vars => IInv'
  BY PresenceStep, BookStep, ReqStep DEF IInv
<1> QED BY <1>1, <1>2, PTL DEF Spec

\* Type correctness (sessions, heartbeats, rows and requests are what the
\* code's structures can hold, and conflict flags say whether a session has company).
THEOREM TypeCorrect == Spec => []TypeOK
<1>1. IInv => TypeOK
  BY DEF IInv, PresenceInv, BookInv, ReqInv, ReqTypes, Kept, TypeOK
<1> QED BY <1>1, Invariance, PTL

\* A presence token that a reader was told is gone is never shown again
\* (markConflictLocked, pruneLocked and Register roll a new one in time).
THEOREM TokensStayGone == Spec => []TokenNeverReturns
<1>1. IInv => TokenNeverReturns
  BY DEF IInv, PresenceInv, Sound, TokenNeverReturns
<1> QED BY <1>1, Invariance, PTL

\* Put's check that the target is free still holds when it writes, because its
\* transaction only writes on the snapshot it read.
THEOREM FreeTargets == Spec => []TargetStaysFree
<1>1. IInv => TargetStaysFree
  BY DEF IInv, ReqInv, SnapshotHolds, TargetStaysFree, MayWrite
<1> QED BY <1>1, Invariance, PTL

\* Every change of a binding moves its version by one.
THEOREM NoLostUpdate == Spec => VersionsNameBindings
<1> DEFINE A == \A l \in Lanes : row'[l] # row[l] => row'[l].version = row[l].version + 1
<1>1. IInv /\ [Next]_vars => A
  <2> SUFFICES ASSUME BookInv, ReqInv, [Next]_vars, NEW l \in Lanes, row'[l] # row[l]
               PROVE  row'[l].version = row[l].version + 1
    BY DEF IInv
  <2>1. ASSUME NEW r \in Requests, Write(r) PROVE row'[l].version = row[l].version + 1
    <3>1. req[r].lane \in Lanes /\ req[r].expected = row[req[r].lane].version
      BY <2>1 DEF Write, MayWrite, ReqInv, SnapshotHolds
    <3>2. row' = [row EXCEPT ![req[r].lane] = Written(req[r])]
      BY <2>1 DEF Write
    <3>3. l = req[r].lane /\ row'[l] = Written(req[r])
      BY <3>1, <3>2 DEF BookInv
    <3> QED BY <3>1, <3>3 DEF Written
  <2>2. ASSUME NEW c \in finished, Retire(c) PROVE row'[l].version = row[l].version + 1
    <3>1. row' = [row EXCEPT ![c[1]].enabled = FALSE, ![c[1]].version = @ + 1]
      BY <2>2 DEF Retire
    <3>2. c[1] = l
      BY <3>1 DEF BookInv
    <3> QED BY <3>1, <3>2 DEF BookInv
  <2>3. CASE UNCHANGED row
    BY <2>3
  <2> QED
    BY <2>1, <2>2, <2>3
       DEF Next, vars, book, presence, Beat, Register, RegisterFails, ListWorkers, Get, Tick,
           PutCheck, DisableStart, Read, Fail, Finish, RetireRead, RetireFails, Restart
<1>2. [][A]_vars <=> VersionsNameBindings
  BY DEF VersionsNameBindings
<1> QED BY <1>1, <1>2, Invariance, PTL DEF Spec

\* A binding is changed by a request that expected its version, or retired in
\* the version a finished QA delivery captured.
THEOREM OnlyNamed == Spec => NamedFirst
<1> DEFINE A == \A l \in Lanes : row'[l] # row[l] => Named(l)
<1>1. IInv /\ [Next]_vars => A
  <2> SUFFICES ASSUME BookInv, ReqInv, [Next]_vars, NEW l \in Lanes, row'[l] # row[l]
               PROVE  Named(l)
    BY DEF IInv
  <2>1. ASSUME NEW r \in Requests, Write(r) PROVE Named(l)
    <3>1. req[r].pc = "write" /\ req[r].lane \in Lanes
          /\ req[r].expected = row[req[r].lane].version
      BY <2>1 DEF Write, MayWrite, ReqInv, SnapshotHolds
    <3>2. row' = [row EXCEPT ![req[r].lane] = Written(req[r])]
      BY <2>1 DEF Write
    <3>3. l = req[r].lane
      BY <3>1, <3>2 DEF BookInv
    <3> QED BY <3>1, <3>3 DEF Named
  <2>2. ASSUME NEW c \in finished, Retire(c) PROVE Named(l)
    <3>1. row' = [row EXCEPT ![c[1]].enabled = FALSE, ![c[1]].version = @ + 1] /\ Retirable(c)
      BY <2>2 DEF Retire
    <3>2. c[1] = l /\ row[l].version = c[2]
      BY <3>1 DEF BookInv, Retirable
    <3>3. c = <<l, row[l].version>>
      BY <3>2 DEF BookInv
    <3> QED BY <3>3 DEF Named
  <2>3. CASE UNCHANGED row
    BY <2>3
  <2> QED
    BY <2>1, <2>2, <2>3
       DEF Next, vars, book, presence, Beat, Register, RegisterFails, ListWorkers, Get, Tick,
           PutCheck, DisableStart, Read, Fail, Finish, RetireRead, RetireFails, Restart
<1>2. [][A]_vars <=> NamedFirst
  BY DEF NamedFirst
<1> QED BY <1>1, <1>2, Invariance, PTL DEF Spec

(***************************************************************************)
(* Silence.  A session heard of within the time limit is still in memory.  *)
(***************************************************************************)
Recent(f, x, h) == x \in DOMAIN f /\ f[x].seen <= h + MaxDelay
HeardBook == \A x \in Sessions : heard[x] + MaxDelay <= TTL => Recent(session, x, heard[x])

\* Pruning takes nobody who is within the limit, and nobody's age changes.
LEMMA PrunedKeepsRecent ==
  ASSUME NEW f, Kept(f), Sound(f), NEW n \in Nat, NEW x \in Sessions, NEW h \in 0..Far,
         h + MaxDelay <= TTL, Recent(f, x, h)
  PROVE  Recent(Pruned(f, n), x, h)
<1> DEFINE D == {y \in DOMAIN f : f[y].seen <= TTL + n}
           g == [s \in D |-> f[s]]
<1>1. Pruned(f, n) = Marked(g)
  BY DEF Pruned
<1>2. D \subseteq DOMAIN f /\ DOMAIN g = D /\ \A s \in D : g[s] = f[s]
  OBVIOUS
<1>3. g \in [D -> SessionStates]
  BY <1>2 DEF Kept
<1>4. Alone(f) => Alone(g)
  BY <1>2 DEF Alone
<1>5. Markable(g)
  BY <1>2, <1>3, <1>4 DEF Markable, Kept, Sound
<1>6. x \in D
  <2>1. x \in DOMAIN f /\ f[x].seen \in 0..Far /\ f[x].seen <= h + MaxDelay
    BY DEF Recent, Kept, SessionStates
  <2>2. f[x].seen <= TTL + n
    BY <2>1, Numbers, BindingsAssumption
  <2> QED BY <2>1, <2>2
<1> HIDE DEF g, D
<1>7. DOMAIN Marked(g) = D /\ \A s \in D : Marked(g)[s].seen = f[s].seen
  BY <1>2, <1>5, MarkedShape
<1> QED BY <1>1, <1>6, <1>7 DEF Recent

LEMMA NotedKeepsRecent ==
  ASSUME NEW f, Kept(f), NEW t, NEW x, NEW h, Recent(f, x, h)
  PROVE  Recent(Noted(f, t), x, h)
<1>1. f[x] \in SessionStates /\ x \in DOMAIN f
  BY DEF Recent, Kept
<1>2. DOMAIN Noted(f, t) = DOMAIN f /\ Noted(f, t)[x].seen = f[x].seen
  BY <1>1 DEF Noted, SessionStates
<1> QED BY <1>2 DEF Recent

\* A heartbeat brings its own session up to date and leaves the others' ages.
LEMMA RegisterKeepsRecent ==
  ASSUME PresenceInv, HeardBook, NEW s \in Sessions, Register(s)
  PROVE  HeardBook'
<1> DEFINE b == beat[s]
           f == Pruned(session, b.age)
           g == Registered(f, s, b.target, b.age)
<1>1. /\ b.age \in 0..MaxDelay /\ b.age \in Nat /\ b.age \in 0..Far
      /\ b.target \in Targets \union {None}
  <2>1. b \in [target : Targets \union {None}, age : 0..MaxDelay]
    BY DEF Register, PresenceInv
  <2>2. b.age \in 0..MaxDelay /\ b.target \in Targets \union {None}
    BY <2>1
  <2>3. \A n \in 0..MaxDelay : n \in Nat /\ n \in 0..Far
    BY Numbers, BindingsAssumption
  <2> QED BY <2>2, <2>3
<1>2. session' = Marked(g) /\ heard' = [heard EXCEPT ![s] = 0]
  BY DEF Register
<1>3. Kept(f) /\ Sound(f)
  BY <1>1, PrunedIsKept DEF PresenceInv
<1>4. Markable(g)
  BY <1>1, <1>3, RegisteredIsMarkable
<1>5. /\ DOMAIN g = DOMAIN f \union {s} /\ g[s].seen = b.age
      /\ \A x \in DOMAIN f \ {s} : g[x] = f[x]
  BY DEF Registered
<1>6. ASSUME NEW x \in Sessions, heard'[x] + MaxDelay <= TTL
      PROVE  Recent(session, x, heard[x])'
  <2>1. CASE x = s
    <3>1. heard'[x] = 0
      BY <1>2, <2>1 DEF PresenceInv
    <3>2. s \in DOMAIN g /\ g[s].seen <= 0 + MaxDelay
      BY <1>1, <1>5, BindingsAssumption
    <3> HIDE DEF g
    <3>3. s \in DOMAIN Marked(g) /\ Marked(g)[s].seen <= 0 + MaxDelay
      BY <1>4, <3>2, MarkedShape
    <3> QED BY <1>2, <2>1, <3>1, <3>3 DEF Recent
  <2>2. CASE x # s
    <3>1. heard'[x] = heard[x] /\ heard[x] \in 0..Far
      BY <1>2, <2>2 DEF PresenceInv
    <3>2. Recent(f, x, heard[x])
      BY <1>1, <1>6, <3>1, PrunedKeepsRecent DEF PresenceInv, HeardBook
    <3>3. x \in DOMAIN g /\ g[x].seen <= heard[x] + MaxDelay
      BY <1>5, <2>2, <3>2 DEF Recent
    <3> HIDE DEF g
    <3>4. x \in DOMAIN Marked(g) /\ Marked(g)[x].seen <= heard[x] + MaxDelay
      BY <1>4, <3>3, MarkedShape
    <3> QED BY <1>2, <3>1, <3>4 DEF Recent
  <2> QED BY <2>1, <2>2
<1> QED BY <1>6 DEF HeardBook

LEMMA TickKeepsRecent ==
  ASSUME PresenceInv, HeardBook, Tick
  PROVE  HeardBook'
<1> SUFFICES ASSUME NEW x \in Sessions, heard'[x] + MaxDelay <= TTL
             PROVE  Recent(session, x, heard[x])'
  BY DEF HeardBook
<1>1. /\ heard[x] \in 0..Far /\ heard'[x] = Older(heard[x])
  BY DEF Tick, PresenceInv
<1>2. heard[x] + MaxDelay <= TTL /\ heard'[x] = heard[x] + 1
  BY <1>1, BindingsAssumption DEF Older, Far
<1>3. x \in DOMAIN session /\ session[x].seen <= heard[x] + MaxDelay
  BY <1>2 DEF HeardBook, Recent
<1>4. session[x] \in SessionStates
  BY <1>3 DEF PresenceInv, Kept
<1>5. session[x].seen \in 0..Far
  BY <1>4 DEF SessionStates
<1>6. DOMAIN session' = DOMAIN session /\ session'[x].seen = Older(session[x].seen)
  BY <1>3, <1>4 DEF Tick, SessionStates
<1>7. Older(session[x].seen) <= heard'[x] + MaxDelay
  BY <1>1, <1>2, <1>3, <1>5, BindingsAssumption DEF Older, Far
<1> QED BY <1>3, <1>6, <1>7 DEF Recent

LEMMA HeardStep ==
  ASSUME PresenceInv, HeardBook, [Next]_vars
  PROVE  HeardBook'
<1>1. ASSUME UNCHANGED heard, \/ session' = session
                              \/ session' = Pruned(session, 0)
                              \/ \E t \in Targets : session' = Noted(Pruned(session, 0), t)
      PROVE  HeardBook'
  <2> SUFFICES ASSUME NEW x \in Sessions, heard[x] + MaxDelay <= TTL
               PROVE  Recent(session', x, heard[x])
    BY <1>1 DEF HeardBook, Recent
  <2>1. heard[x] \in 0..Far /\ Recent(session, x, heard[x])
    BY DEF HeardBook, PresenceInv
  <2>2. 0 \in Nat /\ Kept(Pruned(session, 0))
    BY PrunedIsKept DEF PresenceInv
  <2>3. Recent(Pruned(session, 0), x, heard[x])
    BY <2>1, <2>2, PrunedKeepsRecent DEF PresenceInv
  <2> QED BY <1>1, <2>1, <2>2, <2>3, NotedKeepsRecent
<1>2. ASSUME Restart PROVE HeardBook'
  BY <1>2, BindingsAssumption DEF Restart, HeardBook, Far
<1> QED
  BY <1>1, <1>2, RegisterKeepsRecent, TickKeepsRecent
     DEF Next, vars, presence, Beat, RegisterFails, ListWorkers, Get, PutCheck, DisableStart,
         Read, Write, Fail, Finish, RetireRead, Retire, RetireFails

\* No runtime of a worker is ready before every other one has been silent for
\* the time limit, less what Register may have waited, whatever the limits are.
THEOREM OneRuntimeReady == Spec => []SoleSession
<1>1. Init => HeardBook
  BY BindingsAssumption DEF Init, HeardBook, Far
<1>2. IInv /\ HeardBook /\ [Next]_vars => HeardBook'
  BY HeardStep DEF IInv
<1>3. IInv /\ HeardBook => SoleSession
  <2> SUFFICES ASSUME IInv, HeardBook, NEW t \in Targets, NEW s \in DOMAIN session,
                      Readiness(session, t) = "ready", NEW x \in Sessions \ {s}
               PROVE  heard[x] + MaxDelay > TTL
    BY DEF SoleSession
  <2>1. x \notin DOMAIN session
    BY DEF Readiness, Alone
  <2>2. heard[x] \in Nat /\ TTL \in Nat /\ MaxDelay \in Nat
    BY BindingsAssumption, Numbers DEF IInv, PresenceInv
  <2> QED BY <2>1, <2>2 DEF HeardBook, Recent
<1> QED BY <1>1, <1>2, <1>3, Invariance, PTL DEF Spec
=============================================================================
