------------------------------ MODULE Extension ------------------------------
(***************************************************************************)
(* The Chrome extension: its service worker polls a backend for a claim,   *)
(* reserves the claim in a durable ledger, writes the prompt into the      *)
(* bound conversation and clicks Send, and reports what became of it; a    *)
(* heartbeat beside the poll repeats reports that were not answered.       *)
(*                                                                         *)
(* A step runs from one await to the next.  Chrome may stop the service    *)
(* worker at any time; the user edits the page, changes the tab and        *)
(* chooses another backend.  A backend is the queue of Delivery, reduced   *)
(* to what the extension sees of it.                                       *)
(***************************************************************************)
EXTENDS Naturals, FiniteSets

CONSTANTS Commands,    \* delivery commands of all backends
          Origins,     \* backend origins
          Home(_),     \* the backend that issued a command
          MaxClaims,   \* bound: claim requests ever made
          MaxEntries,  \* ledger entries kept by prune
          None

Claims   == 1..MaxClaims   \* a claim is named by its request
Terminal == {"sent", "failed_pre_send", "uncertain"}
States   == Terminal \union {"reserved"}
Entries  == [cmd : Commands, origin : Origins, state : States, acked : BOOLEAN]

ASSUME ExtensionAssumption ==
  /\ MaxClaims \in Nat /\ MaxEntries \in Nat
  /\ \A c \in Commands : Home(c) \in Origins
  /\ None \notin Commands \union Origins \union Entries

VARIABLES queue,    \* command -> [status, claim] at its backend
          request,  \* request -> [origin, done, cmd]: what was asked and found
          asked,    \* requests made so far
          ledger,   \* claim -> entry or None, in chrome.storage.local
          config,   \* the permitted backend origin, or None
          sw,       \* service worker: [up, bound, ready]; ready: presence is
                    \* current and no session conflict is known
          poll,     \* the running poll
          beat,     \* the running heartbeat: entries left, entry being noted
          clicks,   \* history: clicks on Send with the command's prompt
          astray    \* history: commands reported to another backend

vars == <<queue, request, asked, ledger, config, sw, poll, beat, clicks, astray>>
backend == <<queue, request, asked>>
record  == <<clicks, astray>>

NoPoll == [pc |-> "idle", req |-> 0, state |-> "reserved"]
NoBeat == [pc |-> "idle", left |-> [k \in Claims |-> None], k |-> 0]
Started == [up |-> FALSE, bound |-> None, ready |-> FALSE]

Init == /\ queue = [c \in Commands |-> [status |-> "pending", claim |-> 0]]
        /\ request = [r \in Claims |-> [origin |-> None, done |-> FALSE, cmd |-> None]]
        /\ asked = 0
        /\ ledger = [k \in Claims |-> None]
        /\ config \in Origins
        /\ sw = Started
        /\ poll = NoPoll
        /\ beat = NoBeat
        /\ clicks = [c \in Commands |-> 0]
        /\ astray = {}

(***************************************************************************)
(* The backend                                                             *)
(***************************************************************************)
\* claim-next, answered again for the same request; it may run after the
\* extension has given up on it.
ServerClaim(r) ==
  /\ request[r].origin # None /\ ~request[r].done
  /\ \/ \E c \in Commands :
          /\ Home(c) = request[r].origin /\ queue[c].status = "pending"
          /\ queue' = [queue EXCEPT ![c] = [status |-> "claimed", claim |-> r]]
          /\ request' = [request EXCEPT ![r].done = TRUE, ![r].cmd = c]
     \/ /\ request' = [request EXCEPT ![r].done = TRUE]
        /\ UNCHANGED queue
  /\ UNCHANGED <<asked, ledger, config, record, sw, poll, beat>>

\* Reconcile or the time limit: the claim is given up on.
Expire(c) ==
  /\ queue[c].status = "claimed"
  /\ queue' = [queue EXCEPT ![c].status = "uncertain"]
  /\ UNCHANGED <<request, asked, ledger, config, record, sw, poll, beat>>

OutcomeOf(state) == CASE state = "sent" -> "delivered"
                      [] state = "failed_pre_send" -> "failed"
                      [] OTHER -> "uncertain"

\* A completion posted to an origin is taken over, or is a repetition, a
\* conflict or unknown there: in each case the answer is definitive.
Taken(c, r, origin) == origin = Home(c) /\ queue[c] = [status |-> "claimed", claim |-> r]

Sent(c, origin) == astray' = IF origin = Home(c) THEN astray ELSE astray \union {c}
Post(c, r, state, origin) ==
  /\ Sent(c, origin)
  /\ queue' = IF Taken(c, r, origin)
              THEN [queue EXCEPT ![c].status = OutcomeOf(state)] ELSE queue
\* The call comes back without an answer or with a server error, whatever the backend did.
Unanswered(c, r, state, origin) ==
  Post(c, r, state, origin) \/ (Sent(c, origin) /\ UNCHANGED queue)

(***************************************************************************)
(* The ledger.  Each operation is one exclusive read and save.             *)
(***************************************************************************)
Marked(k, state) == [ledger EXCEPT ![k].state = state]
Acked(k) == IF ledger[k] = None THEN ledger ELSE [ledger EXCEPT ![k].acked = TRUE]

\* (fault) everything not acknowledged is in doubt after a restart
AllInDoubt(e) == e # None /\ ~e.acked

InDoubt(e) == e # None /\ e.state = "reserved"
Recovered == [k \in Claims |-> IF InDoubt(ledger[k])
                               THEN [ledger[k] EXCEPT !.state = "uncertain"] ELSE ledger[k]]

Removable(e) == e # None /\ e.state \in Terminal /\ e.acked
Excess(l) == LET n == Cardinality({k \in Claims : l[k] # None})
             IN IF n > MaxEntries THEN n - MaxEntries ELSE 0
\* prune takes the oldest; age is left open.
Pruned(l) ==
  LET removable == {k \in Claims : Removable(l[k])}
      n == IF Excess(l) < Cardinality(removable) THEN Excess(l) ELSE Cardinality(removable)
  IN {[k \in Claims |-> IF k \in gone THEN None ELSE l[k]] :
        gone \in {s \in SUBSET removable : Cardinality(s) = n}}

(***************************************************************************)
(* start: recover and prune, then heartbeats and polls                     *)
(***************************************************************************)
Recover ==
  /\ ~sw.up
  /\ ledger' \in Pruned(Recovered)
  /\ sw' = [sw EXCEPT !.up = TRUE]
  /\ UNCHANGED <<backend, config, record, poll, beat>>

\* Chrome stops the service worker.
Stop == /\ sw' = Started
        /\ poll' = NoPoll
        /\ beat' = NoBeat
        /\ UNCHANGED <<backend, ledger, config, record>>

(***************************************************************************)
(* heartbeatCycle.  An activated tab may start one before start is done.   *)
(***************************************************************************)
BeatRead ==
  /\ beat.pc = "idle"
  /\ IF config = None
     THEN sw' = [Started EXCEPT !.up = sw.up] /\ UNCHANGED beat
     ELSE /\ sw' = IF config = sw.bound THEN sw
                   ELSE [sw EXCEPT !.bound = config, !.ready = FALSE]
          /\ beat' = [beat EXCEPT !.pc = "report"]
  /\ UNCHANGED <<backend, ledger, config, record, poll>>

\* (fault) a claim is reported wherever the extension is connected
AnyOrigin(e, origin) == e # None /\ ~e.acked /\ e.state # "reserved"

\* (fault) what is in doubt is left to the backend
SureOnly(e, origin) == e # None /\ ~e.acked /\ e.state \in {"sent", "failed_pre_send"}
                         /\ e.origin = origin

MayAck(e, origin) == e # None /\ ~e.acked /\ e.state # "reserved" /\ e.origin = origin

\* register or heartbeat, with the target then current; the entries to
\* acknowledge are read after it
BeatReport ==
  /\ beat.pc = "report"
  /\ \/ /\ sw' \in {[sw EXCEPT !.ready = ready] : ready \in BOOLEAN}
        /\ beat' = [NoBeat EXCEPT !.pc = "ack",
                                  !.left = [k \in Claims |-> IF MayAck(ledger[k], sw.bound)
                                                             THEN ledger[k] ELSE None]]
     \/ sw' = [sw EXCEPT !.ready = FALSE] /\ beat' = NoBeat
  /\ UNCHANGED <<backend, ledger, config, record, poll>>

Skipped(k) == [beat EXCEPT !.left[k] = None]
\* reconcileLedger, one entry as it was read: posted, and noted when answered
BeatPost(k) ==
  /\ beat.pc = "ack" /\ beat.left[k] # None
  /\ Post(beat.left[k].cmd, k, beat.left[k].state, sw.bound)
  /\ beat' = [Skipped(k) EXCEPT !.pc = "note", !.k = k]
  /\ UNCHANGED <<request, asked, ledger, config, clicks, sw, poll>>

BeatLost(k) ==
  /\ beat.pc = "ack" /\ beat.left[k] # None
  /\ Unanswered(beat.left[k].cmd, k, beat.left[k].state, sw.bound)
  /\ beat' = Skipped(k)
  /\ UNCHANGED <<request, asked, ledger, config, clicks, sw, poll>>

BeatNote(k) ==
  /\ beat.pc = "note" /\ beat.k = k
  /\ ledger' \in {Acked(k), ledger}
  /\ beat' = [beat EXCEPT !.pc = "ack", !.k = 0]
  /\ UNCHANGED <<backend, config, record, sw, poll>>

BeatEnd ==
  /\ beat.pc = "ack" /\ beat.left = NoBeat.left
  /\ beat' = NoBeat
  /\ UNCHANGED <<backend, ledger, config, record, sw, poll>>

(***************************************************************************)
(* pollCycle.  What the page shows - the bound conversation or another,    *)
(* the prompt or what the user made of it - is open at every look.         *)
(***************************************************************************)
PollRead ==
  /\ sw.up
  /\ poll.pc = "idle"
  /\ IF config = None \/ config # sw.bound
     THEN sw' = [sw EXCEPT !.ready = FALSE] /\ UNCHANGED poll
     ELSE poll' = [poll EXCEPT !.pc = "look"] /\ UNCHANGED sw
  /\ UNCHANGED <<backend, ledger, config, record, beat>>

\* Another target is current, or presence is not: no claim.
PollPass ==
  /\ poll.pc = "look"
  /\ sw' = [sw EXCEPT !.ready = FALSE]
  /\ poll' = NoPoll
  /\ UNCHANGED <<backend, ledger, config, record, beat>>

\* The claim request, to the backend bound by now
PollStart ==
  /\ poll.pc = "look" /\ sw.ready
  /\ asked < MaxClaims
  /\ asked' = asked + 1
  /\ request' = [request EXCEPT ![asked + 1].origin = sw.bound]
  /\ poll' = [NoPoll EXCEPT !.pc = "claim", !.req = asked + 1]
  /\ UNCHANGED <<queue, ledger, config, record, sw, beat>>

Cmd == request[poll.req].cmd
Origin == request[poll.req].origin
Step(pc) == poll' = [poll EXCEPT !.pc = pc]
Decide(state) == poll' = [poll EXCEPT !.pc = "mark", !.state = state]

\* The answer: an execution, nothing, or none in two attempts or a conflict
PollAnswer ==
  /\ poll.pc = "claim"
  /\ \/ request[poll.req].done /\ Cmd # None /\ Step("reserve") /\ UNCHANGED sw
     \/ request[poll.req].done /\ Cmd = None /\ poll' = NoPoll /\ UNCHANGED sw
     \/ sw' \in {sw, [sw EXCEPT !.ready = FALSE]} /\ poll' = NoPoll
  /\ UNCHANGED <<backend, ledger, config, record, beat>>

\* Without its ledger the claim is not executed, or not further.
GiveUp == poll' = NoPoll /\ Unanswered(Cmd, poll.req, "uncertain", Origin)

\* (fault) the prompt goes out although its reservation was not saved
Unreserved == Step("guard") /\ UNCHANGED <<astray, queue>>

NoLedger == GiveUp

Reservation == [cmd |-> Cmd, origin |-> Origin, state |-> "reserved", acked |-> FALSE]

\* execute up to the reservation.  A new request never meets an entry of its
\* claim; the code's branches for that have no step.
Reserve ==
  /\ poll.pc = "reserve"
  /\ \/ /\ ledger' = [ledger EXCEPT ![poll.req] = Reservation]
        /\ Step("guard") /\ UNCHANGED <<astray, queue>>
     \/ NoLedger /\ UNCHANGED ledger
  /\ UNCHANGED <<request, asked, config, clicks, sw, beat>>

SameBackend == config = Origin /\ sw.bound = Origin

\* The prompt's hash, then the guard before insertion; either may be impossible
Guard ==
  /\ poll.pc = "guard"
  /\ \/ Decide("uncertain")
     \/ ~SameBackend /\ Decide("failed_pre_send")
     \/ SameBackend /\ Step("insert")
  /\ UNCHANGED <<backend, ledger, config, record, sw, beat>>

Insert ==
  /\ poll.pc = "insert"
  /\ Step("recheck") \/ Decide("failed_pre_send") \/ Decide("uncertain")
  /\ UNCHANGED <<backend, ledger, config, record, sw, beat>>

Recheck ==
  /\ poll.pc = "recheck"
  /\ \/ Decide("uncertain")
     \/ ~SameBackend /\ Decide("failed_pre_send")
     \/ SameBackend /\ Step("send")
  /\ UNCHANGED <<backend, ledger, config, record, sw, beat>>

\* (fault) a click whose effect is not seen is tried again
TryAgain == Step("send")

\* (fault) no answer from the page means nothing was sent
Blame == Decide("failed_pre_send")

InDoubtSend == Decide("uncertain")

\* sendPrompt: the page holds exactly the prompt and clicks, and only an
\* empty composer confirms it; or it does not click and may fail to say so.
Send ==
  /\ poll.pc = "send"
  /\ \/ clicks' = [clicks EXCEPT ![Cmd] = @ + 1] /\ (Decide("sent") \/ InDoubtSend)
     \/ UNCHANGED clicks /\ (Decide("failed_pre_send") \/ InDoubtSend)
  /\ UNCHANGED <<backend, ledger, config, astray, sw, beat>>

Mark ==
  /\ poll.pc = "mark"
  /\ \/ /\ ledger[poll.req] # None
        /\ ledger' = Marked(poll.req, poll.state)
        /\ Step("ack") /\ UNCHANGED <<astray, queue>>
     \/ GiveUp /\ UNCHANGED ledger
  /\ UNCHANGED <<request, asked, config, clicks, sw, beat>>

\* acknowledge, by the coordinator the claim was made with
PollPost ==
  /\ poll.pc = "ack"
  /\ \/ Post(Cmd, poll.req, poll.state, Origin) /\ Step("note")
     \/ Unanswered(Cmd, poll.req, poll.state, Origin) /\ Step("prune")
  /\ UNCHANGED <<request, asked, ledger, config, clicks, sw, beat>>

PollNote ==
  /\ poll.pc = "note"
  /\ \/ ledger' = Acked(poll.req) /\ Step("prune")
     \/ UNCHANGED ledger /\ (Step("prune") \/ poll' = NoPoll)
  /\ UNCHANGED <<backend, config, record, sw, beat>>

Prune ==
  /\ poll.pc = "prune"
  /\ ledger' \in Pruned(ledger) \union {ledger}
  /\ poll' = NoPoll
  /\ UNCHANGED <<backend, config, record, sw, beat>>

\* The user chooses another backend, or withdraws the permission.
Configure ==
  /\ config' \in (Origins \union {None}) \ {config}
  /\ UNCHANGED <<backend, ledger, record, sw, poll, beat>>

BeatStep == BeatRead \/ BeatReport \/ BeatEnd
              \/ \E k \in Claims : BeatPost(k) \/ BeatLost(k) \/ BeatNote(k)
PollStep == PollAnswer \/ Reserve \/ Guard \/ Insert \/ Recheck \/ Send
              \/ Mark \/ PollPost \/ PollNote \/ Prune

Next ==
  \/ \E r \in Claims : ServerClaim(r)
  \/ \E c \in Commands : Expire(c)
  \/ Recover \/ Stop
  \/ BeatStep
  \/ PollRead \/ PollPass \/ PollStart \/ PollStep
  \/ Configure

Spec == Init /\ [][Next]_vars

\* A heartbeat's call comes back without an answer, or its note is not saved.
Failure == \/ BeatReport /\ beat'.pc = "idle"
           \/ \E k \in Claims : BeatLost(k) \/ (BeatNote(k) /\ ledger' # Acked(k))

(***************************************************************************)
(* Timers and alarms keep the heartbeat running and started steps end.     *)
(* From some point on Chrome lets the service worker live, the backend     *)
(* stays the same one and answers, and the storage works.                  *)
(***************************************************************************)
FairSpec ==
  /\ Spec
  /\ WF_vars(Recover)
  /\ WF_vars(BeatStep)
  /\ WF_vars(PollStep)
  /\ <>[][~Stop /\ ~Configure /\ ~Failure]_vars

(***************************************************************************)
(* Properties                                                              *)
(***************************************************************************)
\* No command's prompt is sent twice: not by a lost answer, a stopped service
\* worker, a recovered ledger or a repeated acknowledgement.
OneClick == \A c \in Commands : clicks[c] <= 1

\* What a backend was told is true: delivered prompts were sent, failed ones
\* were not and never will be.
HonestOutcome ==
  \A c \in Commands : /\ queue[c].status = "delivered" => clicks[c] = 1
                      /\ queue[c].status = "failed" => clicks[c] = 0

\* "unfinished claims are never acknowledged across backend origins"
HomeOnly == astray = {}

\* Text goes out only while its claim is reserved in durable storage.
WriteAhead ==
  [][\A c \in Commands : clicks'[c] # clicks[c] =>
       ledger[poll.req] # None /\ ledger[poll.req].state = "reserved"]_vars

\* A ledger entry goes from reserved to one outcome and disappears only after
\* its backend gave a definitive answer.
LedgerStands ==
  [][\A k \in Claims : ledger[k] # None =>
       IF ledger'[k] = None THEN ledger[k].acked /\ ledger[k].state # "reserved"
       ELSE /\ ledger[k].state # "reserved" => ledger'[k].state = ledger[k].state
            /\ ledger[k].acked => ledger'[k].acked]_vars

Unreported(k) == ledger[k] # None /\ ledger[k].state # "reserved" /\ ~ledger[k].acked
\* A known outcome is reported once its backend is the configured one for good.
OutcomeReported ==
  \A k \in Claims :
    <>[](ledger[k] # None => config = ledger[k].origin) => (Unreported(k) ~> ~Unreported(k))
=============================================================================
