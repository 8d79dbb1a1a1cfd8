---------------------------- MODULE LiveExecution ----------------------------
(***************************************************************************)
(* Live order execution: kernel workers (HTTP handlers and the attempt     *)
(* reconciler, in one or several kernel processes) drive the transactions  *)
(* of ExecutionStore and call the broker between them.  A worker may stop  *)
(* at any point: between two transactions, after the send marker and       *)
(* before the call, or with a result it never stored.  Requests to the     *)
(* broker may be delayed past the caller's timeout, or lost.               *)
(*                                                                         *)
(* The broker (Robinhood behind MCP) is external: it is modelled from the  *)
(* answers that the adapter in kernel/internal/broker accepts.             *)
(***************************************************************************)
EXTENDS ExecutionStore

CONSTANTS
    Workers,
    Target,          \* the placement a cancel attempt is aimed at
    Alike,           \* pairs of placements with the same provider-visible intent
    ReplayVerified   \* equity orders, where dedupe and the window bound are verified

Cancels == {a \in Attempts : Kind[a] = "cancel"}
Places == {a \in Attempts : IsPlace(a)}

ASSUME WorkersAssumption == Workers # {}
ASSUME TargetAssumption == Target \in [Cancels -> Places]
ASSUME AlikeAssumption == Alike \subseteq Places \X Places
ASSUME ReplayVerifiedAssumption == ReplayVerified \subseteq Attempts

VARIABLES
    worker,      \* what each worker is doing and what it remembers
    request,     \* each provider call of an attempt: its first send and its replay
    created,     \* orders the broker made for the attempt's client reference
    brokerOrder, \* state and fills of that order at the broker
    inWindow,    \* the order was created inside the attempt's send window
    windowOpen,  \* the send window has not ended
    near,        \* other orders that match the attempt's intent and window
    cutSends     \* history: how many sends each attempt had at the last halt cut

brokerVars == <<request, created, brokerOrder, inWindow, windowOpen, near>>
vars == <<storeVars, worker, brokerVars, cutSends>>

Pcs == {"idle", "recover", "pre_effect", "mark", "call", "wait",
        "query", "adopt", "target", "resolve", "apply"}
Ordinals == {0, 1}
Working == {"submitted", "partially_filled"}

NoPlan == Uncertain(NoAttempt)
Idle == [pc |-> "idle", att |-> NoAttempt, tok |-> 0, replay |-> FALSE, plan |-> NoPlan]

Init ==
    /\ StoreInit
    /\ worker = [w \in Workers |-> Idle]
    /\ request = [a \in Attempts |-> [n \in Ordinals |-> "none"]]
    /\ created = [a \in Attempts |-> 0]
    /\ brokerOrder = [a \in Attempts |-> [state |-> "none", filled |-> 0]]
    /\ inWindow = [a \in Attempts |-> FALSE]
    /\ windowOpen = [a \in Attempts |-> FALSE]
    /\ near = [a \in Attempts |-> {}]
    /\ cutSends = [a \in Attempts |-> 0]

\* first send and replay markers so far
Sends(a) == (IF sent[a] THEN 1 ELSE 0) + replays[a]

\* the broker order of p as GetOrder returns it
Read(p) == [bid |-> p, state |-> brokerOrder[p].state, filled |-> brokerOrder[p].filled]

\* FindExactPlaceCandidates: by intent and creation time, not by client reference
Candidates(a) == near[a] \cup (IF inWindow[a] THEN {a} ELSE {})

\* the worker turns to its next step, or will store a resolution in the next one
Goto(w, pc) == worker' = [worker EXCEPT ![w].pc = pc]
Plan(w, r) == worker' = [worker EXCEPT ![w].pc = "resolve", ![w].plan = r]
Done(w) == worker' = [worker EXCEPT ![w] = Idle]

-----------------------------------------------------------------------------
(* Admission and the halt switch                                           *)

Propose(a) ==
    /\ Kind[a] = "cancel" => boundOrder[Target[a]] = Target[a]
    /\ StageAttempt(a)
    /\ UNCHANGED <<worker, brokerVars, cutSends>>

\* the pending re-gate of the reconciler refuses: expired, no longer covered, ...
FailPending(a) ==
    /\ FailPendingAttempt(a)
    /\ UNCHANGED <<worker, brokerVars, cutSends>>

LeaseExpiry(a) ==
    /\ LeaseExpires(a)
    /\ UNCHANGED <<worker, brokerVars, cutSends>>

\* the history variable records the cut of a Halt that takes effect now
RecordCut ==
    cutSends' = IF halted = "no" /\ halted' # "no" THEN [a \in Attempts |-> Sends(a)] ELSE cutSends

Halt ==
    /\ halted = "no"
    /\ ActivateGlobalHalt
    /\ RecordCut
    /\ UNCHANGED <<worker, brokerVars>>

Resume ==
    /\ ResumeGlobalHalt
    /\ UNCHANGED <<worker, brokerVars, cutSends>>

-----------------------------------------------------------------------------
(* Claims                                                                  *)

Claimed(w, a, pc) ==
    worker' = [worker EXCEPT ![w] =
                 [pc |-> pc, att |-> a, tok |-> token'[a], replay |-> FALSE, plan |-> NoPlan]]

\* executePendingAttempt
ClaimPending(w, a) ==
    /\ worker[w].pc = "idle"
    /\ ClaimAttempt(a, "pending", 0)
    /\ Claimed(w, a, "pre_effect")
    /\ UNCHANGED <<brokerVars, cutSends>>

\* Mutant of ClaimUncertain: recovery does not look at sent_at.
ClaimForgetsSend(w, a) ==
    /\ worker[w].pc = "idle"
    /\ state[a] \in {"claimed", "unknown"}
    /\ ClaimAttempt(a, state[a], token[a])
    /\ Claimed(w, a, IF IsPlace(a) THEN "recover" ELSE "pre_effect")
    /\ UNCHANGED <<brokerVars, cutSends>>

\* reconcileUncertainAttempt: what was never sent runs again, what was sent is
\* looked up.
ClaimUncertain(w, a) ==
    /\ worker[w].pc = "idle"
    /\ state[a] \in {"claimed", "unknown"}
    /\ ClaimAttempt(a, state[a], token[a])
    /\ Claimed(w, a, CASE sent[a] /\ IsPlace(a) -> "query"
                       [] sent[a] /\ ~IsPlace(a) -> "target"
                       [] ~sent[a] /\ IsPlace(a) -> "recover"
                       [] OTHER -> "pre_effect")
    /\ UNCHANGED <<brokerVars, cutSends>>

\* adoptExecutionCandidate: an operator approves the recorded candidate
ClaimCandidate(w, a) ==
    /\ worker[w].pc = "idle"
    /\ state[a] = "unknown" /\ IsPlace(a) /\ candidate[a] # NoAttempt
    /\ ClaimAttempt(a, "unknown", token[a])
    /\ Claimed(w, a, "adopt")
    /\ UNCHANGED <<brokerVars, cutSends>>

-----------------------------------------------------------------------------
(* Up to the send marker                                                   *)

\* recoveredUnsentPlaceRefusal: an expired or tightened open is not revived
RecoverUnsent(w) ==
    LET a == worker[w].att
    IN  /\ worker[w].pc = "recover"
        /\ \/ Kind[a] = "open" /\ Plan(w, RejectedRefusal)
           \/ Goto(w, "pre_effect")
        /\ UNCHANGED <<storeVars, brokerVars, cutSends>>

\* Mutant of Refused: a refused replay fails the attempt like a refused send.
RefusedLikeFirstSend(w) == Refusal

\* a refusal before the provider call; a replay may have had an effect already
Refused(w) == IF worker[w].replay THEN Uncertain(NoAttempt) ELSE Refusal

\* captureLivePreEffect: the barrier may refuse on any fact it refreshes.  It
\* never lets a replay pass while the order of its own reference is working, nor
\* a cancel whose target is not.
PreEffect(w) ==
    LET a == worker[w].att
    IN  /\ worker[w].pc = "pre_effect"
        /\ \/ Plan(w, Refused(w))
           \/ /\ worker[w].replay => brokerOrder[a].state \notin Working
              /\ a \in Cancels => brokerOrder[Target[a]].state \in Working
              /\ Goto(w, "mark")
        /\ UNCHANGED <<storeVars, brokerVars, cutSends>>

\* MarkAttemptSentWithManifest commits the first send
MarkSent(w) ==
    LET a == worker[w].att
    IN  /\ worker[w].pc = "mark" /\ ~worker[w].replay
        /\ MarkAttemptSent(a, worker[w].tok)
        /\ Goto(w, "call")
        /\ windowOpen' = [windowOpen EXCEPT ![a] = TRUE]
        \* orders of the same intent that were made within 30 seconds before
        /\ \E seen \in SUBSET {b \in Places : <<a, b>> \in Alike /\ created[b] > 0} :
              near' = [near EXCEPT ![a] = seen]
        /\ UNCHANGED <<request, created, brokerOrder, inWindow, cutSends>>

\* MarkAttemptSentWithManifest commits the replay, well before the window ends
MarkReplayed(w) ==
    LET a == worker[w].att
    IN  /\ worker[w].pc = "mark" /\ worker[w].replay
        /\ windowOpen[a]
        /\ MarkAttemptReplayed(a, worker[w].tok)
        /\ Goto(w, "call")
        /\ UNCHANGED <<brokerVars, cutSends>>

\* The marker does not commit: Halt, a stale manifest, an ended replay window or
\* a lost fence.  A first send that lost its fence just stops.
MarkRefused(w) ==
    LET a == worker[w].att
        tok == worker[w].tok
        replay == worker[w].replay
        fenced == SendFenceHeld(a, tok, replay)
    IN  /\ worker[w].pc = "mark"
        /\ \/ fenced /\ SendHalted(a, replay)
              /\ Plan(w, IF replay THEN Uncertain(NoAttempt) ELSE RejectedRefusal)
           \/ fenced /\ ~SendHalted(a, replay) /\ Plan(w, Refused(w))
           \/ ~fenced /\ replay /\ Plan(w, Uncertain(NoAttempt))
           \/ (~fenced \/ sent[a]) /\ ~replay /\ Done(w)
        /\ UNCHANGED <<storeVars, brokerVars, cutSends>>

-----------------------------------------------------------------------------
(* The provider call                                                       *)

Ordinal(w) == IF worker[w].replay THEN 1 ELSE 0

\* PlaceOrder or CancelOrder: the request leaves, or provably never does.  A
\* cancel first reads its target and sends nothing when that is terminal.
CallProvider(w) ==
    LET a == worker[w].att
    IN  /\ worker[w].pc = "call"
        /\ \/ Plan(w, Refused(w)) /\ UNCHANGED request
           \/ /\ a \in Cancels => brokerOrder[Target[a]].state \in Working
              /\ request' = [request EXCEPT ![a][Ordinal(w)] = "flying"]
              /\ Goto(w, "wait")
           \/ /\ a \in Cancels /\ brokerOrder[Target[a]].state \notin Working
              /\ Plan(w, ResolutionForOrder(a, Read(Target[a])))
              /\ UNCHANGED request
        /\ UNCHANGED <<storeVars, created, brokerOrder, inWindow, windowOpen, near, cutSends>>

\* The answer: the order as it now stands, a definite refusal, or none in time.
ProviderAnswer(w) ==
    LET a == worker[w].att
        answer == request[a][Ordinal(w)]
        subject == IF a \in Cancels THEN Target[a] ELSE a
    IN  /\ worker[w].pc = "wait"
        /\ \/ answer = "done" /\ Plan(w, ResolutionForOrder(a, Read(subject)))
           \/ answer = "refused" /\ Plan(w, Refused(w))
           \/ Plan(w, Uncertain(NoAttempt))
        /\ UNCHANGED <<storeVars, brokerVars, cutSends>>

-----------------------------------------------------------------------------
(* Recovery of sent attempts                                               *)

\* Mutant of QueryCandidates: replay without proof that the broker deduplicates.
ReplayUnverified(w) ==
    LET a == worker[w].att
        found == Candidates(a)
    IN  /\ worker[w].pc = "query"
        /\ \/ Plan(w, Uncertain(NoAttempt))
           \/ \E c \in found : found = {c} /\ Plan(w, Uncertain(c))
           \/ /\ found = {} /\ replays[a] = 0
              /\ worker' = [worker EXCEPT ![w].pc = "pre_effect", ![w].replay = TRUE]
        /\ UNCHANGED <<storeVars, brokerVars, cutSends>>

\* reconcileLivePlaceAttempt: one candidate waits for a human, none may be
\* replayed once, several stay latched; so does a failed query.
QueryCandidates(w) ==
    LET a == worker[w].att
        found == Candidates(a)
        replayable == found = {} /\ replays[a] = 0 /\ a \in ReplayVerified
    IN  /\ worker[w].pc = "query"
        /\ \/ Plan(w, Uncertain(NoAttempt))
           \/ \E c \in found : found = {c} /\ Plan(w, Uncertain(c))
           \/ replayable /\ worker' = [worker EXCEPT ![w].pc = "pre_effect", ![w].replay = TRUE]
        /\ UNCHANGED <<storeVars, brokerVars, cutSends>>

\* adoptExecutionCandidate after its claim: exactly the approved candidate must
\* still match, and its canonical order is what the attempt resolves to.
AdoptCandidate(w) ==
    LET a == worker[w].att
        c == candidate[a]
    IN  /\ worker[w].pc = "adopt"
        /\ \/ Plan(w, Uncertain(NoAttempt))
           \/ /\ Candidates(a) = {c}
              /\ Plan(w, [ResolutionForOrder(a, Read(c)) EXCEPT !.candidate = c])
        /\ UNCHANGED <<storeVars, brokerVars, cutSends>>

\* an uncertain cancel is never sent again: its target is read instead
QueryTarget(w) ==
    LET a == worker[w].att
    IN  /\ worker[w].pc = "target"
        /\ \/ Plan(w, Uncertain(NoAttempt))
           \/ Plan(w, ResolutionForOrder(a, Read(Target[a])))
        /\ UNCHANGED <<storeVars, brokerVars, cutSends>>

\* Mutant of StoreResolution: the attempt row commits before its order and gate.
ResolutionTorn(w) ==
    LET a == worker[w].att
    IN  /\ worker[w].pc = "resolve"
        /\ ResolveFenceHeld(a, worker[w].tok, worker[w].plan)
        /\ state' = [state EXCEPT ![a] = worker[w].plan.state]
        /\ Done(w)
        /\ UNCHANGED <<token, leased, sent, replays, candidate, gateVars, halted, bookVars,
                       brokerVars, cutSends>>

\* ResolveAttempt commits, halts on a contradiction, or loses its fence
StoreResolution(w) ==
    LET a == worker[w].att
        tok == worker[w].tok
        r == worker[w].plan
        refused == /\ r.update # NoUpdate
                   /\ ~UpdateAccepted(a, r.update) /\ ~UpdateContradicts(a, r.update)
    IN  /\ worker[w].pc = "resolve"
        /\ \/ ResolveAttempt(a, tok, r)
           \/ ResolveIntegrityFailure(a, tok, r)
           \/ (~ResolveFenceHeld(a, tok, r) \/ refused) /\ UNCHANGED storeVars
        /\ Done(w)
        /\ RecordCut
        /\ UNCHANGED brokerVars

-----------------------------------------------------------------------------
(* reconcileWorkingOrders                                                  *)

\* GetOrder of a working order; an integrity halt stops this reconciler
ObserveOrder(w, a) ==
    /\ worker[w].pc = "idle"
    /\ halted # "integrity"
    /\ order[a] \in Working /\ boundOrder[a] # NoAttempt
    /\ worker' = [worker EXCEPT ![w] =
                    [Idle EXCEPT !.pc = "apply", !.att = a,
                                 !.plan = ResolutionForOrder(a, Read(boundOrder[a]))]]
    /\ UNCHANGED <<storeVars, brokerVars, cutSends>>

\* ApplyOrderUpdate with what was read, however old it is by now
ApplyObservation(w) ==
    LET a == worker[w].att
        u == worker[w].plan.update
    IN  /\ worker[w].pc = "apply"
        /\ \/ ApplyOrderUpdate(a, u)
           \/ ApplyIntegrityFailure(a, u)
           \/ ~UpdateAccepted(a, u) /\ ~UpdateContradicts(a, u) /\ UNCHANGED storeVars
        /\ Done(w)
        /\ RecordCut
        /\ UNCHANGED brokerVars

\* the process dies, or the step outlives its context and is never resumed
Crash(w) ==
    /\ worker[w].pc # "idle"
    /\ Done(w)
    /\ UNCHANGED <<storeVars, brokerVars, cutSends>>

WorkerStep(w) ==
    \/ RecoverUnsent(w) \/ PreEffect(w)
    \/ MarkSent(w) \/ MarkReplayed(w) \/ MarkRefused(w)
    \/ CallProvider(w) \/ ProviderAnswer(w)
    \/ QueryCandidates(w) \/ AdoptCandidate(w) \/ QueryTarget(w)
    \/ StoreResolution(w) \/ ApplyObservation(w)

-----------------------------------------------------------------------------
(* The broker (external)                                                   *)

\* A placement request arrives.  A reference the broker knows makes no second
\* order where dedupe is verified.
DeliverPlace(a, n) ==
    /\ a \in Places /\ request[a][n] = "flying"
    /\ \/ /\ created[a] > 0 /\ a \in ReplayVerified
          /\ request' = [request EXCEPT ![a][n] = "done"]
          /\ UNCHANGED <<created, brokerOrder, inWindow>>
       \/ /\ created[a] = 0
          /\ request' = [request EXCEPT ![a][n] = "refused"]
          /\ UNCHANGED <<created, brokerOrder, inWindow>>
       \/ /\ created[a] = 0 \/ a \notin ReplayVerified
          /\ request' = [request EXCEPT ![a][n] = "done"]
          /\ created' = [created EXCEPT ![a] = @ + 1]
          /\ \E st \in {"submitted", "rejected"} :
               brokerOrder' = [brokerOrder EXCEPT ![a] = [state |-> st, filled |-> 0]]
          /\ inWindow' = [inWindow EXCEPT ![a] = windowOpen[a]]
    /\ UNCHANGED <<windowOpen, near>>

\* A cancel request arrives: it works, is refused, or is accepted and too late.
DeliverCancel(a) ==
    /\ a \in Cancels /\ request[a][0] = "flying"
    /\ LET t == Target[a]
       IN  \/ /\ brokerOrder[t].state \in Working
              /\ brokerOrder' = [brokerOrder EXCEPT ![t].state = "cancelled"]
              /\ request' = [request EXCEPT ![a][0] = "done"]
           \/ /\ \E answer \in {"done", "refused"} : request' = [request EXCEPT ![a][0] = answer]
              /\ UNCHANGED brokerOrder
    /\ UNCHANGED <<created, inWindow, windowOpen, near>>

\* The market fills a unit of a working order.
BrokerFill(a) ==
    /\ brokerOrder[a].state \in Working
    /\ LET f == brokerOrder[a].filled + 1
       IN  brokerOrder' = [brokerOrder EXCEPT ![a] =
             [state |-> IF f = Qty THEN "filled" ELSE "partially_filled", filled |-> f]]
    /\ UNCHANGED <<request, created, inWindow, windowOpen, near>>

\* The broker ends a working order, or an operator of the account does.
BrokerEnds(a) ==
    /\ brokerOrder[a].state \in Working
    /\ brokerOrder' = [brokerOrder EXCEPT ![a].state = "expired"]
    /\ UNCHANGED <<request, created, inWindow, windowOpen, near>>

\* the clock passes send_window_end
WindowEnds(a) ==
    /\ windowOpen[a]
    /\ windowOpen' = [windowOpen EXCEPT ![a] = FALSE]
    /\ UNCHANGED <<request, created, brokerOrder, inWindow, near>>

BrokerStep ==
    /\ \E a \in Attempts :
         \/ \E n \in Ordinals : DeliverPlace(a, n)
         \/ DeliverCancel(a)
         \/ BrokerFill(a)
         \/ BrokerEnds(a)
         \/ WindowEnds(a)
    /\ UNCHANGED <<storeVars, worker, cutSends>>

-----------------------------------------------------------------------------
\* everything but a worker that stops
Running ==
    \/ Halt
    \/ Resume
    \/ \E a \in Attempts : Propose(a) \/ FailPending(a) \/ LeaseExpiry(a)
    \/ \E w \in Workers, a \in Attempts :
         ClaimPending(w, a) \/ ClaimUncertain(w, a) \/ ClaimCandidate(w, a) \/ ObserveOrder(w, a)
    \/ \E w \in Workers : WorkerStep(w)
    \/ BrokerStep

Next == Running \/ \E w \in Workers : Crash(w)

Spec == Init /\ [][Next]_vars

\* startAttemptReconciler scans every recoverable attempt and every working order
\* on each tick, calls run under timeouts and leases end by the clock; kernels
\* are restarted, and in the end stay up.
LiveSpec ==
    /\ Spec
    /\ <>[][Running]_vars
    /\ \A w \in Workers : WF_vars(WorkerStep(w))
    /\ \A a \in Attempts :
         /\ WF_vars(LeaseExpiry(a))
         /\ SF_vars(\E w \in Workers : ClaimUncertain(w, a))
         /\ SF_vars(\E w \in Workers : ObserveOrder(w, a))

-----------------------------------------------------------------------------
(* Properties                                                              *)

Resolved == [state : AttemptStates, update : OrderUpdate, release : BOOLEAN,
             candidate : Attempts \cup {NoAttempt}, status : Statuses]

\* Workers, requests and the broker's orders stay in their types; the store's
\* own variables are in theirs.
LiveTypeOK ==
    /\ StoreTypeOK
    /\ worker \in [Workers -> [pc : Pcs, att : Attempts \cup {NoAttempt}, tok : 0..MaxToken,
                               replay : BOOLEAN, plan : Resolved]]
    /\ request \in [Attempts -> [Ordinals -> {"none", "flying", "done", "refused"}]]
    /\ created \in [Attempts -> Nat]
    /\ brokerOrder \in [Attempts -> [state : OrderStates, filled : 0..Qty]]
    /\ inWindow \in [Attempts -> BOOLEAN]
    /\ windowOpen \in [Attempts -> BOOLEAN]
    /\ near \in [Attempts -> SUBSET Attempts]
    /\ cutSends \in [Attempts -> 0..2]

\* One attempt never becomes two orders at the broker, whatever crashes, lost
\* leases, late requests and replays lie between its claims
\* (MarkAttemptSentWithManifest, reconcileLivePlaceAttempt).
AtMostOneOrder == \A a \in Attempts : created[a] <= 1

\* a placement that has no order yet and may still get one
Outstanding(a) ==
    /\ IsPlace(a) /\ created[a] = 0
    /\ \/ \E n \in Ordinals : request[a][n] = "flying"
       \/ \E w \in Workers : worker[w].att = a /\ worker[w].pc = "call"

\* A working order at the broker, or one that may still appear there, is backed
\* by its held reservation, and either its row is bound to it or its attempt
\* still owns the gate: no resolution (ResolveAttempt) lets go of either early.
EffectsBacked ==
    \A a \in Places :
        Outstanding(a) \/ brokerOrder[a].state \in Working =>
            /\ reserved[a] = "held"
            /\ a \in {active, unknown} \/ boundOrder[a] = a

Issued(a) == Cardinality({n \in Ordinals : request[a][n] # "none"})

\* A request leaves only behind a committed send marker of its own, and after a
\* Halt no opening request leaves that was not marked before the Halt
\* (markAttemptSent and ActivateGlobalHalt take the same lock).
HaltCut ==
    \A a \in Attempts :
        /\ Issued(a) <= Sends(a)
        /\ halted # "no" /\ Kind[a] = "open" => Issued(a) <= cutSends[a]

\* No row is ever bound to the order of another attempt, although candidates are
\* found by intent and time and another order may look the same
\* (FindExactPlaceCandidates, orders.broker_order_id UNIQUE).
NoMisattribution == \A a \in Attempts : boundOrder[a] \in {NoAttempt, a}

\* An attempt has one order at the broker at most, and no other is taken for it,
\* while every variable stays in its type.
OrderIsItsOwn == LiveTypeOK /\ AtMostOneOrder /\ NoMisattribution

\* The books never run ahead of the broker, and once a bound order is terminal
\* in the books it is the broker's final word, however stale the reads were that
\* raced to be applied (reconcileWorkingOrders, ResolveAttempt).
BooksMatchBroker ==
    \A a \in Places :
        /\ filled[a] <= brokerOrder[a].filled
        /\ boundOrder[a] = a /\ order[a] \in TerminalUnfilled \cup {"filled"} =>
              order[a] = brokerOrder[a].state /\ filled[a] = brokerOrder[a].filled

\* A cancel that is settled as done has really ended its target: neither the
\* broker's acceptance nor a timeout is taken for it (confirmCancelState,
\* resolutionForOrder).
CancelSettled ==
    \A c \in Cancels : state[c] = "settled" => brokerOrder[Target[c]].state \notin Working

\* Trading resumes only once no earlier placement can still surprise the account
\* (ResumeGlobalHalt checks the gate and nothing else).
ResumeSettled ==
    [][halted # "no" /\ halted' = "no" => \A a \in Attempts : ~Outstanding(a)]_vars

\* An abandoned claim is always taken up again: the gate, the lease and the
\* entitlement of a claimed attempt never lock the reconciler out
\* (reconcileUncertainAttempt).
ClaimRecovered ==
    \A a \in Attempts :
        state[a] = "claimed" ~> (state[a] # "claimed" \/ token[a] = MaxToken)

\* A working order that has ended at the broker ends in the books too, unless an
\* integrity halt stops the reconciler first (reconcileWorkingOrders).
BooksConverge ==
    \A a \in Places :
        (order[a] \in Working /\ brokerOrder[a].state \notin Working)
            ~> (order[a] \notin Working \/ halted = "integrity")
=============================================================================
