---------------------------- MODULE PaperEffects ----------------------------
(***************************************************************************)
(* Paper candidates of the agent platform and the Kernel's paper account:  *)
(* a Decision Desk proposes one effect-free Candidate; a human review      *)
(* (copilot) or the Kernel's mode (agentic) lets Control authorize it once *)
(* and ask the Kernel to settle it; the Kernel re-checks its own mode and  *)
(* settles idempotently on the effect id; Control records one receipt.     *)
(*   cmd/cortex-input/paper_effect_executor.go   executor, recovery loop   *)
(*   inputgateway/paper_*.go, migrations 0115/0119/0120   Control's records*)
(*   kernel/cmd/kernel/cortex_paper_effect.go    the Kernel's handler      *)
(*   kernel/internal/store/agent_paper.go, agent_autonomy.go   its store   *)
(* Every order is for one share; the effect id of a candidate is the       *)
(* candidate itself, since a candidate has at most one authorization.      *)
(***************************************************************************)
EXTENDS Naturals, Sequences, FiniteSets

CONSTANTS PaperCandidates,   \* candidates the model may propose
          PaperHandlers,     \* concurrent HTTP handlers of Control
          StartingCash, Ask, Bid,
          ListLimit,         \* candidates the recovery pass asks Control for (100)
          ModeBound,         \* bound on the autonomy generation
          PaperFaults        \* bound on time-outs, crashes and lost answers

ASSUME PaperConstants ==
  /\ {StartingCash, ListLimit, ModeBound, PaperFaults} \subseteq Nat
  /\ Bid \in Nat /\ Ask \in Nat /\ 0 < Bid /\ Bid < Ask
  /\ "nobody" \notin PaperHandlers

Recovery == "recovery"
Executors == PaperHandlers \union {Recovery}
Kinds == {"copilot", "agentic"}
AutonomyModes == Kinds \union {"observe"}
Nobody == "nobody"

VARIABLES
  autonomy,      \* the Kernel's agent_autonomy_profile of "paper"
  proposed,      \* Control: the candidates admitted so far, by proposed_at
  candidate,     \* Control: the candidate, its source run and its review head
  authorization, \* Control: immutable authorization of a candidate, at most one
  effectReceipt, \* Control: immutable receipt, "none" until recorded
  executor,      \* an executePaperCandidate call in progress
  sweep,         \* what the recovery pass in progress still has to try
  kernelCalls,   \* paper-order requests inside the Kernel
  paperAccount,  \* agent_paper_account and agent_paper_position
  fills,         \* agent_paper_order rows per effect id
  paperFaults

paperVars == <<autonomy, proposed, candidate, authorization, effectReceipt, executor,
               sweep, kernelCalls, paperAccount, fills, paperFaults>>

Resting == [pc |-> "idle", c |-> "none", kind |-> "none", generation |-> 0, answer |-> 0]
NoAuthorization == [kind |-> "none", generation |-> 0]

\* As the migrations seed it: nobody has chosen a mode yet.
PaperInit ==
  /\ autonomy = [mode |-> "observe", generation |-> 1]
  /\ proposed = <<>>
  /\ candidate =
       [c \in PaperCandidates |-> [run |-> "running", review |-> "absent", side |-> "none"]]
  /\ authorization = [c \in PaperCandidates |-> NoAuthorization]
  /\ effectReceipt = [c \in PaperCandidates |-> "none"]
  /\ executor = [e \in Executors |-> Resting]
  /\ sweep = {}
  /\ kernelCalls = {}
  /\ paperAccount = [cash |-> StartingCash, qty |-> 0]
  /\ fills = [c \in PaperCandidates |-> 0]
  /\ paperFaults = 0

---------------------------------------------------------------------------
(* Where a candidate comes from *)

\* The Desk's worker records its proposal while its attempt is executing; an
\* identical repetition returns the first row.
AdmitPaperCandidate(c, side) ==
  /\ candidate[c].run = "running" /\ candidate[c].review = "absent"
  /\ proposed' = Append(proposed, c)
  /\ candidate' = [candidate EXCEPT ![c].review = "proposed", ![c].side = side]
  /\ UNCHANGED <<autonomy, authorization, effectReceipt, executor, sweep,
                 kernelCalls, paperAccount, fills, paperFaults>>

Calling(c, kind) == [Resting EXCEPT !.pc = "mode", !.c = c, !.kind = kind]

\* The source run commits; the worker then asks Control to execute the
\* candidate in agentic mode, unless it dies first.
RunSucceeds(c) ==
  /\ candidate[c].run = "running" /\ candidate[c].review # "absent"
  /\ candidate' = [candidate EXCEPT ![c].run = "succeeded"]
  /\ \/ \E h \in PaperHandlers :
          /\ executor[h] = Resting
          /\ executor' = [executor EXCEPT ![h] = Calling(c, "agentic")]
          /\ UNCHANGED paperFaults
     \/ /\ paperFaults < PaperFaults
        /\ paperFaults' = paperFaults + 1
        /\ UNCHANGED executor
  /\ UNCHANGED <<autonomy, proposed, authorization, effectReceipt, sweep, kernelCalls,
                 paperAccount, fills>>

\* It fails, is canceled or runs out of time after it proposed.
RunFails(c) ==
  /\ candidate[c].run = "running" /\ candidate[c].review # "absent"
  /\ candidate' = [candidate EXCEPT ![c].run = "failed"]
  /\ UNCHANGED <<autonomy, proposed, authorization, effectReceipt, executor, sweep,
                 kernelCalls, paperAccount, fills, paperFaults>>

\* POST /v1/paper-candidates/{id}/review: one decision per candidate, and an
\* approval goes straight on to execution in the same handler.
ReviewPaperCandidate(h, c, decision) ==
  /\ executor[h] = Resting
  /\ candidate[c].review \in {"proposed", decision}
  /\ candidate[c].run = "succeeded" \/ candidate[c].review = decision
  /\ candidate' = [candidate EXCEPT ![c].review = decision]
  /\ executor' = IF decision = "approved"
                 THEN [executor EXCEPT ![h] = Calling(c, "copilot")]
                 ELSE executor
  /\ UNCHANGED <<autonomy, proposed, authorization, effectReceipt, sweep, kernelCalls,
                 paperAccount, fills, paperFaults>>

\* The operator changes the Kernel's paper mode; a stale expected generation
\* is refused, and repeating the current mode changes nothing.
SetAgentAutonomy(mode) ==
  /\ mode # autonomy.mode
  /\ autonomy.generation < ModeBound
  /\ autonomy' = [mode |-> mode, generation |-> autonomy.generation + 1]
  /\ UNCHANGED <<proposed, candidate, authorization, effectReceipt, executor, sweep,
                 kernelCalls, paperAccount, fills, paperFaults>>

---------------------------------------------------------------------------
(* executePaperCandidate: mode, authorization, Kernel, receipt *)

Step(e, next) == executor' = [executor EXCEPT ![e] = next]

ReadKernelPaperMode(e) ==
  /\ executor[e].pc = "mode"
  /\ Step(e, IF autonomy.mode = executor[e].kind
             THEN [executor[e] EXCEPT !.pc = "authorize", !.generation = autonomy.generation]
             ELSE Resting)
  /\ UNCHANGED <<autonomy, proposed, candidate, authorization, effectReceipt, sweep,
                 kernelCalls, paperAccount, fills, paperFaults>>

\* Mutant: the agentic path does not look at the review head.
AuthorizableUnreviewed(c, kind) ==
  /\ candidate[c].run = "succeeded"
  /\ kind = "copilot" => candidate[c].review = "approved"

\* The guard of a first authorization: the source run has succeeded and the
\* review head is where the kind of authorization needs it.
Authorizable(c, kind) ==
  /\ candidate[c].run = "succeeded"
  /\ candidate[c].review = IF kind = "copilot" THEN "approved" ELSE "proposed"

\* authorize_cortex_paper_effect: an existing authorization of the same kind
\* is returned as it was written, with the generation it was written for.
AuthorizePaperEffect(e) ==
  LET c == executor[e].c
      fresh == [kind |-> executor[e].kind, generation |-> executor[e].generation]
      granted == IF authorization[c] = NoAuthorization THEN fresh ELSE authorization[c]
      refused == \/ granted.kind # executor[e].kind
                 \/ authorization[c] = NoAuthorization /\ ~Authorizable(c, executor[e].kind)
  IN /\ executor[e].pc = "authorize"
     /\ authorization' = IF refused THEN authorization
                                    ELSE [authorization EXCEPT ![c] = granted]
     /\ Step(e, IF refused THEN Resting
                ELSE [executor[e] EXCEPT !.pc = "post", !.generation = granted.generation])
     /\ UNCHANGED <<autonomy, proposed, candidate, effectReceipt, sweep, kernelCalls,
                    paperAccount, fills, paperFaults>>

PostPaperOrder(e) ==
  /\ executor[e].pc = "post"
  /\ kernelCalls' = kernelCalls \union
       {[c |-> executor[e].c, kind |-> executor[e].kind, step |-> "received",
         generation |-> executor[e].generation, caller |-> e]}
  /\ Step(e, [executor[e] EXCEPT !.pc = "wait"])
  /\ UNCHANGED <<autonomy, proposed, candidate, authorization, effectReceipt, sweep,
                 paperAccount, fills, paperFaults>>

\* A time-out, a lost connection or the death of Control: the call ends
\* without a receipt, and a request the Kernel has goes on unheard.  A recovery
\* pass that is cut after its 20 s ends this way with what it still had to try.
ExecutionLost(e) ==
  /\ executor[e].pc # "idle"
  /\ paperFaults < PaperFaults
  /\ paperFaults' = paperFaults + 1
  /\ Step(e, Resting)
  /\ kernelCalls' = {IF k.caller = e THEN [k EXCEPT !.caller = Nobody] ELSE k : k \in kernelCalls}
  /\ sweep' = IF e = Recovery THEN {} ELSE sweep
  /\ UNCHANGED <<autonomy, proposed, candidate, authorization, effectReceipt, paperAccount, fills>>

\* kernelPaperFailureCode: every status is final; only 200 is a success.
Outcome(status) == IF status = 200 THEN "succeeded" ELSE "failed"

\* record_cortex_paper_effect_receipt: the first receipt stands; a different
\* one is an identity conflict.
RecordPaperEffectReceipt(e) ==
  LET c == executor[e].c
  IN /\ executor[e].pc = "record"
     /\ effectReceipt' = IF effectReceipt[c] # "none" THEN effectReceipt
                         ELSE [effectReceipt EXCEPT ![c] = Outcome(executor[e].answer)]
     /\ Step(e, Resting)
     /\ UNCHANGED <<autonomy, proposed, candidate, authorization, sweep, kernelCalls,
                    paperAccount, fills, paperFaults>>

---------------------------------------------------------------------------
(* The Kernel: postCortexPaperOrder and the paper account *)

Answers(k, status) ==
  /\ kernelCalls' = kernelCalls \ {k}
  /\ executor' = IF k.caller = Nobody THEN executor
                 ELSE [executor EXCEPT ![k.caller].pc = "record", ![k.caller].answer = status]

\* The mode is compared with the authorization before the quote is fetched.
KernelChecksMode(k) ==
  /\ k.step = "received"
  /\ IF autonomy.mode = k.kind /\ autonomy.generation = k.generation
     THEN /\ kernelCalls' = (kernelCalls \ {k}) \union {[k EXCEPT !.step = "checked"]}
          /\ UNCHANGED executor
     ELSE Answers(k, 409)
  /\ UNCHANGED <<autonomy, proposed, candidate, authorization, effectReceipt, sweep,
                 paperAccount, fills, paperFaults>>

KernelHasNoQuote(k) ==
  /\ k.step = "checked"
  /\ Answers(k, 502)
  /\ UNCHANGED <<autonomy, proposed, candidate, authorization, effectReceipt, sweep,
                 paperAccount, fills, paperFaults>>

Covered(side) == IF side = "buy" THEN paperAccount.cash >= Ask ELSE paperAccount.qty >= 1

Filled(side) ==
  IF side = "buy" THEN [cash |-> paperAccount.cash - Ask, qty |-> paperAccount.qty + 1]
                  ELSE [cash |-> paperAccount.cash + Bid, qty |-> paperAccount.qty - 1]

\* Mutant: no look-up.
SettleUnseen(k) ==
  LET side == candidate[k.c].side
  IN /\ k.step = "checked"
     /\ IF Covered(side)
        THEN /\ fills' = [fills EXCEPT ![k.c] = @ + 1]
             /\ paperAccount' = Filled(side)
             /\ Answers(k, 200)
        ELSE Answers(k, 422) /\ UNCHANGED <<fills, paperAccount>>
     /\ UNCHANGED <<autonomy, proposed, candidate, authorization, effectReceipt, sweep, paperFaults>>

\* executeAgentPaperOrderTx looks the effect id up before it looks at the
\* cash or the position; the row it finds is the answer.
ExecuteAgentPaperOrder(k) ==
  LET side == candidate[k.c].side
  IN /\ k.step = "checked"
     /\ IF fills[k.c] = 0 /\ Covered(side)
        THEN /\ fills' = [fills EXCEPT ![k.c] = 1]
             /\ paperAccount' = Filled(side)
        ELSE UNCHANGED <<fills, paperAccount>>
     /\ Answers(k, IF fills[k.c] = 1 \/ Covered(side) THEN 200 ELSE 422)
     /\ UNCHANGED <<autonomy, proposed, candidate, authorization, effectReceipt, sweep, paperFaults>>

---------------------------------------------------------------------------
(* The recovery loop: every ten seconds, listed candidates without an outcome *)

\* list_cortex_paper_trade_candidates: the newest proposals up to the limit,
\* whatever became of them.  What is done with is left out only afterwards, so
\* it takes its place on the list.
Newest == {proposed[i] : i \in {i \in 1..Len(proposed) : Len(proposed) - i < ListLimit}}

\* Mutant: an authorized candidate is taken for done.
RecoverableOnlyUnauthorized ==
  {c \in PaperCandidates : /\ c \in Newest
                           /\ candidate[c].run = "succeeded"
                           /\ authorization[c] = NoAuthorization
                           /\ candidate[c].review = IF autonomy.mode = "agentic" THEN "proposed"
                                                    ELSE "approved"}

RecoverableCandidates ==
  {c \in PaperCandidates : /\ c \in Newest
                           /\ candidate[c].run = "succeeded"
                           /\ effectReceipt[c] = "none"
                           /\ candidate[c].review = IF autonomy.mode = "agentic" THEN "proposed"
                                                    ELSE "approved"}

\* The mode and the list are read once; a candidate is tried with that mode.
\* The code goes from the newest to the oldest, here any order will do.
RecoverPaperCandidateExecutions ==
  /\ sweep = {} /\ executor[Recovery] = Resting
  /\ autonomy.mode # "observe"
  /\ RecoverableCandidates # {}
  /\ sweep' = {[c |-> c, kind |-> autonomy.mode] : c \in RecoverableCandidates}
  /\ UNCHANGED <<autonomy, proposed, candidate, authorization, effectReceipt, executor,
                 kernelCalls, paperAccount, fills, paperFaults>>

RecoveryTries(t) ==
  /\ executor[Recovery] = Resting
  /\ sweep' = sweep \ {t}
  /\ Step(Recovery, Calling(t.c, t.kind))
  /\ UNCHANGED <<autonomy, proposed, candidate, authorization, effectReceipt, kernelCalls,
                 paperAccount, fills, paperFaults>>

---------------------------------------------------------------------------
ExecutePaperCandidate(e) ==
  \/ ReadKernelPaperMode(e)
  \/ AuthorizePaperEffect(e)
  \/ PostPaperOrder(e)
  \/ RecordPaperEffectReceipt(e)

PostCortexPaperOrder(k) ==
  \/ KernelChecksMode(k)
  \/ KernelHasNoQuote(k)
  \/ ExecuteAgentPaperOrder(k)

PaperRecovery ==
  \/ RecoverPaperCandidateExecutions
  \/ \E t \in sweep : RecoveryTries(t)

PaperNext ==
  \/ \E c \in PaperCandidates, side \in {"buy", "sell"} : AdmitPaperCandidate(c, side)
  \/ \E c \in PaperCandidates : RunSucceeds(c) \/ RunFails(c)
  \/ \E h \in PaperHandlers, c \in PaperCandidates, d \in {"approved", "rejected"} :
       ReviewPaperCandidate(h, c, d)
  \/ \E mode \in AutonomyModes : SetAgentAutonomy(mode)
  \/ \E e \in Executors : ExecutePaperCandidate(e) \/ ExecutionLost(e)
  \/ \E k \in kernelCalls : PostCortexPaperOrder(k)
  \/ PaperRecovery

PaperSpec == PaperInit /\ [][PaperNext]_paperVars

---------------------------------------------------------------------------
\* A candidate moves the paper account at most once however often its
\* execution is retried, and a receipt that says "succeeded" has a fill
\* behind it (executeAgentPaperOrderTx, effect id as idempotency key).
SettledAtMostOnce ==
  \A c \in PaperCandidates :
    /\ fills[c] <= 1
    /\ effectReceipt[c] = "succeeded" => fills[c] = 1

\* A human rejection that comes before any authorization stands: an execution
\* that is already past the mode check, a recovery sweep with an older list or
\* a request still inside the Kernel neither authorizes nor fills it.
RejectionStands ==
  [][\A c \in PaperCandidates :
       candidate[c].review = "rejected" /\ authorization[c] = NoAuthorization
       => authorization'[c] = NoAuthorization /\ fills'[c] = 0]_paperVars

\* An authorized candidate gets its receipt although Control lost the answer
\* or died, unless the Kernel's mode or the review moves on, or ListLimit
\* younger candidates push it off the recovery list: then nobody tries it
\* again (recoverPaperCandidateExecutions, 10 s tick).
AuthorizedIsReceipted ==
  \A c \in PaperCandidates :
    authorization[c] # NoAuthorization ~>
      \/ effectReceipt[c] # "none"
      \/ autonomy.generation # authorization[c].generation
      \/ authorization[c].kind = "agentic" /\ candidate[c].review # "proposed"
      \/ c \notin Newest

=============================================================================
