-------------------------- MODULE DecisionTriggers --------------------------
(***************************************************************************)
(* Market triggers of the agent platform.  An operator registers revisions *)
(* of a trigger; every second each Control process first finishes what an  *)
(* earlier pass left behind and then evaluates the trigger: it reads a     *)
(* value, the database decides whether the sample fires, a fired sample    *)
(* becomes one occurrence, the occurrence becomes one Run with a Session.  *)
(* A replay of recorded frames drives the same chain from an HTTP handler. *)
(*   cmd/cortex-input/decision_trigger_evaluator.go   the loop             *)
(*   cmd/cortex-input/moody_blues_stream.go           the replay handler   *)
(*   inputgateway/decision_trigger*.go, migrations 0107-0114, 0127-0139    *)
(* One trigger is modelled: the database serialises every evaluation on    *)
(* the trigger's head row and no step looks at two triggers.  The clock    *)
(* counts coarse ticks.  A sample's position in `samples' is its id.       *)
(* Occurrence and wake are also refused when a policy head, owner's or     *)
(* runtime's, is not the one the revision was registered under (0111:88,   *)
(* 0113:129).  Here it always is: a registration takes the heads (0107:353 *)
(* on), 0014 and 0107 write each head once and nothing in the repository   *)
(* moves one.  The output contract is missing at most while Control starts *)
(* for the first time: such a wake is one of an interrupted pass.          *)
(***************************************************************************)
EXTENDS Naturals, Sequences, FiniteSets

CONSTANTS
  Controls,        \* Control processes, each with its evaluation loop
  Replayers,       \* handlers of POST .../replays/{id}/next
  Values, Threshold,
  Comparators,     \* comparators the operator registers
  Cooldowns,       \* ticks between two firings, of a revision
  AdmitFor,        \* ticks an observation may be turned into a Run
  ListFor,         \* ticks the recovery lists look back
  FrameValue,      \* the recorded frames: frame number -> value; 0 stands for "live"
  RevisionBound, SampleBound, ClockBound, TriggerFaults

ASSUME TriggerConstants ==
  /\ Values \subseteq Nat /\ Threshold \in Nat
  /\ {AdmitFor, ListFor, RevisionBound, SampleBound, ClockBound, TriggerFaults} \subseteq Nat
  /\ Cooldowns \subseteq Nat
  /\ Comparators \subseteq {"gte", "lte", "crosses_above", "crosses_below"}
  /\ DOMAIN FrameValue \subseteq Nat \ {0} /\ \A f \in DOMAIN FrameValue : FrameValue[f] \in Nat

Ids == 1..SampleBound
Frames == DOMAIN FrameValue
NoPrompt == [revision |-> 0, text |-> "none"]
Absent == ClockBound + 1

VARIABLES
  revisions,   \* cortex_decision_trigger_revision; the last one is the head
  samples,     \* cortex_decision_trigger_sample
  occurrence,  \* tick the occurrence of a sample was created, or Absent
  prompt,      \* the wake prompt committed to the Blob store
  wake,        \* what the Run of an occurrence was admitted with
  runs,        \* Runs created for an occurrence
  sessions,    \* samples whose Run has its root Session
  job,         \* the step each process has reached
  triggerClock, triggerFaults

triggerVars == <<revisions, samples, occurrence, prompt, wake, runs, sessions,
                 job, triggerClock, triggerFaults>>

Current == revisions[Len(revisions)]
Revision == Len(revisions)
Live(r) == r.source # "moody_blues_replay"

Revisions == [comparator : Comparators, source : {"kernel_quote", "moody_blues_replay"},
              enabled : BOOLEAN, cooldown : Cooldowns]

Rest == [pc |-> "rest", path |-> "none", todo |-> {}, id |-> 0, revision |-> 0,
         value |-> 0, at |-> 0, frame |-> 0, text |-> "none"]

TriggersInit ==
  /\ revisions \in {<<r>> : r \in {r \in Revisions : r.enabled}}
  /\ samples = <<>>
  /\ occurrence = [i \in Ids |-> Absent]
  /\ prompt = [i \in Ids |-> NoPrompt]
  /\ wake = [i \in Ids |-> NoPrompt]
  /\ runs = [i \in Ids |-> 0]
  /\ sessions = {}
  /\ job = [p \in Controls \union Replayers |-> Rest]
  /\ triggerClock = 0
  /\ triggerFaults = 0

To(p, next) == job' = [job EXCEPT ![p] = next]

\* Where a process goes when the wake in hand is done or has failed: recovery
\* turns to its next item, evaluation of the single trigger is over.
After(p) == IF job[p].path = "recovery"
            THEN [Rest EXCEPT !.pc = "wakes", !.path = "recovery", !.todo = job[p].todo]
            ELSE Rest

---------------------------------------------------------------------------
(* The operator *)

\* Registers a revision; a stale expected generation is answered "conflict".
RegisterDecisionTrigger(r) ==
  /\ Revision < RevisionBound
  /\ r # Current
  /\ revisions' = Append(revisions, r)
  /\ UNCHANGED <<samples, occurrence, prompt, wake, runs, sessions, job, triggerClock, triggerFaults>>

---------------------------------------------------------------------------
(* Evaluation *)

\* ListDecisionTriggers: the revision in hand is the one listed here.
ListsTrigger(c) ==
  /\ job[c].pc = "evaluate"
  /\ To(c, IF Current.enabled /\ Live(Current) /\ Len(samples) < SampleBound
           THEN [Rest EXCEPT !.pc = "fetch", !.path = "evaluation", !.revision = Revision]
           ELSE Rest)
  /\ UNCHANGED <<revisions, samples, occurrence, prompt, wake, runs, sessions, triggerClock, triggerFaults>>

\* The quote or GEX observation of the listed revision, old by up to a tick.
FetchesValue(c) ==
  /\ job[c].pc = "fetch"
  /\ \E v \in Values, age \in {0, 1} \cap 0..triggerClock :
       To(c, [job[c] EXCEPT !.pc = "record", !.value = v, !.at = triggerClock - age])
  /\ UNCHANGED <<revisions, samples, occurrence, prompt, wake, runs, sessions, triggerClock, triggerFaults>>

FetchRejected(c) ==
  /\ job[c].pc = "fetch"
  /\ To(c, Rest)
  /\ UNCHANGED <<revisions, samples, occurrence, prompt, wake, runs, sessions, triggerClock, triggerFaults>>

\* The latest sample by observation time; equal times are ordered by a random id.
Previous(past) == {i \in past : \A j \in past : samples[j].at <= samples[i].at}

ConditionMet(cmp, prior, v) ==
  \/ cmp = "gte" /\ v >= Threshold
  \/ cmp = "lte" /\ v <= Threshold
  \/ cmp = "crosses_above" /\ v > Threshold /\ \E x \in prior : x <= Threshold
  \/ cmp = "crosses_below" /\ v < Threshold /\ \E x \in prior : x >= Threshold

\* Mutant: a revision starts with a fresh cooldown.
CooledInRevision(past, at) ==
  \A i \in past : samples[i].fired /\ samples[i].revision = Revision
                 => samples[i].at + Current.cooldown <= at

Cooled(past, at) == \A i \in past : samples[i].fired => samples[i].at + Current.cooldown <= at

Sampled(p, past, prior) ==
  [revision |-> Revision, measured |-> job[p].revision, value |-> job[p].value,
   at |-> job[p].at, committed |-> triggerClock, frame |-> job[p].frame,
   fired |-> /\ ConditionMet(Current.comparator, prior, job[p].value)
             /\ Cooled(past, job[p].at)]

Fires(p, s) ==
  /\ samples' = Append(samples, s)
  /\ To(p, IF s.fired THEN [job[p] EXCEPT !.pc = "materialize", !.id = Len(samples) + 1,
                                          !.text = "supplied"]
                      ELSE Rest)

Rejects(p) == To(p, Rest) /\ UNCHANGED samples

\* The database looks the head revision up by trigger id: the revision the
\* value was fetched for plays no part.
RecordDecisionTriggerSample(c) ==
  LET past == 1..Len(samples)
  IN /\ job[c].pc = "record" /\ job[c].path = "evaluation"
     /\ IF Current.enabled /\ Live(Current) /\ triggerClock - job[c].at <= 1 /\ Len(samples) < SampleBound
        THEN IF past = {} THEN Fires(c, Sampled(c, past, {}))
             ELSE \E i \in Previous(past) : Fires(c, Sampled(c, past, {samples[i].value}))
        ELSE Rejects(c)
     /\ UNCHANGED <<revisions, occurrence, prompt, wake, runs, sessions, triggerClock, triggerFaults>>

---------------------------------------------------------------------------
(* Replay of recorded frames: virtual time is the frame's number *)

ReplayNext(r, f) ==
  /\ job[r] = Rest
  /\ Current.enabled /\ ~Live(Current)
  /\ To(r, [Rest EXCEPT !.pc = "record", !.path = "replay", !.revision = Revision,
                        !.frame = f, !.value = FrameValue[f], !.at = f])
  /\ UNCHANGED <<revisions, samples, occurrence, prompt, wake, runs, sessions, triggerClock, triggerFaults>>

\* Samples of this replay under the head revision; only they count for it.
Played == {i \in 1..Len(samples) : samples[i].frame # 0 /\ samples[i].revision = Revision}

\* A frame that was sampled before is answered with its row; a frame older
\* than the last one is refused.
RecordMoodyBluesReplaySample(r) ==
  LET same == {i \in Played : samples[i].frame = job[r].frame}
  IN /\ job[r].pc = "record" /\ job[r].path = "replay"
     /\ CASE ~(Current.enabled /\ ~Live(Current)) -> Rejects(r)
          [] Current.enabled /\ ~Live(Current) /\ same # {} ->
               \E i \in same :
                 /\ To(r, IF samples[i].fired
                          THEN [job[r] EXCEPT !.pc = "materialize", !.id = i, !.text = "column"]
                          ELSE Rest)
                 /\ UNCHANGED samples
          [] OTHER ->
               IF (\E i \in Played : samples[i].frame >= job[r].frame) \/ Len(samples) = SampleBound
               THEN Rejects(r)
               ELSE Fires(r, Sampled(r, Played, {samples[i].value : i \in Previous(Played)}))
     /\ UNCHANGED <<revisions, occurrence, prompt, wake, runs, sessions, triggerClock, triggerFaults>>

---------------------------------------------------------------------------
(* From a fired sample to a Run *)

Materialized(i) == IF occurrence[i] = Absent THEN [occurrence EXCEPT ![i] = triggerClock] ELSE occurrence

MaterializeDecisionTriggerOccurrence(p) ==
  /\ job[p].pc = "materialize" /\ job[p].path # "recovery"
  /\ occurrence' = Materialized(job[p].id)
  /\ To(p, [job[p] EXCEPT !.pc = "stage"])
  /\ UNCHANGED <<revisions, samples, prompt, wake, runs, sessions, triggerClock, triggerFaults>>

\* The prompt quotes the revision in hand and the value as it was handed over.
DecisionTriggerWakePrompt(p) == [revision |-> job[p].revision, text |-> job[p].text]

\* A live wake has a deadline counted from its observation.
WindowOpen(i) == samples[i].frame # 0 \/ triggerClock - samples[i].at < AdmitFor

\* CommitRawInput: one Blob stage per occurrence, whose digest may not change.
StagesPrompt(p) ==
  LET i == job[p].id
  IN /\ job[p].pc = "stage"
     /\ IF WindowOpen(i) /\ prompt[i] \in {NoPrompt, DecisionTriggerWakePrompt(p)}
        THEN /\ prompt' = [prompt EXCEPT ![i] = DecisionTriggerWakePrompt(p)]
             /\ To(p, [job[p] EXCEPT !.pc = "admit"])
        ELSE To(p, After(p)) /\ UNCHANGED prompt
     /\ UNCHANGED <<revisions, samples, occurrence, wake, runs, sessions, triggerClock, triggerFaults>>

\* The same command again: the deadline of a replayed wake is taken from the
\* wall clock of the call, so its command is never the same.
Repeats(i, p) == wake[i] = DecisionTriggerWakePrompt(p) /\ samples[i].frame = 0

\* Mutant: every command creates its Run.
AdmissibleAgain(i) == WindowOpen(i) /\ samples[i].revision = Revision /\ Current.enabled

Admissible(i) ==
  /\ WindowOpen(i)
  /\ wake[i] = NoPrompt
  /\ samples[i].revision = Revision /\ Current.enabled

AdmitDecisionTriggerWake(p) ==
  LET i == job[p].id
  IN /\ job[p].pc = "admit"
     /\ IF Admissible(i)
        THEN /\ wake' = [wake EXCEPT ![i] = DecisionTriggerWakePrompt(p)]
             /\ runs' = [runs EXCEPT ![i] = @ + 1]
        ELSE UNCHANGED <<wake, runs>>
     /\ To(p, IF Admissible(i) \/ (WindowOpen(i) /\ Repeats(i, p))
              THEN [job[p] EXCEPT !.pc = "prepare"] ELSE After(p))
     /\ UNCHANGED <<revisions, samples, occurrence, prompt, sessions, triggerClock, triggerFaults>>

PrepareDecisionTriggerWakeSession(p) ==
  /\ job[p].pc = "prepare"
  /\ sessions' = sessions \union {job[p].id}
  /\ To(p, After(p))
  /\ UNCHANGED <<revisions, samples, occurrence, prompt, wake, runs, triggerClock, triggerFaults>>

---------------------------------------------------------------------------
(* Recovery: the first half of every pass of the loop *)

\* Mutant: nothing looks for fired samples without an occurrence.
NoPendingOccurrences == {}

PendingOccurrences ==
  {i \in 1..Len(samples) : samples[i].fired /\ occurrence[i] = Absent
                           /\ triggerClock - samples[i].committed < ListFor}

PendingWakes ==
  {i \in 1..Len(samples) : occurrence[i] # Absent /\ wake[i] = NoPrompt
                           /\ triggerClock - occurrence[i] < ListFor}

RecoveryLists(c) ==
  /\ job[c] = Rest
  /\ To(c, [Rest EXCEPT !.pc = "materialize", !.path = "recovery", !.todo = PendingOccurrences])
  /\ UNCHANGED <<revisions, samples, occurrence, prompt, wake, runs, sessions, triggerClock, triggerFaults>>

RecoveryMaterializes(c) ==
  /\ job[c].pc = "materialize" /\ job[c].path = "recovery"
  /\ IF job[c].todo = {}
     THEN /\ To(c, [job[c] EXCEPT !.pc = "wakes", !.todo = PendingWakes])
          /\ UNCHANGED occurrence
     ELSE \E i \in job[c].todo :
            /\ occurrence' = Materialized(i)
            /\ To(c, [job[c] EXCEPT !.todo = @ \ {i}])
  /\ UNCHANGED <<revisions, samples, prompt, wake, runs, sessions, triggerClock, triggerFaults>>

\* The recovered wake is rendered from its own revision and the stored value.
RecoveryAdmits(c) ==
  /\ job[c].pc = "wakes"
  /\ IF job[c].todo = {} THEN To(c, [Rest EXCEPT !.pc = "evaluate"])
     ELSE \E i \in job[c].todo :
            To(c, [job[c] EXCEPT !.pc = "stage", !.todo = @ \ {i}, !.id = i,
                                 !.revision = samples[i].revision, !.text = "column"])
  /\ UNCHANGED <<revisions, samples, occurrence, prompt, wake, runs, sessions, triggerClock, triggerFaults>>

---------------------------------------------------------------------------
\* A failed call or the death of the process: the pass ends where it stands.
PassInterrupted(p) ==
  /\ job[p] # Rest
  /\ triggerFaults < TriggerFaults
  /\ triggerFaults' = triggerFaults + 1
  /\ To(p, Rest)
  /\ UNCHANGED <<revisions, samples, occurrence, prompt, wake, runs, sessions, triggerClock>>

Passes ==
  /\ triggerClock < ClockBound
  /\ triggerClock' = triggerClock + 1
  /\ UNCHANGED <<revisions, samples, occurrence, prompt, wake, runs, sessions, job, triggerFaults>>

Chain(p) ==
  \/ MaterializeDecisionTriggerOccurrence(p)
  \/ StagesPrompt(p)
  \/ AdmitDecisionTriggerWake(p)
  \/ PrepareDecisionTriggerWakeSession(p)

Evaluates(c) ==
  \/ RecoveryLists(c) \/ RecoveryMaterializes(c) \/ RecoveryAdmits(c)
  \/ ListsTrigger(c) \/ FetchesValue(c) \/ FetchRejected(c)
  \/ RecordDecisionTriggerSample(c)
  \/ Chain(c)

TriggersNext ==
  \/ \E r \in Revisions : RegisterDecisionTrigger(r)
  \/ \E c \in Controls : Evaluates(c)
  \/ \E r \in Replayers, f \in Frames : ReplayNext(r, f)
  \/ \E r \in Replayers : RecordMoodyBluesReplaySample(r) \/ Chain(r)
  \/ \E p \in Controls \union Replayers : PassInterrupted(p)
  \/ Passes

TriggersSpec == TriggersInit /\ [][TriggersNext]_triggerVars

---------------------------------------------------------------------------
\* A fired sample leads to at most one Run, and a Run stands on an occurrence
\* of a fired sample whose prompt is the one it was admitted with, although
\* several Control processes, their recovery passes and a client repeating a
\* replay frame drive the same sample (admit_cortex_decision_trigger_wake).
OneWakePerFiring ==
  \A i \in Ids : /\ runs[i] <= 1
                 /\ runs[i] = 1 => /\ samples[i].fired /\ occurrence[i] # Absent
                                   /\ wake[i] = prompt[i]
                 /\ i \in sessions => runs[i] = 1

\* A live firing keeps the cooldown of its own revision from every firing that
\* was recorded before it, in market time, even when observations are recorded
\* out of order and across revisions; in a replay this holds for each revision
\* in virtual time (record_cortex_decision_trigger_sample).
CooldownHolds ==
  \A j \in 1..Len(samples) : \A i \in 1..(j - 1) :
    (/\ samples[i].fired /\ samples[j].fired
     /\ \/ samples[i].frame = 0 /\ samples[j].frame = 0
        \/ samples[i].frame # 0 /\ samples[j].frame # 0 /\ samples[i].revision = samples[j].revision)
    => samples[i].at + revisions[samples[j].revision].cooldown <= samples[j].at

\* A trigger wakes the desk once for a firing, and firings keep their distance.
WakesAreSpaced == OneWakePerFiring /\ CooldownHolds

Closed(i) ==
  \/ ~WindowOpen(i)
  \/ triggerClock - samples[i].committed >= ListFor
  \/ samples[i].revision # Revision

Replayable(i) == prompt[i] \in {NoPrompt, [revision |-> samples[i].revision, text |-> "column"]}

\* Every firing gets its Run in the end, whatever step a process failed at,
\* unless its window closed, the trigger was revised, or the prompt that is
\* already committed differs from the one recovery renders.  Were a policy
\* rotated, a firing of the old one would only close by its window.
FiringSettles ==
  \A i \in Ids :
    (i \in DOMAIN samples /\ samples[i].fired)
      ~> (i \in DOMAIN samples /\ (runs[i] = 1 \/ Closed(i) \/ ~Replayable(i)))
=============================================================================
