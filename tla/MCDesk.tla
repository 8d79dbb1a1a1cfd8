------------------------------- MODULE MCDesk -------------------------------
\* What starts a Decision Desk and what becomes of its proposals, side by side:
\* the initial state chooses the trigger or the candidates.
EXTENDS DecisionTriggers, PaperEffects, TLC

CONSTANTS k1, k2

VARIABLE component

deskVars == <<triggerVars, paperVars, component>>

MCFrames == 1 :> 2

MCInit ==
  /\ component \in {"triggers", "paper"}
  /\ TriggersInit /\ PaperInit
  /\ Current.comparator = "gte"
  /\ component = "paper" => Current = CHOOSE r \in Revisions : r.enabled /\ r.comparator = "gte"

\* The revision with a level comparator comes before the one with a crossing.
InTurn ==
  \A i \in 1..Len(revisions') :
    revisions'[i].comparator = IF i = 1 THEN "gte" ELSE "crosses_below"

\* Candidates are alike, so the first to be proposed may be taken for k1.  It
\* buys and the other sells, before there is a share to sell or after.
InOrder ==
  /\ proposed' \in {<<>>, <<k1>>, <<k1, k2>>}
  /\ candidate'[k1].side # "sell" /\ candidate'[k2].side # "buy"

MCNext ==
  /\ \/ component = "triggers" /\ TriggersNext /\ InTurn /\ UNCHANGED paperVars
     \/ component = "paper" /\ PaperNext /\ InOrder /\ UNCHANGED triggerVars
  /\ UNCHANGED component

\* The loop restarts a second after it ends and every call has a time limit.
\* Nothing is assumed of the clock: a window may stay open for ever.
TriggersFairness ==
  \A c \in Controls : WF_triggerVars(component = "triggers" /\ Evaluates(c))

\* Control's loop and the handlers of both servers run until they end.
PaperFairness ==
  LET On(A) == component = "paper" /\ A
  IN  /\ \A e \in Executors : WF_paperVars(On(ExecutePaperCandidate(e)))
      /\ \A c \in PaperCandidates, e \in Executors \union {Nobody} :
           WF_paperVars(On(\E k \in kernelCalls :
                             k.c = c /\ k.caller = e /\ PostCortexPaperOrder(k)))
      /\ WF_paperVars(On(PaperRecovery))

MCSpec == MCInit /\ [][MCNext]_deskVars /\ TriggersFairness /\ PaperFairness
=============================================================================
