----------------------------- MODULE AgentTurns -----------------------------
(***************************************************************************)
(* agents/pm.py and agents/planner.py: how an agent decides what a user's  *)
(* chat message at a review gate asks for.  A message is reduced to the    *)
(* marks the code looks for in it, and an agent's answer to which of its   *)
(* fields hold a text, and of what kind.                                   *)
(***************************************************************************)

\* What a message at the requirement gate is taken for.  An "exact" message is
\* one of the service's bare confirmations ("ok"): each of them also confirms
\* by the longer list of the PM, and none of them delegates or asks.
RequirementReply ==
  {m \in SUBSET {"blank", "exact", "confirms", "delegates", "meta"} :
     /\ "blank" \in m => m = {"blank"}
     /\ "exact" \in m => m = {"exact", "confirms"}}

PlanReply ==
  {m \in SUBSET {"blank", "confirms", "delegates", "revises"} :
     "blank" \in m => m = {"blank"}}

\* A text of an answer: a proposal, or one that only asks back or lists what
\* should be found out first ("weak").
Text == {"none", "weak", "sound"}

\* An update is the user's words, a text of the agent's own, or a question
\* about a later stage which the agent put there.
Update == {"none", "said", "own", "meta"}

\* What a model may answer: any fields, whether or not they fit the message.
Answer == [ready : BOOLEAN, recommendation : Text, reply : Text, update : Update]

Nothing == [ready |-> FALSE, recommendation |-> "none", reply |-> "none", update |-> "none"]
Ready   == [Nothing EXCEPT !.ready = TRUE]
Advise(text) == [Nothing EXCEPT !.recommendation = text]
Say(text)    == [Nothing EXCEPT !.reply = text]

\* _optional_text: a text of blanks is no text.
Stripped(m, a) ==
  IF "blank" \in m /\ a.update = "said" THEN [a EXCEPT !.update = "none"] ELSE a

\* The markers of the two agents.
DelegatesTradeoff(m)   == "delegates" \in m
NaturalConfirmation(m) == "confirms" \in m
PlanRevision(m)        == "revises" \in m

\* The service's own test, which only whole messages pass.
ExactConfirmation(m) == "exact" \in m

\* The update is looked at when there is one, the message otherwise.
MetaReply(m, update) ==
  \/ update = "meta"
  \/ update \in {"none", "said"} /\ "meta" \in m

WeakRecommendation(text) == text \in {"none", "weak"}

\* A default answer to the question, the recommended direction, the first
\* candidate, or the simplest thing: there is always something to propose.
FallbackRecommendation == "sound"

-----------------------------------------------------------------------------
(* PMAgent.decide_requirement_turn                                         *)

\* Without a model the message alone decides.
FallbackRequirementTurn(question, m) ==
  IF DelegatesTradeoff(m) THEN Advise(FallbackRecommendation)
  ELSE IF question /\ MetaReply(m, "said") THEN Say("sound")
  ELSE IF NaturalConfirmation(m) THEN Ready
  ELSE [Nothing EXCEPT !.update = "said"]

\* Variant with a fault: a recommendation does not displace the update.
RequirementTurnKeepsUpdate(question, m, answer) ==
  LET a == Stripped(m, answer) IN
  IF DelegatesTradeoff(m) /\ ~a.ready /\ a.recommendation # "none" THEN a
  ELSE IF a.ready THEN Ready
  ELSE IF a = Nothing /\ "blank" \notin m THEN [Nothing EXCEPT !.update = "said"]
  ELSE a

\* Variant with a fault: an answer that is ready is taken before the question
\* that is open is looked at.
RequirementTurnReadyFirst(question, m, answer) ==
  LET a == Stripped(m, answer) IN
  IF a.ready THEN [a EXCEPT !.recommendation = "none", !.update = "none"]
  ELSE IF DelegatesTradeoff(m) THEN Advise(FallbackRecommendation)
  ELSE IF question /\ MetaReply(m, a.update) THEN Say("sound")
  ELSE IF a = Nothing /\ "blank" \notin m THEN [Nothing EXCEPT !.update = "said"]
  ELSE a

\* What the turn makes of an answer, the model's or the fallback's.
RequirementTurn(question, m, answer) ==
  LET a == Stripped(m, answer)
      offered == IF a.recommendation # "none" THEN a.recommendation ELSE a.reply
  IN
  IF DelegatesTradeoff(m) /\ ~a.ready
    THEN Advise(IF WeakRecommendation(offered) THEN FallbackRecommendation ELSE offered)
  ELSE IF question /\ MetaReply(m, a.update) THEN Say("sound")
  ELSE IF a.ready THEN [a EXCEPT !.recommendation = "none", !.update = "none"]
  ELSE IF a = Nothing /\ "blank" \notin m THEN [Nothing EXCEPT !.update = "said"]
  ELSE a

-----------------------------------------------------------------------------
(* PlannerAgent.decide_plan_turn                                           *)

\* Variant with a fault: a message is a confirmation unless it says otherwise.
FallbackPlanTurnEager(m) ==
  IF DelegatesTradeoff(m) THEN Advise("sound")
  ELSE IF PlanRevision(m) THEN [Nothing EXCEPT !.update = "said"]
  ELSE Ready

\* Here a confirmation is looked for first: "fine, you decide" goes ahead.
FallbackPlanTurn(m) ==
  IF NaturalConfirmation(m) THEN Ready
  ELSE IF DelegatesTradeoff(m) THEN Advise("sound")
  ELSE IF PlanRevision(m) THEN [Nothing EXCEPT !.update = "said"]
  ELSE Say("sound")

PlanTurn(m, answer) ==
  LET a == Stripped(m, answer)
      offered == IF a.recommendation # "none" THEN a.recommendation ELSE a.reply
  IN
  IF DelegatesTradeoff(m) /\ ~a.ready
    THEN Advise(IF offered = "none" THEN "sound" ELSE offered)
  ELSE IF a.ready THEN [a EXCEPT !.recommendation = "none", !.update = "none"]
  ELSE IF PlanRevision(m)
    THEN [Nothing EXCEPT !.update = IF a.update = "none" THEN "said" ELSE a.update]
  ELSE IF a = Nothing THEN Say("sound")
  ELSE a
=============================================================================
