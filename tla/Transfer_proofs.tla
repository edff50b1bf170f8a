-------------------------- MODULE Transfer_proofs --------------------------
(***************************************************************************)
(* Theorems about a transfer, for any number of legs.  What a transfer     *)
(* that returns claims of its legs rests on what it has seen of them: the  *)
(* answer it holds (Held), the legs it has seen transferred (Verdicts,     *)
(* Removed) and those it has ended itself (Moves).                         *)
(***************************************************************************)
EXTENDS Transfer, TLAPS

\* The transfer returns once, and asks the gateway to transfer once.
Phases ==
  /\ loop = "returned" <=> result # "none"
  /\ loop = "refer" => verdict = "none" /\ transferred = {}

\* A status answer is about a leg not yet seen transferred.  It may be stale
\* when it is used, but the end it reports cannot be undone, and an answer
\* with no outcome of the transfer is that of a gateway that reports none.
Held ==
  loop = "answered" =>
    /\ i \in legs \ transferred
    /\ answer.status # "none"
    /\ Gone(answer.status) => gw[i] = answer.status
    /\ answer.status = "active" /\ answer.transfer = "none" => ~reporting

\* Only a transfer the PBX carried out ends a leg as transferred.
Verdicts ==
  /\ \A l \in Leg : gw[l] = "transferred" => verdict = "transferred"
  /\ transferred # {} => verdict = "transferred"

Removed == /\ transferred \cap live = {}
           /\ result = "Ok" => live = {}

\* Until it succeeds the transfer ends no leg but those the gateway has lost.
Moves == result # "Ok" => \A l \in moved : gw[l] # "up"

IInv == /\ TypeOK /\ OkMeansTransferred
        /\ Phases /\ Held /\ Verdicts /\ Removed /\ Moves

LEMMA ReturnType ==
  ASSUME TypeOK, NEW r \in {"Ok", "RequestFailed", "InvalidState", "CallFailed", "Timeout",
                            "AuthenticationError"}, Return(r)
  PROVE  /\ loop' \in {"refer", "asleep", "asking", "answered", "returned"}
         /\ i' \in 1 .. n + 1 /\ answer' \in Answers /\ transferred' \subseteq legs
         /\ settle' \in {"unset", "running", "passed"} /\ late' \in BOOLEAN
         /\ result' \in {"none", "Ok", "RequestFailed", "InvalidState", "CallFailed",
                         "Timeout", "AuthenticationError"}
<1>1. answer' \in Answers
  BY DEF Return, None, Answers, Statuses
<1>2. i' \in 1 .. n + 1
  BY LegsAssumption DEF Return, TypeOK, Leg
<1> QED BY <1>1, <1>2 DEF Return

LEMMA EndType ==
  ASSUME TypeOK, NEW ls, ls \subseteq legs, NEW reason \in Reasons, end_call_locally(ls, reason)
  PROVE  /\ live' \subseteq legs /\ moved' \subseteq legs
         /\ why' \in [Leg -> Reasons \cup {"none"}]
BY DEF end_call_locally, TypeOK

LEMMA InitInv == Init => IInv
<1> SUFFICES ASSUME Init PROVE IInv
  OBVIOUS
<1> USE LegsAssumption DEF Init, Leg, legs
<1>1. answer \in Answers
  BY DEF Answers, Statuses, None
<1>2. /\ ending \in [Leg -> Reasons \cup {"none"}] /\ why \in [Leg -> Reasons \cup {"none"}]
      /\ poll \in [Leg -> Statuses \ {"active"}]
      /\ hup \in [Leg -> {"none", "todo", "failed"}]
      /\ gw \in [Leg -> {"up", "transferred", "bye"}]
  BY DEF Statuses
<1>3. i \in 1 .. n + 1
  OBVIOUS
<1>4. TypeOK
  BY <1>1, <1>2, <1>3 DEF TypeOK
<1>5. OkMeansTransferred /\ Phases /\ Held /\ Verdicts /\ Removed /\ Moves
  BY DEF OkMeansTransferred, Phases, Held, Verdicts, Removed, Moves
<1> QED BY <1>4, <1>5 DEF IInv

LEMMA TypeStep == IInv /\ [Next]_vars => TypeOK'
<1> SUFFICES ASSUME IInv, [Next]_vars PROVE TypeOK'
  OBVIOUS
<1> USE LegsAssumption DEF IInv, TypeOK, legs, api, locals, engine, gateway
<1> n \in Nat \ {0}
  BY DEF Leg
<1>1. CASE LoopStep
  <2>1. CASE ReferFails
    <3>1. Return("RequestFailed")
      BY <2>1 DEF ReferFails
    <3> QED BY <2>1, <3>1, ReturnType DEF ReferFails
  <2>2. CASE ReferAccepted
    BY <2>2 DEF ReferAccepted
  <2>3. CASE RoundBegins
    BY <2>3 DEF RoundBegins
  <2>4. CASE NoToken
    <3>1. Return("AuthenticationError")
      BY <2>4 DEF NoToken
    <3> QED BY <2>4, <3>1, ReturnType DEF NoToken
  <2>5. CASE AskLeg
    <3>1. gw[i] \in {"up", "transferred", "bye"} /\ i \in legs
      BY <2>5 DEF AskLeg, Leg
    <3>2. answer' \in Answers
      BY <2>5, <3>1 DEF AskLeg, Answer, Answers, Statuses
    <3> QED BY <2>5, <3>2 DEF AskLeg
  <2>6. CASE SkipLeg
    BY <2>6 DEF SkipLeg
  <2>7. CASE LegGone
    <3>1. i \in legs /\ GoneReason(answer.status) \in Reasons
      BY <2>7 DEF LegGone, Held, GoneReason, from_gateway, Reasons
    <3>2. /\ live' \subseteq legs /\ moved' \subseteq legs
          /\ why' \in [Leg -> Reasons \cup {"none"}]
      <4>1. end_call_locally({i}, GoneReason(answer.status)) /\ {i} \subseteq legs
        BY <2>7, <3>1 DEF LegGone
      <4> QED BY <3>1, <4>1, EndType
    <3>3. CASE GoneReason(answer.status) = "Transferred"
      <4>1. answer' \in Answers
        BY <2>7, <3>3 DEF LegGone, NextLeg, None, Answers, Statuses
      <4>2. i' = i + 1 /\ transferred' = transferred \cup {i} /\ n' = n
        BY <2>7, <3>3 DEF LegGone, NextLeg
      <4>5. i + 1 \in 1 .. n + 1
        BY <3>1
      <4>6. transferred' \subseteq legs
        BY <3>1, <4>2
      <4>3. loop' = "asking" /\ UNCHANGED <<n, result, settle, late, ending, poll, hup, gateway>>
        BY <2>7, <3>3 DEF LegGone, NextLeg
      <4> QED BY <3>2, <4>1, <4>2, <4>3, <4>5, <4>6
    <3>4. CASE GoneReason(answer.status) # "Transferred"
      <4>1. Return("InvalidState")
        BY <2>7, <3>4 DEF LegGone
      <4> QED BY <2>7, <3>2, <4>1, ReturnType DEF LegGone
    <3> QED BY <3>3, <3>4
  <2>8. CASE LegUp
    <3>1. answer' \in Answers
      BY <2>8 DEF LegUp, NextLeg, None, Answers, Statuses
    <3> QED BY <2>8, <3>1 DEF LegUp, NextLeg, Held
  <2>9. CASE LegFailed
    <3>1. Return("CallFailed") \/ Return("Timeout")
      BY <2>9 DEF LegFailed, Failed
    <3> QED BY <2>9, <3>1, ReturnType DEF LegFailed
  <2>10. CASE NoOutcome
    <3>1. Return("Ok")
      BY <2>10 DEF NoOutcome
    <3>2. /\ live' \subseteq legs /\ moved' \subseteq legs
          /\ why' \in [Leg -> Reasons \cup {"none"}]
      <4>1. end_call_locally(legs, "Transferred") /\ "Transferred" \in Reasons
        BY <2>10 DEF NoOutcome, Reasons
      <4> QED BY <4>1, EndType
    <3> QED BY <2>10, <3>1, <3>2, ReturnType DEF NoOutcome
  <2>11. CASE AllTransferred
    <3>1. Return("Ok")
      BY <2>11 DEF AllTransferred
    <3> QED BY <2>11, <3>1, ReturnType DEF AllTransferred
  <2>12. CASE Settling
    BY <2>12 DEF Settling, succeeded
  <2>13. CASE Settled
    <3>1. Return("Ok")
      BY <2>13 DEF Settled
    <3>2. /\ live' \subseteq legs /\ moved' \subseteq legs
          /\ why' \in [Leg -> Reasons \cup {"none"}]
      <4>1. end_call_locally(legs \ transferred, "Transferred") /\ "Transferred" \in Reasons
        BY <2>13 DEF Settled, Reasons
      <4> QED BY <4>1, EndType
    <3>3. hup' \in [Leg -> {"none", "todo", "failed"}]
      BY <2>13 DEF Settled
    <3> QED BY <2>13, <3>1, <3>2, <3>3, ReturnType DEF Settled
  <2>14. CASE NoVerdict
    <3>1. CASE late
      <4>1. Return("Timeout")
        BY <2>14, <3>1 DEF NoVerdict
      <4> QED BY <2>14, <4>1, ReturnType DEF NoVerdict
    <3>2. CASE ~late
      BY <2>14, <3>2 DEF NoVerdict
    <3> QED BY <3>1, <3>2
  <2> QED
    BY <1>1, <2>1, <2>2, <2>3, <2>4, <2>5, <2>6, <2>7, <2>8, <2>9, <2>10,
       <2>11, <2>12, <2>13, <2>14 DEF LoopStep
<1>2. CASE SettlePasses
  BY <1>2 DEF SettlePasses
<1>3. CASE DeadlinePasses
  BY <1>3 DEF DeadlinePasses
<1>4. ASSUME NEW l \in Leg, LegStep(l) PROVE TypeOK'
  <2>1. CASE PollAsks(l)
    <3>1. poll' \in [Leg -> Statuses \ {"active"}]
      BY <2>1 DEF PollAsks, Answer, Statuses
    <3> QED BY <2>1, <3>1 DEF PollAsks
  <2>2. CASE PollApplies(l)
    <3>1. poll' \in [Leg -> Statuses \ {"active"}]
      BY <2>2 DEF PollApplies, Statuses
    <3>2. ending' \in [Leg -> Reasons \cup {"none"}] /\ live' \subseteq legs
      BY <2>2 DEF PollApplies, Remove, from_gateway, Reasons
    <3> QED BY <2>2, <3>1, <3>2 DEF PollApplies
  <2>3. CASE hangup(l)
    <3>1. ending' \in [Leg -> Reasons \cup {"none"}] /\ live' \subseteq legs
      BY <2>3 DEF hangup, Remove, Reasons
    <3>2. hup' \in [Leg -> {"none", "todo", "failed"}]
      BY <2>3 DEF hangup
    <3> QED BY <2>3, <3>1, <3>2 DEF hangup
  <2>4. CASE ReportEnded(l)
    BY <2>4 DEF ReportEnded
  <2>5. CASE HangUpAtGateway(l)
    <3>1. hup' \in [Leg -> {"none", "todo", "failed"}]
      BY <2>5 DEF HangUpAtGateway
    <3>2. gw' \in [Leg -> {"up", "transferred", "bye"}]
      BY <2>5 DEF HangUpAtGateway
    <3> QED BY <2>5, <3>1, <3>2 DEF HangUpAtGateway
  <2>6. CASE LegTransferred(l)
    BY <2>6 DEF LegTransferred
  <2>7. CASE RemoteEnds(l)
    BY <2>7 DEF RemoteEnds
  <2> QED BY <1>4, <2>1, <2>2, <2>3, <2>4, <2>5, <2>6, <2>7 DEF LegStep
<1>5. CASE TokenChanges
  <2>1. token' \in BOOLEAN
    BY <1>5, Zenon DEF TokenChanges
  <2> QED BY <1>5, <2>1 DEF TokenChanges
<1>6. CASE Verdict
  BY <1>6 DEF Verdict
<1>7. CASE UNCHANGED vars
  BY <1>7 DEF vars
<1> QED BY <1>1, <1>2, <1>3, <1>4, <1>5, <1>6, <1>7 DEF Next

LEMMA PhasesStep == IInv /\ [Next]_vars => Phases'
<1> SUFFICES ASSUME IInv, [Next]_vars PROVE Phases'
  OBVIOUS
<1> USE LegsAssumption DEF IInv, TypeOK, Leg, legs, Phases,
                           OkMeansTransferred, api, locals, engine, gateway
<1>1. CASE LoopStep
  BY <1>1 DEF
     LoopStep, ReferFails, Return, ReferAccepted, RoundBegins, NoToken,
     AskLeg, Answer, SkipLeg, LegGone, Gone, GoneReason, from_gateway,
     succeeded, end_call_locally, NextLeg, LegUp, LegFailed, Failed,
     NoOutcome, AllTransferred, Settling, Settled, NoVerdict
<1>2. CASE SettlePasses \/ DeadlinePasses
  BY <1>2 DEF SettlePasses, DeadlinePasses
<1>3. ASSUME NEW l \in Leg, LegStep(l) PROVE Phases'
  BY <1>3 DEF
     LegStep, PollAsks, Answer, PollApplies, Remove, from_gateway, hangup,
     ReportEnded, HangUpAtGateway, LegTransferred, RemoteEnds
<1>4. CASE TokenChanges \/ Verdict
  BY <1>4 DEF TokenChanges, Verdict
<1>5. CASE UNCHANGED vars
  BY <1>5 DEF vars
<1> QED BY <1>1, <1>2, <1>3, <1>4, <1>5 DEF Next

LEMMA HeldStep == IInv /\ [Next]_vars => Held'
<1> SUFFICES ASSUME IInv, [Next]_vars PROVE Held'
  OBVIOUS
<1> USE LegsAssumption DEF IInv, TypeOK, Leg, legs, Answers, Statuses, Held,
                           Gone, api, locals, engine, gateway
<1>1. CASE LoopStep
  <2>1. CASE ReferFails
    BY <2>1 DEF ReferFails, Return
  <2>2. CASE ReferAccepted
    BY <2>2 DEF ReferAccepted
  <2>3. CASE RoundBegins
    BY <2>3 DEF RoundBegins
  <2>4. CASE NoToken
    BY <2>4 DEF NoToken, Return
  <2>5. CASE AskLeg
    BY <2>5 DEF AskLeg, Answer
  <2>6. CASE SkipLeg
    BY <2>6 DEF SkipLeg
  <2>7. CASE LegGone
    BY <2>7 DEF LegGone, Gone, GoneReason, from_gateway, succeeded,
                end_call_locally, NextLeg, Return
  <2>8. CASE LegUp
    BY <2>8 DEF LegUp, NextLeg, succeeded
  <2>9. CASE LegFailed
    BY <2>9 DEF LegFailed, Failed, Return
  <2>10. CASE NoOutcome
    BY <2>10 DEF NoOutcome, end_call_locally, Return, succeeded
  <2>11. CASE AllTransferred
    BY <2>11 DEF AllTransferred, Return
  <2>12. CASE Settling
    BY <2>12 DEF Settling, succeeded
  <2>13. CASE Settled
    BY <2>13 DEF Settled, succeeded, end_call_locally, Return
  <2>14. CASE NoVerdict
    BY <2>14 DEF NoVerdict, Return, succeeded
  <2> QED
    BY <1>1, <2>1, <2>2, <2>3, <2>4, <2>5, <2>6, <2>7, <2>8, <2>9, <2>10,
       <2>11, <2>12, <2>13, <2>14 DEF LoopStep
<1>2. CASE SettlePasses \/ DeadlinePasses
  BY <1>2 DEF SettlePasses, DeadlinePasses
<1>3. ASSUME NEW l \in Leg, LegStep(l) PROVE Held'
  <2>1. CASE PollAsks(l)
    BY <2>1 DEF PollAsks, Answer
  <2>2. CASE PollApplies(l)
    BY <2>2 DEF PollApplies, Remove, from_gateway
  <2>3. CASE hangup(l)
    BY <2>3 DEF hangup, Remove
  <2>4. CASE ReportEnded(l)
    BY <2>4 DEF ReportEnded
  <2>5. CASE HangUpAtGateway(l)
    BY <2>5 DEF HangUpAtGateway
  <2>6. CASE LegTransferred(l)
    BY <2>6 DEF LegTransferred
  <2>7. CASE RemoteEnds(l)
    BY <2>7 DEF RemoteEnds
  <2> QED BY <1>3, <2>1, <2>2, <2>3, <2>4, <2>5, <2>6, <2>7 DEF LegStep
<1>4. CASE TokenChanges \/ Verdict
  BY <1>4 DEF TokenChanges, Verdict
<1>5. CASE UNCHANGED vars
  BY <1>5 DEF vars
<1> QED BY <1>1, <1>2, <1>3, <1>4, <1>5 DEF Next

LEMMA VerdictsStep == IInv /\ [Next]_vars => (Verdicts /\ OkMeansTransferred)'
<1> SUFFICES ASSUME IInv, [Next]_vars PROVE (Verdicts /\ OkMeansTransferred)'
  OBVIOUS
<1> USE LegsAssumption DEF IInv, TypeOK, Leg, legs, Verdicts, Held, Phases,
                           OkMeansTransferred, Answers, Statuses, api, locals,
                           engine, gateway
<1>1. CASE LoopStep
  <2>1. CASE ReferFails
    BY <2>1 DEF ReferFails, Return
  <2>2. CASE ReferAccepted
    BY <2>2 DEF ReferAccepted
  <2>3. CASE RoundBegins
    BY <2>3 DEF RoundBegins
  <2>4. CASE NoToken
    BY <2>4 DEF NoToken, Return
  <2>5. CASE AskLeg
    BY <2>5 DEF AskLeg, Answer
  <2>6. CASE SkipLeg
    BY <2>6 DEF SkipLeg
  <2>7. CASE LegGone
    BY <2>7 DEF LegGone, Gone, GoneReason, from_gateway, succeeded,
                end_call_locally, NextLeg, Return
  <2>8. CASE LegUp
    BY <2>8 DEF LegUp, NextLeg, succeeded
  <2>9. CASE LegFailed
    BY <2>9 DEF LegFailed, Failed, Return
  <2>10. CASE NoOutcome
    BY <2>10 DEF NoOutcome, end_call_locally, Return, succeeded
  <2>11. CASE AllTransferred
    <3>1. 1 \in legs
      OBVIOUS
    <3>2. transferred # {}
      BY <2>11, <3>1 DEF AllTransferred
    <3> QED BY <2>11, <3>2 DEF AllTransferred, Return
  <2>12. CASE Settling
    BY <2>12 DEF Settling, succeeded
  <2>13. CASE Settled
    BY <2>13 DEF Settled, succeeded, end_call_locally, Return
  <2>14. CASE NoVerdict
    BY <2>14 DEF NoVerdict, Return, succeeded
  <2> QED
    BY <1>1, <2>1, <2>2, <2>3, <2>4, <2>5, <2>6, <2>7, <2>8, <2>9, <2>10,
       <2>11, <2>12, <2>13, <2>14 DEF LoopStep
<1>2. CASE SettlePasses \/ DeadlinePasses
  BY <1>2 DEF SettlePasses, DeadlinePasses
<1>3. ASSUME NEW l \in Leg, LegStep(l) PROVE (Verdicts /\ OkMeansTransferred)'
  <2>1. CASE PollAsks(l)
    BY <2>1 DEF PollAsks, Answer
  <2>2. CASE PollApplies(l)
    BY <2>2 DEF PollApplies, Remove, from_gateway
  <2>3. CASE hangup(l)
    BY <2>3 DEF hangup, Remove
  <2>4. CASE ReportEnded(l)
    BY <2>4 DEF ReportEnded
  <2>5. CASE HangUpAtGateway(l)
    BY <2>5 DEF HangUpAtGateway
  <2>6. CASE LegTransferred(l)
    BY <2>6 DEF LegTransferred
  <2>7. CASE RemoteEnds(l)
    BY <2>7 DEF RemoteEnds
  <2> QED BY <1>3, <2>1, <2>2, <2>3, <2>4, <2>5, <2>6, <2>7 DEF LegStep
<1>4. CASE TokenChanges \/ Verdict
  BY <1>4 DEF TokenChanges, Verdict
<1>5. CASE UNCHANGED vars
  BY <1>5 DEF vars
<1> QED BY <1>1, <1>2, <1>3, <1>4, <1>5 DEF Next

LEMMA RemovedStep == IInv /\ [Next]_vars => Removed'
<1> SUFFICES ASSUME IInv, [Next]_vars PROVE Removed'
  OBVIOUS
<1> USE LegsAssumption DEF IInv, TypeOK, Leg, legs, Removed, Held, Phases,
                           api, locals, engine, gateway
<1>1. CASE LoopStep
  <2>1. CASE ReferFails
    BY <2>1 DEF ReferFails, Return
  <2>2. CASE ReferAccepted
    BY <2>2 DEF ReferAccepted
  <2>3. CASE RoundBegins
    BY <2>3 DEF RoundBegins
  <2>4. CASE NoToken
    BY <2>4 DEF NoToken, Return
  <2>5. CASE AskLeg
    BY <2>5 DEF AskLeg, Answer
  <2>6. CASE SkipLeg
    BY <2>6 DEF SkipLeg
  <2>7. CASE LegGone
    BY <2>7 DEF LegGone, Gone, GoneReason, from_gateway, succeeded,
                end_call_locally, NextLeg, Return
  <2>8. CASE LegUp
    BY <2>8 DEF LegUp, NextLeg, succeeded
  <2>9. CASE LegFailed
    BY <2>9 DEF LegFailed, Failed, Return
  <2>10. CASE NoOutcome
    BY <2>10 DEF NoOutcome, end_call_locally, Return, succeeded
  <2>11. CASE AllTransferred
    BY <2>11 DEF AllTransferred, Return
  <2>12. CASE Settling
    BY <2>12 DEF Settling, succeeded
  <2>13. CASE Settled
    BY <2>13 DEF Settled, succeeded, end_call_locally, Return
  <2>14. CASE NoVerdict
    BY <2>14 DEF NoVerdict, Return, succeeded
  <2> QED
    BY <1>1, <2>1, <2>2, <2>3, <2>4, <2>5, <2>6, <2>7, <2>8, <2>9, <2>10,
       <2>11, <2>12, <2>13, <2>14 DEF LoopStep
<1>2. CASE SettlePasses \/ DeadlinePasses
  BY <1>2 DEF SettlePasses, DeadlinePasses
<1>3. ASSUME NEW l \in Leg, LegStep(l) PROVE Removed'
  <2>1. CASE PollAsks(l)
    BY <2>1 DEF PollAsks, Answer
  <2>2. CASE PollApplies(l)
    BY <2>2 DEF PollApplies, Remove, from_gateway
  <2>3. CASE hangup(l)
    BY <2>3 DEF hangup, Remove
  <2>4. CASE ReportEnded(l)
    BY <2>4 DEF ReportEnded
  <2>5. CASE HangUpAtGateway(l)
    BY <2>5 DEF HangUpAtGateway
  <2>6. CASE LegTransferred(l)
    BY <2>6 DEF LegTransferred
  <2>7. CASE RemoteEnds(l)
    BY <2>7 DEF RemoteEnds
  <2> QED BY <1>3, <2>1, <2>2, <2>3, <2>4, <2>5, <2>6, <2>7 DEF LegStep
<1>4. CASE TokenChanges \/ Verdict
  BY <1>4 DEF TokenChanges, Verdict
<1>5. CASE UNCHANGED vars
  BY <1>5 DEF vars
<1> QED BY <1>1, <1>2, <1>3, <1>4, <1>5 DEF Next

LEMMA MovesStep == IInv /\ [Next]_vars => Moves'
<1> SUFFICES ASSUME IInv, [Next]_vars PROVE Moves'
  OBVIOUS
<1> USE LegsAssumption DEF IInv, TypeOK, Leg, legs, Moves, Held, Phases, api,
                           locals, engine, gateway
<1>1. CASE LoopStep
  <2>1. CASE ReferFails
    BY <2>1 DEF ReferFails, Return
  <2>2. CASE ReferAccepted
    BY <2>2 DEF ReferAccepted
  <2>3. CASE RoundBegins
    BY <2>3 DEF RoundBegins
  <2>4. CASE NoToken
    BY <2>4 DEF NoToken, Return
  <2>5. CASE AskLeg
    BY <2>5 DEF AskLeg, Answer
  <2>6. CASE SkipLeg
    BY <2>6 DEF SkipLeg
  <2>7. CASE LegGone
    BY <2>7 DEF LegGone, Gone, GoneReason, from_gateway, succeeded,
                end_call_locally, NextLeg, Return
  <2>8. CASE LegUp
    BY <2>8 DEF LegUp, NextLeg, succeeded
  <2>9. CASE LegFailed
    BY <2>9 DEF LegFailed, Failed, Return
  <2>10. CASE NoOutcome
    BY <2>10 DEF NoOutcome, end_call_locally, Return, succeeded
  <2>11. CASE AllTransferred
    BY <2>11 DEF AllTransferred, Return
  <2>12. CASE Settling
    BY <2>12 DEF Settling, succeeded
  <2>13. CASE Settled
    BY <2>13 DEF Settled, succeeded, end_call_locally, Return
  <2>14. CASE NoVerdict
    BY <2>14 DEF NoVerdict, Return, succeeded
  <2> QED
    BY <1>1, <2>1, <2>2, <2>3, <2>4, <2>5, <2>6, <2>7, <2>8, <2>9, <2>10,
       <2>11, <2>12, <2>13, <2>14 DEF LoopStep
<1>2. CASE SettlePasses \/ DeadlinePasses
  BY <1>2 DEF SettlePasses, DeadlinePasses
<1>3. ASSUME NEW l \in Leg, LegStep(l) PROVE Moves'
  <2>1. CASE PollAsks(l)
    BY <2>1 DEF PollAsks, Answer
  <2>2. CASE PollApplies(l)
    BY <2>2 DEF PollApplies, Remove, from_gateway
  <2>3. CASE hangup(l)
    BY <2>3 DEF hangup, Remove
  <2>4. CASE ReportEnded(l)
    BY <2>4 DEF ReportEnded
  <2>5. CASE HangUpAtGateway(l)
    BY <2>5 DEF HangUpAtGateway
  <2>6. CASE LegTransferred(l)
    BY <2>6 DEF LegTransferred
  <2>7. CASE RemoteEnds(l)
    BY <2>7 DEF RemoteEnds
  <2> QED BY <1>3, <2>1, <2>2, <2>3, <2>4, <2>5, <2>6, <2>7 DEF LegStep
<1>4. CASE TokenChanges \/ Verdict
  BY <1>4 DEF TokenChanges, Verdict
<1>5. CASE UNCHANGED vars
  BY <1>5 DEF vars
<1> QED BY <1>1, <1>2, <1>3, <1>4, <1>5 DEF Next

LEMMA Inductive == IInv /\ [Next]_vars => IInv'
BY TypeStep, PhasesStep, HeldStep, VerdictsStep, RemovedStep, MovesStep DEF IInv

LEMMA Invariance == Spec => []IInv
BY InitInv, Inductive, PTL DEF Spec

-----------------------------------------------------------------------------
\* transfer_call and transfer_attended return Ok only when no leg is left in
\* the call map, however polls, hangups and far ends raced the loop, and only
\* for a transfer the PBX carried out, if the gateway can tell.
THEOREM Succeeds == Spec => []Consistent
<1>1. IInv => Consistent
  BY DEF IInv, Removed, Consistent, OkEndsAllLegs
<1> QED BY <1>1, Invariance, PTL

\* A transfer that fails or times out has ended no leg that is still up: the
\* only legs it ends before it succeeds are those an answer reported gone.
THEOREM FailsHarmlessly == Spec => []ErrorKeepsCalls
<1>1. IInv => ErrorKeepsCalls
  BY DEF IInv, Moves, ErrorKeepsCalls
<1> QED BY <1>1, Invariance, PTL

-----------------------------------------------------------------------------
(* The ends of the legs. *)

\* A leg is in the call map, in the hands of the thread that removed it, or
\* reported: it is never two of these and never none.
Owners ==
  \A l \in legs :
    /\ l \in live <=> ending[l] = "none" /\ why[l] = "none"
    /\ ending[l] # "none" => why[l] = "none"

\* No report is taken back or made again.
Kept == \A l \in legs : why[l] # "none" => why'[l] = why[l]

LEMMA OwnersStep ==
  ASSUME IInv, Owners, [Next]_vars
  PROVE  Owners' /\ Kept
<1> USE LegsAssumption DEF IInv, TypeOK, Leg, legs, Owners, Kept, Reasons, Statuses, Held, api,
                           locals, engine, gateway
<1>1. CASE LoopStep
  <2>1. CASE ReferFails
    BY <2>1 DEF ReferFails, Return
  <2>2. CASE ReferAccepted
    BY <2>2 DEF ReferAccepted
  <2>3. CASE RoundBegins
    BY <2>3 DEF RoundBegins
  <2>4. CASE NoToken
    BY <2>4 DEF NoToken, Return
  <2>5. CASE AskLeg
    BY <2>5 DEF AskLeg, Answer
  <2>6. CASE SkipLeg
    BY <2>6 DEF SkipLeg
  <2>7. CASE LegGone
    BY <2>7 DEF LegGone, Gone, GoneReason, from_gateway, succeeded,
                end_call_locally, NextLeg, Return
  <2>8. CASE LegUp
    BY <2>8 DEF LegUp, NextLeg, succeeded
  <2>9. CASE LegFailed
    BY <2>9 DEF LegFailed, Failed, Return
  <2>10. CASE NoOutcome
    BY <2>10 DEF NoOutcome, end_call_locally, Return, succeeded
  <2>11. CASE AllTransferred
    BY <2>11 DEF AllTransferred, Return
  <2>12. CASE Settling
    BY <2>12 DEF Settling, succeeded
  <2>13. CASE Settled
    BY <2>13 DEF Settled, succeeded, end_call_locally, Return
  <2>14. CASE NoVerdict
    BY <2>14 DEF NoVerdict, Return, succeeded
  <2> QED
    BY <1>1, <2>1, <2>2, <2>3, <2>4, <2>5, <2>6, <2>7, <2>8, <2>9, <2>10,
       <2>11, <2>12, <2>13, <2>14 DEF LoopStep
<1>2. CASE SettlePasses \/ DeadlinePasses
  BY <1>2 DEF SettlePasses, DeadlinePasses
<1>3. ASSUME NEW l \in Leg, LegStep(l) PROVE Owners' /\ Kept
  <2>1. CASE PollAsks(l)
    BY <2>1 DEF PollAsks, Answer
  <2>2. CASE PollApplies(l)
    BY <2>2 DEF PollApplies, Remove, from_gateway
  <2>3. CASE hangup(l)
    BY <2>3 DEF hangup, Remove
  <2>4. CASE ReportEnded(l)
    BY <2>4 DEF ReportEnded
  <2>5. CASE HangUpAtGateway(l)
    BY <2>5 DEF HangUpAtGateway
  <2>6. CASE LegTransferred(l)
    BY <2>6 DEF LegTransferred
  <2>7. CASE RemoteEnds(l)
    BY <2>7 DEF RemoteEnds
  <2> QED BY <1>3, <2>1, <2>2, <2>3, <2>4, <2>5, <2>6, <2>7 DEF LegStep
<1>4. CASE TokenChanges \/ Verdict
  BY <1>4 DEF TokenChanges, Verdict
<1>5. CASE UNCHANGED vars
  BY <1>5 DEF vars
<1> QED BY <1>1, <1>2, <1>3, <1>4, <1>5 DEF Next

\* Each leg is reported ended once, for one reason, although the transfer, the
\* leg's poll and a hangup all look for it in the call map.
THEOREM EndedOnce == Spec => []Owners /\ [][Kept]_vars
<1>1. Init => Owners
  BY LegsAssumption DEF Init, Owners, legs, Leg
<1>2. IInv /\ Owners /\ [Next]_vars => Owners' /\ Kept
  BY OwnersStep
<1> QED BY <1>1, <1>2, Invariance, PTL DEF Spec

=============================================================================
