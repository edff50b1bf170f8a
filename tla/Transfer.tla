------------------------------ MODULE Transfer ------------------------------
(***************************************************************************)
(* transfer_call and transfer_attended: the REFER, and the loop of         *)
(* await_transfer_outcome that follows the transferred calls (one leg of a *)
(* blind transfer, two of an attended one) until the gateway reports an    *)
(* outcome, while each leg's own status poll, a hangup by the user and the *)
(* far ends go on as ever.  Whoever removes a leg from the call map reports*)
(* its end, with the reason it found.                                      *)
(*                                                                         *)
(* The gateway is outside the repository; it is modelled from the answers  *)
(* src/src/gateway_client.rs and src/src/lib.rs expect of it.              *)
(***************************************************************************)
EXTENDS Naturals, FiniteSets

CONSTANT LEGS       \* the most legs a transfer has

ASSUME LegsAssumption == LEGS \in Nat \ {0}

Leg == 1 .. LEGS

VARIABLES
  n,           \* the legs of this transfer are 1 .. n
  loop,        \* where the transferring thread is
  i,           \* the leg it is at
  answer,      \* the status answer it holds
  result,      \* what the API call returned
  transferred, \* the legs it has seen end as transferred
  settle,      \* settle_by: not set, running, passed
  late,        \* the transfer's deadline has passed
  live,        \* legs in the call map
  ending,      \* ending[l]: reason held by the thread that removed the leg
  moved,       \* legs the transfer itself has ended
  why,         \* why[l]: the reason reported with Ended
  poll,        \* poll[l]: the status the leg's own poll has in hand
  hup,         \* hup[l]: the background hang_up_at_gateway of leg l: to be done, or
               \* failed (what the app hears of that is OutgoingCall's)
  gw,          \* gw[l]: the leg at the gateway, or why it ended there
  verdict,     \* the transfer at the gateway
  reporting,   \* the gateway reports transfer outcomes
  token        \* the gateway accepts the current token (it may be missing too)

locals  == <<i, answer, transferred, settle, late>>
api     == <<loop, result, locals>>
engine  == <<live, ending, moved, why, poll, hup>>
gateway == <<gw, verdict, reporting, token>>
vars    == <<n, api, engine, gateway>>

legs    == 1 .. n
Reasons == {"Transferred", "RemoteHangup", "LocalHangup"}
None    == [status |-> "none", transfer |-> "none"]
Statuses == {"none", "active", "transferred", "bye"}
Answers == [status : Statuses,
            transfer : {"none", "pending", "failed", "timeout"}]

TypeOK ==
  /\ n \in Leg
  /\ loop \in {"refer", "asleep", "asking", "answered", "returned"}
  /\ i \in 1 .. n + 1
  /\ answer \in Answers
  /\ result \in {"none", "Ok", "RequestFailed", "InvalidState", "CallFailed", "Timeout",
                 "AuthenticationError"}
  /\ transferred \subseteq legs
  /\ settle \in {"unset", "running", "passed"} /\ late \in BOOLEAN
  /\ live \subseteq legs
  /\ ending \in [Leg -> Reasons \cup {"none"}]
  /\ moved \subseteq legs
  /\ why \in [Leg -> Reasons \cup {"none"}]
  /\ poll \in [Leg -> Statuses \ {"active"}]
  /\ hup \in [Leg -> {"none", "todo", "failed"}]
  /\ gw \in [Leg -> {"up", "transferred", "bye"}]
  /\ verdict \in {"none", "pending", "failed", "timeout", "transferred"}
  /\ reporting \in BOOLEAN /\ token \in BOOLEAN

\* Both legs are connected when the transfer is asked for.
Init ==
  /\ n \in Leg
  /\ loop = "refer" /\ i = 1 /\ answer = None /\ result = "none"
  /\ transferred = {} /\ settle = "unset" /\ late = FALSE
  /\ live = legs
  /\ ending = [l \in Leg |-> "none"] /\ moved = {}
  /\ why = [l \in Leg |-> "none"]
  /\ poll = [l \in Leg |-> "none"] /\ hup = [l \in Leg |-> "none"]
  /\ gw = [l \in Leg |-> "up"] /\ verdict = "none"
  /\ reporting \in BOOLEAN /\ token = TRUE

-----------------------------------------------------------------------------
(* Ending a leg. *)

Gone(status) == status \in {"transferred", "bye"}

\* EndReason::from_gateway.
from_gateway(status) == IF status = "transferred" THEN "Transferred" ELSE "RemoteHangup"

\* end_call_locally by the transfer, for each leg of ls it still finds in the
\* map.  (Nobody else touches a leg between its removal and its report.)
end_call_locally(ls, reason) ==
  /\ live' = live \ ls
  /\ moved' = moved \cup (ls \cap live)
  /\ why' = [l \in Leg |-> IF l \in ls \cap live THEN reason ELSE why[l]]

\* Another thread removes a leg from the map and has its end to report.
Remove(l, reason) ==
  /\ live' = live \ {l}
  /\ ending' = [ending EXCEPT ![l] = reason]

\* The API call returns; its locals are gone.
Return(r) == /\ loop' = "returned" /\ result' = r
             /\ i' = 1 /\ answer' = None /\ transferred' = {}
             /\ settle' = "unset" /\ late' = FALSE

-----------------------------------------------------------------------------
(* transfer_call and transfer_attended. *)

\* No token, or the request fails; a lost response may have been a 202.
ReferFails ==
  /\ loop = "refer"
  /\ Return("RequestFailed")
  /\ \/ UNCHANGED verdict
     \/ verdict' = "pending" /\ token /\ \A l \in legs : gw[l] = "up"
  /\ UNCHANGED <<n, engine, gw, reporting, token>>

ReferAccepted ==
  /\ loop = "refer" /\ token /\ \A l \in legs : gw[l] = "up"
  /\ loop' = "asleep" /\ verdict' = "pending"
  /\ UNCHANGED <<n, result, locals, engine, gw, reporting, token>>

\* A round of the loop: the legs not yet seen transferred, in order.
RoundBegins ==
  /\ loop = "asleep" /\ loop' = "asking" /\ i' = 1
  /\ UNCHANGED <<n, result, answer, transferred, settle, late, engine, gateway>>

\* There is no token for the round, or the gateway rejects the one the round
\* began with (whatever has become of the current one since).
NoToken ==
  /\ \/ loop = "asleep" /\ ~token
     \/ loop = "asking" /\ i \in legs \ transferred
  /\ Return("AuthenticationError")
  /\ UNCHANGED <<n, engine, gateway>>

\* What GET /v1/calls/{token}/status answers for leg l.
Answer(l) ==
  [status   |-> IF gw[l] = "up" THEN "active" ELSE gw[l],
   transfer |-> IF gw[l] # "up" \/ ~reporting THEN "none"
                ELSE IF verdict \in {"failed", "timeout"} THEN verdict ELSE "pending"]

AskLeg ==
  /\ loop = "asking" /\ i \in legs \ transferred
  /\ loop' = "answered" /\ answer' = Answer(i)
  /\ UNCHANGED <<n, result, i, transferred, settle, late, engine, gateway>>

\* The leg was transferred, or the request for its status failed.
SkipLeg ==
  /\ loop = "asking" /\ i \in legs
  /\ i' = i + 1
  /\ UNCHANGED <<n, loop, result, answer, transferred, settle, late, engine, gateway>>

NextLeg == loop' = "asking" /\ i' = i + 1 /\ answer' = None

succeeded == transferred # {}

\* Once a leg was transferred, the end of another is the transfer completing.
GoneReason(status) == IF succeeded THEN "Transferred" ELSE from_gateway(status)

LegGone ==
  /\ loop = "answered" /\ Gone(answer.status)
  /\ end_call_locally({i}, GoneReason(answer.status))
  /\ IF GoneReason(answer.status) = "Transferred"
     THEN NextLeg /\ transferred' = transferred \cup {i} /\ UNCHANGED <<result, settle, late>>
     ELSE Return("InvalidState")
  /\ UNCHANGED <<n, ending, poll, hup, gateway>>

\* Still up: wait on, or for the others to settle.
LegUp ==
  /\ loop = "answered" /\ answer.status = "active"
  /\ succeeded \/ answer.transfer = "pending"
  /\ NextLeg
  /\ UNCHANGED <<n, result, transferred, settle, late, engine, gateway>>

\* (Mutant: the calls are ended whatever the outcome.)
Failed == /\ loop = "answered" /\ answer.status = "active" /\ ~succeeded
          /\ \/ answer.transfer = "failed" /\ Return("CallFailed")
             \/ answer.transfer = "timeout" /\ Return("Timeout")
mut_LegFailed ==
  /\ Failed
  /\ end_call_locally(legs, "Transferred")
  /\ UNCHANGED <<n, ending, poll, hup, gateway>>
LegFailed == Failed /\ UNCHANGED <<n, engine, gateway>>

\* A gateway that does not report outcomes: the 202 is all there is.
NoOutcome ==
  /\ loop = "answered" /\ answer.status = "active" /\ ~succeeded
  /\ answer.transfer = "none"
  /\ end_call_locally(legs, "Transferred")
  /\ Return("Ok")
  /\ UNCHANGED <<n, ending, poll, hup, gateway>>

\* The end of a round.  (Mutant: one transferred leg is enough.)
mut_AllTransferred ==
  /\ loop = "asking" /\ i > n /\ succeeded
  /\ Return("Ok")
  /\ UNCHANGED <<n, engine, gateway>>
AllTransferred ==
  /\ loop = "asking" /\ i > n /\ transferred = legs
  /\ Return("Ok")
  /\ UNCHANGED <<n, engine, gateway>>

Settling ==
  /\ loop = "asking" /\ i > n /\ succeeded /\ transferred # legs /\ settle # "passed"
  /\ loop' = "asleep" /\ settle' = IF settle = "unset" THEN "running" ELSE settle
  /\ UNCHANGED <<n, result, i, answer, transferred, late, engine, gateway>>

\* Mutant: a leg left up is ended here only.
mut_Settled ==
  /\ loop = "asking" /\ i > n /\ succeeded /\ transferred # legs /\ settle = "passed"
  /\ end_call_locally(legs \ transferred, "Transferred")
  /\ Return("Ok")
  /\ UNCHANGED <<n, ending, poll, hup, gateway>>

\* end_transferred_leg for each leg still up: here, and at the gateway.
Settled ==
  /\ loop = "asking" /\ i > n /\ succeeded /\ transferred # legs /\ settle = "passed"
  /\ end_call_locally(legs \ transferred, "Transferred")
  /\ hup' = [l \in Leg |-> IF l \in live \ transferred THEN "todo" ELSE hup[l]]
  /\ Return("Ok")
  /\ UNCHANGED <<n, ending, poll, gateway>>

\* (Mutant: the deadline is not looked at.)
mut_NoVerdict ==
  /\ loop = "asking" /\ i > n /\ ~succeeded
  /\ loop' = "asleep"
  /\ UNCHANGED <<n, result, locals, engine, gateway>>
NoVerdict ==
  /\ loop = "asking" /\ i > n /\ ~succeeded
  /\ IF late THEN Return("Timeout") ELSE loop' = "asleep" /\ UNCHANGED <<result, locals>>
  /\ UNCHANGED <<n, engine, gateway>>

SettlePasses ==
  /\ settle = "running" /\ settle' = "passed"
  /\ UNCHANGED <<n, loop, result, i, answer, transferred, late, engine, gateway>>

DeadlinePasses ==
  /\ loop \notin {"refer", "returned"} /\ ~late /\ late' = TRUE
  /\ UNCHANGED <<n, loop, result, i, answer, transferred, settle, engine, gateway>>

-----------------------------------------------------------------------------
(* The legs' own threads: start_call_status_poll, hangup, background hangups. *)

\* (An answer that the leg is up changes nothing.)
PollAsks(l) ==
  /\ l \in live /\ poll[l] = "none" /\ token /\ gw[l] # "up"
  /\ poll' = [poll EXCEPT ![l] = Answer(l).status]
  /\ UNCHANGED <<n, api, live, ending, moved, why, hup, gateway>>

\* Mutant: a transferred leg is left to the transfer to end.
mut_PollApplies(l) ==
  /\ poll[l] # "none" /\ poll' = [poll EXCEPT ![l] = "none"]
  /\ IF l \in live /\ poll[l] = "bye" THEN Remove(l, from_gateway(poll[l]))
                                      ELSE UNCHANGED <<live, ending>>
  /\ UNCHANGED <<n, api, moved, why, hup, gateway>>

\* The leg may have been removed since.
PollApplies(l) ==
  /\ poll[l] # "none" /\ poll' = [poll EXCEPT ![l] = "none"]
  /\ IF l \in live THEN Remove(l, from_gateway(poll[l]))
                                    ELSE UNCHANGED <<live, ending>>
  /\ UNCHANGED <<n, api, moved, why, hup, gateway>>

\* With no token the gateway is not asked, and hangup throws.
hangup(l) ==
  /\ l \in live /\ Remove(l, "LocalHangup")
  /\ \/ hup' = [hup EXCEPT ![l] = "todo"]
     \/ ~token /\ hup' = [hup EXCEPT ![l] = "failed"]
  /\ UNCHANGED <<n, api, moved, why, poll, gateway>>

\* The poll, or hangup, reports the leg it has removed.
ReportEnded(l) ==
  /\ ending[l] # "none"
  /\ why' = [why EXCEPT ![l] = ending[l]] /\ ending' = [ending EXCEPT ![l] = "none"]
  /\ UNCHANGED <<n, api, live, moved, poll, hup, gateway>>

\* hang_up_at_gateway (OutgoingCall has its detail).
HangUpAtGateway(l) ==
  /\ hup[l] = "todo"
  /\ \/ /\ gw[l] = "up" /\ token
        /\ gw' = [gw EXCEPT ![l] = "bye"] /\ hup' = [hup EXCEPT ![l] = "none"]
     \/ hup' = [hup EXCEPT ![l] = "failed"] /\ UNCHANGED gw
  /\ UNCHANGED <<n, api, live, ending, moved, why, poll, verdict, reporting, token>>

\* set_gateway_token, and the token's expiry.
TokenChanges ==
  /\ token' = ~token
  /\ UNCHANGED <<n, api, engine, gw, verdict, reporting>>

-----------------------------------------------------------------------------
(* The gateway and the PBX. *)

Verdict ==
  /\ verdict = "pending"
  /\ \/ verdict' \in {"failed", "timeout"}
     \/ verdict' = "transferred" /\ \A l \in legs : gw[l] = "up"
  /\ UNCHANGED <<n, api, engine, gw, reporting, token>>

\* The PBX drops this phone from a transferred leg.  The first leg to go ends
\* as transferred; the other may be reported as an ordinary BYE.
LegTransferred(l) ==
  /\ l \in legs /\ verdict = "transferred" /\ gw[l] = "up"
  /\ \/ gw' = [gw EXCEPT ![l] = "transferred"]
     \/ "transferred" \in {gw[m] : m \in legs} /\ gw' = [gw EXCEPT ![l] = "bye"]
  /\ UNCHANGED <<n, api, engine, verdict, reporting, token>>

RemoteEnds(l) ==
  /\ l \in legs /\ verdict # "transferred" /\ gw[l] = "up"
  /\ gw' = [gw EXCEPT ![l] = "bye"]
  /\ UNCHANGED <<n, api, engine, verdict, reporting, token>>

-----------------------------------------------------------------------------
LoopStep == \/ ReferFails \/ ReferAccepted \/ RoundBegins \/ NoToken \/ AskLeg \/ SkipLeg
            \/ LegGone \/ LegUp \/ LegFailed \/ NoOutcome
            \/ AllTransferred \/ Settling \/ Settled \/ NoVerdict
LegStep(l) == \/ PollAsks(l) \/ PollApplies(l) \/ hangup(l) \/ ReportEnded(l)
              \/ HangUpAtGateway(l) \/ LegTransferred(l) \/ RemoteEnds(l)

Next == \/ LoopStep \/ SettlePasses \/ DeadlinePasses
        \/ \E l \in Leg : LegStep(l)
        \/ TokenChanges \/ Verdict

Spec == Init /\ [][Next]_vars

\* The transferring thread runs and its requests end, time passes, threads
\* that removed a leg report it, tasks run.  A poll asks again and again and
\* is answered, provided that the token is not replaced by a bad one forever.
Fairness ==
  /\ WF_vars(LoopStep) /\ WF_vars(SettlePasses) /\ WF_vars(DeadlinePasses)
  /\ \A l \in Leg : /\ SF_vars(PollAsks(l)) /\ WF_vars(PollApplies(l))
                    /\ WF_vars(ReportEnded(l)) /\ WF_vars(HangUpAtGateway(l))

FairSpec == Spec /\ Fairness

-----------------------------------------------------------------------------
\* "A failed or timed-out transfer emits nothing; both calls stay up": when
\* the API reports an error it has ended no leg that is still up, whatever
\* ends and verdicts it saw, in whatever order.
ErrorKeepsCalls == result \notin {"none", "Ok"} => \A l \in moved : gw[l] # "up"

\* A transfer reported successful leaves no leg of it in the call map.
OkEndsAllLegs == result = "Ok" => live = {}

\* It is reported successful only if the PBX carried it out, or if the
\* gateway has no way to say: the end of a leg for another reason, before or
\* after the deadline, is not taken for it.
OkMeansTransferred == result = "Ok" => verdict = "transferred" \/ ~reporting

\* A transfer that returns Ok has succeeded, here and at the PBX.
Consistent == TypeOK /\ OkEndsAllLegs /\ OkMeansTransferred

\* "Success: both calls end, each reported Ended once with reason
\* Transferred", but for a leg the user hung up meanwhile.
EndedAsTransferred ==
  result = "Ok" /\ reporting =>
    \A l \in legs : why[l] \in {"none", "Transferred", "LocalHangup"}

\* The blocking call returns, whatever the legs and the gateway do.
TransferReturns == <>(loop = "returned")

\* A leg of a successful transfer, which the app no longer has, does not stay
\* up at the gateway unless a hangup was sent for it and failed.
SucceededIsNotLeftUp ==
  (result = "Ok" /\ reporting) ~> \A l \in legs : gw[l] # "up" \/ hup[l] = "failed"

\* A leg its far end has left is reported Ended, whether its transfer still
\* runs, has failed or has given up, and whoever of poll, hangup and transfer
\* removes it, where the app keeps supplying tokens.
RemoteEndReported == []<>token =>
  []<>(\A l \in legs : gw[l] # "up" => why[l] # "none")

=============================================================================
