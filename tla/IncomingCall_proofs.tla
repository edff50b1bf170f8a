------------------------ MODULE IncomingCall_proofs ------------------------
(***************************************************************************)
(* Theorems about an incoming call, for any number of pushes, accepts and  *)
(* watches and any environments.  Those on what the app is told suppose    *)
(* that a repeated push finds the watch of the first: one that had fetched *)
(* the offer and comes to watch it only after that watch has ended starts  *)
(* another, with a CallEvents of its own.                                  *)
(***************************************************************************)
EXTENDS IncomingCall, TLAPS

-----------------------------------------------------------------------------
(* Whatever the number of pushes. *)

\* An accept in progress is the only one, with no call connected meanwhile,
\* and has had its CallEvents since it was sent.
Accepts ==
  /\ accept.at # "idle" => accept.n # 0 /\ ~connected
  /\ accept.at \in {"sent", "cleared", "unknown"} => accept.ev # 0
  /\ connected => accept.ev # 0
  /\ accept.at \in {"reserved", "got"} => accept.reply = "none"

IInv == TypeOK /\ AcceptingIsAnswering /\ Accepts

-----------------------------------------------------------------------------
(* With repeated pushes that find the call watched. *)

PushFindsWatch ==
  \A p \in 1 .. PUSHES : push[p] = "got" /\ push'[p] = "done" => Watched \/ watches = 0

\* However often the call is pushed, only its first push starts a watch.
RepeatsFindWatch == [][PushFindsWatch]_vars

\* The accept that takes the call takes its watch with it, for good: a push has
\* watched the call before the app can accept it.
Taken ==
  /\ (\E p \in 1 .. PUSHES : push[p] = "done") \/ accept.at # "idle" \/ connected \/ Watched
       => watches # 0
  /\ accept.at = "cleared" \/ connected => ~Watched

ShownInv == Taken /\ ConnectedIsShown

-----------------------------------------------------------------------------
(* And where no reply to an accept is lost. *)

\* The state of the call at the gateway does not go back to ringing, and a
\* confirmed reject or a stale status answer says what is still true of it.
Gateway ==
  /\ reject => gw = "gone"
  /\ \A w \in Watch : poll[w].status \in {"active", "ended", "unknown"} => gw # "offered"
  /\ accept.reply = "ok" => gw # "offered"
  /\ accept.at = "cleared" \/ connected => gw # "offered"

\* No accept is left without a reply, and one that finds a watch reports on
\* the CallEvents of that watch.
Replied ==
  /\ accept.reply # "lost" /\ accept.at # "unknown"
  /\ Answering /\ Watched => accept.ev = entry.id

\* Once the app has been told that the call has ended nobody is left to tell
\* it more: no watch, no connected call, and the accept that still gets its
\* 200 finds the CallEvents it shares closed.
Over ==
  shown = "Ended" =>
    /\ gw # "offered" /\ watches # 0
    /\ ~connected /\ ~Watched
    /\ (Answering /\ accept.reply = "ok") \/ accept.at = "cleared" => accept.ev \in ended

\* The endings counted are those shown.
Counted == ends = IF shown = "Ended" THEN 1 ELSE 0

ContractInv == ~ReplyMayBeLost => Gateway /\ Replied /\ Over /\ Counted

-----------------------------------------------------------------------------
(* Types. *)

AcceptState == [at : {"idle", "reserved", "got", "sent", "cleared", "unknown"},
                n : 0 .. ACCEPTS, ev : {0} \cup CallEvents,
                reply : {"none", "ok", "refused", "lost"}]
EntryState == [id : {0} \cup Watch, accepting : BOOLEAN, abandoned : BOOLEAN,
               rejected : BOOLEAN]
PollState == [at : {"off", "asleep", "answered", "rejecting"},
              status : {"none", "ringing", "active", "ended", "unknown"},
              unknowns : 0 .. UNKNOWN_STATUSES_BEFORE_ENDED, stop : BOOLEAN]

LEMMA Stopped == Idle \in PollState /\ None \in EntryState
BY DEF Idle, None, PollState, EntryState, UNKNOWN_STATUSES_BEFORE_ENDED

LEMMA EmitType ==
  ASSUME TypeOK, NEW e \in CallEvents, EmitEnded(e)
  PROVE  ended' \subseteq CallEvents /\ shown' \in {"None", "Connected", "Ended"} /\ ends' \in Nat
BY DEF TypeOK, EmitEnded, events

LEMMA WatchType ==
  ASSUME TypeOK, NEW b \in BOOLEAN, watch_incoming(b)
  PROVE  entry' \in EntryState /\ poll' \in [Watch -> PollState] /\ watches' \in 0 .. MAX_WATCHES
<1> USE DEF TypeOK, EntryState, PollState
<1>1. CASE Watched
  <2>1. entry' = [entry EXCEPT !.abandoned = entry.abandoned \/ b,
                               !.accepting = entry.accepting /\ ~b]
    BY <1>1 DEF watch_incoming
  <2>2. entry' \in EntryState
    BY <2>1
  <2> QED BY <1>1, <2>2 DEF watch_incoming
<1>2. CASE ~Watched
  <2>1. watches + 1 \in Watch
    BY <1>2, BoundsAssumption DEF watch_incoming, Watch
  <2>2. entry' \in EntryState
    BY <1>2, <2>1 DEF watch_incoming, None
  <2>3. poll' \in [Watch -> PollState]
    <3> DEFINE new == [poll[watches + 1] EXCEPT !.at = "asleep"]
    <3>1. new \in PollState
      <4>1. poll[watches + 1] \in PollState
        BY <2>1
      <4> QED BY ONLY <4>1 DEF PollState
    <3>2. poll' = [poll EXCEPT ![watches + 1] = new]
      BY <1>2 DEF watch_incoming
    <3> HIDE DEF new
    <3> QED BY <3>1, <3>2
  <2> QED BY <1>2, <2>1, <2>2, <2>3, BoundsAssumption DEF watch_incoming, Watch
<1> QED BY <1>1, <1>2

LEMMA WatchStatus ==
  ASSUME TypeOK, NEW b \in BOOLEAN, watch_incoming(b)
  PROVE  \A v \in Watch : poll'[v].status = poll[v].status
<1> SUFFICES ASSUME NEW v \in Watch PROVE poll'[v].status = poll[v].status
  OBVIOUS
<1>1. poll \in [Watch -> PollState]
  BY DEF TypeOK, PollState
<1> QED BY <1>1 DEF watch_incoming, PollState

LEMMA TakeType ==
  ASSUME TypeOK, take_pending_incoming
  PROVE  entry' \in EntryState /\ poll' \in [Watch -> PollState]
<1> USE DEF TypeOK, take_pending_incoming
<1>1. entry' \in EntryState
  BY Stopped
<1>2. CASE Watched
  <2> DEFINE told_to_stop == [poll[entry.id] EXCEPT !.stop = TRUE]
  <2>1. entry.id \in Watch
    BY <1>2 DEF Watched
  <2>2. told_to_stop \in PollState
    <3>1. poll[entry.id] \in PollState
      BY <2>1 DEF PollState
    <3> QED BY <3>1, Zenon DEF PollState
  <2>3. poll' = [poll EXCEPT ![entry.id] = told_to_stop]
    BY <1>2
  <2> HIDE DEF told_to_stop
  <2>4. poll \in [Watch -> PollState]
    BY DEF PollState
  <2>5. poll' \in [Watch -> PollState]
    BY <2>2, <2>3, <2>4
  <2> QED BY <1>1, <2>5
<1>3. CASE ~Watched
  BY <1>1, <1>3 DEF PollState
<1> QED BY <1>2, <1>3

LEMMA InitInv == Init => IInv
<1> SUFFICES ASSUME Init PROVE IInv
  OBVIOUS
<1> USE BoundsAssumption DEF Init
<1>1. accept \in AcceptState
  BY DEF AcceptState
<1>2. poll \in [Watch -> PollState] /\ entry \in EntryState
  BY Stopped
<1>3. push \in [1 .. PUSHES -> {"idle", "got", "done"}] /\ watches \in 0 .. MAX_WATCHES
  OBVIOUS
<1>4. TypeOK
  <2>1. hangup \in [CallEvents -> Hangups]
    BY DEF Hangups
  <2> QED BY <1>1, <1>2, <1>3, <2>1 DEF TypeOK, AcceptState, EntryState, PollState
<1>5. AcceptingIsAnswering /\ Accepts
  BY DEF AcceptingIsAnswering, None, Accepts
<1> QED BY <1>4, <1>5 DEF IInv

LEMMA TypeStep ==
  ASSUME IInv, [Next]_vars
  PROVE  TypeOK'
<1> USE DEF IInv, TypeOK, Accepts, events
<1>1. ASSUME NEW p \in 1 .. PUSHES, PushGetsOffer(p) \/ PushWatches(p)
      PROVE  TypeOK'
  <2>1. CASE PushGetsOffer(p)
    BY <2>1 DEF PushGetsOffer
  <2>2. CASE PushWatches(p)
    <3>1. watch_incoming(FALSE) /\ FALSE \in BOOLEAN
      BY <2>2 DEF PushWatches
    <3>2. entry' \in EntryState /\ poll' \in [Watch -> PollState] /\ watches' \in 0 .. MAX_WATCHES
      BY <3>1, WatchType
    <3> QED
      BY <2>2, <3>1, <3>2 DEF PushWatches, AcceptState, EntryState, PollState
  <2> QED BY <1>1, <2>1, <2>2
<1>2. CASE reserve_accept
  <2>1. accept.n + 1 \in 0 .. ACCEPTS
    BY <1>2, BoundsAssumption DEF reserve_accept
  <2>2. accept' \in AcceptState
    BY <1>2, <2>1 DEF reserve_accept, AcceptState
  <2> QED
    BY <1>2, <2>1, <2>2 DEF reserve_accept, AcceptState, EntryState, PollState
<1>3. CASE AcceptGetsOffer
  BY <1>3 DEF AcceptGetsOffer
<1>4. CASE AcceptFails
  BY <1>4 DEF AcceptFails
<1>5. CASE SendAnswer
  <2> DEFINE ev == IF Watched THEN entry.id ELSE MAX_WATCHES + accept.n
  <2>1. ev \in CallEvents
    BY <1>5, BoundsAssumption DEF SendAnswer, Watched, Watch, CallEvents
  <2>2. accept' = [accept EXCEPT !.at = "sent", !.ev = ev]
    BY <1>5 DEF SendAnswer
  <2> HIDE DEF ev
  <2>3. accept' \in AcceptState
    BY <2>1, <2>2 DEF AcceptState
  <2>4. entry' \in EntryState
    BY <1>5 DEF SendAnswer, EntryState
  <2>5. accept.n \in Attempt
    BY <1>5, BoundsAssumption DEF SendAnswer, Attempt
  <2> QED
    BY <1>5, <2>3, <2>4, <2>5 DEF SendAnswer, AcceptState, EntryState, PollState
<1>6. CASE AcceptStep
  <2>1. CASE AnswerRefused
    BY <2>1 DEF AnswerRefused
  <2>2. CASE AnswerUnknown
    <3>1. watch_incoming(TRUE) /\ TRUE \in BOOLEAN
      BY <2>2 DEF AnswerUnknown
    <3>2. entry' \in EntryState /\ poll' \in [Watch -> PollState] /\ watches' \in 0 .. MAX_WATCHES
      BY <3>1, WatchType
    <3> QED
      BY <2>2, <3>1, <3>2 DEF AnswerUnknown, AcceptState, EntryState, PollState
  <2>3. CASE UnknownReported
    <3>1. EmitEnded(accept.ev) /\ accept.ev \in CallEvents
      BY <2>3 DEF UnknownReported
    <3>2. ended' \subseteq CallEvents /\ shown' \in {"None", "Connected", "Ended"} /\ ends' \in Nat
      BY <3>1, EmitType
    <3> QED
      BY <2>3, <3>1, <3>2 DEF UnknownReported, AcceptState, EntryState, PollState
  <2>4. CASE AnswerAccepted
    <3>1. entry' \in EntryState /\ poll' \in [Watch -> PollState]
      BY <2>4, TakeType DEF AnswerAccepted
    <3> QED
      BY <2>4, <3>1 DEF AnswerAccepted, AcceptState, EntryState, PollState
  <2>5. CASE Connect
    <3>1. hangup' \in [CallEvents -> Hangups]
      BY <2>5 DEF Connect, hang_up, Hangups
    <3> QED BY <2>5, <3>1 DEF Connect, AcceptState, EntryState, PollState
  <2> QED BY <1>6, <2>1, <2>2, <2>3, <2>4, <2>5 DEF AcceptStep
<1>7. CASE HangUp
  <2>1. EmitEnded(accept.ev) /\ accept.ev \in CallEvents
    BY <1>7 DEF HangUp
  <2>2. ended' \subseteq CallEvents /\ shown' \in {"None", "Connected", "Ended"} /\ ends' \in Nat
    BY <2>1, EmitType
  <2>3. hangup' \in [CallEvents -> Hangups]
    BY <1>7 DEF HangUp, hang_up, Hangups
  <2> QED
    BY <1>7, <2>1, <2>2, <2>3 DEF HangUp, AcceptState, EntryState, PollState
<1>8. CASE PollEnds
  <2>1. EmitEnded(accept.ev) /\ accept.ev \in CallEvents
    BY <1>8 DEF PollEnds
  <2>2. ended' \subseteq CallEvents /\ shown' \in {"None", "Connected", "Ended"} /\ ends' \in Nat
    BY <2>1, EmitType
  <2> QED
    BY <1>8, <2>1, <2>2 DEF PollEnds, AcceptState, EntryState, PollState
<1>9. ASSUME NEW e \in CallEvents, HangUpAtGateway(e)
      PROVE  TypeOK'
  <2>1. hangup' \in [CallEvents -> Hangups] /\ gw' \in {"offered", "up", "elsewhere", "gone"}
    BY <1>9 DEF HangUpAtGateway, Hangups
  <2> QED
    BY <1>9, <2>1 DEF HangUpAtGateway, AcceptState, EntryState, PollState
<1>10. CASE GatewayRejects
  BY <1>10 DEF GatewayRejects
<1>11. CASE RejectReported
  <2>1. entry' \in EntryState /\ poll' \in [Watch -> PollState]
    BY <1>11, TakeType DEF RejectReported
  <2>2. Watched => entry.id \in CallEvents
    BY BoundsAssumption DEF Watched, Watch, CallEvents
  <2>3. ended' \subseteq CallEvents /\ shown' \in {"None", "Connected", "Ended"} /\ ends' \in Nat
    BY <1>11, <2>2, EmitType DEF RejectReported
  <2> QED
    BY <1>11, <2>1, <2>2, <2>3 DEF RejectReported, AcceptState, EntryState, PollState
<1>12. ASSUME NEW w \in Watch, PollStep(w)
      PROVE  TypeOK'
  <2>1. CASE PollAsks(w)
    <3>1. poll[w] \in PollState /\ Statuses(w) \subseteq {"ringing", "active", "ended", "unknown"}
      BY DEF PollState, Statuses
    <3>2. PICK status \in Statuses(w) :
            poll' = [poll EXCEPT ![w].at = "answered", ![w].status = status]
      BY <2>1 DEF PollAsks
    <3> DEFINE answered == [poll[w] EXCEPT !.at = "answered", !.status = status]
    <3>3. answered \in PollState /\ poll' = [poll EXCEPT ![w] = answered]
      BY <3>1, <3>2 DEF PollState
    <3> HIDE DEF answered
    <3>4. poll' \in [Watch -> PollState]
      BY <3>3 DEF PollState
    <3> QED
      BY <2>1, <3>4 DEF PollAsks, AcceptState, EntryState, PollState
  <2>2. CASE PollStops(w)
    <3>1. poll' \in [Watch -> PollState]
      BY <2>2, Stopped DEF PollStops, PollState
    <3> QED
      BY <2>2, <3>1 DEF PollStops, AcceptState, EntryState, PollState
  <2>3. CASE PollFindsNothing(w)
    <3>1. poll' \in [Watch -> PollState]
      BY <2>3, Stopped DEF PollFindsNothing, PollState
    <3> QED
      BY <2>3, <3>1 DEF PollFindsNothing, AcceptState, EntryState, PollState
  <2>4. CASE PollFindsActive(w)
    <3>1. entry' \in EntryState /\ poll' \in [Watch -> PollState]
      BY <2>4, Stopped DEF PollFindsActive, PollState
    <3>2. entry.id \in CallEvents
      BY <2>4, BoundsAssumption DEF PollFindsActive, Watched, Watch, CallEvents
    <3>3. ended' \subseteq CallEvents /\ shown' \in {"None", "Connected", "Ended"} /\ ends' \in Nat
      BY <2>4, <3>2, EmitType DEF PollFindsActive
    <3>4. hangup' \in [CallEvents -> Hangups]
      BY <2>4 DEF PollFindsActive, Hangups
    <3> QED
      BY <2>4, <3>1, <3>2, <3>3, <3>4 DEF PollFindsActive, AcceptState, EntryState, PollState
  <2>5. CASE PollFindsGone(w)
    <3>1. entry' \in EntryState /\ poll' \in [Watch -> PollState]
      BY <2>5, Stopped DEF PollFindsGone, PollState
    <3>2. entry.id \in CallEvents
      BY <2>5, BoundsAssumption DEF PollFindsGone, Watched, Watch, CallEvents
    <3>3. ended' \subseteq CallEvents /\ shown' \in {"None", "Connected", "Ended"} /\ ends' \in Nat
      BY <2>5, <3>2, EmitType DEF PollFindsGone
    <3> QED
      BY <2>5, <3>1, <3>2, <3>3 DEF PollFindsGone, AcceptState, EntryState, PollState
  <2>6. CASE PollContinues(w)
    <3>1. unknown_streak(w) \in 0 .. UNKNOWN_STATUSES_BEFORE_ENDED
      BY <2>6 DEF PollContinues, is_gone, unknown_streak, UNKNOWN_STATUSES_BEFORE_ENDED
    <3>2. Asleep(w) \in PollState
      <4>1. poll[w] \in PollState
        BY DEF PollState
      <4> QED BY <3>1, <4>1, Zenon DEF Asleep, PollState
    <3>3. [Asleep(w) EXCEPT !.at = "rejecting"] \in PollState
      BY <3>2 DEF PollState
    <3>4. poll' \in [Watch -> PollState]
      BY <2>6, <3>2, <3>3 DEF PollContinues, PollState
    <3>5. entry' \in EntryState
      BY <2>6 DEF PollContinues, EntryState
    <3> QED
      BY <2>6, <3>4, <3>5 DEF PollContinues, AcceptState, EntryState, PollState
  <2>7. CASE PollRejects(w)
    <3>1. poll' \in [Watch -> PollState]
      BY <2>7 DEF PollRejects, PollState
    <3> QED
      BY <2>7, <3>1 DEF PollRejects, AcceptState, EntryState, PollState
  <2> QED BY <1>12, <2>1, <2>2, <2>3, <2>4, <2>5, <2>6, <2>7 DEF PollStep
<1>13. ASSUME NEW n \in Attempt, GatewayGetsAnswer(n) \/ GatewayRefuses(n)
      PROVE  TypeOK'
  <2>1. CASE GatewayGetsAnswer(n)
    BY <2>1 DEF GatewayGetsAnswer
  <2>2. CASE GatewayRefuses(n)
    BY <2>2 DEF GatewayRefuses
  <2> QED BY <1>13, <2>1, <2>2
<1>14. CASE AcceptReplyLost
  BY <1>14 DEF AcceptReplyLost
<1>15. CASE OtherDeviceAnswers
  BY <1>15 DEF OtherDeviceAnswers
<1>16. CASE RemoteEnds
  BY <1>16 DEF RemoteEnds
<1>17. CASE UNCHANGED vars
  BY <1>17 DEF vars
<1> QED
  BY <1>1, <1>2, <1>3, <1>4, <1>5, <1>6, <1>7, <1>8, <1>9, <1>10, <1>11,
     <1>12, <1>13, <1>14, <1>15, <1>16, <1>17 DEF Next

LEMMA AcceptsStep ==
  ASSUME IInv, [Next]_vars
  PROVE  (AcceptingIsAnswering /\ Accepts)'
<1> USE BoundsAssumption DEF IInv, TypeOK, AcceptingIsAnswering, Accepts, Answering,
            CallEvents, Attempt, None, events
<1>1. ASSUME NEW p \in 1 .. PUSHES, PushGetsOffer(p) \/ PushWatches(p)
      PROVE  (AcceptingIsAnswering /\ Accepts)'
  <2>1. CASE PushGetsOffer(p)
    BY <2>1 DEF PushGetsOffer
  <2>2. CASE PushWatches(p)
    BY <2>2 DEF PushWatches, watch_incoming
  <2> QED BY <1>1, <2>1, <2>2
<1>2. CASE reserve_accept
  BY <1>2 DEF reserve_accept
<1>3. CASE AcceptGetsOffer
  BY <1>3 DEF AcceptGetsOffer
<1>4. CASE AcceptFails
  BY <1>4 DEF AcceptFails
<1>5. CASE SendAnswer
  <2>1. /\ accept' = [accept EXCEPT !.at = "sent",
                       !.ev = IF Watched THEN entry.id ELSE MAX_WATCHES + accept.n]
        /\ accept.at = "got" /\ UNCHANGED connected
    BY <1>5 DEF SendAnswer
  <2>2. accept'.at = "sent" /\ accept'.n = accept.n /\ accept'.reply = accept.reply
    BY <2>1
  <2>3. accept'.ev = IF entry.id # 0 THEN entry.id ELSE MAX_WATCHES + accept.n
    BY <2>1 DEF Watched
  <2>4. MAX_WATCHES + accept.n # 0
    BY <2>1
  <2>5. accept'.ev # 0
    BY <2>3, <2>4
  <2> QED BY <2>1, <2>2, <2>5
<1>6. CASE AcceptStep
  <2>1. CASE AnswerRefused
    BY <2>1 DEF AnswerRefused
  <2>2. CASE AnswerUnknown
    BY <2>2 DEF AnswerUnknown, watch_incoming
  <2>3. CASE UnknownReported
    BY <2>3 DEF UnknownReported, EmitEnded
  <2>4. CASE AnswerAccepted
    BY <2>4 DEF AnswerAccepted, take_pending_incoming
  <2>5. CASE Connect
    BY <2>5 DEF Connect
  <2> QED BY <1>6, <2>1, <2>2, <2>3, <2>4, <2>5 DEF AcceptStep
<1>7. CASE HangUp
  BY <1>7 DEF HangUp, EmitEnded
<1>8. CASE PollEnds
  BY <1>8 DEF PollEnds, EmitEnded
<1>9. ASSUME NEW e \in CallEvents, HangUpAtGateway(e)
      PROVE  (AcceptingIsAnswering /\ Accepts)'
  BY <1>9 DEF HangUpAtGateway
<1>10. CASE GatewayRejects
  BY <1>10 DEF GatewayRejects
<1>11. CASE RejectReported
  BY <1>11 DEF RejectReported, take_pending_incoming, EmitEnded
<1>12. ASSUME NEW w \in Watch, PollStep(w)
      PROVE  (AcceptingIsAnswering /\ Accepts)'
  <2>1. CASE PollAsks(w)
    BY <2>1 DEF PollAsks, Statuses
  <2>2. CASE PollStops(w)
    BY <2>2 DEF PollStops
  <2>3. CASE PollFindsNothing(w)
    BY <2>3 DEF PollFindsNothing
  <2>4. CASE PollFindsActive(w)
    BY <2>4 DEF PollFindsActive, EmitEnded
  <2>5. CASE PollFindsGone(w)
    BY <2>5 DEF PollFindsGone, is_gone, EmitEnded
  <2>6. CASE PollContinues(w)
    BY <2>6 DEF PollContinues, is_gone, unknown_streak, Asleep
  <2>7. CASE PollRejects(w)
    BY <2>7 DEF PollRejects
  <2> QED BY <1>12, <2>1, <2>2, <2>3, <2>4, <2>5, <2>6, <2>7 DEF PollStep
<1>13. ASSUME NEW n \in Attempt, GatewayGetsAnswer(n) \/ GatewayRefuses(n)
      PROVE  (AcceptingIsAnswering /\ Accepts)'
  <2>1. CASE GatewayGetsAnswer(n)
    BY <2>1 DEF GatewayGetsAnswer
  <2>2. CASE GatewayRefuses(n)
    BY <2>2 DEF GatewayRefuses
  <2> QED BY <1>13, <2>1, <2>2
<1>14. CASE AcceptReplyLost
  BY <1>14 DEF AcceptReplyLost
<1>15. CASE OtherDeviceAnswers
  BY <1>15 DEF OtherDeviceAnswers
<1>16. CASE RemoteEnds
  BY <1>16 DEF RemoteEnds
<1>17. CASE UNCHANGED vars
  BY <1>17 DEF vars
<1> QED
  BY <1>1, <1>2, <1>3, <1>4, <1>5, <1>6, <1>7, <1>8, <1>9, <1>10, <1>11,
     <1>12, <1>13, <1>14, <1>15, <1>16, <1>17 DEF Next

LEMMA ShownStep ==
  ASSUME PushFindsWatch, IInv, TypeOK', ShownInv, [Next]_vars
  PROVE  ShownInv'
<1> USE BoundsAssumption DEF IInv, TypeOK, Accepts, Answering, Watched, None,
            ShownInv, Taken, ConnectedIsShown, events
<1>1. ASSUME NEW p \in 1 .. PUSHES, PushGetsOffer(p) \/ PushWatches(p)
      PROVE  ShownInv'
  <2>1. CASE PushGetsOffer(p)
    BY <2>1 DEF PushGetsOffer
  <2>2. CASE PushWatches(p)
    <3>1. Watched \/ watches = 0
      BY <2>2 DEF PushWatches, PushFindsWatch
    <3> QED BY <2>2, <3>1 DEF PushWatches, watch_incoming
  <2> QED BY <1>1, <2>1, <2>2
<1>2. CASE reserve_accept
  BY <1>2 DEF reserve_accept
<1>3. CASE AcceptGetsOffer
  BY <1>3 DEF AcceptGetsOffer
<1>4. CASE AcceptFails
  BY <1>4 DEF AcceptFails
<1>5. CASE SendAnswer
  BY <1>5 DEF SendAnswer
<1>6. CASE AcceptStep
  <2>1. CASE AnswerRefused
    BY <2>1 DEF AnswerRefused
  <2>2. CASE AnswerUnknown
    BY <2>2 DEF AnswerUnknown, watch_incoming
  <2>3. CASE UnknownReported
    BY <2>3 DEF UnknownReported, EmitEnded
  <2>4. CASE AnswerAccepted
    BY <2>4 DEF AnswerAccepted, take_pending_incoming
  <2>5. CASE Connect
    BY <2>5 DEF Connect
  <2> QED BY <1>6, <2>1, <2>2, <2>3, <2>4, <2>5 DEF AcceptStep
<1>7. CASE HangUp
  BY <1>7 DEF HangUp, EmitEnded
<1>8. CASE PollEnds
  BY <1>8 DEF PollEnds, EmitEnded
<1>9. ASSUME NEW e \in CallEvents, HangUpAtGateway(e)
      PROVE  ShownInv'
  BY <1>9 DEF HangUpAtGateway
<1>10. CASE GatewayRejects
  BY <1>10 DEF GatewayRejects
<1>11. CASE RejectReported
  BY <1>11 DEF RejectReported, take_pending_incoming, EmitEnded
<1>12. ASSUME NEW w \in Watch, PollStep(w)
      PROVE  ShownInv'
  <2>1. CASE PollAsks(w)
    BY <2>1 DEF PollAsks, Statuses
  <2>2. CASE PollStops(w)
    BY <2>2 DEF PollStops
  <2>3. CASE PollFindsNothing(w)
    BY <2>3 DEF PollFindsNothing
  <2>4. CASE PollFindsActive(w)
    BY <2>4 DEF PollFindsActive, EmitEnded
  <2>5. CASE PollFindsGone(w)
    BY <2>5 DEF PollFindsGone, is_gone, EmitEnded
  <2>6. CASE PollContinues(w)
    BY <2>6 DEF PollContinues, is_gone, unknown_streak, Asleep
  <2>7. CASE PollRejects(w)
    BY <2>7 DEF PollRejects
  <2> QED BY <1>12, <2>1, <2>2, <2>3, <2>4, <2>5, <2>6, <2>7 DEF PollStep
<1>13. ASSUME NEW n \in Attempt, GatewayGetsAnswer(n) \/ GatewayRefuses(n)
      PROVE  ShownInv'
  <2>1. CASE GatewayGetsAnswer(n)
    BY <2>1 DEF GatewayGetsAnswer
  <2>2. CASE GatewayRefuses(n)
    BY <2>2 DEF GatewayRefuses
  <2> QED BY <1>13, <2>1, <2>2
<1>14. CASE AcceptReplyLost
  BY <1>14 DEF AcceptReplyLost
<1>15. CASE OtherDeviceAnswers
  BY <1>15 DEF OtherDeviceAnswers
<1>16. CASE RemoteEnds
  BY <1>16 DEF RemoteEnds
<1>17. CASE UNCHANGED vars
  BY <1>17 DEF vars
<1> QED
  BY <1>1, <1>2, <1>3, <1>4, <1>5, <1>6, <1>7, <1>8, <1>9, <1>10, <1>11,
     <1>12, <1>13, <1>14, <1>15, <1>16, <1>17 DEF Next

LEMMA GatewayStep ==
  ASSUME IInv, TypeOK', ~ReplyMayBeLost, Gateway, [Next]_vars
  PROVE  Gateway'
<1> USE DEF IInv, TypeOK, Accepts, Answering, Watched, Idle, Gateway
<1>1. ASSUME NEW p \in 1 .. PUSHES, PushGetsOffer(p) \/ PushWatches(p)
      PROVE  Gateway'
  <2>1. CASE PushGetsOffer(p)
    BY <2>1 DEF PushGetsOffer
  <2>2. CASE PushWatches(p)
    <3>1. \A v \in Watch : poll'[v].status = poll[v].status
      BY <2>2, WatchStatus DEF PushWatches
    <3> QED BY <2>2, <3>1 DEF PushWatches
  <2> QED BY <1>1, <2>1, <2>2
<1>2. CASE reserve_accept
  BY <1>2 DEF reserve_accept
<1>3. CASE AcceptGetsOffer
  BY <1>3 DEF AcceptGetsOffer
<1>4. CASE AcceptFails
  BY <1>4 DEF AcceptFails
<1>5. CASE SendAnswer
  BY <1>5 DEF SendAnswer
<1>6. CASE AcceptStep
  <2>1. CASE AnswerRefused
    BY <2>1 DEF AnswerRefused
  <2>2. CASE AnswerUnknown
    <3>1. \A v \in Watch : poll'[v].status = poll[v].status
      BY <2>2, WatchStatus DEF AnswerUnknown
    <3> QED BY <2>2, <3>1 DEF AnswerUnknown
  <2>3. CASE UnknownReported
    BY <2>3 DEF UnknownReported, EmitEnded
  <2>4. CASE AnswerAccepted
    BY <2>4 DEF AnswerAccepted, take_pending_incoming
  <2>5. CASE Connect
    BY <2>5 DEF Connect
  <2> QED BY <1>6, <2>1, <2>2, <2>3, <2>4, <2>5 DEF AcceptStep
<1>7. CASE HangUp
  BY <1>7 DEF HangUp, EmitEnded
<1>8. CASE PollEnds
  BY <1>8 DEF PollEnds, EmitEnded
<1>9. ASSUME NEW e \in CallEvents, HangUpAtGateway(e)
      PROVE  Gateway'
  BY <1>9 DEF HangUpAtGateway
<1>10. CASE GatewayRejects
  BY <1>10 DEF GatewayRejects
<1>11. CASE RejectReported
  BY <1>11 DEF RejectReported, take_pending_incoming, EmitEnded
<1>12. ASSUME NEW w \in Watch, PollStep(w)
      PROVE  Gateway'
  <2>1. CASE PollAsks(w)
    BY <2>1 DEF PollAsks, Statuses
  <2>2. CASE PollStops(w)
    BY <2>2 DEF PollStops
  <2>3. CASE PollFindsNothing(w)
    BY <2>3 DEF PollFindsNothing
  <2>4. CASE PollFindsActive(w)
    BY <2>4 DEF PollFindsActive, EmitEnded
  <2>5. CASE PollFindsGone(w)
    BY <2>5 DEF PollFindsGone, is_gone, EmitEnded
  <2>6. CASE PollContinues(w)
    <3>1. Asleep(w).status = "none" /\ [Asleep(w) EXCEPT !.at = "rejecting"].status = "none"
      BY DEF Asleep
    <3>2. \A v \in Watch : poll'[v].status = IF v = w THEN "none" ELSE poll[v].status
      BY <2>6, <3>1 DEF PollContinues
    <3> QED BY <2>6, <3>2 DEF PollContinues
  <2>7. CASE PollRejects(w)
    BY <2>7 DEF PollRejects
  <2> QED BY <1>12, <2>1, <2>2, <2>3, <2>4, <2>5, <2>6, <2>7 DEF PollStep
<1>13. ASSUME NEW n \in Attempt, GatewayGetsAnswer(n) \/ GatewayRefuses(n)
      PROVE  Gateway'
  <2>1. CASE GatewayGetsAnswer(n)
    BY <2>1 DEF GatewayGetsAnswer
  <2>2. CASE GatewayRefuses(n)
    BY <2>2 DEF GatewayRefuses
  <2> QED BY <1>13, <2>1, <2>2
<1>14. CASE AcceptReplyLost
  BY <1>14 DEF AcceptReplyLost
<1>15. CASE OtherDeviceAnswers
  BY <1>15 DEF OtherDeviceAnswers
<1>16. CASE RemoteEnds
  BY <1>16 DEF RemoteEnds
<1>17. CASE UNCHANGED vars
  BY <1>17 DEF vars
<1> QED
  BY <1>1, <1>2, <1>3, <1>4, <1>5, <1>6, <1>7, <1>8, <1>9, <1>10, <1>11,
     <1>12, <1>13, <1>14, <1>15, <1>16, <1>17 DEF Next

LEMMA RepliedStep ==
  ASSUME PushFindsWatch, IInv, ShownInv, ~ReplyMayBeLost, Replied, [Next]_vars
  PROVE  Replied'
<1> USE DEF IInv, TypeOK, Accepts, Answering, Watched, None,
            ShownInv, Taken, Replied, ReplyMayBeLost
<1>1. ASSUME NEW p \in 1 .. PUSHES, PushGetsOffer(p) \/ PushWatches(p)
      PROVE  Replied'
  <2>1. CASE PushGetsOffer(p)
    BY <2>1 DEF PushGetsOffer
  <2>2. CASE PushWatches(p)
    <3>1. Watched \/ watches = 0
      BY <2>2 DEF PushWatches, PushFindsWatch
    <3> QED BY <2>2, <3>1 DEF PushWatches, watch_incoming
  <2> QED BY <1>1, <2>1, <2>2
<1>2. CASE reserve_accept
  BY <1>2 DEF reserve_accept
<1>3. CASE AcceptGetsOffer
  BY <1>3 DEF AcceptGetsOffer
<1>4. CASE AcceptFails
  BY <1>4 DEF AcceptFails
<1>5. CASE SendAnswer
  BY <1>5 DEF SendAnswer
<1>6. CASE AcceptStep
  <2>1. CASE AnswerRefused
    BY <2>1 DEF AnswerRefused
  <2>2. CASE AnswerUnknown
    BY <2>2 DEF AnswerUnknown, watch_incoming
  <2>3. CASE UnknownReported
    BY <2>3 DEF UnknownReported, EmitEnded
  <2>4. CASE AnswerAccepted
    BY <2>4 DEF AnswerAccepted, take_pending_incoming
  <2>5. CASE Connect
    BY <2>5 DEF Connect
  <2> QED BY <1>6, <2>1, <2>2, <2>3, <2>4, <2>5 DEF AcceptStep
<1>7. CASE HangUp
  BY <1>7 DEF HangUp, EmitEnded
<1>8. CASE PollEnds
  BY <1>8 DEF PollEnds, EmitEnded
<1>9. ASSUME NEW e \in CallEvents, HangUpAtGateway(e)
      PROVE  Replied'
  BY <1>9 DEF HangUpAtGateway
<1>10. CASE GatewayRejects
  BY <1>10 DEF GatewayRejects
<1>11. CASE RejectReported
  BY <1>11 DEF RejectReported, take_pending_incoming, EmitEnded
<1>12. ASSUME NEW w \in Watch, PollStep(w)
      PROVE  Replied'
  <2>1. CASE PollAsks(w)
    BY <2>1 DEF PollAsks, Statuses
  <2>2. CASE PollStops(w)
    BY <2>2 DEF PollStops
  <2>3. CASE PollFindsNothing(w)
    BY <2>3 DEF PollFindsNothing
  <2>4. CASE PollFindsActive(w)
    BY <2>4 DEF PollFindsActive, EmitEnded
  <2>5. CASE PollFindsGone(w)
    BY <2>5 DEF PollFindsGone, is_gone, EmitEnded
  <2>6. CASE PollContinues(w)
    BY <2>6 DEF PollContinues, is_gone, unknown_streak, Asleep
  <2>7. CASE PollRejects(w)
    BY <2>7 DEF PollRejects
  <2> QED BY <1>12, <2>1, <2>2, <2>3, <2>4, <2>5, <2>6, <2>7 DEF PollStep
<1>13. ASSUME NEW n \in Attempt, GatewayGetsAnswer(n) \/ GatewayRefuses(n)
      PROVE  Replied'
  <2>1. CASE GatewayGetsAnswer(n)
    BY <2>1 DEF GatewayGetsAnswer
  <2>2. CASE GatewayRefuses(n)
    BY <2>2 DEF GatewayRefuses
  <2> QED BY <1>13, <2>1, <2>2
<1>14. CASE AcceptReplyLost
  BY <1>14 DEF AcceptReplyLost
<1>15. CASE OtherDeviceAnswers
  BY <1>15 DEF OtherDeviceAnswers
<1>16. CASE RemoteEnds
  BY <1>16 DEF RemoteEnds
<1>17. CASE UNCHANGED vars
  BY <1>17 DEF vars
<1> QED
  BY <1>1, <1>2, <1>3, <1>4, <1>5, <1>6, <1>7, <1>8, <1>9, <1>10, <1>11,
     <1>12, <1>13, <1>14, <1>15, <1>16, <1>17 DEF Next

LEMMA OverStep ==
  ASSUME PushFindsWatch, IInv, ShownInv, ~ReplyMayBeLost, Gateway, Replied, Over, Counted, [Next]_vars
  PROVE  (Over /\ Counted)'
<1> USE DEF IInv, TypeOK, Accepts, Answering, Watched, None,
            ShownInv, Taken, Gateway, Replied, Over, Counted, events
<1>1. ASSUME NEW p \in 1 .. PUSHES, PushGetsOffer(p) \/ PushWatches(p)
      PROVE  (Over /\ Counted)'
  <2>1. CASE PushGetsOffer(p)
    BY <2>1 DEF PushGetsOffer
  <2>2. CASE PushWatches(p)
    <3>1. Watched \/ watches = 0
      BY <2>2 DEF PushWatches, PushFindsWatch
    <3> QED BY <2>2, <3>1 DEF PushWatches, watch_incoming
  <2> QED BY <1>1, <2>1, <2>2
<1>2. CASE reserve_accept
  BY <1>2 DEF reserve_accept
<1>3. CASE AcceptGetsOffer
  BY <1>3 DEF AcceptGetsOffer
<1>4. CASE AcceptFails
  BY <1>4 DEF AcceptFails
<1>5. CASE SendAnswer
  BY <1>5 DEF SendAnswer
<1>6. CASE AcceptStep
  <2>1. CASE AnswerRefused
    BY <2>1 DEF AnswerRefused
  <2>2. CASE AnswerUnknown
    BY <2>2 DEF AnswerUnknown, watch_incoming
  <2>3. CASE UnknownReported
    BY <2>3 DEF UnknownReported, EmitEnded
  <2>4. CASE AnswerAccepted
    BY <2>4 DEF AnswerAccepted, take_pending_incoming
  <2>5. CASE Connect
    BY <2>5 DEF Connect
  <2> QED BY <1>6, <2>1, <2>2, <2>3, <2>4, <2>5 DEF AcceptStep
<1>7. CASE HangUp
  BY <1>7 DEF HangUp, EmitEnded
<1>8. CASE PollEnds
  BY <1>8 DEF PollEnds, EmitEnded
<1>9. ASSUME NEW e \in CallEvents, HangUpAtGateway(e)
      PROVE  (Over /\ Counted)'
  BY <1>9 DEF HangUpAtGateway
<1>10. CASE GatewayRejects
  BY <1>10 DEF GatewayRejects
<1>11. CASE RejectReported
  BY <1>11 DEF RejectReported, take_pending_incoming, EmitEnded
<1>12. ASSUME NEW w \in Watch, PollStep(w)
      PROVE  (Over /\ Counted)'
  <2>1. CASE PollAsks(w)
    BY <2>1 DEF PollAsks, Statuses
  <2>2. CASE PollStops(w)
    BY <2>2 DEF PollStops
  <2>3. CASE PollFindsNothing(w)
    BY <2>3 DEF PollFindsNothing
  <2>4. CASE PollFindsActive(w)
    BY <2>4 DEF PollFindsActive, EmitEnded
  <2>5. CASE PollFindsGone(w)
    BY <2>5 DEF PollFindsGone, is_gone, EmitEnded
  <2>6. CASE PollContinues(w)
    BY <2>6 DEF PollContinues, is_gone, unknown_streak, Asleep
  <2>7. CASE PollRejects(w)
    BY <2>7 DEF PollRejects
  <2> QED BY <1>12, <2>1, <2>2, <2>3, <2>4, <2>5, <2>6, <2>7 DEF PollStep
<1>13. ASSUME NEW n \in Attempt, GatewayGetsAnswer(n) \/ GatewayRefuses(n)
      PROVE  (Over /\ Counted)'
  <2>1. CASE GatewayGetsAnswer(n)
    BY <2>1 DEF GatewayGetsAnswer
  <2>2. CASE GatewayRefuses(n)
    BY <2>2 DEF GatewayRefuses
  <2> QED BY <1>13, <2>1, <2>2
<1>14. CASE AcceptReplyLost
  BY <1>14 DEF AcceptReplyLost
<1>15. CASE OtherDeviceAnswers
  BY <1>15 DEF OtherDeviceAnswers
<1>16. CASE RemoteEnds
  BY <1>16 DEF RemoteEnds
<1>17. CASE UNCHANGED vars
  BY <1>17 DEF vars
<1> QED
  BY <1>1, <1>2, <1>3, <1>4, <1>5, <1>6, <1>7, <1>8, <1>9, <1>10, <1>11,
     <1>12, <1>13, <1>14, <1>15, <1>16, <1>17 DEF Next

-----------------------------------------------------------------------------
(* The invariants. *)

LEMMA InitOne == Init => ShownInv /\ ContractInv
BY DEF Init, None, Watched, Answering, ShownInv, Taken, ConnectedIsShown,
       ContractInv, Gateway, Replied, Over, Counted, Idle

LEMMA Inductive == IInv /\ [Next]_vars => IInv'
BY TypeStep, AcceptsStep DEF IInv

LEMMA Invariance == Spec => []IInv
BY InitInv, Inductive, PTL DEF Spec

LEMMA SameEnvironment ==
  ASSUME [Next]_vars
  PROVE  may' = may
<1> USE DEF events
<1>1. ASSUME NEW p \in 1 .. PUSHES, PushGetsOffer(p) \/ PushWatches(p)
      PROVE  may' = may
  <2>1. CASE PushGetsOffer(p)
    BY <2>1 DEF PushGetsOffer
  <2>2. CASE PushWatches(p)
    BY <2>2 DEF PushWatches, watch_incoming
  <2> QED BY <1>1, <2>1, <2>2
<1>2. CASE reserve_accept
  BY <1>2 DEF reserve_accept
<1>3. CASE AcceptGetsOffer
  BY <1>3 DEF AcceptGetsOffer
<1>4. CASE AcceptFails
  BY <1>4 DEF AcceptFails
<1>5. CASE SendAnswer
  BY <1>5 DEF SendAnswer
<1>6. CASE AcceptStep
  <2>1. CASE AnswerRefused
    BY <2>1 DEF AnswerRefused
  <2>2. CASE AnswerUnknown
    BY <2>2 DEF AnswerUnknown, watch_incoming
  <2>3. CASE UnknownReported
    BY <2>3 DEF UnknownReported, EmitEnded
  <2>4. CASE AnswerAccepted
    BY <2>4 DEF AnswerAccepted, take_pending_incoming
  <2>5. CASE Connect
    BY <2>5 DEF Connect
  <2> QED BY <1>6, <2>1, <2>2, <2>3, <2>4, <2>5 DEF AcceptStep
<1>7. CASE HangUp
  BY <1>7 DEF HangUp, EmitEnded
<1>8. CASE PollEnds
  BY <1>8 DEF PollEnds, EmitEnded
<1>9. ASSUME NEW e \in CallEvents, HangUpAtGateway(e)
      PROVE  may' = may
  BY <1>9 DEF HangUpAtGateway
<1>10. CASE GatewayRejects
  BY <1>10 DEF GatewayRejects
<1>11. CASE RejectReported
  BY <1>11 DEF RejectReported, take_pending_incoming, EmitEnded
<1>12. ASSUME NEW w \in Watch, PollStep(w)
      PROVE  may' = may
  <2>1. CASE PollAsks(w)
    BY <2>1 DEF PollAsks, Statuses
  <2>2. CASE PollStops(w)
    BY <2>2 DEF PollStops
  <2>3. CASE PollFindsNothing(w)
    BY <2>3 DEF PollFindsNothing
  <2>4. CASE PollFindsActive(w)
    BY <2>4 DEF PollFindsActive, EmitEnded
  <2>5. CASE PollFindsGone(w)
    BY <2>5 DEF PollFindsGone, is_gone, EmitEnded
  <2>6. CASE PollContinues(w)
    BY <2>6 DEF PollContinues, is_gone, unknown_streak, Asleep
  <2>7. CASE PollRejects(w)
    BY <2>7 DEF PollRejects
  <2> QED BY <1>12, <2>1, <2>2, <2>3, <2>4, <2>5, <2>6, <2>7 DEF PollStep
<1>13. ASSUME NEW n \in Attempt, GatewayGetsAnswer(n) \/ GatewayRefuses(n)
      PROVE  may' = may
  <2>1. CASE GatewayGetsAnswer(n)
    BY <2>1 DEF GatewayGetsAnswer
  <2>2. CASE GatewayRefuses(n)
    BY <2>2 DEF GatewayRefuses
  <2> QED BY <1>13, <2>1, <2>2
<1>14. CASE AcceptReplyLost
  BY <1>14 DEF AcceptReplyLost
<1>15. CASE OtherDeviceAnswers
  BY <1>15 DEF OtherDeviceAnswers
<1>16. CASE RemoteEnds
  BY <1>16 DEF RemoteEnds
<1>17. CASE UNCHANGED vars
  BY <1>17 DEF vars
<1> QED
  BY <1>1, <1>2, <1>3, <1>4, <1>5, <1>6, <1>7, <1>8, <1>9, <1>10, <1>11,
     <1>12, <1>13, <1>14, <1>15, <1>16, <1>17 DEF Next

LEMMA InductiveWatched ==
  ASSUME IInv, IInv', ShownInv, ContractInv, [Next]_vars, [PushFindsWatch]_vars
  PROVE  ShownInv' /\ ContractInv'
<1>0. PushFindsWatch
  BY DEF PushFindsWatch, vars
<1>1. TypeOK'
  BY DEF IInv
<1>2. ReplyMayBeLost' = ReplyMayBeLost
  BY SameEnvironment DEF ReplyMayBeLost
<1>3. ShownInv'
  BY <1>0, <1>1, ShownStep
<1>4. CASE ReplyMayBeLost
  BY <1>2, <1>3, <1>4 DEF ContractInv
<1>5. CASE ~ReplyMayBeLost
  <2>1. Gateway /\ Replied /\ Over /\ Counted
    BY <1>5 DEF ContractInv
  <2>2. Gateway'
    BY <1>1, <1>5, <2>1, GatewayStep
  <2>3. Replied'
    BY <1>0, <1>5, <2>1, RepliedStep
  <2>4. (Over /\ Counted)'
    BY <1>0, <1>5, <2>1, OverStep
  <2> QED BY <1>3, <2>2, <2>3, <2>4 DEF ContractInv
<1> QED BY <1>4, <1>5

LEMMA InvarianceWatched == Spec /\ RepeatsFindWatch => [](IInv /\ ShownInv /\ ContractInv)
<1>1. /\ IInv /\ IInv' /\ ShownInv /\ ContractInv /\ [Next]_vars /\ [PushFindsWatch]_vars
      => ShownInv' /\ ContractInv'
  BY InductiveWatched
<1> QED BY <1>1, InitInv, InitOne, Inductive, PTL DEF Spec, RepeatsFindWatch

-----------------------------------------------------------------------------
\* The watch of an offer takes an active status for this handset's own answer
\* only while an answer is under way, whatever pushes, accepts, rejects and
\* lost replies come before.
THEOREM OwnAnswer == Spec => []Consistent
BY Invariance, PTL DEF IInv, Consistent

\* While an incoming call is connected the app has been told so and nothing
\* since, whoever of watch, reject and accept reports on the call.
THEOREM ShownWhileConnected == Spec /\ RepeatsFindWatch => []ConnectedIsShown
BY InvarianceWatched, PTL DEF ShownInv

\* "Each call_id that has been reported receives exactly one Ended": never
\* two, where the gateway's reply to an accept arrives.
THEOREM NeverTwoEnded == Spec /\ RepeatsFindWatch => [](~ReplyMayBeLost => OneEnded)
<1>1. ContractInv => (~ReplyMayBeLost => OneEnded)
  BY DEF ContractInv, Counted, OneEnded
<1> QED BY <1>1, InvarianceWatched, PTL

\* What a step reports is a state that may follow the last one.
InOrder == /\ shown = "Ended" => shown' = "Ended"
           /\ shown # "None" => shown' # "None"

LEMMA OrderStep ==
  ASSUME PushFindsWatch, IInv, ShownInv, ~ReplyMayBeLost, Gateway, Replied, Over, [Next]_vars
  PROVE  InOrder
<1> USE DEF InOrder, IInv, TypeOK, Accepts, Answering, Watched, ShownInv,
            Taken, Replied, Over, events
<1>1. ASSUME NEW p \in 1 .. PUSHES, PushGetsOffer(p) \/ PushWatches(p)
      PROVE  InOrder
  <2>1. CASE PushGetsOffer(p)
    BY <2>1 DEF PushGetsOffer
  <2>2. CASE PushWatches(p)
    <3>1. Watched \/ watches = 0
      BY <2>2 DEF PushWatches, PushFindsWatch
    <3> QED BY <2>2, <3>1 DEF PushWatches, watch_incoming
  <2> QED BY <1>1, <2>1, <2>2
<1>2. CASE reserve_accept
  BY <1>2 DEF reserve_accept
<1>3. CASE AcceptGetsOffer
  BY <1>3 DEF AcceptGetsOffer
<1>4. CASE AcceptFails
  BY <1>4 DEF AcceptFails
<1>5. CASE SendAnswer
  BY <1>5 DEF SendAnswer
<1>6. CASE AcceptStep
  <2>1. CASE AnswerRefused
    BY <2>1 DEF AnswerRefused
  <2>2. CASE AnswerUnknown
    BY <2>2 DEF AnswerUnknown, watch_incoming
  <2>3. CASE UnknownReported
    BY <2>3 DEF UnknownReported, EmitEnded
  <2>4. CASE AnswerAccepted
    BY <2>4 DEF AnswerAccepted, take_pending_incoming
  <2>5. CASE Connect
    BY <2>5 DEF Connect
  <2> QED BY <1>6, <2>1, <2>2, <2>3, <2>4, <2>5 DEF AcceptStep
<1>7. CASE HangUp
  BY <1>7 DEF HangUp, EmitEnded
<1>8. CASE PollEnds
  BY <1>8 DEF PollEnds, EmitEnded
<1>9. ASSUME NEW e \in CallEvents, HangUpAtGateway(e)
      PROVE  InOrder
  BY <1>9 DEF HangUpAtGateway
<1>10. CASE GatewayRejects
  BY <1>10 DEF GatewayRejects
<1>11. CASE RejectReported
  BY <1>11 DEF RejectReported, take_pending_incoming, EmitEnded
<1>12. ASSUME NEW w \in Watch, PollStep(w)
      PROVE  InOrder
  <2>1. CASE PollAsks(w)
    BY <2>1 DEF PollAsks, Statuses
  <2>2. CASE PollStops(w)
    BY <2>2 DEF PollStops
  <2>3. CASE PollFindsNothing(w)
    BY <2>3 DEF PollFindsNothing
  <2>4. CASE PollFindsActive(w)
    BY <2>4 DEF PollFindsActive, EmitEnded
  <2>5. CASE PollFindsGone(w)
    BY <2>5 DEF PollFindsGone, is_gone, EmitEnded
  <2>6. CASE PollContinues(w)
    BY <2>6 DEF PollContinues, is_gone, unknown_streak, Asleep
  <2>7. CASE PollRejects(w)
    BY <2>7 DEF PollRejects
  <2> QED BY <1>12, <2>1, <2>2, <2>3, <2>4, <2>5, <2>6, <2>7 DEF PollStep
<1>13. ASSUME NEW n \in Attempt, GatewayGetsAnswer(n) \/ GatewayRefuses(n)
      PROVE  InOrder
  <2>1. CASE GatewayGetsAnswer(n)
    BY <2>1 DEF GatewayGetsAnswer
  <2>2. CASE GatewayRefuses(n)
    BY <2>2 DEF GatewayRefuses
  <2> QED BY <1>13, <2>1, <2>2
<1>14. CASE AcceptReplyLost
  BY <1>14 DEF AcceptReplyLost
<1>15. CASE OtherDeviceAnswers
  BY <1>15 DEF OtherDeviceAnswers
<1>16. CASE RemoteEnds
  BY <1>16 DEF RemoteEnds
<1>17. CASE UNCHANGED vars
  BY <1>17 DEF vars
<1> HIDE DEF InOrder, IInv, TypeOK, ShownInv, Replied, Over
<1> QED
  BY <1>1, <1>2, <1>3, <1>4, <1>5, <1>6, <1>7, <1>8, <1>9, <1>10, <1>11,
     <1>12, <1>13, <1>14, <1>15, <1>16, <1>17 DEF Next

LEMMA ContractStep ==
  ASSUME IInv, ShownInv, ContractInv, IInv', ContractInv', [Next]_vars, [PushFindsWatch]_vars
  PROVE  [Contract!Next]_(Contract!vars)
<1>0. PushFindsWatch
  BY DEF PushFindsWatch, vars
<1>1. ReplyMayBeLost' = ReplyMayBeLost
  BY SameEnvironment DEF ReplyMayBeLost
<1>2. CASE ReplyMayBeLost
  BY <1>1, <1>2 DEF Contract!vars
<1>3. CASE ~ReplyMayBeLost
  <2>1. /\ shown = "Ended" => shown' = "Ended"
        /\ shown # "None" => shown' # "None"
    BY <1>0, <1>3, OrderStep DEF ContractInv, InOrder
  <2>2. /\ shown \in {"None", "Connected", "Ended"}
        /\ shown' \in {"None", "Connected", "Ended"}
    BY DEF IInv, TypeOK
  <2>3. shown' # shown => shown' \in Contract!Follows(shown)
    BY <2>1, <2>2 DEF Contract!Follows
  <2>4. ends' = IF shown # "Ended" /\ shown' = "Ended" THEN ends + 1 ELSE ends
    BY <1>1, <1>3, <2>1 DEF ContractInv, Counted
  <2> QED BY <1>1, <1>3, <2>2, <2>3, <2>4 DEF Contract!Next, Contract!States
<1> QED BY <1>2, <1>3

\* Watch, accept, reject and hangup together report an incoming call as the
\* contract with the app allows: the call implements CallContract.
THEOREM CallImplementsContract == Spec /\ RepeatsFindWatch => ImplementsContract
<1>1. Init => Contract!Init
  BY DEF Init, Contract!Init
<1>2. /\ IInv /\ ShownInv /\ ContractInv /\ (IInv /\ ContractInv)'
      /\ [Next]_vars /\ [PushFindsWatch]_vars
      => [Contract!Next]_(Contract!vars)
  BY ContractStep
<1> QED BY <1>1, <1>2, InvarianceWatched, PTL DEF Spec, RepeatsFindWatch, ImplementsContract, Contract!Spec

-----------------------------------------------------------------------------
(* A call that is pushed once. *)

Started ==
  watches # 0 \/ accept.at # "idle" => \E p \in 1 .. PUSHES : push[p] = "done"

LEMMA StartedStep ==
  ASSUME TypeOK, Started, [Next]_vars
  PROVE  Started'
<1> USE DEF TypeOK, Started, Answering
<1>1. ASSUME NEW p \in 1 .. PUSHES, PushGetsOffer(p) \/ PushWatches(p)
      PROVE  Started'
  <2>1. CASE PushGetsOffer(p)
    BY <2>1 DEF PushGetsOffer
  <2>2. CASE PushWatches(p)
    BY <2>2 DEF PushWatches, watch_incoming
  <2> QED BY <1>1, <2>1, <2>2
<1>2. CASE reserve_accept
  BY <1>2 DEF reserve_accept
<1>3. CASE AcceptGetsOffer
  BY <1>3 DEF AcceptGetsOffer
<1>4. CASE AcceptFails
  BY <1>4 DEF AcceptFails
<1>5. CASE SendAnswer
  BY <1>5 DEF SendAnswer
<1>6. CASE AcceptStep
  <2>1. CASE AnswerRefused
    BY <2>1 DEF AnswerRefused
  <2>2. CASE AnswerUnknown
    BY <2>2 DEF AnswerUnknown, watch_incoming
  <2>3. CASE UnknownReported
    BY <2>3 DEF UnknownReported, EmitEnded
  <2>4. CASE AnswerAccepted
    BY <2>4 DEF AnswerAccepted, take_pending_incoming
  <2>5. CASE Connect
    BY <2>5 DEF Connect
  <2> QED BY <1>6, <2>1, <2>2, <2>3, <2>4, <2>5 DEF AcceptStep
<1>7. CASE HangUp
  BY <1>7 DEF HangUp, EmitEnded
<1>8. CASE PollEnds
  BY <1>8 DEF PollEnds, EmitEnded
<1>9. ASSUME NEW e \in CallEvents, HangUpAtGateway(e)
      PROVE  Started'
  BY <1>9 DEF HangUpAtGateway
<1>10. CASE GatewayRejects
  BY <1>10 DEF GatewayRejects
<1>11. CASE RejectReported
  BY <1>11 DEF RejectReported, take_pending_incoming, EmitEnded
<1>12. ASSUME NEW w \in Watch, PollStep(w)
      PROVE  Started'
  <2>1. CASE PollAsks(w)
    BY <2>1 DEF PollAsks, Statuses
  <2>2. CASE PollStops(w)
    BY <2>2 DEF PollStops
  <2>3. CASE PollFindsNothing(w)
    BY <2>3 DEF PollFindsNothing
  <2>4. CASE PollFindsActive(w)
    BY <2>4 DEF PollFindsActive, EmitEnded
  <2>5. CASE PollFindsGone(w)
    BY <2>5 DEF PollFindsGone, is_gone, EmitEnded
  <2>6. CASE PollContinues(w)
    BY <2>6 DEF PollContinues, is_gone, unknown_streak, Asleep
  <2>7. CASE PollRejects(w)
    BY <2>7 DEF PollRejects
  <2> QED BY <1>12, <2>1, <2>2, <2>3, <2>4, <2>5, <2>6, <2>7 DEF PollStep
<1>13. ASSUME NEW n \in Attempt, GatewayGetsAnswer(n) \/ GatewayRefuses(n)
      PROVE  Started'
  <2>1. CASE GatewayGetsAnswer(n)
    BY <2>1 DEF GatewayGetsAnswer
  <2>2. CASE GatewayRefuses(n)
    BY <2>2 DEF GatewayRefuses
  <2> QED BY <1>13, <2>1, <2>2
<1>14. CASE AcceptReplyLost
  BY <1>14 DEF AcceptReplyLost
<1>15. CASE OtherDeviceAnswers
  BY <1>15 DEF OtherDeviceAnswers
<1>16. CASE RemoteEnds
  BY <1>16 DEF RemoteEnds
<1>17. CASE UNCHANGED vars
  BY <1>17 DEF vars
<1> QED
  BY <1>1, <1>2, <1>3, <1>4, <1>5, <1>6, <1>7, <1>8, <1>9, <1>10, <1>11,
     <1>12, <1>13, <1>14, <1>15, <1>16, <1>17 DEF Next

\* A call that is pushed once has no repeated push to find another watch.
THEOREM OnePush == ASSUME PUSHES <= 1 PROVE Spec => RepeatsFindWatch
<1>1. Init => Started
  BY DEF Init, Started
<1>2. IInv /\ Started /\ [Next]_vars => Started'
  BY StartedStep DEF IInv
<1>3. Started => [PushFindsWatch]_vars
  <2>1. \A p, q \in 1 .. PUSHES : p = q
    BY BoundsAssumption
  <2> QED BY <2>1 DEF Started, PushFindsWatch
<1> QED BY <1>1, <1>2, <1>3, Invariance, PTL DEF Spec, RepeatsFindWatch

=============================================================================
