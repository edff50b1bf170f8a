------------------------------ MODULE CallTable ------------------------------
(***************************************************************************)
(* The engine's call table (src/src/lib.rs): the maps `calls`,             *)
(* `pending_outgoing` and `accepting`, every operation that moves a call   *)
(* between them, and the events each one queues.                           *)
(*                                                                         *)
(* One action is one critical section: what the code does while it holds   *)
(* the call-map lock is atomic, and what it does after dropping the lock   *)
(* is a later action that anything can precede.  The two that matter are   *)
(* the teardown of a removed call (remove under the lock, then stop its    *)
(* media, then queue Ended) and the drop of an accept's reservation when   *)
(* accept_incoming_call returns.                                           *)
(*                                                                         *)
(* Abstracted here and detailed elsewhere: how an outgoing request and its *)
(* cancel race (OutgoingCall), repeated pushes and the accept/watch races  *)
(* (IncomingCall).  A push is handled before its call is accepted.         *)
(***************************************************************************)
EXTENDS Naturals, Sequences, FiniteSets

CONSTANTS Incoming,            \* call tokens the gateway offers (call_id incoming-<token>)
          Outgoing,            \* valid outgoing call_ids the app picks
          MAX_LIVE_CALLS,
          USED_OUTGOING_IDS

ASSUME CallsAssumption == /\ IsFiniteSet(Incoming) /\ IsFiniteSet(Outgoing)
                          /\ Incoming \cap Outgoing = {}
ASSUME LimitsAssumption == /\ MAX_LIVE_CALLS \in Nat
                           /\ USED_OUTGOING_IDS \in Nat
\* The window of remembered ids is not outrun.  (The code keeps the most
\* recent ids only; an id that has left the window counts as new again.)
ASSUME WindowAssumption == Cardinality(Outgoing) <= USED_OUTGOING_IDS

Call == Incoming \cup Outgoing

VARIABLES
  calls,      \* the call map: connected calls, held or not
  ringing,    \* pending_outgoing.ringing
  accepting,  \* tokens whose accept is counted against MAX_LIVE_CALLS
  info,       \* info[c]: the CallInfo kept with a live call
  used,       \* pending_outgoing.used, oldest first
  accept,     \* accept[c]: how far the latest accept_incoming_call of c is
  drops,      \* tokens of an accept that has yet to drop its reservation
  watched,    \* pending_incoming
  abandoned,  \* the watched calls whose accept had an unknown outcome
  taken,      \* taken[c]: teardown progress of a call removed from the map
  audio,      \* calls whose RTP loops run on the audio bridge
  gw,         \* gw[c]: the call at the gateway
  shown,      \* shown[c]: the CallInfo last queued for the app
  ends        \* ends[c]: how many Ended events were queued for c

table   == <<calls, ringing, accepting, info>>
offers  == <<accept, drops, watched, abandoned>>
view    == <<shown, ends>>
vars    == <<calls, ringing, accepting, info, used, accept, drops, watched,
             abandoned, taken, audio, gw, shown, ends>>

CallStates == {"None", "Ringing", "Connected", "OnHold", "Ended"}
CallInfo   == [state : CallStates, muted : BOOLEAN]
Fresh(s)   == [state |-> s, muted |-> FALSE]

TypeOK ==
  /\ calls \subseteq Call
  /\ ringing \subseteq Outgoing
  /\ accepting \subseteq Incoming
  /\ info \in [Call -> CallInfo]
  /\ used \in Seq([id : Outgoing, precancelled : BOOLEAN])
  /\ accept \in [Incoming -> {"idle", "reserved", "sent", "accepted"}]
  /\ drops \subseteq Incoming
  /\ watched \subseteq Incoming
  /\ abandoned \subseteq Incoming
  /\ taken \in [Call -> {"no", "removed", "stopped"}]
  /\ audio \subseteq Call
  /\ gw \in [Call -> {"none", "offered", "up", "gone"}]
  /\ shown \in [Call -> CallInfo]
  /\ ends \in [Call -> Nat]

Init ==
  /\ calls = {} /\ ringing = {} /\ accepting = {}
  /\ info = [c \in Call |-> Fresh("None")]
  /\ used = <<>>
  /\ accept = [c \in Incoming |-> "idle"]
  /\ drops = {} /\ watched = {} /\ abandoned = {}
  /\ taken = [c \in Call |-> "no"]
  /\ audio = {}
  /\ gw = [c \in Call |-> IF c \in Incoming THEN "offered" ELSE "none"]
  /\ shown = [c \in Call |-> Fresh("None")]
  /\ ends = [c \in Call |-> 0]

-----------------------------------------------------------------------------
\* Mutant: a call being accepted does not count.
mut_live_call_count == Cardinality(calls) + Cardinality(ringing)

\* How many calls count against MAX_LIVE_CALLS.
live_call_count == Cardinality(calls) + Cardinality(ringing) + Cardinality(accepting)

\* CallEvents::emit: a call that was reported Ended is never reported again.
Emit(view0, c, i) == IF view0[c].state = "Ended" THEN view0 ELSE [view0 EXCEPT ![c] = i]

\* CallEvents::emit_ended, as the next values of shown and ends.
EmitEnded(c) ==
  /\ shown' = Emit(shown, c, [info[c] EXCEPT !.state = "Ended"])
  /\ ends' = [ends EXCEPT ![c] = IF shown[c].state = "Ended" THEN @ ELSE @ + 1]

\* apply_hold: the call's reported state follows its hold state.
apply_hold(i, on_hold) == [i EXCEPT !.state = IF on_hold THEN "OnHold" ELSE "Connected"]

\* hold_others: every connected call but `keep` goes on hold.
OffHoldBut(keep) == {c \in calls \ {keep} : info[c].state # "OnHold"}
\* Mutants: the other calls stay off hold; they are held but not reported.
mut_hold_others(keep) == info
mut_hold_others_shown(keep) == shown
hold_others(keep) ==
  [c \in Call |-> IF c \in OffHoldBut(keep) THEN apply_hold(info[c], TRUE) ELSE info[c]]
hold_others_shown(keep) ==
  [c \in Call |-> IF c \in OffHoldBut(keep) THEN Emit(shown, c, apply_hold(info[c], TRUE))[c]
                  ELSE shown[c]]

\* The call connects: the others are held and reported, its media starts, it
\* enters the map, and Connected is queued, all under the call-map lock.
BecomeActive(c) ==
  /\ info' = [hold_others(c) EXCEPT ![c] = Fresh("Connected")]
  /\ shown' = Emit(hold_others_shown(c), c, Fresh("Connected"))
  /\ audio' = audio \cup {c}
  /\ calls' = calls \cup {c}

-----------------------------------------------------------------------------
(* Outgoing calls. *)

\* Mutant: used ids are not looked up.
mut_is_used(c) == FALSE
is_used(c)      == \E i \in 1 .. Len(used) : used[i].id = c
mark_used(c, precancelled) ==
  LET longer == Append(used, [id |-> c, precancelled |-> precancelled])
  IN  used' = IF Len(longer) > USED_OUTGOING_IDS THEN Tail(longer) ELSE longer

\* reserve_outgoing: the call is reported Ringing under the lock.
ReserveOutgoing(c) ==
  /\ ~is_used(c)
  /\ c \notin calls \cup ringing
  /\ live_call_count < MAX_LIVE_CALLS
  /\ mark_used(c, FALSE)
  /\ ringing' = ringing \cup {c}
  /\ info' = [info EXCEPT ![c] = Fresh("Ringing")]
  /\ shown' = [shown EXCEPT ![c] = Fresh("Ringing")]
  /\ UNCHANGED <<calls, accepting, offers, taken, audio, gw, ends>>

\* reserve_outgoing for an id that was hung up first: the mark is spent and
\* make_call_with_id returns Cancelled.
RefusePrecancelled(c) ==
  /\ \E i \in 1 .. Len(used) : /\ used[i] = [id |-> c, precancelled |-> TRUE]
                               /\ used' = [used EXCEPT ![i].precancelled = FALSE]
  /\ UNCHANGED <<table, offers, taken, audio, gw, view>>

\* dial: the gateway answered, and no hangup has taken the call.
OutgoingConnects(c) ==
  /\ c \in ringing
  /\ ringing' = ringing \ {c}
  /\ BecomeActive(c)
  /\ gw' = [gw EXCEPT ![c] = "up"]
  /\ UNCHANGED <<accepting, used, offers, taken, ends>>

\* dial: media or the request failed; hangup of a ringing call.  Both take
\* the call out of `ringing` under the lock and then report it, and nothing
\* else can report it in between.
RingingEnds(c) ==
  /\ c \in ringing
  /\ ringing' = ringing \ {c}
  /\ EmitEnded(c)
  /\ info' = [info EXCEPT ![c] = Fresh("None")]
  /\ UNCHANGED <<calls, accepting, used, offers, taken, audio, gw>>

\* Mutant: the id is not remembered.
mut_HangupNotYetMade(c) ==
  /\ c \notin calls \cup ringing /\ ~is_used(c)
  /\ shown' = [shown EXCEPT ![c] = Fresh("Ended")]
  /\ ends' = [ends EXCEPT ![c] = @ + 1]
  /\ UNCHANGED <<table, used, offers, taken, audio, gw>>

\* hangup of an id make_call_with_id has not been called for: reported on a
\* CallEvents of its own, which has no memory of earlier reports.
HangupNotYetMade(c) ==
  /\ c \notin calls \cup ringing
  /\ ~is_used(c)
  /\ mark_used(c, TRUE)
  /\ shown' = [shown EXCEPT ![c] = Fresh("Ended")]
  /\ ends' = [ends EXCEPT ![c] = @ + 1]
  /\ UNCHANGED <<table, offers, taken, audio, gw>>

-----------------------------------------------------------------------------
(* Incoming calls. *)

\* handle_push_notification, for a call nobody is accepting yet.
HandlePush(c) ==
  /\ gw[c] = "offered" /\ accept[c] = "idle" /\ c \notin drops
  /\ watched' = watched \cup {c}
  /\ UNCHANGED <<table, used, accept, drops, abandoned, taken, audio, gw, view>>

\* reserve_accept.
ReserveAccept(c) ==
  /\ accept[c] = "idle"
  /\ c \notin accepting \cup calls
  /\ live_call_count < MAX_LIVE_CALLS
  /\ accepting' = accepting \cup {c}
  /\ accept' = [accept EXCEPT ![c] = "reserved"]
  /\ UNCHANGED <<calls, ringing, info, used, drops, watched, abandoned, taken, audio, gw, view>>

\* The gateway still offers the call, and answer_offer sends the answer.
SendAnswer(c) ==
  /\ accept[c] = "reserved" /\ gw[c] = "offered"
  /\ accept' = [accept EXCEPT ![c] = "sent"]
  /\ UNCHANGED <<table, used, drops, watched, abandoned, taken, audio, gw, view>>

\* Mutant: the error path does not drop the reservation.
mut_AcceptRefused(c) ==
  /\ accept[c] \in {"reserved", "sent"}
  /\ accept' = [accept EXCEPT ![c] = "idle"]
  /\ UNCHANGED <<table, used, drops, watched, abandoned, taken, audio, gw, view>>

\* accept_incoming_call fails before the answer is sent (no token, no offer,
\* no media), or the gateway refuses the answer: the offer stays.
AcceptRefused(c) ==
  /\ accept[c] \in {"reserved", "sent"}
  /\ accept' = [accept EXCEPT ![c] = "idle"]
  /\ drops' = drops \cup {c}
  /\ UNCHANGED <<table, used, watched, abandoned, taken, audio, gw, view>>

\* The answer times out: the app is told the call ended, and the watch is
\* left to make sure it does.
AcceptUnknown(c) ==
  /\ accept[c] \in {"sent", "accepted"}
  /\ accept' = [accept EXCEPT ![c] = "idle"]
  /\ drops' = drops \cup {c}
  /\ watched' = watched \cup {c}
  /\ abandoned' = abandoned \cup {c}
  /\ EmitEnded(c)
  /\ UNCHANGED <<table, used, taken, audio, gw>>

\* answer_offer after the gateway's 200: the reservation becomes a connected
\* call, unless the offer was reported ended while the answer was under way.
AnswerOffer(c) ==
  /\ accept[c] = "accepted"
  /\ accept' = [accept EXCEPT ![c] = "idle"]
  /\ drops' = drops \cup {c}
  /\ watched' = watched \ {c}
  /\ abandoned' = abandoned \ {c}
  /\ accepting' = accepting \ {c}
  /\ IF shown[c].state = "Ended"
     THEN /\ gw' = [gw EXCEPT ![c] = "gone"]
          /\ UNCHANGED <<calls, info, shown, audio>>
     ELSE /\ BecomeActive(c)
          /\ UNCHANGED gw
  /\ UNCHANGED <<ringing, used, taken, ends>>

\* AcceptReservation::drop, when accept_incoming_call returns.
DropReservation(c) ==
  /\ c \in drops
  /\ drops' = drops \ {c}
  /\ accepting' = accepting \ {c}
  /\ UNCHANGED <<calls, ringing, info, used, accept, watched, abandoned, taken, audio, gw, view>>

\* reject_incoming_call, once the gateway has taken the rejection.
RejectIncoming(c) ==
  /\ gw[c] = "offered"
  /\ gw' = [gw EXCEPT ![c] = "gone"]
  /\ watched' = watched \ {c}
  /\ abandoned' = abandoned \ {c}
  /\ IF c \in watched THEN EmitEnded(c) ELSE UNCHANGED view
  /\ UNCHANGED <<table, used, accept, drops, taken, audio>>

\* The watch finds the call gone and reports it, unless it was abandoned.
WatchEnds(c) ==
  /\ c \in watched /\ gw[c] = "gone"
  /\ watched' = watched \ {c}
  /\ abandoned' = abandoned \ {c}
  /\ IF c \in abandoned THEN UNCHANGED view ELSE EmitEnded(c)
  /\ UNCHANGED <<table, used, accept, drops, taken, audio, gw>>

\* The watch finds the call active: it stops, and hangs up an abandoned call.
WatchActive(c) ==
  /\ c \in watched /\ gw[c] = "up"
  /\ watched' = watched \ {c}
  /\ abandoned' = abandoned \ {c}
  /\ gw' = IF c \in abandoned THEN [gw EXCEPT ![c] = "gone"] ELSE gw
  /\ UNCHANGED <<table, used, accept, drops, taken, audio, view>>

\* The watch rejects an abandoned call that still rings.
WatchRejects(c) ==
  /\ c \in abandoned /\ gw[c] = "offered"
  /\ gw' = [gw EXCEPT ![c] = "gone"]
  /\ UNCHANGED <<table, used, offers, taken, audio, view>>

-----------------------------------------------------------------------------
(* Connected calls. *)

\* take_call / take_for_hangup / end_transferred_leg: hangup, a finished
\* transfer or the status poll removes the call under the lock ...
TakeCall(c) ==
  /\ c \in calls
  /\ calls' = calls \ {c}
  /\ taken' = [taken EXCEPT ![c] = "removed"]
  /\ UNCHANGED <<ringing, accepting, info, used, offers, audio, gw, view>>

\* Mutant: the media of the removed call is not stopped.
mut_StopCall(c) ==
  /\ taken[c] = "removed"
  /\ taken' = [taken EXCEPT ![c] = "stopped"]
  /\ UNCHANGED <<table, used, offers, audio, gw, view>>

\* ... drops the lock and stops the call's poll and media ...
StopCall(c) ==
  /\ taken[c] = "removed"
  /\ taken' = [taken EXCEPT ![c] = "stopped"]
  /\ audio' = audio \ {c}
  /\ UNCHANGED <<table, used, offers, gw, view>>

\* ... and then reports Ended.
ReportEnded(c) ==
  /\ taken[c] = "stopped"
  /\ taken' = [taken EXCEPT ![c] = "no"]
  /\ EmitEnded(c)
  /\ info' = [info EXCEPT ![c] = Fresh("None")]
  /\ UNCHANGED <<calls, ringing, accepting, used, offers, audio, gw>>

set_mute(c, m) ==
  /\ c \in calls
  /\ info' = [info EXCEPT ![c].muted = m]
  /\ shown' = Emit(shown, c, info'[c])
  /\ UNCHANGED <<calls, ringing, accepting, used, offers, taken, audio, gw, ends>>

set_hold(c, on_hold) ==
  /\ c \in calls
  /\ LET others == IF on_hold THEN info ELSE hold_others(c)
         seen   == IF on_hold THEN shown ELSE hold_others_shown(c)
     IN  /\ info' = [others EXCEPT ![c] = apply_hold(info[c], on_hold)]
         /\ shown' = Emit(seen, c, apply_hold(info[c], on_hold))
  /\ UNCHANGED <<calls, ringing, accepting, used, offers, taken, audio, gw, ends>>

\* swap_calls(a, h): a goes on hold, then every other call, then h resumes.
swap_calls(a, h) ==
  /\ a # h /\ a \in calls /\ h \in calls
  /\ info' = [hold_others(h) EXCEPT ![h] = apply_hold(info[h], FALSE)]
  /\ shown' = IF info[h].state = "OnHold"
              THEN Emit(hold_others_shown(h), h, apply_hold(info[h], FALSE))
              ELSE hold_others_shown(h)
  /\ UNCHANGED <<calls, ringing, accepting, used, offers, taken, audio, gw, ends>>

-----------------------------------------------------------------------------
(* The gateway and the far end. *)

GatewayAccepts(c) ==
  /\ accept[c] = "sent" /\ gw[c] = "offered"
  /\ accept' = [accept EXCEPT ![c] = "accepted"]
  /\ gw' = [gw EXCEPT ![c] = "up"]
  /\ UNCHANGED <<table, used, drops, watched, abandoned, taken, audio, view>>

RemoteEnds(c) ==
  /\ gw[c] \in {"offered", "up"}
  /\ gw' = [gw EXCEPT ![c] = "gone"]
  /\ UNCHANGED <<table, used, offers, taken, audio, view>>

-----------------------------------------------------------------------------
OutgoingStep(c) == \/ ReserveOutgoing(c) \/ RefusePrecancelled(c) \/ OutgoingConnects(c)
                   \/ RingingEnds(c) \/ HangupNotYetMade(c)

IncomingStep(c) == \/ HandlePush(c) \/ ReserveAccept(c) \/ SendAnswer(c)
                   \/ AcceptRefused(c) \/ AcceptUnknown(c) \/ AnswerOffer(c) \/ DropReservation(c)
                   \/ RejectIncoming(c) \/ WatchEnds(c) \/ WatchActive(c)
                   \/ WatchRejects(c) \/ GatewayAccepts(c)

CallStep(c) == \/ TakeCall(c) \/ StopCall(c) \/ ReportEnded(c) \/ RemoteEnds(c)
               \/ \E b \in BOOLEAN : set_mute(c, b) \/ set_hold(c, b)
               \/ \E h \in Call : swap_calls(c, h)

Next == \/ \E c \in Outgoing : OutgoingStep(c)
        \/ \E c \in Incoming : IncomingStep(c)
        \/ \E c \in Call : CallStep(c)

Spec == Init /\ [][Next]_vars

-----------------------------------------------------------------------------
(* Safety. *)

\* Never more than MAX_LIVE_CALLS calls are connected, ringing or being
\* accepted, whatever hangups, answers and reservation drops interleave
\* (reserve_accept, reserve_outgoing, answer_offer, AcceptReservation::drop).
LiveCap == live_call_count <= MAX_LIVE_CALLS

\* At most one connected call is off hold: only that call plays to the
\* speaker and reads the microphone (hold_others, set_hold, swap_calls).
OneOffHold == \A c, d \in calls : c # d => "OnHold" \in {info[c].state, info[d].state}

\* What the app was last told about a live call is what the table holds, so
\* no hold, mute or connect event is lost, stale or out of order.
ShownMatchesTable == \A c \in calls \cup ringing : shown[c] = info[c]

\* RTP loops run for the calls of the map and for calls still being torn
\* down, and for no other: no media session outlives its call (stop_call).
AudioOwned == audio = calls \cup {c \in Call : taken[c] = "removed"}

\* No two calls play to the speaker at once: answer_offer and dial start a
\* call's media only after the other calls are held.
SpeakerNotShared ==
  \A c, d \in audio : c # d => "OnHold" \in {info[c].state, info[d].state}

\* The table implements the contract with the app: one Ended per call and
\* nothing after it, one Connected, Ringing only first.
Contract == INSTANCE CallContract WITH
              reported <- [c \in Call |-> shown[c].state], endings <- ends
ImplementsContract == Contract!Spec

\* A slot under MAX_LIVE_CALLS is held only by an accept that runs or has yet
\* to drop it: no refused, timed-out or lost accept leaves a slot taken, which
\* would in time refuse every call (AcceptReservation).
NoSlotLeaked == \A c \in accepting : accept[c] # "idle" \/ c \in drops

(* The inductive invariant the proofs of CallTable_proofs rest on. *)

\* A call is in one place, and its info, its reports and its teardown agree.
OnePlace == \A c \in Call :
  /\ c \in ringing => c \notin calls /\ info[c].state = "Ringing"
  /\ c \in calls => info[c].state \in {"Connected", "OnHold"}
  /\ c \in calls \cup ringing => taken[c] = "no"
  /\ taken[c] # "no" => shown[c] = info[c] /\ info[c].state \in {"Connected", "OnHold"}
  /\ ends[c] = IF shown[c].state = "Ended" THEN 1 ELSE 0

\* The ids in the window are distinct, and an outgoing id not in it is new.
UsedIds ==
  /\ \A i, j \in 1 .. Len(used) : used[i].id = used[j].id => i = j
  /\ \A c \in Outgoing : ~is_used(c) => /\ c \notin calls \cup ringing
                                        /\ taken[c] = "no"
                                        /\ shown[c].state = "None"

\* An offered call, and one whose answer is under way, has not connected.
NotYetConnected(c) ==
  c \notin calls /\ taken[c] = "no" /\ shown[c].state \in {"None", "Ended"}
\* A call whose answer can still succeed holds its reservation, and no
\* earlier accept of it is left to drop that reservation.
Reservations == \A c \in Incoming :
  /\ \/ gw[c] = "offered" \/ accept[c] \in {"sent", "accepted"} \/ c \in watched
     => NotYetConnected(c)
  /\ \/ accept[c] \in {"sent", "accepted"}
     \/ accept[c] = "reserved" /\ gw[c] = "offered"
     => c \in accepting /\ c \notin drops
  /\ accept[c] = "accepted" => gw[c] # "offered"
  /\ gw[c] = "offered" /\ c \in drops => c \in accepting

IndInv == /\ TypeOK /\ LiveCap /\ OneOffHold /\ ShownMatchesTable /\ AudioOwned
          /\ NoSlotLeaked /\ OnePlace /\ UsedIds /\ Reservations

=============================================================================
