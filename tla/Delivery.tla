------------------------------ MODULE Delivery ------------------------------
(***************************************************************************)
(* How the app comes to hear of a call: the threads that change calls, the *)
(* locks under which they queue its events (the call map's, that of the    *)
(* incoming watches, and each call's CallEvents), the queue, and the       *)
(* dispatch thread, whose callbacks may call the engine again or panic.    *)
(*                                                                         *)
(* CallTable takes a change and its events as one step.  Here they are the *)
(* steps between two lock operations, for calls that are offered, answered,*)
(* held, resumed and ended.                                                *)
(***************************************************************************)
EXTENDS Naturals, Sequences

CONSTANTS Call, Thread,   \* incoming calls, and the threads besides ...
          dispatcher,     \* ... the dispatch thread
          None,
          OPERATIONS      \* bound: how many engine operations are begun

ASSUME DeliveryAssumption ==
  /\ dispatcher \notin Thread /\ None \notin Thread \cup {dispatcher} \cup Call
  /\ Call \cap {"calls", "pending"} = {}
  /\ OPERATIONS \in Nat

Threads == Thread \cup {dispatcher}
Locks == {"calls", "pending"} \cup Call

VARIABLES
  place,     \* offered, being answered, in the call map, or out of it
  on_hold,   \* CallInfo.on_hold
  entry,     \* the call is in pending_incoming
  ended,     \* CallEvents.ended
  owner,     \* the thread that holds each lock
  doing,     \* what each thread is doing
  queue,     \* the events queued: a call and its state
  disp,      \* the dispatch thread is waiting or inside a callback
  handler,   \* a handler is installed
  shown,     \* the state last delivered for each call
  missed,    \* an event came before there was a handler
  left       \* operations not yet begun

engine == <<place, on_hold, entry>>
app == <<disp, handler, shown, missed>>
vars == <<engine, ended, owner, doing, queue, app, left>>

Contract == INSTANCE CallContract WITH reported <- shown, endings <- [c \in Call |-> 0]

Idle == [op |-> "idle", call |-> None, at |-> "idle"]

TypeOK ==
  /\ place \in [Call -> {"offered", "answering", "connected", "out"}]
  /\ on_hold \in [Call -> BOOLEAN] /\ entry \in [Call -> BOOLEAN]
  /\ ended \in [Call -> BOOLEAN]
  /\ owner \in [Locks -> Threads \cup {None}]
  /\ doing \in [Threads -> [op : {"idle", "answer", "hold", "resume", "end", "watch"},
                            call : Call \cup {None},
                            at : {"idle", "clear", "lock", "locked", "holding", "taken"}]]
  /\ queue \in Seq(Call \X Contract!States)
  /\ disp \in {"waiting", "calling", "dead"}
  /\ handler \in BOOLEAN /\ missed \in BOOLEAN
  /\ shown \in [Call -> Contract!States]
  /\ left \in 0 .. OPERATIONS

Init ==
  /\ place = [c \in Call |-> "offered"] /\ on_hold = [c \in Call |-> FALSE]
  /\ entry = [c \in Call |-> TRUE] /\ ended = [c \in Call |-> FALSE]
  /\ owner = [l \in Locks |-> None]
  /\ doing = [t \in Threads |-> Idle]
  /\ queue = <<>> /\ disp = "waiting" /\ handler = FALSE
  /\ shown = [c \in Call |-> "None"] /\ missed = FALSE
  /\ left = OPERATIONS

Free(l) == owner[l] = None
At(t, p) == doing[t].at = p
On(t) == doing[t].call
Moves(t, p) == doing' = [doing EXCEPT ![t].at = p]
Returns(t) == doing' = [doing EXCEPT ![t] = Idle]

\* What the engine has a call as, in the app's terms.
State(c) == CASE place[c] \in {"offered", "answering"} -> "None"
              [] place[c] = "connected" -> IF on_hold[c] THEN "OnHold" ELSE "Connected"
              [] place[c] = "out" -> "Ended"

\* CallEvents::emit for a call whose lock is free, or held by the caller.
Emit(c, state) ==
  IF ended[c] THEN UNCHANGED <<ended, queue>>
  ELSE /\ queue' = Append(queue, <<c, state>>)
       /\ ended' = [ended EXCEPT ![c] = state = "Ended"]

-----------------------------------------------------------------------------
(* A thread begins an operation: from the app, a poll, or a callback. *)

Begin(t, op, c) ==
  /\ doing[t] = Idle /\ left > 0 /\ left' = left - 1
  /\ t = dispatcher => disp = "calling"
  /\ doing' = [doing EXCEPT ![t] = [op |-> op, call |-> c,
                                    at |-> IF op = "answer" THEN "clear" ELSE "lock"]]
  /\ UNCHANGED <<on_hold, entry, ended, owner, queue, app>>

\* The gateway took the answer of a call whose watch is still there.
BeginAnswer(t, c) ==
  /\ place[c] = "offered" /\ entry[c]
  /\ Begin(t, "answer", c)
  /\ place' = [place EXCEPT ![c] = "answering"]

BeginOther(t, c) ==
  /\ \/ place[c] = "connected" /\ \E op \in {"hold", "resume", "end"} : Begin(t, op, c)
     \/ entry[c] /\ t # dispatcher /\ Begin(t, "watch", c)
  /\ UNCHANGED place

\* answer_offer's clear_pending_incoming.
ClearPending(t) ==
  /\ At(t, "clear") /\ Free("pending")
  /\ entry' = [entry EXCEPT ![On(t)] = FALSE]
  /\ Moves(t, "lock")
  /\ UNCHANGED <<place, on_hold, ended, owner, queue, app, left>>

\* set_hold of a call that has left the map returns at once.
LockCalls(t) ==
  /\ At(t, "lock") /\ doing[t].op \in {"answer", "hold", "resume"} /\ Free("calls")
  /\ IF doing[t].op # "answer" /\ place[On(t)] # "connected"
     THEN Returns(t) /\ UNCHANGED owner
     ELSE /\ owner' = [owner EXCEPT !["calls"] = t]
          /\ Moves(t, IF doing[t].op = "resume" THEN "holding" ELSE "locked")
  /\ UNCHANGED <<engine, ended, queue, app, left>>

\* emit_after: the call's events stay locked while the other calls are held.
AnswerLocksEvents(t) ==
  /\ At(t, "locked") /\ doing[t].op = "answer" /\ Free(On(t))
  /\ IF ended[On(t)]
     THEN /\ owner' = [owner EXCEPT !["calls"] = None]
          /\ place' = [place EXCEPT ![On(t)] = "out"]
          /\ Returns(t)
     ELSE /\ owner' = [owner EXCEPT ![On(t)] = t]
          /\ Moves(t, "holding") /\ UNCHANGED place
  /\ UNCHANGED <<on_hold, entry, ended, queue, app, left>>

OffHold(t) == {b \in Call \ {On(t)} : place[b] = "connected" /\ ~on_hold[b]}

\* hold_others.
HoldOther(t) ==
  /\ At(t, "holding")
  /\ \E b \in OffHold(t) :
       /\ Free(b)
       /\ on_hold' = [on_hold EXCEPT ![b] = TRUE]
       /\ Emit(b, "OnHold")
  /\ UNCHANGED <<place, entry, owner, doing, app, left>>

\* The call connects, or changes its hold state, and that is queued.
Unlock(t) ==
  /\ owner' = [l \in Locks |-> IF owner[l] = t THEN None ELSE owner[l]]
  /\ Returns(t)
  /\ UNCHANGED <<entry, app, left>>

AnswerConnects(t) ==
  /\ At(t, "holding") /\ doing[t].op = "answer" /\ OffHold(t) = {}
  /\ place' = [place EXCEPT ![On(t)] = "connected"]
  /\ queue' = Append(queue, <<On(t), "Connected">>)
  /\ UNCHANGED <<on_hold, ended>>
  /\ Unlock(t)

SetHold(t) ==
  /\ \/ At(t, "locked") /\ doing[t].op = "hold"
     \/ At(t, "holding") /\ doing[t].op = "resume" /\ OffHold(t) = {}
  /\ Free(On(t))
  /\ on_hold' = [on_hold EXCEPT ![On(t)] = doing[t].op = "hold"]
  /\ Emit(On(t), IF doing[t].op = "hold" THEN "OnHold" ELSE "Connected")
  /\ UNCHANGED place
  /\ Unlock(t)

\* take_call: the map's lock is released before the end is reported.
TakeCall(t) ==
  /\ At(t, "lock") /\ doing[t].op = "end" /\ Free("calls")
  /\ IF place[On(t)] = "connected"
     THEN place' = [place EXCEPT ![On(t)] = "out"] /\ Moves(t, "taken")
     ELSE Returns(t) /\ UNCHANGED place
  /\ UNCHANGED <<on_hold, entry, ended, owner, queue, app, left>>

\* Mutant: the watches' lock is released before the end is reported.
mut_WatchTakes(t) ==
  /\ At(t, "lock") /\ doing[t].op = "watch" /\ Free("pending") /\ entry[On(t)]
  /\ entry' = [entry EXCEPT ![On(t)] = FALSE]
  /\ place' = [place EXCEPT ![On(t)] = IF @ = "offered" THEN "out" ELSE @]
  /\ Moves(t, "taken")
  /\ UNCHANGED <<on_hold, ended, owner, queue, app, left>>

\* The watch finds the call gone, and reports it under the watches' lock.
WatchTakes(t) ==
  /\ At(t, "lock") /\ doing[t].op = "watch" /\ Free("pending")
  /\ IF entry[On(t)]
     THEN /\ entry' = [entry EXCEPT ![On(t)] = FALSE]
          /\ owner' = [owner EXCEPT !["pending"] = t]
          /\ place' = [place EXCEPT ![On(t)] = IF @ = "offered" THEN "out" ELSE @]
          /\ Moves(t, "taken")
     ELSE Returns(t) /\ UNCHANGED <<entry, owner, place>>
  /\ UNCHANGED <<on_hold, ended, queue, app, left>>

EmitEnded(t) ==
  /\ At(t, "taken") /\ Free(On(t))
  /\ Emit(On(t), "Ended")
  /\ UNCHANGED <<place, on_hold>>
  /\ Unlock(t)

Step(t) ==
  \/ ClearPending(t) \/ LockCalls(t) \/ AnswerLocksEvents(t) \/ HoldOther(t)
  \/ AnswerConnects(t) \/ SetHold(t) \/ TakeCall(t) \/ WatchTakes(t) \/ EmitEnded(t)

-----------------------------------------------------------------------------
(* The dispatch thread. *)

set_event_handler ==
  /\ ~handler /\ handler' = TRUE
  /\ UNCHANGED <<engine, ended, owner, doing, queue, disp, shown, missed, left>>

\* An event without a handler is dropped; otherwise the callback runs with
\* no lock held.
Deliver ==
  /\ disp = "waiting" /\ queue # <<>>
  /\ queue' = Tail(queue)
  /\ IF handler
     THEN /\ disp' = "calling"
          /\ shown' = [shown EXCEPT ![Head(queue)[1]] = Head(queue)[2]]
          /\ UNCHANGED missed
     ELSE missed' = TRUE /\ UNCHANGED <<disp, shown>>
  /\ UNCHANGED <<engine, ended, owner, doing, handler, left>>

\* Mutant: a callback that panics takes the thread with it.
mut_CallbackReturns ==
  /\ disp = "calling" /\ doing[dispatcher] = Idle
  /\ disp' \in {"waiting", "dead"}
  /\ UNCHANGED <<engine, ended, owner, doing, queue, handler, shown, missed, left>>

\* The callback returns or panics; the thread goes on.
CallbackReturns ==
  /\ disp = "calling" /\ doing[dispatcher] = Idle
  /\ disp' = "waiting"
  /\ UNCHANGED <<engine, ended, owner, doing, queue, handler, shown, missed, left>>

AtRest == queue = <<>> /\ disp = "waiting" /\ \A t \in Threads : doing[t] = Idle

Next ==
  \/ \E t \in Threads : Step(t) \/ \E c \in Call : BeginAnswer(t, c) \/ BeginOther(t, c)
  \/ set_event_handler \/ Deliver \/ CallbackReturns

\* Threads that have begun an operation run on, callbacks return, and the
\* dispatch thread is scheduled; nothing has to begin.
Fairness ==
  /\ \A t \in Threads : WF_vars(Step(t))
  /\ WF_vars(Deliver) /\ WF_vars(CallbackReturns)

Spec == Init /\ [][Next]_vars /\ Fairness

-----------------------------------------------------------------------------
\* What the app has been and will be told of a call: the state last delivered,
\* at position 0, and the events of the call at their positions in the queue.
Told(c) == {0} \cup {i \in DOMAIN queue : queue[i][1] = c}
ToldAt(c, i) == IF i = 0 THEN shown[c] ELSE queue[i][2]

ToldNext(c, i, j) == i < j /\ \A k \in Told(c) : k <= i \/ j <= k
ToldLast(c, i) == \A k \in Told(c) : k <= i

\* The delivered order is the order in which the state actually changed
\* (events.rs:9): what is delivered and queued for a call keeps the contract,
\* nothing follows its Ended, and it comes to the state the engine has the
\* call in, whichever threads raced for it, unless one has yet to report it.
DeliveredInOrder ==
  missed \/ \A c \in Call : \A i \in Told(c) :
    /\ \A j \in Told(c) : ToldNext(c, i, j) => ToldAt(c, j) \in Contract!Follows(ToldAt(c, i))
    /\ ToldLast(c, i) =>
         \/ ToldAt(c, i) = State(c)
         \/ \E t \in Threads : On(t) = c /\ (At(t, "taken") \/ doing[t].op = "answer")

\* DeliveredInOrder over well-typed states.
Consistent == TypeOK /\ DeliveredInOrder

\* No lock order, re-entrant callback or panic stops the engine: every
\* operation returns and every event is delivered.
EverythingDelivered == []<>AtRest
=============================================================================
