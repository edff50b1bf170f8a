-------------------------- MODULE Delivery_proofs --------------------------
(***************************************************************************)
(* Theorems about the delivery of events, for any calls, threads and       *)
(* number of operations: what each thread has locked and may rely on       *)
(* (Answers, Holds, Takes), where that leaves a call (Places), and         *)
(* that what is delivered and queued of a call follows its state (Order).  *)
(***************************************************************************)
EXTENDS Delivery, TLAPS

\* Threads are on a call, at a place of their operation.
Program ==
  \A t \in Threads :
    /\ doing[t].op # "idle" => On(t) \in Call
    /\ doing[t].op = "idle" => doing[t].at = "idle"
    /\ doing[t].op = "answer" => doing[t].at \in {"clear", "lock", "locked", "holding"}
    /\ doing[t].op = "hold"   => doing[t].at \in {"lock", "locked"}
    /\ doing[t].op = "resume" => doing[t].at \in {"lock", "holding"}
    /\ doing[t].op \in {"end", "watch"} => doing[t].at \in {"lock", "taken"}

\* A call is answered by one thread, which has taken its watch before it looks
\* at the call map, and from its look at `ended` to Connected keeps others
\* from reporting the call.
Answers ==
  /\ \A t \in Threads : doing[t].op = "answer" =>
       /\ place[On(t)] = "answering"
       /\ doing[t].at # "clear" => ~entry[On(t)]
       /\ doing[t].at \in {"locked", "holding"} => owner["calls"] = t
       /\ doing[t].at = "holding" => owner[On(t)] = t /\ ~ended[On(t)]
  /\ \A t, u \in Threads :
       doing[t].op = "answer" /\ doing[u].op = "answer" /\ On(t) = On(u) => t = u

\* A call that is being held or resumed cannot leave the call map.
Holds ==
  \A t \in Threads :
    doing[t].op \in {"hold", "resume"} /\ doing[t].at # "lock" =>
      owner["calls"] = t /\ place[On(t)] = "connected"

\* A watch that has taken its call reports it before an answer can clear the
\* watch; a call that was connected is ended by whoever took it off the map.
Takes ==
  \A t \in Threads : doing[t].at = "taken" =>
    /\ ~entry[On(t)]
    /\ doing[t].op = "end" => place[On(t)] = "out"
    /\ doing[t].op = "watch" =>
         /\ owner["pending"] = t /\ place[On(t)] \in {"answering", "out"}
         /\ \A u \in Threads : doing[u].op = "answer" /\ On(u) = On(t) => doing[u].at = "clear"

Places ==
  \A c \in Call :
    /\ entry[c] => place[c] \in {"offered", "answering"}
    /\ place[c] \in {"offered", "connected"} => ~ended[c]
    /\ place[c] \in {"offered", "answering"} => ~on_hold[c]
    /\ place[c] = "answering" => \E t \in Threads : On(t) = c /\ doing[t].op = "answer"
    /\ place[c] = "out" => ended[c] \/ \E t \in Threads : On(t) = c /\ At(t, "taken")

\* The last event of a call is Ended once its CallEvents is closed, and until
\* then the state it is in, or was in when it was taken off the map.
Order ==
  missed \/ \A c \in Call : \A i \in Told(c) :
    /\ \A j \in Told(c) : ToldNext(c, i, j) => ToldAt(c, j) \in Contract!Follows(ToldAt(c, i))
    /\ ToldLast(c, i) =>
         /\ ended[c] <=> ToldAt(c, i) = "Ended"
         /\ ~ended[c] /\ place[c] # "out" => ToldAt(c, i) = State(c)

IInv == TypeOK /\ Program /\ Answers /\ Holds /\ Takes /\ Places /\ Order
-----------------------------------------------------------------------------
(* The events of a call. *)

Events == Seq(Call \X Contract!States)

LEMMA Positions ==
  ASSUME queue \in Events, NEW c \in Call
  PROVE  /\ Told(c) \subseteq 0 .. Len(queue) /\ 0 \in Told(c)
         /\ \A i \in 1 .. Len(queue) : i \in Told(c) <=> queue[i][1] = c
BY DEF Events, Told

\* What a step that queues nothing may do to a call.
Same(c) == /\ ended'[c] <=> ended[c]
           /\ ~ended[c] /\ place'[c] # "out" => place[c] # "out" /\ State(c)' = State(c)

LEMMA KeepOrder ==
  ASSUME Order, \A c \in Call : Same(c), UNCHANGED <<queue, shown, missed>>
  PROVE  Order'
<1>1. \A c, i, j : /\ Told(c)' = Told(c) /\ ToldAt(c, i)' = ToldAt(c, i)
                   /\ ToldNext(c, i, j)' = ToldNext(c, i, j) /\ ToldLast(c, i)' = ToldLast(c, i)
  BY DEF Told, ToldAt, ToldNext, ToldLast
<1> QED BY <1>1 DEF Order, Same

LEMMA AppendOrder ==
  ASSUME Order, queue \in Events, NEW b \in Call, NEW st \in Contract!States,
         queue' = Append(queue, <<b, st>>), UNCHANGED <<shown, missed>>,
         \A c \in Call \ {b} : Same(c),
         ~missed => \A i \in Told(b) : ToldLast(b, i) => st \in Contract!Follows(ToldAt(b, i)),
         ended'[b] <=> st = "Ended",
         ~ended'[b] /\ place'[b] # "out" => st = State(b)'
  PROVE  Order'
<1>0. PICK n \in Nat : n = Len(queue)
  BY DEF Events
<1>1. /\ Len(queue') = n + 1 /\ queue'[n + 1] = <<b, st>>
      /\ \A i \in 1 .. n : queue'[i] = queue[i]
  BY <1>0 DEF Events
<1>2. /\ DOMAIN queue = 1 .. n /\ DOMAIN queue' = 1 .. n + 1
  BY <1>0 DEF Events
<1>3. \A c \in Call : Told(c) \subseteq 0 .. n
  BY <1>0, Positions
<1>4. SUFFICES ASSUME ~missed, NEW c \in Call, NEW i \in Told(c)'
               PROVE  /\ \A j \in Told(c)' : ToldNext(c, i, j)'
                           => ToldAt(c, j)' \in Contract!Follows(ToldAt(c, i)')
                      /\ ToldLast(c, i)' =>
                           /\ ended'[c] <=> ToldAt(c, i)' = "Ended"
                           /\ ~ended'[c] /\ place'[c] # "out" => ToldAt(c, i)' = State(c)'
  BY DEF Order
<1>5. \A k \in Told(c) : ToldAt(c, k)' = ToldAt(c, k)
  BY <1>1, <1>3 DEF ToldAt
<1>6. CASE c # b
  <2>1. Told(c)' = Told(c)
    BY <1>1, <1>2, <1>6 DEF Told
  <2>2. \A j, k : ToldNext(c, j, k)' = ToldNext(c, j, k) /\ ToldLast(c, j)' = ToldLast(c, j)
    BY <2>1 DEF ToldNext, ToldLast
  <2>3. Same(c)
    BY <1>6
  <2> QED BY <1>4, <1>5, <2>1, <2>2, <2>3 DEF Order, Same
<1>7. CASE c = b
  <2>1. Told(c)' = Told(c) \cup {n + 1}
    BY <1>1, <1>2, <1>7 DEF Told
  <2>2. ToldAt(c, n + 1)' = st
    BY <1>1 DEF ToldAt
  <2>3. ASSUME ToldLast(c, i)' PROVE i = n + 1
    BY <1>1, <1>3, <2>1, <2>3 DEF ToldLast
  <2>4. ASSUME NEW j \in Told(c)', ToldNext(c, i, j)'
        PROVE  ToldAt(c, j)' \in Contract!Follows(ToldAt(c, i)')
    <3>1. i \in Told(c) /\ i < j
      BY <1>1, <1>3, <2>1, <2>4 DEF ToldNext
    <3>2. CASE j = n + 1
      <4>1. ToldLast(c, i)
        BY <1>1, <1>3, <2>1, <2>4, <3>1, <3>2 DEF ToldNext, ToldLast
      <4> QED BY <1>4, <1>5, <1>7, <2>2, <3>1, <3>2, <4>1
    <3>3. CASE j \in Told(c)
      <4>1. ToldNext(c, i, j)
        BY <2>1, <2>4 DEF ToldNext
      <4> QED BY <1>4, <1>5, <3>1, <3>3, <4>1 DEF Order
    <3> QED BY <2>1, <2>4, <3>2, <3>3
  <2> QED BY <1>7, <2>2, <2>3, <2>4
<1> QED BY <1>6, <1>7

\* Delivering the head of the queue moves every event of its call up by one.
LEMMA TailOrder ==
  ASSUME Order, queue \in Events, queue # <<>>, queue' = Tail(queue),
         shown \in [Call -> Contract!States],
         shown' = [shown EXCEPT ![Head(queue)[1]] = Head(queue)[2]],
         UNCHANGED <<missed, ended, place, on_hold>>
  PROVE  Order'
<1>0. PICK n \in Nat \ {0} : n = Len(queue)
  BY DEF Events
<1>1. /\ Len(queue') = n - 1
      /\ \A i \in 1 .. n - 1 : queue'[i] = queue[i + 1]
      /\ Head(queue) = queue[1] /\ queue[1][1] \in Call
  BY <1>0 DEF Events
<1>2. DOMAIN queue = 1 .. n /\ DOMAIN queue' = 1 .. n - 1
  BY <1>0 DEF Events
<1>3. SUFFICES ASSUME ~missed, NEW c \in Call, NEW i \in Told(c)'
               PROVE  /\ \A j \in Told(c)' : ToldNext(c, i, j)'
                           => ToldAt(c, j)' \in Contract!Follows(ToldAt(c, i)')
                      /\ ToldLast(c, i)' =>
                           /\ ended'[c] <=> ToldAt(c, i)' = "Ended"
                           /\ ~ended'[c] /\ place'[c] # "out" => ToldAt(c, i)' = State(c)'
  BY DEF Order
<1> DEFINE was(k) == IF k = 0 /\ queue[1][1] # c THEN 0 ELSE k + 1
<1>4. \A k \in Told(c)' : /\ was(k) \in Told(c) /\ k \in 0 .. n - 1
                          /\ ToldAt(c, k)' = ToldAt(c, was(k))
  <2>1. \A k \in Told(c)' : k \in 0 .. n - 1 /\ was(k) \in Told(c)
    BY <1>1, <1>2 DEF Told
  <2>2. ASSUME NEW k \in Told(c)' PROVE ToldAt(c, k)' = ToldAt(c, was(k))
    <3>1. CASE k = 0
      BY <1>1, <3>1 DEF ToldAt
    <3>2. CASE k # 0
      BY <1>1, <2>1, <3>2 DEF ToldAt
    <3> QED BY <3>1, <3>2
  <2> QED BY <2>1, <2>2
<1>5. \A k \in Told(c) : k > was(0) => k - 1 \in Told(c)' /\ was(k - 1) = k
  BY <1>1, <1>2 DEF Told
<1>6. \A j, k \in Told(c)' : j <= k <=> was(j) <= was(k)
  BY <1>4
<1>7. \A k \in Told(c) : k <= was(i) \/ \E m \in Told(c)' : was(m) = k
  <2>1. was(0) <= was(i)
    BY <1>4
  <2>2. \A k \in Told(c) : k \in Nat /\ was(i) \in Nat /\ was(0) \in Nat
    BY <1>2, <1>4 DEF Told
  <2> HIDE DEF was
  <2> QED BY <1>5, <2>1, <2>2
<1>8. ASSUME ToldLast(c, i)' PROVE ToldLast(c, was(i))
  BY <1>4, <1>6, <1>7, <1>8 DEF ToldLast
<1>9. ASSUME NEW j \in Told(c)', ToldNext(c, i, j)'
      PROVE  ToldNext(c, was(i), was(j))
  BY <1>4, <1>6, <1>7, <1>9 DEF ToldNext
<1>10. State(c)' = State(c)
  BY DEF State
<1> HIDE DEF was
<1> QED BY <1>3, <1>4, <1>8, <1>9, <1>10 DEF Order

-----------------------------------------------------------------------------
(* The threads. *)

Doing == [op : {"idle", "answer", "hold", "resume", "end", "watch"}, call : Call \cup {None},
          at : {"idle", "clear", "lock", "locked", "holding", "taken"}]

LEMMA MovesType ==
  ASSUME TypeOK, NEW t \in Threads, NEW p \in {"idle", "clear", "lock", "locked", "holding", "taken"}
  PROVE  /\ Moves(t, p) => /\ doing' \in [Threads -> Doing]
                           /\ doing'[t].op = doing[t].op /\ doing'[t].call = doing[t].call
                           /\ doing'[t].at = p /\ \A u \in Threads \ {t} : doing'[u] = doing[u]
         /\ Returns(t) => /\ doing' \in [Threads -> Doing]
                          /\ doing'[t] = Idle /\ \A u \in Threads \ {t} : doing'[u] = doing[u]
<1>1. doing \in [Threads -> Doing] /\ Idle \in Doing
  BY DEF TypeOK, Doing, Idle
<1>2. ASSUME Moves(t, p) PROVE doing' = [doing EXCEPT ![t] = [doing[t] EXCEPT !.at = p]]
  BY <1>2 DEF Moves
<1>3. [doing[t] EXCEPT !.at = p] \in Doing
  BY <1>1 DEF Doing
<1>4. [doing[t] EXCEPT !.at = p].op = doing[t].op /\ [doing[t] EXCEPT !.at = p].call = doing[t].call
      /\ [doing[t] EXCEPT !.at = p].at = p
  BY <1>1 DEF Doing
<1> QED BY <1>1, <1>2, <1>3, <1>4 DEF Returns

LEMMA BeginFacts ==
  ASSUME TypeOK, NEW t \in Threads, NEW c \in Call,
         NEW op \in {"answer", "hold", "resume", "end", "watch"}, Begin(t, op, c)
  PROVE  /\ doing' \in [Threads -> Doing] /\ doing[t] = Idle
         /\ doing'[t].op = op /\ doing'[t].call = c
         /\ doing'[t].at = IF op = "answer" THEN "clear" ELSE "lock"
         /\ \A u \in Threads \ {t} : doing'[u] = doing[u]
         /\ left' \in 0 .. OPERATIONS
         /\ UNCHANGED <<on_hold, entry, ended, owner, queue, app>>
<1> DEFINE new == [op |-> op, call |-> c, at |-> IF op = "answer" THEN "clear" ELSE "lock"]
<1>1. doing \in [Threads -> Doing] /\ new \in Doing
  BY DEF TypeOK, Doing
<1>2. doing' = [doing EXCEPT ![t] = new] /\ doing[t] = Idle
  BY DEF Begin
<1>3. new.op = op /\ new.call = c /\ new.at = IF op = "answer" THEN "clear" ELSE "lock"
  OBVIOUS
<1> HIDE DEF new
<1>4. left' \in 0 .. OPERATIONS
  BY DeliveryAssumption DEF Begin, TypeOK
<1>5. UNCHANGED <<on_hold, entry, ended, owner, queue, app>>
  BY DEF Begin
<1> QED BY <1>1, <1>2, <1>3, <1>4, <1>5

LEMMA UnlockType ==
  ASSUME TypeOK, NEW t \in Threads, Unlock(t)
  PROVE  /\ owner' \in [Locks -> Threads \cup {None}]
         /\ \A l \in Locks : owner'[l] = IF owner[l] = t THEN None ELSE owner[l]
         /\ doing' \in [Threads -> Doing] /\ doing'[t] = Idle
         /\ \A u \in Threads \ {t} : doing'[u] = doing[u]
         /\ UNCHANGED <<entry, app, left>>
<1>1. Returns(t) /\ UNCHANGED <<entry, app, left>>
  BY DEF Unlock
<1>2. owner' \in [Locks -> Threads \cup {None}]
  BY DEF TypeOK, Unlock
<1>3. \A l \in Locks : owner'[l] = IF owner[l] = t THEN None ELSE owner[l]
  BY DEF Unlock
<1> QED BY <1>1, <1>2, <1>3, MovesType

LEMMA EmitType ==
  ASSUME TypeOK, NEW c \in Call, NEW state \in Contract!States, Emit(c, state)
  PROVE  queue' \in Seq(Call \X Contract!States) /\ ended' \in [Call -> BOOLEAN]
<1>1. <<c, state>> \in Call \X Contract!States
  OBVIOUS
<1>2. queue' \in Seq(Call \X Contract!States)
  <2>1. CASE ended[c]
    BY <2>1 DEF Emit, TypeOK
  <2>2. CASE ~ended[c]
    <3> DEFINE Event == Call \X Contract!States
    <3>1. queue' = Append(queue, <<c, state>>) /\ queue \in Seq(Event) /\ <<c, state>> \in Event
      BY <1>1, <2>2 DEF Emit, TypeOK
    <3> HIDE DEF Event
    <3>2. queue' \in Seq(Event)
      BY <3>1
    <3> QED BY <3>2 DEF Event
  <2> QED BY <2>1, <2>2
<1>3. ended' \in [Call -> BOOLEAN]
  BY DEF Emit, TypeOK
<1> QED BY <1>2, <1>3

\* Of an operation that begins, only its thread's state and its place change.
LEMMA OtherFacts ==
  ASSUME TypeOK, NEW t \in Threads, NEW c \in Call, BeginOther(t, c)
  PROVE  /\ doing' \in [Threads -> Doing] /\ doing[t] = Idle
         /\ doing'[t].op \in {"hold", "resume", "end", "watch"} /\ doing'[t].call = c
         /\ doing'[t].at = "lock" /\ \A u \in Threads \ {t} : doing'[u] = doing[u]
         /\ left' \in 0 .. OPERATIONS
         /\ UNCHANGED <<place, on_hold, entry, ended, owner, queue, app>>
<1>1. PICK op \in {"hold", "resume", "end", "watch"} : Begin(t, op, c)
  BY DEF BeginOther
<1>2. UNCHANGED place
  BY DEF BeginOther
<1> QED BY <1>1, <1>2, BeginFacts

LEMMA AnswerFacts ==
  ASSUME TypeOK, NEW t \in Threads, NEW c \in Call, BeginAnswer(t, c)
  PROVE  /\ doing' \in [Threads -> Doing] /\ doing[t] = Idle
         /\ doing'[t].op = "answer" /\ doing'[t].call = c
         /\ doing'[t].at = "clear" /\ \A u \in Threads \ {t} : doing'[u] = doing[u]
         /\ left' \in 0 .. OPERATIONS
         /\ place[c] = "offered" /\ entry[c] /\ place' = [place EXCEPT ![c] = "answering"]
         /\ UNCHANGED <<on_hold, entry, ended, owner, queue, app>>
<1>1. Begin(t, "answer", c)
  BY DEF BeginAnswer
<1> QED BY <1>1, BeginFacts DEF BeginAnswer

LEMMA LockFacts ==
  ASSUME TypeOK, NEW t \in Threads, LockCalls(t)
  PROVE  /\ doing' \in [Threads -> Doing] /\ owner' \in [Locks -> Threads \cup {None}]
         /\ \A u \in Threads \ {t} : doing'[u] = doing[u]
         /\ UNCHANGED <<place, on_hold, entry, ended, queue, app, left>>
         /\ doing[t].at = "lock" /\ doing[t].op \in {"answer", "hold", "resume"}
         /\ \/ doing'[t] = Idle /\ owner' = owner /\ doing[t].op # "answer"
            \/ /\ doing'[t].op = doing[t].op /\ doing'[t].call = doing[t].call
               /\ doing'[t].at = IF doing[t].op = "resume" THEN "holding" ELSE "locked"
               /\ doing[t].op # "answer" => place[On(t)] = "connected"
               /\ owner["calls"] = None /\ owner' = [owner EXCEPT !["calls"] = t]
<1>1. CASE doing[t].op # "answer" /\ place[On(t)] # "connected"
  <2>1. Returns(t) /\ UNCHANGED owner
    BY <1>1 DEF LockCalls
  <2> QED BY <1>1, <2>1, MovesType DEF LockCalls, engine, TypeOK, At
<1>2. CASE ~(doing[t].op # "answer" /\ place[On(t)] # "connected")
  <2>1. /\ owner' = [owner EXCEPT !["calls"] = t] /\ owner["calls"] = None
        /\ Moves(t, IF doing[t].op = "resume" THEN "holding" ELSE "locked")
    BY <1>2 DEF LockCalls, Free
  <2>2. owner' \in [Locks -> Threads \cup {None}]
    BY <2>1 DEF TypeOK
  <2>3. CASE doing[t].op = "resume"
    <3>1. Moves(t, "holding")
      BY <2>1, <2>3
    <3> QED BY <1>2, <2>1, <2>2, <2>3, <3>1, MovesType DEF LockCalls, engine, At
  <2>4. CASE doing[t].op # "resume"
    <3>1. Moves(t, "locked")
      BY <2>1, <2>4
    <3> QED BY <1>2, <2>1, <2>2, <2>4, <3>1, MovesType DEF LockCalls, engine, At
  <2> QED BY <2>3, <2>4
<1> QED BY <1>1, <1>2

LEMMA EventsFacts ==
  ASSUME TypeOK, Program, NEW t \in Threads, AnswerLocksEvents(t)
  PROVE  /\ doing' \in [Threads -> Doing] /\ owner' \in [Locks -> Threads \cup {None}]
         /\ \A u \in Threads \ {t} : doing'[u] = doing[u]
         /\ UNCHANGED <<on_hold, entry, ended, queue, app, left>>
         /\ doing[t].at = "locked" /\ doing[t].op = "answer" /\ owner[On(t)] = None
         /\ \/ /\ ended[On(t)] /\ doing'[t] = Idle
               /\ place' = [place EXCEPT ![On(t)] = "out"]
               /\ owner' = [owner EXCEPT !["calls"] = None]
            \/ /\ ~ended[On(t)] /\ place' = place
               /\ doing'[t].op = "answer" /\ doing'[t].call = doing[t].call
               /\ doing'[t].at = "holding" /\ owner' = [owner EXCEPT ![On(t)] = t]
<1>1. On(t) \in Call
  BY DEF AnswerLocksEvents, Program
<1>2. CASE ended[On(t)]
  <2>1. Returns(t) /\ place' = [place EXCEPT ![On(t)] = "out"]
        /\ owner' = [owner EXCEPT !["calls"] = None]
    BY <1>2 DEF AnswerLocksEvents
  <2>2. owner' \in [Locks -> Threads \cup {None}]
    BY <2>1 DEF TypeOK
  <2> QED BY <1>2, <2>1, <2>2, MovesType DEF AnswerLocksEvents, At, Free
<1>3. CASE ~ended[On(t)]
  <2>1. Moves(t, "holding") /\ place' = place /\ owner' = [owner EXCEPT ![On(t)] = t]
    BY <1>3 DEF AnswerLocksEvents
  <2>2. owner' \in [Locks -> Threads \cup {None}]
    BY <2>1 DEF TypeOK
  <2> QED BY <1>3, <2>1, <2>2, MovesType DEF AnswerLocksEvents, At, Free
<1> QED BY <1>2, <1>3

LEMMA WatchFacts ==
  ASSUME TypeOK, Program, NEW t \in Threads, WatchTakes(t)
  PROVE  /\ doing' \in [Threads -> Doing] /\ owner' \in [Locks -> Threads \cup {None}]
         /\ \A u \in Threads \ {t} : doing'[u] = doing[u]
         /\ UNCHANGED <<on_hold, ended, queue, app, left>>
         /\ doing[t].at = "lock" /\ doing[t].op = "watch" /\ On(t) \in Call
         /\ owner["pending"] = None
         /\ \/ doing'[t] = Idle /\ UNCHANGED <<owner, place, entry>>
            \/ /\ entry[On(t)] /\ entry' = [entry EXCEPT ![On(t)] = FALSE]
               /\ doing'[t].op = "watch" /\ doing'[t].call = doing[t].call /\ doing'[t].at = "taken"
               /\ owner' = [owner EXCEPT !["pending"] = t]
               /\ \/ place[On(t)] = "offered" /\ place' = [place EXCEPT ![On(t)] = "out"]
                  \/ place[On(t)] # "offered" /\ place' = place
<1>1. On(t) \in Call
  BY DEF WatchTakes, Program
<1>2. CASE ~entry[On(t)]
  <2>1. Returns(t) /\ UNCHANGED <<owner, place, entry>>
    BY <1>2 DEF WatchTakes
  <2> QED BY <1>1, <2>1, MovesType DEF WatchTakes, At, Free, TypeOK
<1>3. CASE entry[On(t)]
  <2>1. /\ Moves(t, "taken") /\ entry' = [entry EXCEPT ![On(t)] = FALSE]
        /\ owner' = [owner EXCEPT !["pending"] = t]
        /\ place' = [place EXCEPT ![On(t)] = IF place[On(t)] = "offered" THEN "out" ELSE place[On(t)]]
    BY <1>3 DEF WatchTakes
  <2>2. owner' \in [Locks -> Threads \cup {None}]
    BY <2>1 DEF TypeOK
  <2>3. \/ place[On(t)] = "offered" /\ place' = [place EXCEPT ![On(t)] = "out"]
        \/ place[On(t)] # "offered" /\ place' = place
    BY <1>1, <2>1 DEF TypeOK
  <2> QED BY <1>1, <1>3, <2>1, <2>2, <2>3, MovesType DEF WatchTakes, At, Free
<1> QED BY <1>2, <1>3

LEMMA InitInv == Init => IInv
<1> SUFFICES ASSUME Init PROVE IInv
  OBVIOUS
<1> USE DeliveryAssumption DEF Init
<1>1. doing \in [Threads -> Doing]
  BY DEF Doing, Idle
<1>2. TypeOK
  <2>1. "None" \in Contract!States /\ queue \in Seq(Call \X Contract!States)
    BY DEF Contract!States
  <2>2. left \in 0 .. OPERATIONS
    OBVIOUS
  <2> QED BY <1>1, <2>1, <2>2 DEF TypeOK, Doing
<1>3. Program /\ Answers /\ Holds /\ Takes /\ Places
  BY DEF Program, Answers, Holds, Takes, Places, Idle
<1>4. Order
  BY DEF Order, Told, ToldAt, ToldNext, ToldLast, State
<1> QED BY <1>2, <1>3, <1>4 DEF IInv

LEMMA TypeStep ==
  ASSUME TypeOK, Program, [Next]_vars
  PROVE  TypeOK'
<1> USE DeliveryAssumption
<1>0. {"None", "Ended", "OnHold", "Connected"} \subseteq Contract!States
  BY DEF Contract!States
<1>1. ASSUME NEW t \in Threads, NEW c \in Call, BeginAnswer(t, c) \/ BeginOther(t, c)
      PROVE  TypeOK'
  <2>1. CASE BeginAnswer(t, c)
    <3>1. place' \in [Call -> {"offered", "answering", "connected", "out"}]
      BY <2>1, AnswerFacts DEF TypeOK
    <3> QED BY <2>1, <3>1, AnswerFacts DEF TypeOK, app, Doing
  <2>2. CASE BeginOther(t, c)
    BY <2>2, OtherFacts DEF TypeOK, app, Doing
  <2> QED BY <1>1, <2>1, <2>2
<1>2. ASSUME NEW t \in Threads, Step(t) PROVE TypeOK'
  <2>1. CASE ClearPending(t)
    <3>1. entry' \in [Call -> BOOLEAN] /\ Moves(t, "lock")
      BY <2>1 DEF ClearPending, TypeOK
    <3> QED BY <2>1, <3>1, MovesType DEF ClearPending, TypeOK, app, Doing
  <2>2. CASE LockCalls(t)
    BY <2>2, LockFacts DEF TypeOK, app, Doing
  <2>3. CASE AnswerLocksEvents(t)
    <3>1. place' \in [Call -> {"offered", "answering", "connected", "out"}]
      BY <2>3, EventsFacts DEF TypeOK
    <3> QED BY <2>3, <3>1, EventsFacts DEF TypeOK, app, Doing
  <2>4. CASE HoldOther(t)
    <3>1. PICK b \in Call : on_hold' = [on_hold EXCEPT ![b] = TRUE] /\ Emit(b, "OnHold")
      BY <2>4 DEF HoldOther, OffHold
    <3>2. on_hold' \in [Call -> BOOLEAN]
      BY <3>1 DEF TypeOK
    <3> QED BY <1>0, <2>4, <3>1, <3>2, EmitType DEF HoldOther, TypeOK, app
  <2>5. CASE AnswerConnects(t)
    <3>1. place' \in [Call -> {"offered", "answering", "connected", "out"}]
      BY <2>5 DEF AnswerConnects, TypeOK
    <3>2. On(t) \in Call /\ Unlock(t) /\ UNCHANGED <<on_hold, ended>>
      BY <2>5 DEF AnswerConnects, Program
    <3>3. queue' \in Seq(Call \X Contract!States)
      <4> DEFINE Event == Call \X Contract!States
      <4>1. /\ queue' = Append(queue, <<On(t), "Connected">>) /\ queue \in Seq(Event)
            /\ <<On(t), "Connected">> \in Event
        BY <1>0, <2>5, <3>2 DEF AnswerConnects, TypeOK
      <4> HIDE DEF Event
      <4>2. queue' \in Seq(Event)
        BY <4>1
      <4> QED BY <4>2 DEF Event
    <3> QED BY <3>1, <3>2, <3>3, UnlockType DEF TypeOK, app, Doing
  <2>6. CASE SetHold(t)
    <3>1. On(t) \in Call /\ Unlock(t) /\ UNCHANGED place
      BY <2>6 DEF SetHold, Program, At
    <3>2. on_hold' \in [Call -> BOOLEAN]
      BY <2>6 DEF SetHold, TypeOK
    <3>3. Emit(On(t), IF doing[t].op = "hold" THEN "OnHold" ELSE "Connected")
      BY <2>6 DEF SetHold
    <3>4. queue' \in Seq(Call \X Contract!States) /\ ended' \in [Call -> BOOLEAN]
      BY <1>0, <3>1, <3>3, EmitType
    <3> QED BY <3>1, <3>2, <3>4, UnlockType DEF TypeOK, app, Doing
  <2>7. CASE TakeCall(t)
    <3>1. place' \in [Call -> {"offered", "answering", "connected", "out"}]
      BY <2>7 DEF TakeCall, TypeOK
    <3>2. Returns(t) \/ Moves(t, "taken")
      BY <2>7 DEF TakeCall
    <3>3. doing' \in [Threads -> Doing]
      BY <3>2, MovesType
    <3> QED BY <2>7, <3>1, <3>3 DEF TakeCall, TypeOK, app, Doing
  <2>8. CASE WatchTakes(t)
    <3>1. place' \in [Call -> {"offered", "answering", "connected", "out"}]
      BY <2>8, WatchFacts DEF TypeOK
    <3>2. entry' \in [Call -> BOOLEAN]
      BY <2>8, WatchFacts DEF TypeOK
    <3> QED BY <2>8, <3>1, <3>2, WatchFacts DEF TypeOK, app, Doing
  <2>9. CASE EmitEnded(t)
    <3>1. On(t) \in Call /\ Unlock(t) /\ Emit(On(t), "Ended") /\ UNCHANGED <<place, on_hold>>
      BY <2>9 DEF EmitEnded, Program, At
    <3> QED BY <1>0, <3>1, UnlockType, EmitType DEF TypeOK, app, Doing
  <2> QED BY <1>2, <2>1, <2>2, <2>3, <2>4, <2>5, <2>6, <2>7, <2>8, <2>9 DEF Step
<1>3. CASE set_event_handler
  BY <1>3 DEF set_event_handler, TypeOK, engine
<1>4. CASE Deliver
  <2>1. queue' \in Seq(Call \X Contract!States)
    <3> DEFINE Event == Call \X Contract!States
    <3>1. queue' = Tail(queue) /\ queue \in Seq(Event) /\ queue # <<>>
      BY <1>4 DEF Deliver, TypeOK
    <3> HIDE DEF Event
    <3>2. queue' \in Seq(Event)
      BY <3>1
    <3> QED BY <3>2 DEF Event
  <2>2. Head(queue) \in Call \X Contract!States
    BY <1>4 DEF Deliver, TypeOK
  <2>3. shown' \in [Call -> Contract!States]
    BY <1>4, <2>2 DEF Deliver, TypeOK
  <2> QED BY <1>4, <2>1, <2>3 DEF Deliver, TypeOK, engine
<1>5. CASE CallbackReturns
  BY <1>5 DEF CallbackReturns, TypeOK, engine
<1>6. CASE UNCHANGED vars
  BY <1>6 DEF vars, TypeOK, engine, app
<1> QED BY <1>1, <1>2, <1>3, <1>4, <1>5, <1>6 DEF Next

LEMMA ProgramStep ==
  ASSUME TypeOK, Program, [Next]_vars
  PROVE  Program'
<1> USE DeliveryAssumption DEF TypeOK, At, On, Free, Moves, engine, app, Idle,
                               Program
<1>1. ASSUME NEW t \in Threads, NEW c \in Call, BeginAnswer(t, c) \/ BeginOther(t, c)
      PROVE  Program'
  <2>1. CASE BeginAnswer(t, c)
    BY <2>1, AnswerFacts
  <2>2. CASE BeginOther(t, c)
    BY <2>2, OtherFacts
  <2> QED BY <1>1, <2>1, <2>2
<1>2. ASSUME NEW t \in Threads, Step(t) PROVE Program'
  <2>1. CASE ClearPending(t)
    BY <2>1 DEF ClearPending
  <2>2. CASE LockCalls(t)
    <3>1. \A u \in Threads \ {t} : doing'[u] = doing[u]
      BY <2>2, LockFacts
    <3>2. CASE doing'[t] = Idle
      BY <3>1, <3>2
    <3>3. CASE /\ doing'[t].op = doing[t].op /\ doing'[t].call = doing[t].call
               /\ doing'[t].at = IF doing[t].op = "resume" THEN "holding" ELSE "locked"
               /\ doing[t].op \in {"answer", "hold", "resume"}
      BY <3>1, <3>3
    <3> QED BY <2>2, <3>2, <3>3, LockFacts
  <2>3. CASE AnswerLocksEvents(t)
    BY <2>3, EventsFacts
  <2>4. CASE HoldOther(t)
    BY <2>4 DEF HoldOther, OffHold, Emit
  <2>5. CASE AnswerConnects(t)
    BY <2>5 DEF AnswerConnects, Unlock, Returns
  <2>6. CASE SetHold(t)
    BY <2>6 DEF SetHold, Unlock, Returns, Emit
  <2>7. CASE TakeCall(t)
    BY <2>7 DEF TakeCall, Returns
  <2>8. CASE WatchTakes(t)
    BY <2>8, WatchFacts
  <2>9. CASE EmitEnded(t)
    BY <2>9 DEF EmitEnded, Unlock, Returns, Emit
  <2> QED BY <1>2, <2>1, <2>2, <2>3, <2>4, <2>5, <2>6, <2>7, <2>8, <2>9 DEF Step
<1>3. CASE set_event_handler
  BY <1>3 DEF set_event_handler
<1>4. CASE Deliver
  BY <1>4 DEF Deliver
<1>5. CASE CallbackReturns
  BY <1>5 DEF CallbackReturns
<1>6. CASE UNCHANGED vars
  BY <1>6 DEF vars
<1> QED BY <1>1, <1>2, <1>3, <1>4, <1>5, <1>6 DEF Next

LEMMA AnswersStep ==
  ASSUME TypeOK, Program, Answers, Holds, Takes, Places, [Next]_vars
  PROVE  Answers'
<1> USE DeliveryAssumption DEF TypeOK, At, On, Free, Moves, engine, app, Idle,
                               Program, Answers, Holds, Takes, Places,
                               Threads, Locks
<1>1. ASSUME NEW t \in Threads, NEW c \in Call, BeginAnswer(t, c) \/ BeginOther(t, c)
      PROVE  Answers'
  <2>1. CASE BeginAnswer(t, c)
    BY <2>1, AnswerFacts
  <2>2. CASE BeginOther(t, c)
    <3>1. \A u \in Threads : doing'[u].op = "answer" => u # t /\ doing'[u] = doing[u]
      <4>1. doing'[t].op # "answer" /\ \A u \in Threads \ {t} : doing'[u] = doing[u]
        BY <2>2, OtherFacts
      <4> QED BY <4>1
    <3>2. UNCHANGED <<place, entry, ended, owner>>
      BY <2>2, OtherFacts
    <3> QED BY <3>1, <3>2
  <2> QED BY <1>1, <2>1, <2>2
<1>2. ASSUME NEW t \in Threads, Step(t) PROVE Answers'
  <2>1. CASE ClearPending(t)
    BY <2>1 DEF ClearPending
  <2>2. CASE LockCalls(t)
    BY <2>2, LockFacts
  <2>3. CASE AnswerLocksEvents(t)
    <3>1. /\ \A u \in Threads \ {t} : doing'[u] = doing[u]
          /\ doing[t].at = "locked" /\ doing[t].op = "answer" /\ owner[On(t)] = None
          /\ On(t) \in Call /\ UNCHANGED <<entry, ended>>
      BY <2>3, EventsFacts
    <3>2. \A u \in Threads : u # t /\ doing[u].op = "answer" =>
            On(u) # On(t) /\ On(u) \in Call /\ doing[u].at \notin {"locked", "holding"}
      BY <3>1
    <3>3. CASE /\ doing'[t] = Idle /\ place' = [place EXCEPT ![On(t)] = "out"]
               /\ owner' = [owner EXCEPT !["calls"] = None]
      BY <3>1, <3>2, <3>3
    <3>4. CASE /\ ~ended[On(t)] /\ place' = place
               /\ doing'[t].op = "answer" /\ doing'[t].call = doing[t].call
               /\ doing'[t].at = "holding" /\ owner' = [owner EXCEPT ![On(t)] = t]
      BY <3>1, <3>2, <3>4
    <3> QED BY <2>3, <3>3, <3>4, EventsFacts
  <2>4. CASE HoldOther(t)
    BY <2>4 DEF HoldOther, OffHold, Emit
  <2>5. CASE AnswerConnects(t)
    BY <2>5 DEF AnswerConnects, Unlock, Returns
  <2>6. CASE SetHold(t)
    BY <2>6 DEF SetHold, Unlock, Returns, Emit
  <2>7. CASE TakeCall(t)
    BY <2>7 DEF TakeCall, Returns
  <2>8. CASE WatchTakes(t)
    <3>1. /\ \A u \in Threads : doing'[u].op = "answer" => u # t /\ doing'[u] = doing[u]
          /\ ended' = ended
      BY <2>8, WatchFacts
    <3>2. \A c \in Call : (entry'[c] => entry[c]) /\ (place[c] = "answering" => place'[c] = "answering")
      <4>0. \/ place' = place
            \/ place[On(t)] = "offered" /\ place' = [place EXCEPT ![On(t)] = "out"]
        BY <2>8, WatchFacts
      <4>1. \A c \in Call : place[c] = "answering" => place'[c] = "answering"
        BY <4>0
      <4>2. On(t) \in Call /\ (entry' = entry \/ entry' = [entry EXCEPT ![On(t)] = FALSE])
        BY <2>8, WatchFacts
      <4>3. \A c \in Call : entry'[c] => entry[c]
        BY <4>2
      <4> QED BY <4>1, <4>3
    <3>3. /\ owner'["calls"] = owner["calls"]
          /\ \A c \in Call : owner'[c] = owner[c]
      BY <2>8, WatchFacts
    <3> QED BY <3>1, <3>2, <3>3
  <2>9. CASE EmitEnded(t)
    BY <2>9 DEF EmitEnded, Unlock, Returns, Emit
  <2> QED BY <1>2, <2>1, <2>2, <2>3, <2>4, <2>5, <2>6, <2>7, <2>8, <2>9 DEF Step
<1>3. CASE set_event_handler
  BY <1>3 DEF set_event_handler
<1>4. CASE Deliver
  BY <1>4 DEF Deliver
<1>5. CASE CallbackReturns
  BY <1>5 DEF CallbackReturns
<1>6. CASE UNCHANGED vars
  BY <1>6 DEF vars
<1> QED BY <1>1, <1>2, <1>3, <1>4, <1>5, <1>6 DEF Next

LEMMA HoldsStep ==
  ASSUME TypeOK, Program, Answers, Holds, Takes, Places, [Next]_vars
  PROVE  Holds'
<1> USE DeliveryAssumption DEF TypeOK, At, On, Free, Moves, engine, app, Idle,
                               Program, Answers, Holds, Takes, Places,
                               Threads, Locks
<1>1. ASSUME NEW t \in Threads, NEW c \in Call, BeginAnswer(t, c) \/ BeginOther(t, c)
      PROVE  Holds'
  <2>1. CASE BeginAnswer(t, c)
    BY <2>1, AnswerFacts
  <2>2. CASE BeginOther(t, c)
    BY <2>2, OtherFacts
  <2> QED BY <1>1, <2>1, <2>2
<1>2. ASSUME NEW t \in Threads, Step(t) PROVE Holds'
  <2>1. CASE ClearPending(t)
    BY <2>1 DEF ClearPending
  <2>2. CASE LockCalls(t)
    BY <2>2, LockFacts
  <2>3. CASE AnswerLocksEvents(t)
    BY <2>3, EventsFacts
  <2>4. CASE HoldOther(t)
    BY <2>4 DEF HoldOther, OffHold, Emit
  <2>5. CASE AnswerConnects(t)
    BY <2>5 DEF AnswerConnects, Unlock, Returns
  <2>6. CASE SetHold(t)
    BY <2>6 DEF SetHold, Unlock, Returns, Emit
  <2>7. CASE TakeCall(t)
    BY <2>7 DEF TakeCall, Returns
  <2>8. CASE WatchTakes(t)
    BY <2>8, WatchFacts
  <2>9. CASE EmitEnded(t)
    BY <2>9 DEF EmitEnded, Unlock, Returns, Emit
  <2> QED BY <1>2, <2>1, <2>2, <2>3, <2>4, <2>5, <2>6, <2>7, <2>8, <2>9 DEF Step
<1>3. CASE set_event_handler
  BY <1>3 DEF set_event_handler
<1>4. CASE Deliver
  BY <1>4 DEF Deliver
<1>5. CASE CallbackReturns
  BY <1>5 DEF CallbackReturns
<1>6. CASE UNCHANGED vars
  BY <1>6 DEF vars
<1> QED BY <1>1, <1>2, <1>3, <1>4, <1>5, <1>6 DEF Next

LEMMA TakesStep ==
  ASSUME TypeOK, Program, Answers, Holds, Takes, Places, [Next]_vars
  PROVE  Takes'
<1> USE DeliveryAssumption DEF TypeOK, At, On, Free, Moves, engine, app, Idle,
                               Program, Answers, Holds, Takes, Places,
                               Threads, Locks
<1>1. ASSUME NEW t \in Threads, NEW c \in Call, BeginAnswer(t, c) \/ BeginOther(t, c)
      PROVE  Takes'
  <2>1. CASE BeginAnswer(t, c)
    BY <2>1, AnswerFacts
  <2>2. CASE BeginOther(t, c)
    <3>1. \A u \in Threads \ {t} : doing'[u] = doing[u]
      BY <2>2, OtherFacts
    <3>2. doing'[t].at = "lock" /\ doing'[t].op # "answer"
      BY <2>2, OtherFacts
    <3>3. UNCHANGED <<place, entry, owner>>
      BY <2>2, OtherFacts
    <3> QED BY <3>1, <3>2, <3>3
  <2> QED BY <1>1, <2>1, <2>2
<1>2. ASSUME NEW t \in Threads, Step(t) PROVE Takes'
  <2>1. CASE ClearPending(t)
    BY <2>1 DEF ClearPending
  <2>2. CASE LockCalls(t)
    <3>1. /\ \A u \in Threads \ {t} : doing'[u] = doing[u]
          /\ UNCHANGED <<place, entry>> /\ doing[t].at = "lock"
          /\ doing'[t].at # "taken" /\ doing'[t].op \in {doing[t].op, "idle"}
      BY <2>2, LockFacts
    <3>2. owner'["pending"] = owner["pending"]
      BY <2>2, LockFacts
    <3>3. doing'[t].op = "answer" => doing[t].op = "answer" /\ doing'[t].call = doing[t].call
      BY <2>2, LockFacts
    <3> QED BY <3>1, <3>2, <3>3
  <2>3. CASE AnswerLocksEvents(t)
    BY <2>3, EventsFacts
  <2>4. CASE HoldOther(t)
    BY <2>4 DEF HoldOther, OffHold, Emit
  <2>5. CASE AnswerConnects(t)
    BY <2>5 DEF AnswerConnects, Unlock, Returns
  <2>6. CASE SetHold(t)
    BY <2>6 DEF SetHold, Unlock, Returns, Emit
  <2>7. CASE TakeCall(t)
    BY <2>7 DEF TakeCall, Returns
  <2>8. CASE WatchTakes(t)
    BY <2>8, WatchFacts
  <2>9. CASE EmitEnded(t)
    BY <2>9 DEF EmitEnded, Unlock, Returns, Emit
  <2> QED BY <1>2, <2>1, <2>2, <2>3, <2>4, <2>5, <2>6, <2>7, <2>8, <2>9 DEF Step
<1>3. CASE set_event_handler
  BY <1>3 DEF set_event_handler
<1>4. CASE Deliver
  BY <1>4 DEF Deliver
<1>5. CASE CallbackReturns
  BY <1>5 DEF CallbackReturns
<1>6. CASE UNCHANGED vars
  BY <1>6 DEF vars
<1> QED BY <1>1, <1>2, <1>3, <1>4, <1>5, <1>6 DEF Next

LEMMA PlacesStep ==
  ASSUME TypeOK, Program, Answers, Holds, Takes, Places, [Next]_vars
  PROVE  Places'
<1> USE DeliveryAssumption DEF TypeOK, At, On, Free, Moves, engine, app, Idle,
                               Program, Answers, Holds, Takes, Places,
                               Threads, Locks
<1>1. ASSUME NEW t \in Threads, NEW c \in Call, BeginAnswer(t, c) \/ BeginOther(t, c)
      PROVE  Places'
  <2>1. CASE BeginAnswer(t, c)
    BY <2>1, AnswerFacts
  <2>2. CASE BeginOther(t, c)
    BY <2>2, OtherFacts
  <2> QED BY <1>1, <2>1, <2>2
<1>2. ASSUME NEW t \in Threads, Step(t) PROVE Places'
  <2>1. CASE ClearPending(t)
    BY <2>1 DEF ClearPending
  <2>2. CASE LockCalls(t)
    BY <2>2, LockFacts
  <2>3. CASE AnswerLocksEvents(t)
    BY <2>3, EventsFacts
  <2>4. CASE HoldOther(t)
    BY <2>4 DEF HoldOther, OffHold, Emit
  <2>5. CASE AnswerConnects(t)
    BY <2>5 DEF AnswerConnects, Unlock, Returns
  <2>6. CASE SetHold(t)
    BY <2>6 DEF SetHold, Unlock, Returns, Emit
  <2>7. CASE TakeCall(t)
    BY <2>7 DEF TakeCall, Returns
  <2>8. CASE WatchTakes(t)
    <3>1. /\ \A u \in Threads \ {t} : doing'[u] = doing[u]
          /\ doing[t].op = "watch" /\ On(t) \in Call /\ UNCHANGED <<on_hold, ended>>
      BY <2>8, WatchFacts
    <3>2. CASE doing'[t] = Idle /\ UNCHANGED <<owner, place, entry>>
      <4>1. \A u \in Threads : At(u, "taken") \/ doing[u].op = "answer" => doing'[u] = doing[u]
        BY <2>8, <3>1, WatchFacts
      <4> QED BY <3>1, <3>2, <4>1
    <3>3. CASE /\ entry[On(t)] /\ entry' = [entry EXCEPT ![On(t)] = FALSE]
               /\ doing'[t].call = doing[t].call /\ doing'[t].at = "taken"
               /\ \/ place[On(t)] = "offered" /\ place' = [place EXCEPT ![On(t)] = "out"]
                  \/ place[On(t)] # "offered" /\ place' = place
      <4>1. \A u \in Threads : doing[u].op = "answer" => doing'[u] = doing[u]
        BY <3>1
      <4>2. \A u \in Threads : At(u, "taken") => At(u, "taken")' /\ On(u)' = On(u)
        BY <3>1, <3>3
      <4>3. \A c \in Call \ {On(t)} : place'[c] = place[c] /\ (entry'[c] <=> entry[c])
        <5>1. \A c \in Call \ {On(t)} : place'[c] = place[c]
          BY <3>1, <3>3
        <5>2. \A c \in Call \ {On(t)} : entry'[c] <=> entry[c]
          BY <3>1, <3>3
        <5> QED BY <5>1, <5>2
      <4>4. place'[On(t)] \in {"answering", "out"} /\ entry'[On(t)] = FALSE
        BY <3>1, <3>3
      <4>5. place'[On(t)] = "answering" => place[On(t)] = "answering"
        BY <3>1, <3>3
      <4> QED BY <3>1, <3>3, <4>1, <4>2, <4>3, <4>4, <4>5
    <3> QED BY <2>8, <3>2, <3>3, WatchFacts
  <2>9. CASE EmitEnded(t)
    <3>1. Unlock(t) /\ Emit(On(t), "Ended") /\ UNCHANGED <<place, on_hold>> /\ doing[t].at = "taken"
      BY <2>9 DEF EmitEnded
    <3>2. On(t) \in Call /\ doing[t].op # "answer"
      BY <3>1
    <3>3. ended'[On(t)] /\ \A c \in Call \ {On(t)} : ended'[c] <=> ended[c]
      <4>1. CASE ended[On(t)]
        BY <3>1, <4>1 DEF Emit
      <4>2. CASE ~ended[On(t)]
        <5>1. ended' = [ended EXCEPT ![On(t)] = TRUE]
          BY <3>1, <4>2 DEF Emit
        <5>2. ended'[On(t)] = TRUE
          BY <3>2, <5>1
        <5>3. \A c \in Call \ {On(t)} : ended'[c] <=> ended[c]
          BY <3>2, <5>1
        <5> QED BY <5>2, <5>3
      <4> QED BY <4>1, <4>2
    <3>4. (\A u \in Threads \ {t} : doing'[u] = doing[u]) /\ UNCHANGED entry
      BY <3>1, UnlockType
    <3>5. place[On(t)] \in {"answering", "out"}
      BY <3>1
    <3>6. \A u \in Threads : doing[u].op = "answer" => doing'[u] = doing[u]
      BY <3>2, <3>4
    <3>7. \A u \in Threads : At(u, "taken") /\ On(u) # On(t) => doing'[u] = doing[u]
      BY <3>4
    <3>8. ASSUME NEW c \in Call
          PROVE  /\ place'[c] = "answering" => \E u \in Threads : On(u)' = c /\ doing'[u].op = "answer"
                 /\ place'[c] = "out" => ended'[c] \/ \E u \in Threads : On(u)' = c /\ At(u, "taken")'
      <4>1. place'[c] = "answering" => \E u \in Threads : On(u)' = c /\ doing'[u].op = "answer"
        BY <3>1, <3>6
      <4>2. CASE c = On(t)
        BY <3>3, <4>1, <4>2
      <4>3. CASE c # On(t)
        <5>1. place[c] = "out" => ended[c] \/ \E u \in Threads : On(u) = c /\ At(u, "taken")
          OBVIOUS
        <5>2. \A u \in Threads : On(u) = c /\ At(u, "taken") => On(u)' = c /\ At(u, "taken")'
          BY <3>7, <4>3
        <5>3. ended'[c] <=> ended[c]
          BY <3>3, <4>3
        <5>4. place'[c] = place[c]
          BY <3>1
        <5> HIDE DEF On, At, TypeOK, Places, Answers, Takes, Holds
        <5> QED BY <4>1, <5>1, <5>2, <5>3, <5>4
      <4> QED BY <4>2, <4>3
    <3>9. ASSUME NEW c \in Call
          PROVE  /\ entry'[c] => place'[c] \in {"offered", "answering"}
                 /\ place'[c] \in {"offered", "connected"} => ~ended'[c]
                 /\ place'[c] \in {"offered", "answering"} => ~on_hold'[c]
      BY <3>1, <3>3, <3>4, <3>5
    <3> QED BY <3>8, <3>9
  <2> QED BY <1>2, <2>1, <2>2, <2>3, <2>4, <2>5, <2>6, <2>7, <2>8, <2>9 DEF Step
<1>3. CASE set_event_handler
  BY <1>3 DEF set_event_handler
<1>4. CASE Deliver
  BY <1>4 DEF Deliver
<1>5. CASE CallbackReturns
  BY <1>5 DEF CallbackReturns
<1>6. CASE UNCHANGED vars
  BY <1>6 DEF vars
<1> QED BY <1>1, <1>2, <1>3, <1>4, <1>5, <1>6 DEF Next

\* The last event of a call whose CallEvents is open may be followed by Ended;
\* that of a call in the map, by either hold state; and that of a call being
\* answered, by Connected.
LEMMA MayFollow ==
  ASSUME IInv, ~missed, NEW c \in Call, NEW i \in Told(c), ToldLast(c, i), ~ended[c]
  PROVE  /\ "Ended" \in Contract!Follows(ToldAt(c, i))
         /\ place[c] = "answering" => "Connected" \in Contract!Follows(ToldAt(c, i))
         /\ place[c] = "connected" => {"Connected", "OnHold"} \subseteq Contract!Follows(ToldAt(c, i))
<1>1. ToldAt(c, i) \in Contract!States /\ ToldAt(c, i) # "Ended"
  <2>1. i = 0 \/ i \in DOMAIN queue
    BY DEF Told
  <2>2. ToldAt(c, i) \in Contract!States
    BY <2>1 DEF IInv, TypeOK, ToldAt
  <2> QED BY <2>2 DEF IInv, Order
<1>2. place[c] \in {"answering", "connected"} => ToldAt(c, i) = State(c)
  BY DEF IInv, Order
<1>3. "Ended" \in Contract!Follows(ToldAt(c, i))
  BY <1>1 DEF Contract!Follows, Contract!States
<1>4. ASSUME place[c] = "answering" PROVE "Connected" \in Contract!Follows(ToldAt(c, i))
  BY <1>2, <1>4 DEF State, Contract!Follows
<1>5. ASSUME place[c] = "connected" PROVE {"Connected", "OnHold"} \subseteq Contract!Follows(ToldAt(c, i))
  <2>1. ToldAt(c, i) \in {"Connected", "OnHold"}
    BY <1>2, <1>5 DEF State
  <2> QED BY <2>1 DEF Contract!Follows
<1> QED BY <1>3, <1>4, <1>5

LEMMA OrderStep ==
  ASSUME IInv, [Next]_vars
  PROVE  Order'
<1> USE DeliveryAssumption
<1>0. Order /\ queue \in Events /\ {"Ended", "OnHold", "Connected"} \subseteq Contract!States
  BY DEF IInv, TypeOK, Events, Contract!States
<1>a. ASSUME UNCHANGED <<place, on_hold, ended, queue, shown, missed>> PROVE Order'
  <2>1. \A c \in Call : Same(c)
    BY <1>a DEF Same, State
  <2> QED BY <1>0, <1>a, <2>1, KeepOrder
<1>b. ASSUME NEW c \in Call, UNCHANGED <<on_hold, ended, queue, shown, missed>>,
             \/ ended[c] \/ place'[c] = "out"
             \/ place[c] = "offered" /\ place'[c] = "answering",
             \A d \in Call \ {c} : place'[d] = place[d]
      PROVE  Order'
  <2>1. Same(c)
    BY <1>b DEF Same, State
  <2>2. \A d \in Call \ {c} : Same(d)
    BY <1>b DEF Same, State
  <2> QED BY <1>0, <1>b, <2>1, <2>2, KeepOrder
<1>c. ASSUME NEW c \in Call, NEW state \in {"OnHold", "Connected", "Ended"}, Emit(c, state),
             state = "Ended" \/ place[c] = "connected", UNCHANGED <<place, shown, missed>>,
             state # "Ended" => on_hold' = [on_hold EXCEPT ![c] = state = "OnHold"],
             state = "Ended" => on_hold' = on_hold
      PROVE  Order'
  <2>1. CASE ended[c]
    <3>1. state = "Ended"
      BY <1>c, <2>1 DEF IInv, Places
    <3> QED BY <1>a, <1>c, <2>1, <3>1 DEF Emit
  <2>2. CASE ~ended[c]
    <3>1. queue' = Append(queue, <<c, state>>) /\ ended' = [ended EXCEPT ![c] = state = "Ended"]
      BY <1>c, <2>2 DEF Emit
    <3>2. ended'[c] <=> state = "Ended"
      BY <3>1 DEF IInv, TypeOK
    <3>3. \A d \in Call \ {c} : ended'[d] <=> ended[d]
      BY <3>1 DEF IInv, TypeOK
    <3>4. \A d \in Call \ {c} : on_hold'[d] <=> on_hold[d]
      BY <1>c DEF IInv, TypeOK
    <3>5. \A d \in Call \ {c} : Same(d)
      BY <1>c, <3>3, <3>4 DEF Same, State
    <3>6. ASSUME ~missed, NEW i \in Told(c), ToldLast(c, i)
          PROVE  state \in Contract!Follows(ToldAt(c, i))
      BY <1>c, <2>2, <3>6, MayFollow
    <3>7. ASSUME state # "Ended" PROVE state = State(c)'
      <4>1. on_hold'[c] <=> state = "OnHold"
        BY <1>c, <3>7 DEF IInv, TypeOK
      <4> QED BY <1>c, <3>7, <4>1 DEF State
    <3> QED BY <1>0, <1>c, <3>1, <3>2, <3>5, <3>6, <3>7, AppendOrder
  <2> QED BY <2>1, <2>2
<1>1. ASSUME NEW t \in Threads, NEW c \in Call, BeginAnswer(t, c) \/ BeginOther(t, c)
      PROVE  Order'
  <2>1. CASE BeginAnswer(t, c)
    <3>1. /\ place'[c] = "answering" /\ \A d \in Call \ {c} : place'[d] = place[d]
          /\ place[c] = "offered" /\ UNCHANGED <<on_hold, ended, queue, shown, missed>>
      BY <2>1, AnswerFacts DEF IInv, TypeOK, app
    <3> QED BY <1>b, <3>1
  <2>2. CASE BeginOther(t, c)
    BY <1>a, <2>2, OtherFacts DEF IInv, app
  <2> QED BY <1>1, <2>1, <2>2
<1>2. ASSUME NEW t \in Threads, Step(t) PROVE Order'
  <2>0. doing[t].at # "idle" => On(t) \in Call
    BY DEF IInv, Program
  <2>1. CASE ClearPending(t)
    BY <1>a, <2>1 DEF ClearPending, app
  <2>2. CASE LockCalls(t)
    BY <1>a, <2>2 DEF LockCalls, engine, app
  <2>3. CASE AnswerLocksEvents(t)
    <3>1. CASE ended[On(t)]
      <4>1. \A d \in Call \ {On(t)} : place'[d] = place[d]
        BY <2>3, <3>1 DEF AnswerLocksEvents, IInv, TypeOK
      <4> QED BY <1>b, <2>0, <2>3, <3>1, <4>1 DEF AnswerLocksEvents, At, app
    <3>2. CASE ~ended[On(t)]
      BY <1>a, <2>3, <3>2 DEF AnswerLocksEvents, app
    <3> QED BY <3>1, <3>2
  <2>4. CASE HoldOther(t)
    <3>1. PICK b \in OffHold(t) : /\ on_hold' = [on_hold EXCEPT ![b] = TRUE]
                                  /\ Emit(b, "OnHold") /\ UNCHANGED <<place, app>>
      BY <2>4 DEF HoldOther
    <3>2. b \in Call /\ place[b] = "connected" /\ UNCHANGED <<place, shown, missed>>
      BY <3>1 DEF OffHold, app
    <3> QED BY <1>c, <3>1, <3>2
  <2>5. CASE AnswerConnects(t)
    <3>0. PICK c \in Call : c = On(t)
      BY <2>0, <2>5 DEF AnswerConnects, At
    <3>1. /\ place[c] = "answering" /\ ~ended[c]
          /\ place' = [place EXCEPT ![c] = "connected"]
          /\ queue' = Append(queue, <<c, "Connected">>)
          /\ UNCHANGED <<on_hold, ended, shown, missed>>
      BY <2>5, <3>0 DEF AnswerConnects, Unlock, At, app, IInv, Answers
    <3>2. ~on_hold[c]
      BY <3>1 DEF IInv, Places
    <3>3. place'[c] = "connected" /\ \A d \in Call \ {c} : place'[d] = place[d]
      BY <3>1 DEF IInv, TypeOK
    <3>4. \A d \in Call \ {c} : Same(d)
      BY <3>1, <3>3 DEF Same, State
    <3>5. State(c)' = "Connected"
      BY <3>1, <3>2, <3>3 DEF State
    <3>6. ASSUME ~missed, NEW i \in Told(c), ToldLast(c, i)
          PROVE  "Connected" \in Contract!Follows(ToldAt(c, i))
      BY <3>1, <3>6, MayFollow
    <3>7. ended'[c] <=> "Connected" = "Ended"
      BY <3>1
    <3> QED BY <1>0, <3>1, <3>4, <3>5, <3>6, <3>7, AppendOrder
  <2>6. CASE SetHold(t)
    <3>1. /\ doing[t].op \in {"hold", "resume"} /\ doing[t].at \notin {"idle", "lock"}
          /\ Emit(On(t), IF doing[t].op = "hold" THEN "OnHold" ELSE "Connected")
          /\ on_hold' = [on_hold EXCEPT ![On(t)] = doing[t].op = "hold"]
          /\ UNCHANGED <<place, shown, missed>>
      BY <2>6 DEF SetHold, Unlock, At, app
    <3>2. On(t) \in Call /\ place[On(t)] = "connected"
      BY <2>0, <3>1 DEF IInv, Holds
    <3>3. CASE doing[t].op = "hold"
      <4>1. Emit(On(t), "OnHold")
        BY <3>1, <3>3
      <4>2. on_hold' = [on_hold EXCEPT ![On(t)] = "OnHold" = "OnHold"]
        BY <3>1, <3>3
      <4> QED BY <1>c, <3>1, <3>2, <4>1, <4>2
    <3>4. CASE doing[t].op = "resume"
      <4>1. Emit(On(t), "Connected")
        BY <3>1, <3>4
      <4>2. on_hold' = [on_hold EXCEPT ![On(t)] = "Connected" = "OnHold"]
        BY <3>1, <3>4
      <4> QED BY <1>c, <3>1, <3>2, <4>1, <4>2
    <3> QED BY <3>1, <3>3, <3>4
  <2>7. CASE TakeCall(t)
    <3>1. /\ On(t) \in Call /\ UNCHANGED <<on_hold, ended, queue, shown, missed>>
          /\ place' = place \/ place' = [place EXCEPT ![On(t)] = "out"]
      BY <2>0, <2>7 DEF TakeCall, At, app
    <3>2. CASE place' = place
      BY <1>a, <3>1, <3>2
    <3>3. CASE place' = [place EXCEPT ![On(t)] = "out"]
      <4>1. place'[On(t)] = "out" /\ \A d \in Call \ {On(t)} : place'[d] = place[d]
        BY <3>1, <3>3 DEF IInv, TypeOK
      <4> QED BY <1>b, <3>1, <4>1
    <3> QED BY <3>1, <3>2, <3>3
  <2>8. CASE WatchTakes(t)
    <3>1. /\ On(t) \in Call /\ UNCHANGED <<on_hold, ended, queue, shown, missed>>
          /\ place' = place \/ place' = [place EXCEPT ![On(t)] = "out"]
      BY <2>8, WatchFacts DEF IInv, app
    <3>2. CASE place' = place
      BY <1>a, <3>1, <3>2
    <3>3. CASE place' = [place EXCEPT ![On(t)] = "out"]
      <4>1. place'[On(t)] = "out" /\ \A d \in Call \ {On(t)} : place'[d] = place[d]
        BY <3>1, <3>3 DEF IInv, TypeOK
      <4> QED BY <1>b, <3>1, <4>1
    <3> QED BY <3>1, <3>2, <3>3
  <2>9. CASE EmitEnded(t)
    <3>1. /\ On(t) \in Call /\ Emit(On(t), "Ended")
          /\ UNCHANGED <<place, on_hold, shown, missed>>
      BY <2>0, <2>9 DEF EmitEnded, Unlock, At, app
    <3> QED BY <1>c, <3>1
  <2> QED BY <1>2, <2>1, <2>2, <2>3, <2>4, <2>5, <2>6, <2>7, <2>8, <2>9 DEF Step
<1>3. CASE set_event_handler
  BY <1>a, <1>3 DEF set_event_handler, engine
<1>4. CASE Deliver
  <2>1. CASE handler
    <3>1. /\ queue # <<>> /\ queue' = Tail(queue)
          /\ shown' = [shown EXCEPT ![Head(queue)[1]] = Head(queue)[2]]
          /\ UNCHANGED <<missed, ended, place, on_hold>>
      BY <1>4, <2>1 DEF Deliver, engine
    <3>2. shown \in [Call -> Contract!States]
      BY DEF IInv, TypeOK
    <3> QED BY <1>0, <3>1, <3>2, TailOrder
  <2>2. CASE ~handler
    BY <1>4, <2>2 DEF Deliver, Order
  <2> QED BY <2>1, <2>2
<1>5. CASE CallbackReturns
  BY <1>a, <1>5 DEF CallbackReturns, engine
<1>6. CASE UNCHANGED vars
  BY <1>a, <1>6 DEF vars, engine, app
<1> QED BY <1>1, <1>2, <1>3, <1>4, <1>5, <1>6 DEF Next

-----------------------------------------------------------------------------
LEMMA Inductive == IInv /\ [Next]_vars => IInv'
BY TypeStep, ProgramStep, AnswersStep, HoldsStep, TakesStep, PlacesStep, OrderStep DEF IInv

LEMMA Invariance == Spec => []IInv
<1>1. Init => IInv
  BY InitInv
<1> QED BY <1>1, Inductive, PTL DEF Spec

\* What is delivered and queued of every call keeps the order of its states,
\* nothing follows its Ended, and it comes to the state the engine has the
\* call in or a thread is about to report: for any number of calls, threads
\* and operations, whatever the scheduling and the callbacks.
THEOREM InOrder == Spec => []Consistent
<1>1. ASSUME IInv PROVE Consistent
  <2>1. SUFFICES ASSUME ~missed, NEW c \in Call, NEW i \in Told(c), ToldLast(c, i),
                        ToldAt(c, i) # State(c)
                 PROVE  \E t \in Threads : On(t) = c /\ (At(t, "taken") \/ doing[t].op = "answer")
    BY <1>1 DEF IInv, Order, Consistent, DeliveredInOrder
  <2>2. /\ ended[c] <=> ToldAt(c, i) = "Ended"
        /\ ~ended[c] /\ place[c] # "out" => ToldAt(c, i) = State(c)
    BY <1>1, <2>1 DEF IInv, Order
  <2>3. CASE ~ended[c]
    BY <1>1, <2>1, <2>2, <2>3 DEF IInv, Places
  <2>4. CASE ended[c]
    <3>1. place[c] = "answering"
      BY <1>1, <2>1, <2>2, <2>4 DEF IInv, Places, TypeOK, State
    <3> QED BY <1>1, <3>1 DEF IInv, Places
  <2> QED BY <2>3, <2>4
<1> QED BY <1>1, Invariance, PTL

-----------------------------------------------------------------------------
(* What the callbacks tell the app. *)

Reported == INSTANCE CallContract
              WITH reported <- shown, endings <- [c \in Call |-> IF shown[c] = "Ended" THEN 1 ELSE 0]

\* The event at the head of the queue may follow what its call was last
\* reported as.
LEMMA DeliverStep == IInv /\ [Next]_vars /\ ~missed' => [Reported!Next]_(Reported!vars)
<1> SUFFICES ASSUME IInv, [Next]_vars, ~missed' PROVE [Reported!Next]_(Reported!vars)
  OBVIOUS
<1>1. CASE UNCHANGED shown
  BY <1>1 DEF Reported!vars
<1>2. CASE Deliver /\ handler
  <2> DEFINE b == queue[1][1]
             st == queue[1][2]
  <2>1. /\ queue \in Events /\ queue # <<>> /\ ~missed
        /\ shown \in [Call -> Contract!States] /\ shown' = [shown EXCEPT ![b] = st]
    BY <1>2 DEF Deliver, IInv, TypeOK, Events
  <2>2. b \in Call /\ st \in Contract!States /\ 1 \in DOMAIN queue
    BY <2>1 DEF Events
  <2>3. /\ 0 \in Told(b) /\ 1 \in Told(b) /\ Told(b) \subseteq Nat
    BY <2>1, <2>2 DEF Told, Events
  <2>4. ToldNext(b, 0, 1)
    BY <2>3 DEF ToldNext
  <2>5. ToldAt(b, 1) \in Contract!Follows(ToldAt(b, 0))
    BY <2>1, <2>2, <2>3, <2>4 DEF IInv, Order
  <2>6. st \in Contract!Follows(shown[b])
    BY <2>5 DEF ToldAt
  <2>7. shown[b] # "Ended"
    BY <2>6 DEF Contract!Follows
  <2> HIDE DEF b, st
  <2>8. shown' \in [Call -> Contract!States]
    BY <2>1, <2>2
  <2>9. \A c \in Call : shown'[c] # shown[c] => c = b /\ shown'[c] = st
    BY <2>1, <2>2
  <2>10. \A c \in Call : shown[c] = "Ended" => shown'[c] = "Ended"
    BY <2>7, <2>9
  <2>11. \A c \in Call : shown'[c] # shown[c] => shown'[c] \in Reported!Follows(shown[c])
    BY <2>6, <2>9 DEF Contract!Follows, Reported!Follows
  <2>12. shown' \in [Call -> Reported!States]
    BY <2>8 DEF Contract!States, Reported!States
  <2>13. [c \in Call |-> IF shown'[c] = "Ended" THEN 1 ELSE 0]
           = [c \in Call |-> IF shown[c] # "Ended" /\ shown'[c] = "Ended"
                             THEN [d \in Call |-> IF shown[d] = "Ended" THEN 1 ELSE 0][c] + 1
                             ELSE [d \in Call |-> IF shown[d] = "Ended" THEN 1 ELSE 0][c]]
    BY <2>10
  <2> QED BY <2>11, <2>12, <2>13 DEF Reported!Next
<1>3. UNCHANGED shown \/ (Deliver /\ handler)
  <2>1. CASE \E t \in Threads : Step(t) \/ \E c \in Call : BeginAnswer(t, c) \/ BeginOther(t, c)
    BY <2>1 DEF Step, BeginAnswer, BeginOther, Begin, ClearPending, LockCalls, AnswerLocksEvents,
       HoldOther, AnswerConnects, SetHold, TakeCall, WatchTakes, EmitEnded, Unlock, app
  <2> QED BY <2>1 DEF Next, set_event_handler, Deliver, CallbackReturns, vars, app
<1> QED BY <1>1, <1>2, <1>3

\* A handler that is there from the first event is called as each call's
\* contract says: connected before it is held, Ended once and last,
\* however the threads interleave and whatever the callbacks call.
THEOREM CallbacksKeepContract == Spec /\ []~missed => Reported!Spec
<1>1. Init => Reported!Init
  BY DEF Init, Reported!Init
<1> QED BY <1>1, Invariance, DeliverStep, PTL DEF Spec, Reported!Spec
=============================================================================
