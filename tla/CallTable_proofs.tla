--------------------------- MODULE CallTable_proofs ---------------------------
(***************************************************************************)
(* Theorems about the call table, for every set of calls and every         *)
(* MAX_LIVE_CALLS.  The inductive invariant is CallTable!IndInv; each of   *)
(* its parts is preserved by a lemma with one step per action.             *)
(***************************************************************************)
EXTENDS CallTable, FiniteSetTheorems, FunctionTheorems, TLAPS

USE DEF Call

UsedEntry == [id : Outgoing, precancelled : BOOLEAN]

\* mark_used of a new id never evicts another: the window holds distinct ids
\* of Outgoing, and it is as large as that set.
LEMMA MarkUsed ==
  ASSUME NEW c \in Outgoing, NEW b \in BOOLEAN,
         TypeOK, UsedIds, ~is_used(c), mark_used(c, b)
  PROVE  /\ used' \in Seq(UsedEntry)
         /\ \A i, j \in 1 .. Len(used') : used'[i].id = used'[j].id => i = j
         /\ \A d \in Outgoing : is_used(d)' <=> is_used(d) \/ d = c
<1> DEFINE longer == Append(used, [id |-> c, precancelled |-> b])
           f == [i \in 1 .. Len(longer) |-> longer[i].id]
<1>0. used \in Seq(UsedEntry)
  BY DEF TypeOK, UsedEntry
<1>1. /\ longer \in Seq(UsedEntry)
      /\ Len(longer) = Len(used) + 1 /\ Len(longer) \in Nat
      /\ \A i \in 1 .. Len(used) : longer[i] = used[i]
      /\ longer[Len(used) + 1] = [id |-> c, precancelled |-> b]
  BY <1>0 DEF UsedEntry
<1>2. \A i \in 1 .. Len(longer) : longer[i].id \in Outgoing
  <2> HIDE DEF longer
  <2> TAKE i \in 1 .. Len(longer)
  <2>1. longer[i] \in UsedEntry
    BY <1>1
  <2> QED BY <2>1 DEF UsedEntry
<1>3. \A i, j \in 1 .. Len(longer) : longer[i].id = longer[j].id => i = j
  BY <1>0, <1>1 DEF UsedIds, is_used
<1>4. f \in Injection(1 .. Len(longer), Outgoing)
  BY <1>2, <1>3 DEF Injection, IsInjective
<1>5. Cardinality(1 .. Len(longer)) <= Cardinality(Outgoing)
  BY <1>4, FS_Injection, CallsAssumption
<1>6. Cardinality(1 .. Len(longer)) = Len(longer)
  BY <1>1, FS_Interval
<1>7. Cardinality(Outgoing) \in Nat
  BY FS_CardinalityType, CallsAssumption
<1>8. Len(longer) <= USED_OUTGOING_IDS
  BY <1>1, <1>5, <1>6, <1>7, WindowAssumption, LimitsAssumption
<1>9. used' = longer
  BY <1>1, <1>8, LimitsAssumption DEF mark_used
<1>10. \A d \in Outgoing : is_used(d)' <=> is_used(d) \/ d = c
  <2> TAKE d \in Outgoing
  <2>1. is_used(d)' <=> \E i \in 1 .. Len(longer) : longer[i].id = d
    BY <1>9 DEF is_used
  <2> QED BY <2>1, <1>0, <1>1 DEF is_used
<1> QED BY <1>1, <1>3, <1>9, <1>10

\* Spending a precancelled mark changes no id in the window.
LEMMA SpendMark ==
  ASSUME NEW c \in Outgoing, TypeOK, UsedIds, RefusePrecancelled(c)
  PROVE  /\ used' \in Seq(UsedEntry)
         /\ \A i, j \in 1 .. Len(used') : used'[i].id = used'[j].id => i = j
         /\ \A d \in Outgoing : is_used(d)' <=> is_used(d)
<1>0. used \in Seq(UsedEntry)
  BY DEF TypeOK, UsedEntry
<1>1. PICK k \in 1 .. Len(used) : used' = [used EXCEPT ![k].precancelled = FALSE]
  BY DEF RefusePrecancelled
<1>2. \A i \in 1 .. Len(used) : used[i] \in UsedEntry
  BY <1>0
<1>3. /\ used' \in Seq(UsedEntry) /\ Len(used') = Len(used)
      /\ \A i \in 1 .. Len(used) : used'[i].id = used[i].id
  <2>1. [used[k] EXCEPT !.precancelled = FALSE] \in UsedEntry
    BY <1>2 DEF UsedEntry
  <2>2. used' = [used EXCEPT ![k] = [used[k] EXCEPT !.precancelled = FALSE]]
    BY <1>1
  <2>3. used' \in Seq(UsedEntry) /\ Len(used') = Len(used)
    BY <2>1, <2>2, <1>0
  <2>4. \A i \in 1 .. Len(used) : used'[i] = IF i = k THEN [used[k] EXCEPT !.precancelled = FALSE] ELSE used[i]
    BY <2>2, <1>0
  <2>5. [used[k] EXCEPT !.precancelled = FALSE].id = used[k].id
    BY <1>2 DEF UsedEntry
  <2> QED BY <2>3, <2>4, <2>5
<1> QED BY <1>3, <1>0 DEF UsedIds, is_used

\* The information kept with a call: its hold state is its reported state.
LEMMA InfoFacts ==
  /\ \A s \in CallStates : Fresh(s) \in CallInfo /\ Fresh(s).state = s
  /\ \A i \in CallInfo, s \in CallStates :
       /\ [i EXCEPT !.state = s] \in CallInfo
       /\ [i EXCEPT !.state = s].state = s
  /\ \A i \in CallInfo, m \in BOOLEAN :
       /\ [i EXCEPT !.muted = m] \in CallInfo
       /\ [i EXCEPT !.muted = m].state = i.state
  /\ \A i \in CallInfo, b \in BOOLEAN :
       /\ apply_hold(i, b) \in CallInfo
       /\ apply_hold(i, b).state = IF b THEN "OnHold" ELSE "Connected"
BY DEF Fresh, CallInfo, CallStates, apply_hold

\* CallEvents::emit changes what is shown of the call it is for, and only
\* while that call has not been reported Ended.
LEMMA EmitFacts ==
  ASSUME NEW view0 \in [Call -> CallInfo], NEW c \in Call, NEW i \in CallInfo
  PROVE  /\ Emit(view0, c, i) \in [Call -> CallInfo]
         /\ \A d \in Call : Emit(view0, c, i)[d] =
              IF d = c /\ view0[c].state # "Ended" THEN i ELSE view0[d]
BY DEF Emit

\* CallEvents::emit_ended reports the call Ended, counting only the first.
LEMMA EndedFacts ==
  ASSUME TypeOK, NEW c \in Call, EmitEnded(c)
  PROVE  /\ shown' \in [Call -> CallInfo] /\ ends' \in [Call -> Nat]
         /\ shown'[c].state = "Ended"
         /\ ends'[c] = IF shown[c].state = "Ended" THEN ends[c] ELSE ends[c] + 1
         /\ \A d \in Call \ {c} : shown'[d] = shown[d] /\ ends'[d] = ends[d]
<1> DEFINE over == [info[c] EXCEPT !.state = "Ended"]
<1>1. over \in CallInfo /\ over.state = "Ended"
  BY InfoFacts DEF TypeOK, CallStates
<1>2. shown' = Emit(shown, c, over)
  BY DEF EmitEnded
<1>3. shown' \in [Call -> CallInfo] /\ \A d \in Call : shown'[d] =
        IF d = c /\ shown[c].state # "Ended" THEN over ELSE shown[d]
  <2> HIDE DEF over
  <2> QED BY <1>1, <1>2, EmitFacts DEF TypeOK
<1>4. ends' = [ends EXCEPT ![c] = IF shown[c].state = "Ended" THEN @ ELSE @ + 1]
  BY DEF EmitEnded
<1>5. /\ ends' \in [Call -> Nat]
      /\ ends'[c] = IF shown[c].state = "Ended" THEN ends[c] ELSE ends[c] + 1
      /\ \A d \in Call \ {c} : ends'[d] = ends[d]
  BY <1>4 DEF TypeOK
<1> QED BY <1>1, <1>3, <1>5

\* hold_others leaves every connected call but `keep` on hold, and the app
\* knows it; it touches nothing else.
LEMMA HoldFacts ==
  ASSUME IndInv, NEW keep \in Call
  PROVE  /\ hold_others(keep) \in [Call -> CallInfo]
         /\ hold_others_shown(keep) \in [Call -> CallInfo]
         /\ \A d \in calls \ {keep} : hold_others(keep)[d].state = "OnHold"
         /\ \A d \in calls : hold_others_shown(keep)[d] = hold_others(keep)[d]
         /\ \A d \in Call : d \notin calls \/ d = keep =>
              hold_others(keep)[d] = info[d] /\ hold_others_shown(keep)[d] = shown[d]
<1>1. \A d \in calls : /\ d \in Call /\ shown[d] = info[d]
                       /\ info[d] \in CallInfo /\ info[d].state # "Ended"
  BY DEF IndInv, TypeOK, ShownMatchesTable, OnePlace
<1>2. \A d \in Call : /\ info[d] \in CallInfo /\ shown[d] \in CallInfo
                      /\ apply_hold(info[d], TRUE) \in CallInfo
                      /\ apply_hold(info[d], TRUE).state = "OnHold"
  BY InfoFacts DEF IndInv, TypeOK
<1>3. \A d \in OffHoldBut(keep) : d \in calls \ {keep}
  BY DEF OffHoldBut
<1>4. \A d \in OffHoldBut(keep) :
        Emit(shown, d, apply_hold(info[d], TRUE))[d] = apply_hold(info[d], TRUE)
  BY <1>1, <1>2, <1>3 DEF Emit, IndInv, TypeOK
<1>5. \A d \in Call :
        /\ hold_others(keep)[d] =
             IF d \in OffHoldBut(keep) THEN apply_hold(info[d], TRUE) ELSE info[d]
        /\ hold_others_shown(keep)[d] =
             IF d \in OffHoldBut(keep) THEN apply_hold(info[d], TRUE) ELSE shown[d]
  BY <1>4 DEF hold_others, hold_others_shown
<1>6. /\ hold_others(keep) \in [Call -> CallInfo]
      /\ hold_others_shown(keep) \in [Call -> CallInfo]
  BY <1>2, <1>4 DEF hold_others, hold_others_shown
<1>7. \A d \in calls \ {keep} : d \notin OffHoldBut(keep) => info[d].state = "OnHold"
  BY DEF OffHoldBut
<1> QED BY <1>1, <1>2, <1>3, <1>5, <1>6, <1>7

\* A call that becomes active is the only one off hold.
LEMMA ActiveFacts ==
  ASSUME IndInv, NEW c \in Call, c \notin calls, shown[c].state # "Ended", BecomeActive(c)
  PROVE  /\ info' \in [Call -> CallInfo] /\ shown' \in [Call -> CallInfo]
         /\ calls' = calls \cup {c} /\ audio' = audio \cup {c}
         /\ info'[c].state = "Connected" /\ shown'[c] = info'[c]
         /\ \A d \in calls : info'[d].state = "OnHold" /\ shown'[d] = info'[d]
         /\ \A d \in Call \ {c} : d \notin calls =>
              info'[d] = info[d] /\ shown'[d] = shown[d]
<1> DEFINE on == Fresh("Connected")
           seen == hold_others_shown(c)
<1>1. on \in CallInfo /\ on.state = "Connected"
  BY InfoFacts DEF CallStates
<1>2. /\ info' = [hold_others(c) EXCEPT ![c] = on]
      /\ shown' = Emit(seen, c, on)
      /\ calls' = calls \cup {c} /\ audio' = audio \cup {c}
  BY DEF BecomeActive
<1>3. seen \in [Call -> CallInfo] /\ seen[c].state # "Ended"
  BY HoldFacts
<1>4. calls \subseteq Call
  BY DEF IndInv, TypeOK
<1> HIDE DEF on, seen
<1>5. shown' \in [Call -> CallInfo] /\ \A d \in Call : shown'[d] = IF d = c THEN on ELSE seen[d]
  BY <1>1, <1>2, <1>3 DEF Emit
<1>6. info' \in [Call -> CallInfo]
      /\ \A d \in Call : info'[d] = IF d = c THEN on ELSE hold_others(c)[d]
  BY <1>1, <1>2, HoldFacts
<1>7. /\ \A d \in calls \ {c} : hold_others(c)[d].state = "OnHold"
      /\ \A d \in calls : seen[d] = hold_others(c)[d]
      /\ \A d \in Call : d \notin calls => hold_others(c)[d] = info[d] /\ seen[d] = shown[d]
  BY HoldFacts DEF seen
<1> QED BY <1>1, <1>2, <1>4, <1>5, <1>6, <1>7

\* A ringing call, and one whose answer succeeded, can become active.
LEMMA Connectable ==
  ASSUME IndInv
  PROVE  /\ \A c \in ringing : c \in Call /\ c \notin calls /\ shown[c].state # "Ended"
         /\ \A c \in Incoming : accept[c] = "accepted" => c \notin calls /\ taken[c] = "no"
<1>1. \A c \in ringing : info[c].state = "Ringing" /\ shown[c] = info[c] /\ c \notin calls
  BY DEF IndInv, TypeOK, OnePlace, ShownMatchesTable
<1>2. \A c \in Incoming : accept[c] = "accepted" => c \notin calls /\ taken[c] = "no"
  BY DEF IndInv, Reservations, NotYetConnected
<1> QED BY <1>1, <1>2 DEF IndInv, TypeOK

\* The sizes of the three sets live_call_count adds up.
LEMMA Sizes ==
  ASSUME IndInv
  PROVE  \A S \in {calls, ringing, accepting} :
           /\ Cardinality(S) \in Nat
           /\ \A c : /\ Cardinality(S \cup {c}) \in Nat
                     /\ Cardinality(S \cup {c}) <= Cardinality(S) + 1
                     /\ Cardinality(S \ {c}) \in Nat
                     /\ Cardinality(S \ {c}) <= Cardinality(S)
                     /\ c \in S => Cardinality(S \ {c}) = Cardinality(S) - 1
<1> SUFFICES ASSUME NEW S \in {calls, ringing, accepting}
             PROVE  /\ Cardinality(S) \in Nat
                    /\ \A c : /\ Cardinality(S \cup {c}) \in Nat
                              /\ Cardinality(S \cup {c}) <= Cardinality(S) + 1
                              /\ Cardinality(S \ {c}) \in Nat
                              /\ Cardinality(S \ {c}) <= Cardinality(S)
                              /\ c \in S => Cardinality(S \ {c}) = Cardinality(S) - 1
  OBVIOUS
<1>1. IsFiniteSet(Call)
  <2>1. IsFiniteSet(Incoming) /\ IsFiniteSet(Outgoing)
    BY CallsAssumption
  <2> QED BY <2>1, FS_Union
<1>2. IsFiniteSet(S)
  <2>1. S \subseteq Call
    BY DEF IndInv, TypeOK
  <2> QED BY <1>1, <2>1, FS_Subset
<1>3. Cardinality(S) \in Nat
  BY <1>2, FS_CardinalityType
<1>4. ASSUME NEW c
      PROVE  /\ Cardinality(S \cup {c}) \in Nat
             /\ Cardinality(S \cup {c}) <= Cardinality(S) + 1
             /\ Cardinality(S \ {c}) \in Nat
             /\ Cardinality(S \ {c}) <= Cardinality(S)
             /\ c \in S => Cardinality(S \ {c}) = Cardinality(S) - 1
  <2>1. /\ IsFiniteSet(S \cup {c})
        /\ Cardinality(S \cup {c}) = IF c \in S THEN Cardinality(S) ELSE Cardinality(S) + 1
    BY <1>2, FS_AddElement
  <2>2. /\ IsFiniteSet(S \ {c})
        /\ Cardinality(S \ {c}) = IF c \in S THEN Cardinality(S) - 1 ELSE Cardinality(S)
    BY <1>2, FS_RemoveElement
  <2>3. Cardinality(S \ {c}) \in Nat
    BY <2>2, FS_CardinalityType
  <2> QED BY <1>3, <2>1, <2>2, <2>3
<1> QED BY <1>3, <1>4

\* set_mute, set_hold and swap_calls change connected calls only, report what
\* they change, and leave at most one call off hold.
Control(c) == \/ \E b \in BOOLEAN : set_mute(c, b) \/ set_hold(c, b)
              \/ \E h \in Call : swap_calls(c, h)

LEMMA ControlFacts ==
  ASSUME IndInv, NEW c \in Call, Control(c)
  PROVE  /\ info' \in [Call -> CallInfo] /\ shown' \in [Call -> CallInfo]
         /\ \A d \in calls : /\ info'[d].state \in {"Connected", "OnHold"}
                             /\ shown'[d] = info'[d]
         /\ \A d \in Call \ calls : info'[d] = info[d] /\ shown'[d] = shown[d]
         /\ \A d, e \in calls : d # e => "OnHold" \in {info'[d].state, info'[e].state}
         /\ UNCHANGED <<calls, ringing, accepting, used, accept, drops, watched,
                        abandoned, taken, audio, gw, ends>>
<1> USE DEF IndInv, TypeOK, OneOffHold, OnePlace, ShownMatchesTable
<1>1. ASSUME NEW b \in BOOLEAN, set_mute(c, b) PROVE
        /\ info' \in [Call -> CallInfo] /\ shown' \in [Call -> CallInfo]
        /\ \A d \in Call : info'[d].state = info[d].state
        /\ \A d \in calls : shown'[d] = info'[d]
        /\ \A d \in Call \ calls : info'[d] = info[d] /\ shown'[d] = shown[d]
  <2> DEFINE new == [info[c] EXCEPT !.muted = b]
  <2>1. new \in CallInfo /\ new.state = info[c].state
    BY InfoFacts
  <2>2. info' = [info EXCEPT ![c] = new] /\ c \in calls
    BY <1>1 DEF set_mute
  <2>3. shown' = [shown EXCEPT ![c] = new]
    BY <1>1, <2>2 DEF set_mute, Emit
  <2> HIDE DEF new
  <2> QED BY <2>1, <2>2, <2>3
<1>2. ASSUME NEW b \in BOOLEAN, set_hold(c, b) PROVE
        /\ info' \in [Call -> CallInfo] /\ shown' \in [Call -> CallInfo]
        /\ info'[c].state \in {"Connected", "OnHold"} /\ shown'[c] = info'[c]
        /\ \A d \in calls \ {c} : /\ b => info'[d] = info[d]
                                  /\ ~b => info'[d].state = "OnHold"
                                  /\ shown'[d] = info'[d]
        /\ b => info'[c].state = "OnHold"
        /\ \A d \in Call \ calls : info'[d] = info[d] /\ shown'[d] = shown[d]
  <2> DEFINE new    == apply_hold(info[c], b)
             others == IF b THEN info ELSE hold_others(c)
             seen   == IF b THEN shown ELSE hold_others_shown(c)
  <2>1. new \in CallInfo /\ new.state = IF b THEN "OnHold" ELSE "Connected"
    BY InfoFacts
  <2>2. c \in calls /\ info' = [others EXCEPT ![c] = new] /\ shown' = Emit(seen, c, new)
    BY <1>2 DEF set_hold
  <2>3. /\ others \in [Call -> CallInfo] /\ seen \in [Call -> CallInfo]
        /\ seen[c].state # "Ended"
        /\ \A d \in calls \ {c} : /\ b => others[d] = info[d]
                                  /\ ~b => others[d].state = "OnHold"
                                  /\ seen[d] = others[d]
        /\ \A d \in Call \ calls : others[d] = info[d] /\ seen[d] = shown[d]
    BY <2>2, HoldFacts
  <2> HIDE DEF new, others, seen
  <2>4. shown' = [seen EXCEPT ![c] = new]
    BY <2>2, <2>3 DEF Emit
  <2> QED BY <2>1, <2>2, <2>3, <2>4
<1>3. ASSUME NEW h \in Call, swap_calls(c, h) PROVE
        /\ info' \in [Call -> CallInfo] /\ shown' \in [Call -> CallInfo]
        /\ h \in calls /\ info'[h].state = "Connected" /\ shown'[h] = info'[h]
        /\ \A d \in calls \ {h} : info'[d].state = "OnHold" /\ shown'[d] = info'[d]
        /\ \A d \in Call \ calls : info'[d] = info[d] /\ shown'[d] = shown[d]
  <2> DEFINE new  == apply_hold(info[h], FALSE)
             seen == hold_others_shown(h)
  <2>1. new \in CallInfo /\ new.state = "Connected"
    BY InfoFacts
  <2>2. h \in calls /\ info' = [hold_others(h) EXCEPT ![h] = new]
    BY <1>3 DEF swap_calls
  <2>3. seen \in [Call -> CallInfo] /\ seen[h] = info[h] /\ info[h].state # "Ended"
    BY <2>2, HoldFacts
  <2>4. info[h].state = "Connected" => new = info[h]
    BY DEF apply_hold, CallInfo
  <2>5. shown' = [seen EXCEPT ![h] = new]
    <3>1. shown' = IF info[h].state = "OnHold" THEN Emit(seen, h, new) ELSE seen
      BY <1>3 DEF swap_calls
    <3> HIDE DEF new, seen
    <3>2. CASE info[h].state = "OnHold"
      BY <3>1, <3>2, <2>3 DEF Emit
    <3>3. CASE info[h].state = "Connected"
      BY <3>1, <3>3, <2>3, <2>4
    <3> QED BY <3>2, <3>3, <2>2
  <2>6. /\ hold_others(h) \in [Call -> CallInfo]
        /\ \A d \in calls \ {h} : hold_others(h)[d].state = "OnHold" /\ seen[d] = hold_others(h)[d]
        /\ \A d \in Call \ calls : hold_others(h)[d] = info[d] /\ seen[d] = shown[d]
    <3>1. h \in Call
      BY CallsAssumption
    <3> HIDE DEF IndInv, TypeOK, OneOffHold, OnePlace, ShownMatchesTable
    <3>2. /\ hold_others(h) \in [Call -> CallInfo]
          /\ \A d \in calls \ {h} : hold_others(h)[d].state = "OnHold"
      BY <3>1, HoldFacts
    <3>3. \A d \in calls \ {h} : seen[d] = hold_others(h)[d]
      BY <3>1, HoldFacts
    <3>4. \A d \in Call \ calls : hold_others(h)[d] = info[d] /\ seen[d] = shown[d]
      BY <3>1, HoldFacts
    <3> QED BY <3>2, <3>3, <3>4
  <2> HIDE DEF new, seen
  <2> QED BY <2>1, <2>2, <2>3, <2>5, <2>6
<1>4. UNCHANGED <<calls, ringing, accepting, used, accept, drops, watched,
                  abandoned, taken, audio, gw, ends>>
  BY DEF Control, set_mute, set_hold, swap_calls, offers
<1> DEFINE Result == /\ info' \in [Call -> CallInfo] /\ shown' \in [Call -> CallInfo]
                     /\ \A d \in calls : /\ info'[d].state \in {"Connected", "OnHold"}
                                         /\ shown'[d] = info'[d]
                     /\ \A d \in Call \ calls : info'[d] = info[d] /\ shown'[d] = shown[d]
                     /\ \A d, e \in calls : d # e => "OnHold" \in {info'[d].state, info'[e].state}
<1>5. ASSUME NEW b \in BOOLEAN, set_mute(c, b) PROVE Result
  BY <1>1, <1>5
<1>6. ASSUME NEW b \in BOOLEAN, set_hold(c, b) PROVE Result
  <2>1. CASE b
    BY <1>2, <1>6, <2>1
  <2>2. CASE ~b
    BY <1>2, <1>6, <2>2
  <2> QED BY <2>1, <2>2
<1>7. ASSUME NEW h \in Call, swap_calls(c, h) PROVE Result
  BY <1>3, <1>7
<1> HIDE DEF Result
<1>8. Result
  BY <1>5, <1>6, <1>7 DEF Control
<1> QED BY <1>4, <1>8 DEF Result

\* The ends of an offer report a call that never connected, or nothing.
OfferEnds(c) == AcceptUnknown(c) \/ RejectIncoming(c) \/ WatchEnds(c)

LEMMA OfferFacts ==
  ASSUME IndInv, NEW c \in Incoming, OfferEnds(c)
  PROVE  /\ NotYetConnected(c) /\ c \notin ringing
         /\ UNCHANGED <<calls, ringing, info, used, taken, audio>>
         /\ \A d \in Call \ {c} : shown'[d] = shown[d] /\ ends'[d] = ends[d]
         /\ \/ shown'[c] = shown[c] /\ ends'[c] = ends[c]
            \/ /\ shown'[c].state = "Ended"
               /\ ends'[c] = IF shown[c].state = "Ended" THEN ends[c] ELSE ends[c] + 1
<1>1. NotYetConnected(c)
  BY DEF IndInv, Reservations, OfferEnds, AcceptUnknown, RejectIncoming, WatchEnds
<1>2. c \notin ringing
  BY CallsAssumption DEF IndInv, TypeOK
<1>3. UNCHANGED <<calls, ringing, info, used, taken, audio>>
  BY DEF OfferEnds, AcceptUnknown, RejectIncoming, WatchEnds, table
<1>4. EmitEnded(c) \/ UNCHANGED <<shown, ends>>
  BY DEF OfferEnds, AcceptUnknown, RejectIncoming, WatchEnds, view
<1>5. TypeOK
  BY DEF IndInv
<1> QED BY <1>1, <1>2, <1>3, <1>4, <1>5, EndedFacts

\* The window's ids depend on `used` alone.
LEMMA SameWindow ==
  ASSUME used' = used
  PROVE  \A d \in Outgoing : is_used(d)' <=> is_used(d)
BY DEF is_used

\* Every step keeps the types.
LEMMA TypeStep == IndInv /\ [Next]_vars => TypeOK'
<1> SUFFICES ASSUME IndInv, [Next]_vars PROVE TypeOK'
  OBVIOUS
<1> USE DEF IndInv, table, offers, view, TypeOK
<1>1. ASSUME NEW c \in Outgoing, OutgoingStep(c) PROVE TypeOK'
  <2>1. CASE ReserveOutgoing(c)
    BY <2>1, MarkUsed, InfoFacts DEF UsedEntry, CallStates, ReserveOutgoing
  <2>2. CASE RefusePrecancelled(c)
    BY <2>2, SpendMark DEF UsedEntry, RefusePrecancelled
  <2>3. CASE OutgoingConnects(c)
    BY <2>3, ActiveFacts, Connectable DEF OutgoingConnects
  <2>4. CASE RingingEnds(c)
    BY <2>4, EndedFacts, InfoFacts DEF CallStates, RingingEnds
  <2>5. CASE HangupNotYetMade(c)
    <3>1. used' \in Seq(UsedEntry)
      BY <2>5, MarkUsed DEF HangupNotYetMade
    <3>2. Fresh("Ended") \in CallInfo
      BY InfoFacts DEF CallStates
    <3>3. shown' \in [Call -> CallInfo]
      BY <2>5, <3>2 DEF HangupNotYetMade
    <3>4. ends' \in [Call -> Nat]
      BY <2>5 DEF HangupNotYetMade
    <3> QED BY <2>5, <3>1, <3>3, <3>4 DEF HangupNotYetMade, UsedEntry
  <2> QED BY <1>1, <2>1, <2>2, <2>3, <2>4, <2>5 DEF OutgoingStep
<1>2. ASSUME NEW c \in Incoming, IncomingStep(c) PROVE TypeOK'
  <2>1. CASE HandlePush(c)
    BY <2>1 DEF HandlePush
  <2>2. CASE ReserveAccept(c)
    BY <2>2 DEF ReserveAccept
  <2>3. CASE SendAnswer(c)
    BY <2>3 DEF SendAnswer
  <2>4. CASE AcceptRefused(c)
    BY <2>4 DEF AcceptRefused
  <2>5. CASE AcceptUnknown(c)
    BY <2>5, EndedFacts DEF AcceptUnknown
  <2>6. CASE AnswerOffer(c)
    <3>1. CASE shown[c].state = "Ended"
      BY <2>6, <3>1 DEF AnswerOffer
    <3>2. CASE shown[c].state # "Ended"
      <4>1. BecomeActive(c) /\ c \notin calls
        BY <2>6, <3>2, Connectable DEF AnswerOffer
      <4> QED BY <2>6, <3>2, <4>1, ActiveFacts DEF AnswerOffer
    <3> QED BY <3>1, <3>2
  <2>7. CASE DropReservation(c)
    BY <2>7 DEF DropReservation
  <2>8. CASE RejectIncoming(c)
    BY <2>8, EndedFacts DEF RejectIncoming
  <2>9. CASE WatchEnds(c)
    BY <2>9, EndedFacts DEF WatchEnds
  <2>10. CASE WatchActive(c)
    BY <2>10 DEF WatchActive
  <2>11. CASE WatchRejects(c)
    BY <2>11 DEF WatchRejects
  <2>12. CASE GatewayAccepts(c)
    BY <2>12 DEF GatewayAccepts
  <2> QED BY <1>2, <2>1, <2>2, <2>3, <2>4, <2>5, <2>6, <2>7, <2>8, <2>9, <2>10, <2>11, <2>12 DEF IncomingStep
<1>3. ASSUME NEW c \in Call, CallStep(c) PROVE TypeOK'
  <2>1. CASE TakeCall(c)
    BY <2>1 DEF TakeCall
  <2>2. CASE StopCall(c)
    BY <2>2 DEF StopCall
  <2>3. CASE ReportEnded(c)
    BY <2>3, EndedFacts, InfoFacts DEF CallStates, ReportEnded
  <2>4. CASE RemoteEnds(c)
    BY <2>4 DEF RemoteEnds
  <2>5. CASE Control(c)
    BY <2>5, ControlFacts
  <2> QED BY <1>3, <2>1, <2>2, <2>3, <2>4, <2>5 DEF CallStep, Control
<1>4. CASE UNCHANGED vars
  BY <1>4 DEF vars
<1> QED BY <1>1, <1>2, <1>3, <1>4 DEF Next

\* No step takes the engine past the cap: a call enters `calls` only by leaving
\* `ringing` or `accepting`.
LEMMA CapStep == IndInv /\ [Next]_vars => LiveCap'
<1> SUFFICES ASSUME IndInv, [Next]_vars PROVE LiveCap'
  OBVIOUS
<1> USE DEF IndInv, table, offers, view, LiveCap, live_call_count
<1>1. ASSUME NEW c \in Outgoing, OutgoingStep(c) PROVE LiveCap'
  <2>1. CASE ReserveOutgoing(c)
    BY <2>1, Sizes, LimitsAssumption DEF ReserveOutgoing
  <2>2. CASE RefusePrecancelled(c)
    BY <2>2 DEF RefusePrecancelled
  <2>3. CASE OutgoingConnects(c)
    <3>1. /\ c \in ringing /\ ringing' = ringing \ {c}
          /\ calls' = calls \cup {c} /\ accepting' = accepting
      BY <2>3 DEF OutgoingConnects, BecomeActive
    <3>2. /\ Cardinality(calls) \in Nat /\ Cardinality(calls') \in Nat
          /\ Cardinality(calls') <= Cardinality(calls) + 1
      BY <3>1, Sizes
    <3>3. /\ Cardinality(ringing) \in Nat /\ Cardinality(ringing') = Cardinality(ringing) - 1
      BY <3>1, Sizes
    <3>4. Cardinality(accepting) \in Nat
      BY Sizes
    <3> QED BY <3>1, <3>2, <3>3, <3>4, LimitsAssumption
  <2>4. CASE RingingEnds(c)
    BY <2>4, Sizes, LimitsAssumption DEF RingingEnds
  <2>5. CASE HangupNotYetMade(c)
    BY <2>5 DEF HangupNotYetMade
  <2> QED BY <1>1, <2>1, <2>2, <2>3, <2>4, <2>5 DEF OutgoingStep
<1>2. ASSUME NEW c \in Incoming, IncomingStep(c) PROVE LiveCap'
  <2>1. CASE HandlePush(c)
    BY <2>1 DEF HandlePush
  <2>2. CASE ReserveAccept(c)
    BY <2>2, Sizes, LimitsAssumption DEF ReserveAccept
  <2>3. CASE SendAnswer(c)
    BY <2>3 DEF SendAnswer
  <2>4. CASE AcceptRefused(c)
    BY <2>4 DEF AcceptRefused
  <2>5. CASE AcceptUnknown(c)
    BY <2>5 DEF AcceptUnknown
  <2>6. CASE AnswerOffer(c)
    <3>1. c \in accepting /\ accepting' = accepting \ {c} /\ ringing' = ringing
      BY <2>6 DEF AnswerOffer, Reservations
    <3>2. calls' = calls \/ calls' = calls \cup {c}
      BY <2>6 DEF AnswerOffer, BecomeActive
    <3>3. /\ Cardinality(calls) \in Nat /\ Cardinality(calls') \in Nat
          /\ Cardinality(calls') <= Cardinality(calls) + 1
      BY <3>2, Sizes
    <3>4. /\ Cardinality(accepting) \in Nat
          /\ Cardinality(accepting') = Cardinality(accepting) - 1
      BY <3>1, Sizes
    <3>5. Cardinality(ringing) \in Nat
      BY Sizes
    <3> QED BY <3>1, <3>3, <3>4, <3>5, LimitsAssumption
  <2>7. CASE DropReservation(c)
    <3>1. accepting' = accepting \ {c} /\ ringing' = ringing /\ calls' = calls
      BY <2>7 DEF DropReservation
    <3>2. /\ Cardinality(accepting) \in Nat /\ Cardinality(accepting') \in Nat
          /\ Cardinality(accepting') <= Cardinality(accepting)
      BY <3>1, Sizes
    <3>3. Cardinality(ringing) \in Nat /\ Cardinality(calls) \in Nat
      BY Sizes
    <3> QED BY <3>1, <3>2, <3>3, LimitsAssumption
  <2>8. CASE RejectIncoming(c)
    BY <2>8 DEF RejectIncoming
  <2>9. CASE WatchEnds(c)
    BY <2>9 DEF WatchEnds
  <2>10. CASE WatchActive(c)
    BY <2>10 DEF WatchActive
  <2>11. CASE WatchRejects(c)
    BY <2>11 DEF WatchRejects
  <2>12. CASE GatewayAccepts(c)
    BY <2>12 DEF GatewayAccepts
  <2> QED BY <1>2, <2>1, <2>2, <2>3, <2>4, <2>5, <2>6, <2>7, <2>8, <2>9, <2>10, <2>11, <2>12 DEF IncomingStep
<1>3. ASSUME NEW c \in Call, CallStep(c) PROVE LiveCap'
  <2>1. CASE TakeCall(c)
    BY <2>1, Sizes, LimitsAssumption DEF TakeCall
  <2>2. CASE StopCall(c)
    BY <2>2 DEF StopCall
  <2>3. CASE ReportEnded(c)
    BY <2>3 DEF ReportEnded
  <2>4. CASE RemoteEnds(c)
    BY <2>4 DEF RemoteEnds
  <2>5. CASE Control(c)
    BY <2>5, ControlFacts
  <2> QED BY <1>3, <2>1, <2>2, <2>3, <2>4, <2>5 DEF CallStep, Control
<1>4. CASE UNCHANGED vars
  BY <1>4 DEF vars
<1> QED BY <1>1, <1>2, <1>3, <1>4 DEF Next

\* A call goes off hold only in a step that holds every other one.
LEMMA HoldStep == IndInv /\ [Next]_vars => OneOffHold'
<1> SUFFICES ASSUME IndInv, [Next]_vars PROVE OneOffHold'
  OBVIOUS
<1> USE DEF IndInv, table, offers, view, OneOffHold, OnePlace, TypeOK
<1>1. ASSUME NEW c \in Outgoing, OutgoingStep(c) PROVE OneOffHold'
  <2>1. CASE ReserveOutgoing(c)
    BY <2>1, InfoFacts DEF ReserveOutgoing
  <2>2. CASE RefusePrecancelled(c)
    BY <2>2 DEF RefusePrecancelled
  <2>3. CASE OutgoingConnects(c)
    BY <2>3, ActiveFacts, Connectable DEF OutgoingConnects
  <2>4. CASE RingingEnds(c)
    BY <2>4 DEF RingingEnds
  <2>5. CASE HangupNotYetMade(c)
    BY <2>5 DEF HangupNotYetMade
  <2> QED BY <1>1, <2>1, <2>2, <2>3, <2>4, <2>5 DEF OutgoingStep
<1>2. ASSUME NEW c \in Incoming, IncomingStep(c) PROVE OneOffHold'
  <2>1. CASE HandlePush(c)
    BY <2>1 DEF HandlePush
  <2>2. CASE ReserveAccept(c)
    BY <2>2 DEF ReserveAccept
  <2>3. CASE SendAnswer(c)
    BY <2>3 DEF SendAnswer
  <2>4. CASE AcceptRefused(c)
    BY <2>4 DEF AcceptRefused
  <2>5. CASE AcceptUnknown(c)
    BY <2>5 DEF AcceptUnknown
  <2>6. CASE AnswerOffer(c)
    <3>1. CASE shown[c].state = "Ended"
      BY <2>6, <3>1 DEF AnswerOffer
    <3>2. CASE shown[c].state # "Ended"
      <4>1. BecomeActive(c) /\ c \notin calls /\ taken[c] = "no"
        BY <2>6, <3>2, Connectable DEF AnswerOffer
      <4> QED BY <2>6, <3>2, <4>1, ActiveFacts DEF AnswerOffer
    <3> QED BY <3>1, <3>2
  <2>7. CASE DropReservation(c)
    BY <2>7 DEF DropReservation
  <2>8. CASE RejectIncoming(c)
    BY <2>8 DEF RejectIncoming
  <2>9. CASE WatchEnds(c)
    BY <2>9 DEF WatchEnds
  <2>10. CASE WatchActive(c)
    BY <2>10 DEF WatchActive
  <2>11. CASE WatchRejects(c)
    BY <2>11 DEF WatchRejects
  <2>12. CASE GatewayAccepts(c)
    BY <2>12 DEF GatewayAccepts
  <2> QED BY <1>2, <2>1, <2>2, <2>3, <2>4, <2>5, <2>6, <2>7, <2>8, <2>9, <2>10, <2>11, <2>12 DEF IncomingStep
<1>3. ASSUME NEW c \in Call, CallStep(c) PROVE OneOffHold'
  <2>1. CASE TakeCall(c)
    BY <2>1 DEF TakeCall
  <2>2. CASE StopCall(c)
    BY <2>2 DEF StopCall
  <2>3. CASE ReportEnded(c)
    BY <2>3 DEF ReportEnded
  <2>4. CASE RemoteEnds(c)
    BY <2>4 DEF RemoteEnds
  <2>5. CASE Control(c)
    BY <2>5, ControlFacts
  <2> QED BY <1>3, <2>1, <2>2, <2>3, <2>4, <2>5 DEF CallStep, Control
<1>4. CASE UNCHANGED vars
  BY <1>4 DEF vars
<1> QED BY <1>1, <1>2, <1>3, <1>4 DEF Next

\* Whatever changes the information of a live call reports the change.
LEMMA ShownStep == IndInv /\ [Next]_vars => ShownMatchesTable'
<1> SUFFICES ASSUME IndInv, [Next]_vars PROVE ShownMatchesTable'
  OBVIOUS
<1> USE CallsAssumption DEF IndInv, table, offers, view, ShownMatchesTable, OnePlace, TypeOK
<1>1. ASSUME NEW c \in Outgoing, OutgoingStep(c) PROVE ShownMatchesTable'
  <2>1. CASE ReserveOutgoing(c)
    BY <2>1, InfoFacts DEF ReserveOutgoing
  <2>2. CASE RefusePrecancelled(c)
    BY <2>2 DEF RefusePrecancelled
  <2>3. CASE OutgoingConnects(c)
    BY <2>3, ActiveFacts, Connectable DEF OutgoingConnects
  <2>4. CASE RingingEnds(c)
    BY <2>4, EndedFacts, InfoFacts DEF RingingEnds
  <2>5. CASE HangupNotYetMade(c)
    BY <2>5, InfoFacts DEF HangupNotYetMade
  <2> QED BY <1>1, <2>1, <2>2, <2>3, <2>4, <2>5 DEF OutgoingStep
<1>2. ASSUME NEW c \in Incoming, IncomingStep(c) PROVE ShownMatchesTable'
  <2>1. CASE OfferEnds(c)
    <3>1. c \notin calls /\ c \notin ringing
      BY <2>1, OfferFacts DEF NotYetConnected
    <3>2. /\ calls' = calls /\ ringing' = ringing /\ info' = info
          /\ \A d \in Call \ {c} : shown'[d] = shown[d]
      BY <2>1, OfferFacts
    <3> QED BY <3>1, <3>2
  <2>2. CASE HandlePush(c)
    BY <2>2 DEF HandlePush
  <2>3. CASE ReserveAccept(c)
    BY <2>3 DEF ReserveAccept
  <2>4. CASE SendAnswer(c)
    BY <2>4 DEF SendAnswer
  <2>5. CASE AcceptRefused(c)
    BY <2>5 DEF AcceptRefused
  <2>6. CASE AnswerOffer(c)
    <3>1. CASE shown[c].state = "Ended"
      BY <2>6, <3>1 DEF AnswerOffer
    <3>2. CASE shown[c].state # "Ended"
      <4>1. BecomeActive(c) /\ c \notin calls /\ taken[c] = "no"
        BY <2>6, <3>2, Connectable DEF AnswerOffer
      <4> QED BY <2>6, <3>2, <4>1, ActiveFacts DEF AnswerOffer
    <3> QED BY <3>1, <3>2
  <2>7. CASE DropReservation(c)
    BY <2>7 DEF DropReservation
  <2>8. CASE WatchActive(c)
    BY <2>8 DEF WatchActive
  <2>9. CASE WatchRejects(c)
    BY <2>9 DEF WatchRejects
  <2>10. CASE GatewayAccepts(c)
    BY <2>10 DEF GatewayAccepts
  <2> QED BY <1>2, <2>1, <2>2, <2>3, <2>4, <2>5, <2>6, <2>7, <2>8, <2>9, <2>10 DEF IncomingStep, OfferEnds
<1>3. ASSUME NEW c \in Call, CallStep(c) PROVE ShownMatchesTable'
  <2>1. CASE TakeCall(c)
    BY <2>1 DEF TakeCall
  <2>2. CASE StopCall(c)
    BY <2>2 DEF StopCall
  <2>3. CASE ReportEnded(c)
    BY <2>3, EndedFacts DEF ReportEnded
  <2>4. CASE RemoteEnds(c)
    BY <2>4 DEF RemoteEnds
  <2>5. CASE Control(c)
    BY <2>5, ControlFacts
  <2> QED BY <1>3, <2>1, <2>2, <2>3, <2>4, <2>5 DEF CallStep, Control
<1>4. CASE UNCHANGED vars
  BY <1>4 DEF vars
<1> QED BY <1>1, <1>2, <1>3, <1>4 DEF Next

\* Media starts as a call enters the map and stops after it has left it.
LEMMA AudioStep == IndInv /\ [Next]_vars => AudioOwned'
<1> SUFFICES ASSUME IndInv, [Next]_vars PROVE AudioOwned'
  OBVIOUS
<1> USE DEF IndInv, table, offers, view, AudioOwned, OnePlace, TypeOK
<1>1. ASSUME NEW c \in Outgoing, OutgoingStep(c) PROVE AudioOwned'
  <2>1. CASE ReserveOutgoing(c)
    BY <2>1 DEF ReserveOutgoing
  <2>2. CASE RefusePrecancelled(c)
    BY <2>2 DEF RefusePrecancelled
  <2>3. CASE OutgoingConnects(c)
    BY <2>3, Connectable DEF BecomeActive, OutgoingConnects
  <2>4. CASE RingingEnds(c)
    BY <2>4 DEF RingingEnds
  <2>5. CASE HangupNotYetMade(c)
    BY <2>5 DEF HangupNotYetMade
  <2> QED BY <1>1, <2>1, <2>2, <2>3, <2>4, <2>5 DEF OutgoingStep
<1>2. ASSUME NEW c \in Incoming, IncomingStep(c) PROVE AudioOwned'
  <2>1. CASE HandlePush(c)
    BY <2>1 DEF HandlePush
  <2>2. CASE ReserveAccept(c)
    BY <2>2 DEF ReserveAccept
  <2>3. CASE SendAnswer(c)
    BY <2>3 DEF SendAnswer
  <2>4. CASE AcceptRefused(c)
    BY <2>4 DEF AcceptRefused
  <2>5. CASE AcceptUnknown(c)
    BY <2>5 DEF AcceptUnknown
  <2>6. CASE AnswerOffer(c)
    <3>1. CASE shown[c].state = "Ended"
      BY <2>6, <3>1 DEF AnswerOffer
    <3>2. CASE shown[c].state # "Ended"
      <4>1. BecomeActive(c) /\ c \notin calls /\ taken[c] = "no"
        BY <2>6, <3>2, Connectable DEF AnswerOffer
      <4> QED BY <2>6, <3>2, <4>1, ActiveFacts DEF AnswerOffer
    <3> QED BY <3>1, <3>2
  <2>7. CASE DropReservation(c)
    BY <2>7 DEF DropReservation
  <2>8. CASE RejectIncoming(c)
    BY <2>8 DEF RejectIncoming
  <2>9. CASE WatchEnds(c)
    BY <2>9 DEF WatchEnds
  <2>10. CASE WatchActive(c)
    BY <2>10 DEF WatchActive
  <2>11. CASE WatchRejects(c)
    BY <2>11 DEF WatchRejects
  <2>12. CASE GatewayAccepts(c)
    BY <2>12 DEF GatewayAccepts
  <2> QED BY <1>2, <2>1, <2>2, <2>3, <2>4, <2>5, <2>6, <2>7, <2>8, <2>9, <2>10, <2>11, <2>12 DEF IncomingStep
<1>3. ASSUME NEW c \in Call, CallStep(c) PROVE AudioOwned'
  <2>1. CASE TakeCall(c)
    BY <2>1 DEF TakeCall
  <2>2. CASE StopCall(c)
    BY <2>2 DEF StopCall
  <2>3. CASE ReportEnded(c)
    BY <2>3 DEF ReportEnded
  <2>4. CASE RemoteEnds(c)
    BY <2>4 DEF RemoteEnds
  <2>5. CASE Control(c)
    BY <2>5, ControlFacts
  <2> QED BY <1>3, <2>1, <2>2, <2>3, <2>4, <2>5 DEF CallStep, Control
<1>4. CASE UNCHANGED vars
  BY <1>4 DEF vars
<1> QED BY <1>1, <1>2, <1>3, <1>4 DEF Next

\* A call keeps to one place, and is counted ended when it is shown ended.
LEMMA PlaceStep == IndInv /\ [Next]_vars => OnePlace'
<1> SUFFICES ASSUME IndInv, [Next]_vars PROVE OnePlace'
  OBVIOUS
<1> USE CallsAssumption DEF IndInv, table, offers, view, OnePlace, TypeOK, ShownMatchesTable
<1>1. ASSUME NEW c \in Outgoing, OutgoingStep(c) PROVE OnePlace'
  <2>1. CASE ReserveOutgoing(c)
    <3>1. /\ c \notin calls \cup ringing /\ taken[c] = "no" /\ shown[c].state = "None"
      BY <2>1 DEF ReserveOutgoing, UsedIds
    <3>2. Fresh("Ringing") \in CallInfo /\ Fresh("Ringing").state = "Ringing"
      BY InfoFacts DEF CallStates
    <3>3. /\ info' = [info EXCEPT ![c] = Fresh("Ringing")]
          /\ shown' = [shown EXCEPT ![c] = Fresh("Ringing")]
          /\ ringing' = ringing \cup {c} /\ UNCHANGED <<calls, taken, ends>>
      BY <2>1 DEF ReserveOutgoing
    <3> QED BY <3>1, <3>2, <3>3
  <2>2. CASE RefusePrecancelled(c)
    BY <2>2 DEF RefusePrecancelled
  <2>3. CASE OutgoingConnects(c)
    <3>1. BecomeActive(c) /\ c \notin calls /\ shown[c].state # "Ended"
      BY <2>3, Connectable DEF OutgoingConnects
    <3>2. /\ calls' = calls \cup {c} /\ ringing' = ringing \ {c}
          /\ UNCHANGED <<taken, ends>> /\ c \in ringing
      BY <2>3, <3>1, ActiveFacts DEF OutgoingConnects
    <3> QED BY <3>1, <3>2, ActiveFacts
  <2>4. CASE RingingEnds(c)
    BY <2>4, EndedFacts, InfoFacts DEF RingingEnds
  <2>5. CASE HangupNotYetMade(c)
    <3>1. /\ c \notin calls \cup ringing /\ taken[c] = "no" /\ shown[c].state = "None"
      BY <2>5 DEF HangupNotYetMade, UsedIds
    <3>2. Fresh("Ended").state = "Ended"
      BY InfoFacts DEF CallStates
    <3>3. /\ shown' = [shown EXCEPT ![c] = Fresh("Ended")]
          /\ ends' = [ends EXCEPT ![c] = ends[c] + 1]
          /\ UNCHANGED <<calls, ringing, info, taken>>
      BY <2>5 DEF HangupNotYetMade
    <3> QED BY <3>1, <3>2, <3>3
  <2> QED BY <1>1, <2>1, <2>2, <2>3, <2>4, <2>5 DEF OutgoingStep
<1>2. ASSUME NEW c \in Incoming, IncomingStep(c) PROVE OnePlace'
  <2>1. CASE OfferEnds(c)
    BY <2>1, OfferFacts, SMTT(60) DEF NotYetConnected
  <2>2. CASE HandlePush(c)
    BY <2>2 DEF HandlePush
  <2>3. CASE ReserveAccept(c)
    BY <2>3 DEF ReserveAccept
  <2>4. CASE SendAnswer(c)
    BY <2>4 DEF SendAnswer
  <2>5. CASE AcceptRefused(c)
    BY <2>5 DEF AcceptRefused
  <2>6. CASE AnswerOffer(c)
    <3>1. CASE shown[c].state = "Ended"
      BY <2>6, <3>1 DEF AnswerOffer
    <3>2. CASE shown[c].state # "Ended"
      <4>1. BecomeActive(c) /\ c \notin calls /\ taken[c] = "no"
        BY <2>6, <3>2, Connectable DEF AnswerOffer
      <4> QED BY <2>6, <3>2, <4>1, ActiveFacts DEF AnswerOffer
    <3> QED BY <3>1, <3>2
  <2>7. CASE DropReservation(c)
    BY <2>7 DEF DropReservation
  <2>8. CASE WatchActive(c)
    BY <2>8 DEF WatchActive
  <2>9. CASE WatchRejects(c)
    BY <2>9 DEF WatchRejects
  <2>10. CASE GatewayAccepts(c)
    BY <2>10 DEF GatewayAccepts
  <2> QED BY <1>2, <2>1, <2>2, <2>3, <2>4, <2>5, <2>6, <2>7, <2>8, <2>9, <2>10 DEF IncomingStep, OfferEnds
<1>3. ASSUME NEW c \in Call, CallStep(c) PROVE OnePlace'
  <2>1. CASE TakeCall(c)
    BY <2>1 DEF TakeCall
  <2>2. CASE StopCall(c)
    BY <2>2 DEF StopCall
  <2>3. CASE ReportEnded(c)
    BY <2>3, EndedFacts, InfoFacts DEF ReportEnded
  <2>4. CASE RemoteEnds(c)
    BY <2>4 DEF RemoteEnds
  <2>5. CASE Control(c)
    BY <2>5, ControlFacts
  <2> QED BY <1>3, <2>1, <2>2, <2>3, <2>4, <2>5 DEF CallStep, Control
<1>4. CASE UNCHANGED vars
  BY <1>4 DEF vars
<1> QED BY <1>1, <1>2, <1>3, <1>4 DEF Next

\* An outgoing call is in the window from its first appearance on.
LEMMA UsedStep == IndInv /\ [Next]_vars => UsedIds'
<1> SUFFICES ASSUME IndInv, [Next]_vars PROVE UsedIds'
  OBVIOUS
<1> USE SameWindow, CallsAssumption DEF IndInv, table, offers, view, UsedIds, OnePlace, TypeOK
<1>1. ASSUME NEW c \in Outgoing, OutgoingStep(c) PROVE UsedIds'
  <2>1. CASE ReserveOutgoing(c)
    BY <2>1, MarkUsed DEF ReserveOutgoing
  <2>2. CASE RefusePrecancelled(c)
    BY <2>2, SpendMark DEF RefusePrecancelled
  <2>3. CASE OutgoingConnects(c)
    BY <2>3, ActiveFacts, Connectable DEF OutgoingConnects
  <2>4. CASE RingingEnds(c)
    BY <2>4, EndedFacts DEF RingingEnds
  <2>5. CASE HangupNotYetMade(c)
    BY <2>5, MarkUsed DEF HangupNotYetMade
  <2> QED BY <1>1, <2>1, <2>2, <2>3, <2>4, <2>5 DEF OutgoingStep
<1>2. ASSUME NEW c \in Incoming, IncomingStep(c) PROVE UsedIds'
  <2>1. CASE OfferEnds(c)
    <3>1. c \notin calls /\ c \notin ringing
      BY <2>1, OfferFacts DEF NotYetConnected
    <3>2. /\ calls' = calls /\ ringing' = ringing /\ used' = used /\ taken' = taken
          /\ \A d \in Call \ {c} : shown'[d] = shown[d]
      BY <2>1, OfferFacts
    <3>3. \A d \in Outgoing : d # c
      BY CallsAssumption
    <3> QED BY <3>1, <3>2, <3>3, SameWindow
  <2>2. CASE HandlePush(c)
    BY <2>2 DEF HandlePush
  <2>3. CASE ReserveAccept(c)
    BY <2>3 DEF ReserveAccept
  <2>4. CASE SendAnswer(c)
    BY <2>4 DEF SendAnswer
  <2>5. CASE AcceptRefused(c)
    BY <2>5 DEF AcceptRefused
  <2>6. CASE AnswerOffer(c)
    <3>1. CASE shown[c].state = "Ended"
      BY <2>6, <3>1 DEF AnswerOffer
    <3>2. CASE shown[c].state # "Ended"
      <4>1. BecomeActive(c) /\ c \notin calls /\ taken[c] = "no"
        BY <2>6, <3>2, Connectable DEF AnswerOffer
      <4> QED BY <2>6, <3>2, <4>1, ActiveFacts DEF AnswerOffer
    <3> QED BY <3>1, <3>2
  <2>7. CASE DropReservation(c)
    BY <2>7 DEF DropReservation
  <2>8. CASE WatchActive(c)
    BY <2>8 DEF WatchActive
  <2>9. CASE WatchRejects(c)
    BY <2>9 DEF WatchRejects
  <2>10. CASE GatewayAccepts(c)
    BY <2>10 DEF GatewayAccepts
  <2> QED BY <1>2, <2>1, <2>2, <2>3, <2>4, <2>5, <2>6, <2>7, <2>8, <2>9, <2>10 DEF IncomingStep, OfferEnds
<1>3. ASSUME NEW c \in Call, CallStep(c) PROVE UsedIds'
  <2>1. CASE TakeCall(c)
    BY <2>1 DEF TakeCall
  <2>2. CASE StopCall(c)
    BY <2>2 DEF StopCall
  <2>3. CASE ReportEnded(c)
    BY <2>3, EndedFacts DEF ReportEnded
  <2>4. CASE RemoteEnds(c)
    BY <2>4 DEF RemoteEnds
  <2>5. CASE Control(c)
    BY <2>5, ControlFacts
  <2> QED BY <1>3, <2>1, <2>2, <2>3, <2>4, <2>5 DEF CallStep, Control
<1>4. CASE UNCHANGED vars
  BY <1>4 DEF vars
<1> QED BY <1>1, <1>2, <1>3, <1>4 DEF Next

\* An accept that can succeed keeps its reservation.
LEMMA ReservationStep == IndInv /\ [Next]_vars => Reservations'
<1> SUFFICES ASSUME IndInv, [Next]_vars PROVE Reservations'
  OBVIOUS
<1> USE DEF IndInv, table, offers, view, Reservations, NotYetConnected, TypeOK
<1>1. ASSUME NEW c \in Outgoing, OutgoingStep(c) PROVE Reservations'
  <2>1. CASE ReserveOutgoing(c)
    BY <2>1, CallsAssumption DEF ReserveOutgoing
  <2>2. CASE RefusePrecancelled(c)
    BY <2>2 DEF RefusePrecancelled
  <2>3. CASE OutgoingConnects(c)
    BY <2>3, ActiveFacts, Connectable, CallsAssumption DEF OutgoingConnects
  <2>4. CASE RingingEnds(c)
    BY <2>4, EndedFacts, CallsAssumption DEF RingingEnds
  <2>5. CASE HangupNotYetMade(c)
    BY <2>5, CallsAssumption DEF HangupNotYetMade
  <2> QED BY <1>1, <2>1, <2>2, <2>3, <2>4, <2>5 DEF OutgoingStep
<1>2. ASSUME NEW c \in Incoming, IncomingStep(c) PROVE Reservations'
  <2>1. CASE HandlePush(c)
    BY <2>1 DEF HandlePush
  <2>2. CASE ReserveAccept(c)
    BY <2>2 DEF ReserveAccept
  <2>3. CASE SendAnswer(c)
    BY <2>3 DEF SendAnswer
  <2>4. CASE AcceptRefused(c)
    BY <2>4 DEF AcceptRefused
  <2>5. CASE AcceptUnknown(c)
    BY <2>5, EndedFacts DEF AcceptUnknown
  <2>6. CASE AnswerOffer(c)
    <3>1. CASE shown[c].state = "Ended"
      BY <2>6, <3>1 DEF AnswerOffer
    <3>2. CASE shown[c].state # "Ended"
      <4>1. BecomeActive(c) /\ c \notin calls /\ taken[c] = "no"
        BY <2>6, <3>2, Connectable DEF AnswerOffer
      <4> QED BY <2>6, <3>2, <4>1, ActiveFacts DEF AnswerOffer
    <3> QED BY <3>1, <3>2
  <2>7. CASE DropReservation(c)
    BY <2>7 DEF DropReservation
  <2>8. CASE RejectIncoming(c)
    BY <2>8, EndedFacts DEF RejectIncoming
  <2>9. CASE WatchEnds(c)
    BY <2>9, EndedFacts DEF WatchEnds
  <2>10. CASE WatchActive(c)
    BY <2>10 DEF WatchActive
  <2>11. CASE WatchRejects(c)
    BY <2>11 DEF WatchRejects
  <2>12. CASE GatewayAccepts(c)
    BY <2>12 DEF GatewayAccepts
  <2> QED BY <1>2, <2>1, <2>2, <2>3, <2>4, <2>5, <2>6, <2>7, <2>8, <2>9, <2>10, <2>11, <2>12 DEF IncomingStep
<1>3. ASSUME NEW c \in Call, CallStep(c) PROVE Reservations'
  <2>1. CASE TakeCall(c)
    BY <2>1 DEF TakeCall
  <2>2. CASE StopCall(c)
    BY <2>2 DEF StopCall
  <2>3. CASE ReportEnded(c)
    BY <2>3, EndedFacts DEF ReportEnded
  <2>4. CASE RemoteEnds(c)
    BY <2>4 DEF RemoteEnds
  <2>5. CASE Control(c)
    BY <2>5, ControlFacts
  <2> QED BY <1>3, <2>1, <2>2, <2>3, <2>4, <2>5 DEF CallStep, Control
<1>4. CASE UNCHANGED vars
  BY <1>4 DEF vars
<1> QED BY <1>1, <1>2, <1>3, <1>4 DEF Next

\* A slot stays with an accept that runs or has yet to drop it.
LEMMA ReleasedStep == IndInv /\ [Next]_vars => NoSlotLeaked'
<1> SUFFICES ASSUME IndInv, [Next]_vars PROVE NoSlotLeaked'
  OBVIOUS
<1> USE DEF IndInv, table, offers, view, NoSlotLeaked, TypeOK
<1>1. ASSUME NEW c \in Outgoing, OutgoingStep(c) PROVE NoSlotLeaked'
  <2>1. CASE ReserveOutgoing(c)
    BY <2>1, CallsAssumption DEF ReserveOutgoing
  <2>2. CASE RefusePrecancelled(c)
    BY <2>2 DEF RefusePrecancelled
  <2>3. CASE OutgoingConnects(c)
    BY <2>3, ActiveFacts, Connectable, CallsAssumption DEF OutgoingConnects
  <2>4. CASE RingingEnds(c)
    BY <2>4, EndedFacts, CallsAssumption DEF RingingEnds
  <2>5. CASE HangupNotYetMade(c)
    BY <2>5, CallsAssumption DEF HangupNotYetMade
  <2> QED BY <1>1, <2>1, <2>2, <2>3, <2>4, <2>5 DEF OutgoingStep
<1>2. ASSUME NEW c \in Incoming, IncomingStep(c) PROVE NoSlotLeaked'
  <2>1. CASE HandlePush(c)
    BY <2>1 DEF HandlePush
  <2>2. CASE ReserveAccept(c)
    BY <2>2 DEF ReserveAccept
  <2>3. CASE SendAnswer(c)
    BY <2>3 DEF SendAnswer
  <2>4. CASE AcceptRefused(c)
    BY <2>4 DEF AcceptRefused
  <2>5. CASE AcceptUnknown(c)
    BY <2>5, EndedFacts DEF AcceptUnknown
  <2>6. CASE AnswerOffer(c)
    <3>1. CASE shown[c].state = "Ended"
      BY <2>6, <3>1 DEF AnswerOffer
    <3>2. CASE shown[c].state # "Ended"
      <4>1. BecomeActive(c) /\ c \notin calls /\ taken[c] = "no"
        BY <2>6, <3>2, Connectable DEF AnswerOffer
      <4> QED BY <2>6, <3>2, <4>1, ActiveFacts DEF AnswerOffer
    <3> QED BY <3>1, <3>2
  <2>7. CASE DropReservation(c)
    BY <2>7 DEF DropReservation
  <2>8. CASE RejectIncoming(c)
    BY <2>8, EndedFacts DEF RejectIncoming
  <2>9. CASE WatchEnds(c)
    BY <2>9, EndedFacts DEF WatchEnds
  <2>10. CASE WatchActive(c)
    BY <2>10 DEF WatchActive
  <2>11. CASE WatchRejects(c)
    BY <2>11 DEF WatchRejects
  <2>12. CASE GatewayAccepts(c)
    BY <2>12 DEF GatewayAccepts
  <2> QED BY <1>2, <2>1, <2>2, <2>3, <2>4, <2>5, <2>6, <2>7, <2>8, <2>9, <2>10, <2>11, <2>12 DEF IncomingStep
<1>3. ASSUME NEW c \in Call, CallStep(c) PROVE NoSlotLeaked'
  <2>1. CASE TakeCall(c)
    BY <2>1 DEF TakeCall
  <2>2. CASE StopCall(c)
    BY <2>2 DEF StopCall
  <2>3. CASE ReportEnded(c)
    BY <2>3, EndedFacts DEF ReportEnded
  <2>4. CASE RemoteEnds(c)
    BY <2>4 DEF RemoteEnds
  <2>5. CASE Control(c)
    BY <2>5, ControlFacts
  <2> QED BY <1>3, <2>1, <2>2, <2>3, <2>4, <2>5 DEF CallStep, Control
<1>4. CASE UNCHANGED vars
  BY <1>4 DEF vars
<1> QED BY <1>1, <1>2, <1>3, <1>4 DEF Next

-----------------------------------------------------------------------------
\* The invariant is inductive, hence so are all of its parts.
LEMMA InitIndInv == Init => IndInv
<1> SUFFICES ASSUME Init PROVE IndInv
  OBVIOUS
<1> USE DEF Init
<1>1. TypeOK
  BY InfoFacts DEF TypeOK, CallStates
<1>2. LiveCap
  BY FS_EmptySet, LimitsAssumption DEF LiveCap, live_call_count
<1>3. OneOffHold /\ ShownMatchesTable /\ AudioOwned
  BY DEF OneOffHold, ShownMatchesTable, AudioOwned
<1>4. \A c \in Call : shown[c].state = "None"
  BY InfoFacts DEF CallStates
<1>5. OnePlace
  BY <1>4 DEF OnePlace
<1>6. UsedIds
  BY <1>4 DEF UsedIds
<1>7. Reservations /\ NoSlotLeaked
  BY <1>4 DEF Reservations, NotYetConnected, NoSlotLeaked
<1> QED BY <1>1, <1>2, <1>3, <1>5, <1>6, <1>7 DEF IndInv

LEMMA NextIndInv == IndInv /\ [Next]_vars => IndInv'
BY TypeStep, CapStep, HoldStep, ShownStep, AudioStep, PlaceStep, UsedStep, ReservationStep,
   ReleasedStep
   DEF IndInv

\* The inductive invariant holds in every reachable state: all of the safety
\* properties below at once.
THEOREM Invariance == Spec => []IndInv
BY InitIndInv, NextIndInv, PTL DEF Spec

\* Every variable of the call table keeps its type (lib.rs, the engine's maps).
THEOREM TypeCorrect == Spec => []TypeOK
<1>1. IndInv => TypeOK
  BY DEF IndInv
<1> QED BY <1>1, Invariance, PTL

\* However dials, accepts, hangups and reservation drops interleave, no more
\* than MAX_LIVE_CALLS calls are connected, ringing or being accepted.
THEOREM CapRespected == Spec => []LiveCap
<1>1. IndInv => LiveCap
  BY DEF IndInv
<1> QED BY <1>1, Invariance, PTL

\* At most one connected call is off hold (hold_others, set_hold, swap_calls).
THEOREM OneCallOffHold == Spec => []OneOffHold
<1>1. IndInv => OneOffHold
  BY DEF IndInv
<1> QED BY <1>1, Invariance, PTL

\* What the app was last told about a live call is what the table holds.
THEOREM AppSeesTable == Spec => []ShownMatchesTable
<1>1. IndInv => ShownMatchesTable
  BY DEF IndInv
<1> QED BY <1>1, Invariance, PTL

\* Media runs for the calls of the map and those being torn down only.
THEOREM NoMediaLeaked == Spec => []AudioOwned
<1>1. IndInv => AudioOwned
  BY DEF IndInv
<1> QED BY <1>1, Invariance, PTL

\* No accept, however it ends, leaves a slot under MAX_LIVE_CALLS taken.
THEOREM SlotsReturned == Spec => []NoSlotLeaked
<1>1. IndInv => NoSlotLeaked
  BY DEF IndInv
<1> QED BY <1>1, Invariance, PTL

-----------------------------------------------------------------------------
(* The call table implements the contract with the app. *)

\* A report permitted after another.
Permitted(s, t) ==
  \/ s = t
  \/ t = "Ended"
  \/ s = "None" /\ t \in {"Ringing", "Connected"}
  \/ s = "Ringing" /\ t = "Connected"
  \/ s \in {"Connected", "OnHold"} /\ t \in {"Connected", "OnHold"}

OrderKept == \A d \in Call :
  /\ Permitted(shown[d].state, shown'[d].state)
  /\ shown[d].state = "Ended" => shown'[d].state = "Ended"

\* No step reports a call out of order.
LEMMA OrderStep == IndInv /\ [Next]_vars => OrderKept
<1> SUFFICES ASSUME IndInv, [Next]_vars PROVE OrderKept
  OBVIOUS
<1> USE DEF IndInv, table, offers, view, OrderKept, Permitted, OnePlace, TypeOK, ShownMatchesTable
<1>1. ASSUME NEW c \in Outgoing, OutgoingStep(c) PROVE OrderKept
  <2>1. CASE ReserveOutgoing(c)
    <3>1. shown[c].state = "None" /\ Fresh("Ringing").state = "Ringing"
      BY <2>1, InfoFacts DEF ReserveOutgoing, UsedIds, CallStates
    <3> QED BY <2>1, <3>1 DEF ReserveOutgoing
  <2>2. CASE RefusePrecancelled(c)
    BY <2>2 DEF RefusePrecancelled
  <2>3. CASE OutgoingConnects(c)
    <3>1. BecomeActive(c) /\ c \notin calls /\ shown[c].state = "Ringing"
      BY <2>3, Connectable DEF OutgoingConnects
    <3>2. \A d \in calls : /\ shown[d].state \in {"Connected", "OnHold"}
                           /\ shown'[d].state = "OnHold"
      BY <3>1, ActiveFacts
    <3>3. \A d \in Call \ {c} : d \notin calls => shown'[d] = shown[d]
      BY <3>1, ActiveFacts
    <3>4. shown'[c].state = "Connected"
      BY <3>1, ActiveFacts
    <3> QED BY <3>1, <3>2, <3>3, <3>4
  <2>4. CASE RingingEnds(c)
    BY <2>4, EndedFacts DEF RingingEnds
  <2>5. CASE HangupNotYetMade(c)
    <3>1. Fresh("Ended").state = "Ended"
      BY InfoFacts DEF CallStates
    <3> QED BY <2>5, <3>1 DEF HangupNotYetMade
  <2> QED BY <1>1, <2>1, <2>2, <2>3, <2>4, <2>5 DEF OutgoingStep
<1>2. ASSUME NEW c \in Incoming, IncomingStep(c) PROVE OrderKept
  <2>1. CASE OfferEnds(c)
    <3>1. \A d \in Call \ {c} : shown'[d] = shown[d]
      BY <2>1, OfferFacts
    <3>2. shown'[c] = shown[c] \/ shown'[c].state = "Ended"
      BY <2>1, OfferFacts
    <3> QED BY <3>1, <3>2
  <2>2. CASE HandlePush(c)
    BY <2>2 DEF HandlePush
  <2>3. CASE ReserveAccept(c)
    BY <2>3 DEF ReserveAccept
  <2>4. CASE SendAnswer(c)
    BY <2>4 DEF SendAnswer
  <2>5. CASE AcceptRefused(c)
    BY <2>5 DEF AcceptRefused
  <2>6. CASE AnswerOffer(c)
    <3>1. CASE shown[c].state = "Ended"
      BY <2>6, <3>1 DEF AnswerOffer
    <3>2. CASE shown[c].state # "Ended"
      <4>1. BecomeActive(c) /\ c \notin calls
        BY <2>6, <3>2, Connectable DEF AnswerOffer
      <4>2. shown[c].state = "None"
        BY <2>6, <3>2 DEF AnswerOffer, Reservations, NotYetConnected
      <4>3. \A d \in calls : /\ shown[d].state \in {"Connected", "OnHold"}
                             /\ shown'[d].state = "OnHold"
        BY <3>2, <4>1, ActiveFacts
      <4>4. \A d \in Call \ {c} : d \notin calls => shown'[d] = shown[d]
        BY <3>2, <4>1, ActiveFacts
      <4>5. shown'[c].state = "Connected"
        BY <3>2, <4>1, ActiveFacts
      <4> QED BY <4>1, <4>2, <4>3, <4>4, <4>5
    <3> QED BY <3>1, <3>2
  <2>7. CASE DropReservation(c)
    BY <2>7 DEF DropReservation
  <2>8. CASE WatchActive(c)
    BY <2>8 DEF WatchActive
  <2>9. CASE WatchRejects(c)
    BY <2>9 DEF WatchRejects
  <2>10. CASE GatewayAccepts(c)
    BY <2>10 DEF GatewayAccepts
  <2> QED BY <1>2, <2>1, <2>2, <2>3, <2>4, <2>5, <2>6, <2>7, <2>8, <2>9, <2>10 DEF IncomingStep, OfferEnds
<1>3. ASSUME NEW c \in Call, CallStep(c) PROVE OrderKept
  <2>1. CASE TakeCall(c)
    BY <2>1 DEF TakeCall
  <2>2. CASE StopCall(c)
    BY <2>2 DEF StopCall
  <2>3. CASE ReportEnded(c)
    BY <2>3, EndedFacts DEF ReportEnded
  <2>4. CASE RemoteEnds(c)
    BY <2>4 DEF RemoteEnds
  <2>5. CASE Control(c)
    BY <2>5, ControlFacts
  <2> QED BY <1>3, <2>1, <2>2, <2>3, <2>4, <2>5 DEF CallStep, Control
<1>4. CASE UNCHANGED vars
  BY <1>4 DEF vars
<1> QED BY <1>1, <1>2, <1>3, <1>4 DEF Next

LEMMA ContractStep == IndInv /\ IndInv' /\ [Next]_vars => [Contract!Next]_(Contract!vars)
<1> SUFFICES ASSUME IndInv, IndInv', [Next]_vars PROVE Contract!Next
  BY DEF Contract!vars
<1>1. OrderKept
  BY OrderStep
<1>2. \A d \in Call : /\ shown[d].state \in Contract!States
                      /\ shown'[d].state \in Contract!States
  BY DEF IndInv, TypeOK, CallInfo, CallStates, Contract!States
<1>3. \A s, t \in Contract!States :
        Permitted(s, t) /\ s # t /\ s # "Ended" => t \in Contract!Follows(s)
  BY DEF Permitted, Contract!States, Contract!Follows
<1>4. \A d \in Call : shown'[d].state # shown[d].state
                        => shown'[d].state \in Contract!Follows(shown[d].state)
  BY <1>1, <1>2, <1>3 DEF OrderKept
<1>5. ends' = [d \in Call |-> IF shown[d].state # "Ended" /\ shown'[d].state = "Ended"
                              THEN ends[d] + 1 ELSE ends[d]]
  <2>1. ends' \in [Call -> Nat]
    BY DEF IndInv, TypeOK
  <2>2. \A d \in Call : /\ ends[d] = IF shown[d].state = "Ended" THEN 1 ELSE 0
                        /\ ends'[d] = IF shown'[d].state = "Ended" THEN 1 ELSE 0
    BY DEF IndInv, OnePlace
  <2>3. \A d \in Call : ends'[d] = IF shown[d].state # "Ended" /\ shown'[d].state = "Ended"
                                   THEN ends[d] + 1 ELSE ends[d]
    BY <1>1, <2>2 DEF OrderKept
  <2> QED BY <2>1, <2>3
<1> QED BY <1>2, <1>4, <1>5 DEF Contract!Next

\* Each call is reported in the order the app relies on, and has exactly one
\* Ended with nothing after it: the table implements CallContract.
THEOREM TableImplementsContract == Spec => ImplementsContract
<1>1. Init => Contract!Init
  <2> SUFFICES ASSUME Init PROVE Contract!Init
    OBVIOUS
  <2>1. Fresh("None").state = "None"
    BY InfoFacts DEF CallStates
  <2> QED BY <2>1 DEF Init, Contract!Init
<1> QED BY <1>1, ContractStep, Invariance, PTL DEF Spec, ImplementsContract, Contract!Spec

==============================================================================
