--------------------------- MODULE Capture_proofs ---------------------------
(***************************************************************************)
(* Theorems about the media session of a call and the AI captures fed from *)
(* it, for every set of addresses and of app threads and any number of     *)
(* captures, digits and DTMF packets.  The inductive invariant has one     *)
(* part for each question: how far the call's set-up is (Unstarted), whom  *)
(* it talks to (OneAddress), whether it is sealed (Keys), what a loop may  *)
(* still let through (Quiet), and whom the tap feeds (Fed).                *)
(***************************************************************************)
EXTENDS Capture, FiniteSetTheorems, TLAPS

SettingUp == call \in {"inbound", "outbound", "answered"}

\* A digit's thread has packets left as long as it sends.
DtmfLeft == \A d \in 1 .. DIGITS : dtmf[d].at = "sending" => dtmf[d].left # 0

\* Nothing of the session runs, or has run, before the call connects.
Unstarted ==
  SettingUp => /\ rx.at = "off" /\ tx.at = "off"
               /\ \A d \in 1 .. DIGITS : dtmf[d].at = "idle"
               /\ parties = {} /\ ~clear

\* Whatever has an address in hand has the one in remote_addr.
OneAddress ==
  /\ parties \subseteq Source \cap {remote}
  /\ rx.at \in {"held", "open", "play"} => rx.from = remote
  /\ tx.at \in {"muted", "held", "mic", "tap", "send"} => tx.to = remote /\ remote # NoPort
  /\ \A d \in 1 .. DIGITS : dtmf[d].at = "sending" => dtmf[d].to = remote /\ remote # NoPort

\* The session has its keys as soon as both sides have agreed on them.
Keys == /\ srtp = (offer /\ crypto = "good")
        /\ clear => ~srtp

\* The one frame let through since the flags changed: its loop will meet a
\* check of a flag that is still set before it has another.
Quiet ==
  /\ late.play <= 1 /\ late.mic <= 1
  /\ late.play = 1 => \/ ~running /\ rx.at \in {"off", "loop"}
                      \/ on_hold /\ rx.at \in {"off", "loop", "recv", "held"}
  /\ late.mic = 1 =>
       \/ ~running /\ tx.at \in {"tap", "send", "loop", "off"}
       \/ muted /\ tx.at \in {"tap", "send", "loop", "off", "remote", "muted"}
       \/ on_hold /\ tx.at \in {"tap", "send", "loop", "off", "remote", "muted", "held"}

MediaInv == TypeOK /\ DtmfLeft /\ Unstarted /\ OneAddress /\ Keys /\ Quiet

-----------------------------------------------------------------------------
RxTypes == [at : {"off", "loop", "recv", "held", "open", "play"},
            from : Source, sealed : BOOLEAN]
TxTypes == [at : {"off", "loop", "remote", "muted", "held", "mic", "tap", "send"},
            to : Source \cup {NoPort}]
DtmfTypes == [1 .. DIGITS -> [left : 0 .. DTMF_PACKETS, to : Source \cup {NoPort},
                              at : {"idle", "spawned", "sending", "done"}]]

LEMMA MediaInit == Init => MediaInv
<1> SUFFICES ASSUME Init PROVE MediaInv
  OBVIOUS
<1> USE SourceAssumption, BoundsAssumption DEF Init, SdpAddress, RxAt, TxAt
<1>1. TypeOK
  <2>1. uses \in Uses /\ call \in {"inbound", "outbound", "answered", "connected", "removed"}
    OBVIOUS
  <2>2. offer \in BOOLEAN /\ crypto \in {"none", "good", "unusable"}
    OBVIOUS
  <2>3. remote \in Source \cup {NoPort} /\ tap \in 0 .. CAPTURES
    OBVIOUS
  <2>4. rx \in RxTypes /\ tx \in TxTypes
    BY DEF RxTypes, TxTypes
  <2>5. dtmf \in DtmfTypes /\ late \in [play : Nat, mic : Nat]
    BY DEF DtmfTypes
  <2> QED BY <2>1, <2>2, <2>3, <2>4, <2>5 DEF TypeOK, RxTypes, TxTypes, DtmfTypes
<1>2. DtmfLeft /\ Unstarted
  BY DEF DtmfLeft, Unstarted
<1>3. OneAddress
  BY DEF OneAddress
<1>4. Keys
  BY Zenon DEF Keys
<1>5. Quiet
  BY DEF Quiet
<1> QED BY <1>1, <1>2, <1>3, <1>4, <1>5 DEF MediaInv

\* A loop that goes on keeps its packet or drops it.
LEMMA RxType ==
  ASSUME TypeOK, NEW p \in {"off", "loop", "recv", "held", "open", "play"}, RxGoes(p)
  PROVE  rx' \in RxTypes /\ rx'.at = p /\ (p # "loop" => rx'.from = rx.from)
BY SourceAssumption DEF TypeOK, RxGoes, RxAt, RxTypes

LEMMA TxType ==
  ASSUME TypeOK,
         NEW p \in {"off", "loop", "remote", "muted", "held", "mic", "tap", "send"},
         TxGoes(p)
  PROVE  tx' \in TxTypes /\ tx'.at = p /\ (p # "loop" => tx'.to = tx.to)
BY DEF TypeOK, TxGoes, TxAt, TxTypes

-----------------------------------------------------------------------------
(* What each part of the session leaves as it is. *)

RxAny == RxStep \/ \E s \in Source, sealed \in BOOLEAN : RxReceives(s, sealed)
DtmfStep == \E d \in 1 .. DIGITS : send_dtmf(d) \/ DtmfBegins(d) \/ DtmfSends(d)
FlagStep == stop \/ \E b \in BOOLEAN : set_mute(b) \/ set_hold(b)
CallStep == ApplyAnswer \/ Connect \/ Remove

\* Every step of the media session is one of these.
LEMMA MediaSteps ==
  MediaNext <=> RxAny \/ TxStep \/ DtmfStep \/ FlagStep \/ CallStep
BY DEF MediaNext, RxAny, DtmfStep, FlagStep, CallStep

\* The RX loop moves on, and changes the address only if there was none.
LEMMA RxMoves ==
  ASSUME TypeOK, RxAny
  PROVE  /\ UNCHANGED <<setup, flags, srtp, tap, tx, dtmf, clear>>
         /\ rx.at # "off" /\ rx' \in RxTypes /\ remote' \in Source \cup {NoPort}
         /\ remote # NoPort => remote' = remote
         /\ rx'.at = "off" => ~running
         /\ rx'.at = "recv" => running
         /\ rx'.at \in {"open", "play"} => rx'.from = rx.from
         /\ rx'.at = "play" => rx.at = "open"
         /\ rx'.at = "held" => rx'.from = remote' /\ rx.at = "recv"
         /\ rx'.at = "open" => rx.at = "held" /\ ~on_hold
         /\ \/ rx.at # "play" /\ UNCHANGED <<late, parties>>
            \/ /\ rx.at = "play" /\ rx'.at = "loop" /\ parties' = parties \cup {rx.from}
               /\ late' = IF on_hold \/ ~running THEN [late EXCEPT !.play = @ + 1] ELSE late
<1> USE SourceAssumption DEF TypeOK, RxOnly, seen, setup, flags, RxTypes
<1>1. CASE RxLoop
  BY <1>1 DEF RxLoop, RxGoes, RxAt
<1>2. CASE RxTimeout
  BY <1>2 DEF RxTimeout, RxGoes, RxAt
<1>3. ASSUME NEW s \in Source, NEW sealed \in BOOLEAN, RxReceives(s, sealed)
      PROVE  rx.at = "recv" /\ rx' \in RxTypes /\ rx'.at \in {"held", "loop"}
             /\ remote' \in Source /\ (remote # NoPort => remote' = remote)
             /\ (rx'.at = "held" => rx'.from = remote')
             /\ UNCHANGED <<setup, flags, srtp, tap, tx, dtmf, seen>>
  BY <1>3 DEF RxReceives, RxAt
<1>4. CASE RxHeld
  BY <1>4 DEF RxHeld, RxGoes, RxAt
<1>5. CASE RxOpen
  <2>1. /\ rx.at = "open" /\ (RxGoes("play") \/ RxGoes("loop"))
        /\ UNCHANGED <<setup, flags, srtp, tap, tx, dtmf, remote, seen>>
    BY <1>5 DEF RxOpen
  <2>2. CASE RxGoes("play")
    BY <2>1, <2>2 DEF RxGoes
  <2>3. CASE RxGoes("loop")
    BY <2>1, <2>3 DEF RxGoes, RxAt
  <2> QED BY <2>1, <2>2, <2>3
<1>6. CASE RxPlay
  BY <1>6 DEF RxPlay, RxGoes, RxAt
<1> QED BY <1>1, <1>2, <1>3, <1>4, <1>5, <1>6 DEF RxAny, RxStep

\* The TX loop moves on; it captures only past its three checks.
LEMMA TxMoves ==
  ASSUME TypeOK, TxStep
  PROVE  /\ UNCHANGED <<setup, remote, flags, srtp, tap, rx, dtmf>>
         /\ tx.at # "off" /\ tx' \in TxTypes
         /\ tx'.at = "off" => ~running
         /\ tx'.at = "remote" => running
         /\ tx'.at = "muted" => tx.at = "remote" /\ tx'.to = remote /\ remote # NoPort
         /\ tx'.at = "held" => tx.at = "muted" /\ ~muted
         /\ tx'.at = "mic" => tx.at = "held" /\ ~on_hold
         /\ tx'.at = "tap" => tx.at = "mic"
         /\ tx'.at = "send" => tx.at \in {"muted", "held", "mic", "tap"}
         /\ tx'.at \in {"held", "mic", "tap", "send"} => tx'.to = tx.to
         /\ late' = IF tx.at = "mic" /\ (muted \/ on_hold \/ ~running)
                    THEN [late EXCEPT !.mic = @ + 1] ELSE late
         /\ \/ UNCHANGED <<parties, clear>>
            \/ tx.at = "send" /\ parties' = parties \cup {tx.to} /\ clear' = (clear \/ ~srtp)
<1> USE DEF TypeOK, TxOnly, seen, TxTypes, TxGoes, TxAt
<1>1. CASE TxLoop
  BY <1>1 DEF TxLoop
<1>2. CASE TxRemote
  BY <1>2 DEF TxRemote
<1>3. CASE TxMuted
  BY <1>3 DEF TxMuted
<1>4. CASE TxHeld
  BY <1>4 DEF TxHeld
<1>5. CASE TxMic
  BY <1>5 DEF TxMic
<1>6. CASE TxTap
  BY <1>6 DEF TxTap
<1>7. CASE TxSend
  BY <1>7 DEF TxSend
<1> QED BY <1>1, <1>2, <1>3, <1>4, <1>5, <1>6, <1>7 DEF TxStep

\* Digits are sent on a connected call, to the address read at their start.
LEMMA DtmfMoves ==
  ASSUME TypeOK, DtmfLeft, DtmfStep
  PROVE  /\ UNCHANGED <<setup, remote, flags, srtp, tap, rx, tx, late, clear>>
         /\ dtmf' \in DtmfTypes /\ DtmfLeft'
         /\ call = "connected" \/ \E d \in 1 .. DIGITS : dtmf[d].at # "idle"
         /\ \A d \in 1 .. DIGITS : dtmf'[d].at = "sending" =>
              \/ dtmf[d].at = "sending" /\ dtmf'[d].to = dtmf[d].to
              \/ dtmf'[d].to = remote /\ remote # NoPort
         /\ \/ parties' = parties
            \/ \E d \in 1 .. DIGITS : dtmf[d].at = "sending" /\ parties' = parties \cup {dtmf[d].to}
<1> USE BoundsAssumption DEF TypeOK, DtmfLeft, DtmfTypes, seen
<1>1. ASSUME NEW d \in 1 .. DIGITS, send_dtmf(d)
      PROVE  /\ UNCHANGED <<setup, remote, flags, srtp, tap, rx, tx, seen>>
             /\ dtmf' \in DtmfTypes /\ DtmfLeft' /\ call = "connected"
             /\ \A f \in 1 .. DIGITS : dtmf'[f].at = "sending" => dtmf'[f] = dtmf[f]
  BY <1>1 DEF send_dtmf
<1>2. ASSUME NEW d \in 1 .. DIGITS, DtmfBegins(d)
      PROVE  /\ UNCHANGED <<setup, remote, flags, srtp, tap, rx, tx, seen>>
             /\ dtmf' \in DtmfTypes /\ DtmfLeft' /\ dtmf[d].at # "idle"
             /\ \A f \in 1 .. DIGITS : dtmf'[f].at = "sending" =>
                  dtmf'[f] = dtmf[f] \/ (dtmf'[f].to = remote /\ remote # NoPort)
  <2>1. CASE remote = NoPort
    <3>1. dtmf' = [dtmf EXCEPT ![d] = [dtmf[d] EXCEPT !.at = "done"]]
      BY <1>2, <2>1 DEF DtmfBegins
    <3>2. dtmf' \in DtmfTypes
      BY <3>1
    <3>3. \A f \in 1 .. DIGITS : dtmf'[f].at = "sending" => dtmf'[f] = dtmf[f]
      BY <3>1
    <3>4. DtmfLeft'
      BY <3>3
    <3>5. UNCHANGED <<setup, remote, flags, srtp, tap, rx, tx, seen>> /\ dtmf[d].at # "idle"
      BY <1>2 DEF DtmfBegins
    <3> QED BY <3>2, <3>3, <3>4, <3>5
  <2>2. CASE remote # NoPort
    <3>1. dtmf' = [dtmf EXCEPT ![d] = [at |-> "sending", left |-> DTMF_PACKETS, to |-> remote]]
      BY <1>2, <2>2 DEF DtmfBegins
    <3> QED BY <1>2, <2>2, <3>1 DEF DtmfBegins
  <2> QED BY <2>1, <2>2
<1>3. ASSUME NEW d \in 1 .. DIGITS, DtmfSends(d)
      PROVE  /\ UNCHANGED <<setup, remote, flags, srtp, tap, rx, tx, late, clear>>
             /\ dtmf' \in DtmfTypes /\ DtmfLeft' /\ dtmf[d].at = "sending"
             /\ \A f \in 1 .. DIGITS : dtmf'[f].at = "sending" =>
                  dtmf[f].at = "sending" /\ dtmf'[f].to = dtmf[f].to
             /\ parties' = parties \cup {dtmf[d].to}
  <2>1. dtmf[d].left \in 1 .. DTMF_PACKETS /\ dtmf[d].left - 1 \in 0 .. DTMF_PACKETS
    BY <1>3 DEF DtmfSends
  <2>2. /\ dtmf' \in DtmfTypes
        /\ \A f \in 1 .. DIGITS : f # d => dtmf'[f] = dtmf[f]
        /\ dtmf'[d].left = dtmf[d].left - 1 /\ dtmf'[d].to = dtmf[d].to
        /\ dtmf'[d].at = IF dtmf[d].left = 1 THEN "done" ELSE "sending"
    BY <1>3, <2>1 DEF DtmfSends
  <2>3. DtmfLeft'
    BY <2>1, <2>2
  <2> QED BY <1>3, <2>2, <2>3 DEF DtmfSends
<1> HIDE DEF TypeOK, DtmfLeft, DtmfTypes
<1> QED BY <1>1, <1>2, <1>3 DEF DtmfStep

-----------------------------------------------------------------------------
(* The invariant is kept by every step of the session, and by one that only  *)
(* replaces the tap.                                                         *)

TapOnly == /\ tap' \in 0 .. CAPTURES
           /\ UNCHANGED <<setup, remote, flags, srtp, rx, tx, dtmf, seen>>
AnyStep == MediaNext \/ TapOnly

\* Connect starts loops that have nothing in hand.
LEMMA Connects ==
  ASSUME Connect
  PROVE  rx' \in RxTypes /\ tx' \in TxTypes /\ rx'.at \in {"off", "loop"} /\ tx'.at \in {"off", "loop"}
BY SourceAssumption DEF Connect, RxAt, TxAt, RxTypes, TxTypes

LEMMA TypeStep == ASSUME MediaInv, AnyStep PROVE TypeOK' /\ DtmfLeft'
<1> TypeOK /\ DtmfLeft /\ OneAddress
  BY DEF MediaInv
<1> USE DEF setup, flags, seen
<1>1. CASE RxAny
  <2>1. late' \in [play : Nat, mic : Nat] /\ parties' \subseteq Source
    BY <1>1, RxMoves DEF TypeOK
  <2>2. /\ UNCHANGED <<uses, call, offer, crypto, muted, on_hold, running, srtp, tap, tx, dtmf, clear>>
        /\ rx' \in RxTypes /\ remote' \in Source \cup {NoPort}
    BY <1>1, RxMoves
  <2>3. DtmfLeft'
    BY <2>2 DEF DtmfLeft
  <2> QED BY <2>1, <2>2, <2>3 DEF TypeOK, RxTypes
<1>2. CASE TxStep
  <2>1. late' \in [play : Nat, mic : Nat]
    BY <1>2, TxMoves DEF TypeOK
  <2>2. parties' \subseteq Source /\ clear' \in BOOLEAN
    BY <1>2, TxMoves DEF TypeOK, OneAddress
  <2>3. /\ UNCHANGED <<uses, call, offer, crypto, remote, muted, on_hold, running, srtp, tap, rx, dtmf>>
        /\ tx' \in TxTypes
    BY <1>2, TxMoves
  <2>4. DtmfLeft'
    BY <2>3 DEF DtmfLeft
  <2> QED BY <2>1, <2>2, <2>3, <2>4 DEF TypeOK, TxTypes
<1>3. CASE DtmfStep
  <2>1. parties' \subseteq Source
    BY <1>3, DtmfMoves DEF TypeOK, OneAddress
  <2> QED BY <1>3, <2>1, DtmfMoves DEF TypeOK, DtmfTypes
<1>4. CASE FlagStep
  <2>1. /\ UNCHANGED <<uses, call, offer, crypto, remote, srtp, tap, rx, tx, dtmf, parties, clear>>
        /\ late' = [play |-> 0, mic |-> 0]
        /\ muted' \in BOOLEAN /\ on_hold' \in BOOLEAN /\ running' \in BOOLEAN
    BY <1>4, Zenon DEF FlagStep, stop, set_mute, set_hold, FlagsChanged, TypeOK
  <2> QED BY <2>1 DEF TypeOK, DtmfLeft
<1>5. CASE ApplyAnswer
  BY <1>5, SourceAssumption DEF ApplyAnswer, apply_remote_sdp, SdpAddress, TypeOK, DtmfLeft
<1>6. CASE Connect
  BY <1>6, Connects DEF Connect, TypeOK, DtmfLeft, RxTypes, TxTypes
<1>7. CASE Remove
  BY <1>7 DEF Remove, TypeOK, DtmfLeft
<1>8. CASE TapOnly
  BY <1>8 DEF TapOnly, TypeOK, DtmfLeft
<1> QED BY <1>1, <1>2, <1>3, <1>4, <1>5, <1>6, <1>7, <1>8, MediaSteps DEF AnyStep, CallStep

\* Nothing runs before the call connects.
LEMMA UnstartedStep == ASSUME MediaInv, AnyStep PROVE Unstarted'
<1> TypeOK /\ DtmfLeft /\ Unstarted
  BY DEF MediaInv
<1> USE DEF setup, flags, seen, Unstarted, SettingUp
<1>1. CASE RxAny
  BY <1>1, RxMoves
<1>2. CASE TxStep
  BY <1>2, TxMoves
<1>3. CASE DtmfStep
  BY <1>3, DtmfMoves
<1>4. CASE FlagStep
  BY <1>4 DEF FlagStep, stop, set_mute, set_hold, FlagsChanged
<1>5. CASE ApplyAnswer
  BY <1>5 DEF ApplyAnswer
<1>6. CASE Connect \/ Remove
  BY <1>6 DEF Connect, Remove
<1>7. CASE TapOnly
  BY <1>7 DEF TapOnly
<1> QED BY <1>1, <1>2, <1>3, <1>4, <1>5, <1>6, <1>7, MediaSteps DEF AnyStep, CallStep

\* remote_addr is set during set-up, or by the first packet, and then kept.
LEMMA AddressStep == ASSUME MediaInv, AnyStep PROVE OneAddress'
<1> TypeOK /\ DtmfLeft /\ Unstarted /\ OneAddress
  BY DEF MediaInv
<1> USE DEF setup, flags, seen, OneAddress
<1>1. CASE RxAny
  <2>1. CASE remote = NoPort
    BY <1>1, <2>1, RxMoves, SourceAssumption DEF TypeOK, RxTypes
  <2>2. CASE remote # NoPort
    <3>1. remote' = remote /\ UNCHANGED <<tx, dtmf>> /\ rx' \in RxTypes
      BY <1>1, <2>2, RxMoves
    <3>2. parties' \subseteq Source \cap {remote}
      BY <1>1, RxMoves DEF TypeOK
    <3>3. rx'.at \in {"held", "open", "play"} => rx'.from = remote
      BY <1>1, <3>1, RxMoves
    <3> QED BY <3>1, <3>2, <3>3
  <2> QED BY <2>1, <2>2
<1>2. CASE TxStep
  BY <1>2, TxMoves DEF TypeOK, TxTypes
<1>3. CASE DtmfStep
  BY <1>3, DtmfMoves DEF TypeOK
<1>4. CASE FlagStep
  BY <1>4 DEF FlagStep, stop, set_mute, set_hold, FlagsChanged
<1>5. CASE ApplyAnswer
  BY <1>5 DEF ApplyAnswer, Unstarted, SettingUp
<1>6. CASE Connect
  BY <1>6, Connects DEF Connect
<1>7. CASE Remove
  BY <1>7 DEF Remove
<1>8. CASE TapOnly
  BY <1>8 DEF TapOnly
<1> QED BY <1>1, <1>2, <1>3, <1>4, <1>5, <1>6, <1>7, <1>8, MediaSteps DEF AnyStep, CallStep

\* Keys are agreed on before the loops start, and never change after.
LEMMA KeysStep == ASSUME MediaInv, AnyStep PROVE Keys'
<1> TypeOK /\ DtmfLeft /\ Unstarted /\ Keys
  BY DEF MediaInv
<1> USE DEF setup, flags, seen, Keys
<1>1. CASE RxAny
  <2>1. UNCHANGED <<offer, crypto, srtp, clear>>
    BY <1>1, RxMoves
  <2> QED BY <2>1, Zenon
<1>2. CASE TxStep
  <2>1. UNCHANGED <<offer, crypto, srtp>> /\ (clear' = clear \/ clear' = (clear \/ ~srtp))
    BY <1>2, TxMoves
  <2>2. CASE clear' = clear
    BY <2>1, <2>2, Zenon
  <2>3. CASE clear' = (clear \/ ~srtp)
    BY <2>1, <2>3, Zenon
  <2> QED BY <2>1, <2>2, <2>3
<1>3. CASE DtmfStep
  <2>1. UNCHANGED <<offer, crypto, srtp, clear>>
    BY <1>3, DtmfMoves
  <2> QED BY <2>1, Zenon
<1>4. CASE FlagStep
  <2>1. UNCHANGED <<offer, crypto, srtp, clear>>
    BY <1>4 DEF FlagStep, stop, set_mute, set_hold, FlagsChanged
  <2> QED BY <2>1, Zenon
<1>5. CASE ApplyAnswer
  <2>1. UNCHANGED <<offer, clear>> /\ ~clear /\ srtp' = (offer /\ crypto' = "good")
    BY <1>5, Zenon DEF ApplyAnswer, apply_remote_sdp, Unstarted, SettingUp
  <2> QED BY <2>1, Zenon
<1>6. CASE Connect \/ Remove \/ TapOnly
  <2>1. UNCHANGED <<offer, crypto, srtp, clear>>
    BY <1>6 DEF Connect, Remove, TapOnly
  <2> QED BY <2>1, Zenon
<1> QED BY <1>1, <1>2, <1>3, <1>4, <1>5, <1>6, MediaSteps DEF AnyStep, CallStep

\* A second frame would have to pass the check of a flag that is set.
LEMMA QuietStep == ASSUME MediaInv, AnyStep PROVE Quiet'
<1> TypeOK /\ DtmfLeft /\ Unstarted /\ Quiet
  BY DEF MediaInv
<1> USE DEF setup, flags, seen, Quiet
<1>1. CASE RxAny
  <2>1. late'.mic = late.mic /\ UNCHANGED <<tx, running, muted, on_hold>>
    BY <1>1, RxMoves DEF TypeOK
  <2>2. /\ late'.play <= 1
        /\ late'.play = 1 => \/ ~running /\ rx'.at \in {"off", "loop"}
                             \/ on_hold /\ rx'.at \in {"off", "loop", "recv", "held"}
    <3>1. CASE rx.at # "play" /\ UNCHANGED <<late, parties>>
      BY <1>1, <3>1, RxMoves DEF TypeOK, RxTypes
    <3>2. CASE /\ rx.at = "play" /\ rx'.at = "loop"
               /\ late' = IF on_hold \/ ~running THEN [late EXCEPT !.play = @ + 1] ELSE late
      BY <1>1, <3>2 DEF TypeOK
    <3> QED BY <1>1, <3>1, <3>2, RxMoves
  <2> QED BY <2>1, <2>2
<1>2. CASE TxStep
  <2>1. late'.play = late.play /\ UNCHANGED <<rx, running, muted, on_hold>>
    BY <1>2, TxMoves DEF TypeOK
  <2>2. CASE tx.at = "mic"
    BY <1>2, <2>1, <2>2, TxMoves DEF TypeOK, TxTypes
  <2>3. CASE tx.at # "mic"
    BY <1>2, <2>1, <2>3, TxMoves DEF TypeOK, TxTypes
  <2> QED BY <2>2, <2>3
<1>3. CASE DtmfStep
  BY <1>3, DtmfMoves
<1>4. CASE FlagStep
  BY <1>4 DEF FlagStep, stop, set_mute, set_hold, FlagsChanged
<1>5. CASE ApplyAnswer \/ Remove \/ TapOnly
  BY <1>5 DEF ApplyAnswer, Remove, TapOnly
<1>6. CASE Connect
  BY <1>6, Connects DEF Connect
<1> QED BY <1>1, <1>2, <1>3, <1>4, <1>5, <1>6, MediaSteps DEF AnyStep, CallStep

LEMMA MediaStep == ASSUME MediaInv, AnyStep PROVE MediaInv'
BY TypeStep, UnstartedStep, AddressStep, KeysStep, QuietStep DEF MediaInv

-----------------------------------------------------------------------------
(* Captures. *)

\* A start runs alone, and has its session in place.
Starts ==
  \A h \in Host : host[h].at = "attach" =>
    /\ host[h].op = "start"
    /\ kept # 0 /\ host[h].s = kept /\ session[kept] = "open"
    /\ \A g \in Host \ {h} : host[g].at = "idle"

Detached == \E h \in Host : host[h].at \in {"stop", "take"}

\* The tap feeds a capture that was attached to it, and none once an
\* operation that ends the capture has begun.
Fed ==
  /\ SettingUp => tap = 0 /\ \A s \in Captures : session[s] # "tapped"
  /\ call = "connected" /\ tap # 0 => session[tap] = "tapped"
  /\ call = "connected" /\ Detached => tap = 0
  /\ \A h \in Host : host[h].at \in {"stop", "take"} => host[h].op # "start"

\* The inductive invariant of an app that does not overlap a start.
CaptureInv == MediaInv /\ CaptureTypeOK /\ Starts /\ Fed /\ TapIsKept

\* No behaviour has the app start a capture while it is in another operation
\* on the call.
NoOverlap == \A u \in Uses : "overlap" \notin u

LEMMA CaptureInitInv == CaptureInit => CaptureInv
<1> SUFFICES ASSUME CaptureInit PROVE CaptureInv
  OBVIOUS
<1>1. MediaInv
  BY MediaInit DEF CaptureInit
<1>2. CaptureTypeOK
  BY BoundsAssumption DEF CaptureInit, CaptureTypeOK, Free, Captures
<1>3. tap = 0 /\ kept = 0 /\ \A h \in Host : host[h] = Free
  BY DEF CaptureInit, Init
<1>4. \A s \in Captures : session[s] = "none"
  BY DEF CaptureInit
<1> QED BY <1>1, <1>2, <1>3, <1>4 DEF CaptureInv, Starts, Fed, Detached, TapIsKept, Free

\* An operation on a capture changes nothing of the session but the tap.
LEMMA HostTap ==
  ASSUME CaptureTypeOK, TypeOK, NEW h \in Host, HostStep(h)
  PROVE  TapOnly
<1>1. ASSUME UNCHANGED mediaVars PROVE TapOnly
  BY <1>1 DEF mediaVars, TapOnly, TypeOK, setup, flags, seen
<1>2. ASSUME NEW op \in {"stop", "transcribe", "discard"}, Detach(h, op) PROVE TapOnly
  BY <1>2, BoundsAssumption DEF Detach, set_tap_in_map, MediaElseUnchanged, TapOnly, TypeOK
<1>3. CASE Attach(h)
  BY <1>3 DEF Attach, set_tap_in_map, MediaElseUnchanged, TapOnly, TypeOK, CaptureTypeOK
<1> QED BY <1>1, <1>2, <1>3 DEF HostStep, start_capture, stop_capture, Take

LEMMA MediaInvStep == ASSUME MediaInv, CaptureTypeOK, [CaptureNext]_vars PROVE MediaInv'
<1>1. TypeOK
  BY DEF MediaInv
<1>2. CASE UNCHANGED vars
  BY <1>1, <1>2, MediaStep DEF vars, mediaVars, AnyStep, TapOnly, TypeOK
<1> QED BY <1>1, <1>2, MediaStep, HostTap DEF CaptureNext, AnyStep

LEMMA EndedType ==
  ASSUME CaptureTypeOK, NEW state \in {"stopped", "discarded"}
  PROVE  /\ Ended(state) \in [Captures -> {"none", "open", "tapped", "stopped", "discarded"}]
         /\ \A s \in Captures : Ended(state)[s] \in {session[s], "stopped", "discarded"}
         /\ \A s \in Captures : s # kept => Ended(state)[s] = session[s]
         /\ kept # 0 => Ended(state)[kept] # "tapped"
BY BoundsAssumption DEF CaptureTypeOK, Ended, Captures

LEMMA CaptureTypeStep == ASSUME CaptureTypeOK, [CaptureNext]_vars PROVE CaptureTypeOK'
<1> USE BoundsAssumption
<1>1. ASSUME NEW h \in Host, NEW s \in Captures, start_capture(h, s) PROVE CaptureTypeOK'
  BY <1>1 DEF CaptureTypeOK, start_capture, Captures
<1>2. ASSUME NEW h \in Host, NEW op \in {"stop", "transcribe", "discard"}, Detach(h, op)
      PROVE CaptureTypeOK'
  BY <1>2 DEF CaptureTypeOK, Detach
<1>3. ASSUME NEW h \in Host, Attach(h) PROVE CaptureTypeOK'
  <2>1. kept' = kept /\ host' = [host EXCEPT ![h] = Free]
        /\ session' \in {session, [session EXCEPT ![host[h].s] = "tapped"]}
    BY <1>3 DEF Attach
  <2> QED BY <2>1 DEF CaptureTypeOK, Free
<1>4. ASSUME NEW h \in Host, stop_capture(h) PROVE CaptureTypeOK'
  <2>1. host' \in [Host -> [at : {"idle", "attach", "stop", "take"},
                            op : {"none", "start", "stop", "transcribe", "discard"},
                            s : 0 .. CAPTURES]]
    BY <1>4 DEF CaptureTypeOK, stop_capture, Free
  <2> QED BY <1>4, <2>1, EndedType DEF CaptureTypeOK, stop_capture
<1>5. ASSUME NEW h \in Host, Take(h) PROVE CaptureTypeOK'
  BY <1>5, EndedType DEF CaptureTypeOK, Take, Free
<1>6. CASE UNCHANGED captureVars
  BY <1>6 DEF CaptureTypeOK, captureVars
<1> QED BY <1>1, <1>2, <1>3, <1>4, <1>5, <1>6 DEF CaptureNext, HostStep, vars

\* Without overlap nothing else runs beside a start.
LEMMA CaptureStep ==
  ASSUME NoOverlap, CaptureInv, [CaptureNext]_vars
  PROVE  Starts' /\ Fed' /\ TapIsKept'
<1> MediaInv /\ CaptureTypeOK /\ Starts /\ Fed /\ TapIsKept
  BY DEF CaptureInv
<1> TypeOK /\ "overlap" \notin uses
  BY DEF MediaInv, NoOverlap, TypeOK
<1> USE BoundsAssumption DEF CaptureTypeOK, Captures
<1>1. ASSUME NEW h \in Host, NEW s \in Captures, start_capture(h, s)
      PROVE  Starts' /\ Fed' /\ TapIsKept'
  <2>1. /\ \A g \in Host : host[g].at = "idle"
        /\ session' = [session EXCEPT ![s] = "open"] /\ session[s] = "none"
        /\ kept' = s /\ host' = [host EXCEPT ![h] = [at |-> "attach", op |-> "start", s |-> s]]
        /\ UNCHANGED <<call, tap>>
    BY <1>1 DEF start_capture, MayBegin, mediaVars, setup
  <2>2. Starts'
    BY <2>1 DEF Starts
  <2>3. Fed'
    BY <2>1 DEF Fed, Detached, TypeOK, SettingUp
  <2>4. TapIsKept'
    BY <2>1 DEF TapIsKept
  <2> QED BY <2>2, <2>3, <2>4
<1>2. ASSUME NEW h \in Host, NEW op \in {"stop", "transcribe", "discard"}, Detach(h, op)
      PROVE  Starts' /\ Fed' /\ TapIsKept'
  <2>1. /\ host[h].at = "idle" /\ \A g \in Host : host[g].at # "idle" => host[g].op # "start"
        /\ tap' = (IF call = "connected" THEN 0 ELSE tap)
        /\ host' = [host EXCEPT ![h] = [at |-> "stop", op |-> op, s |-> 0]]
        /\ UNCHANGED <<kept, session, call>>
    BY <1>2 DEF Detach, MayBegin, set_tap_in_map, MediaElseUnchanged, setup
  <2>2. \A g \in Host : host[g].at # "attach" /\ host'[g].at # "attach"
    BY <2>1 DEF Starts
  <2>3. Starts'
    BY <2>2 DEF Starts
  <2>4. Fed'
    BY <2>1 DEF Fed, Detached, TypeOK, SettingUp
  <2>5. TapIsKept'
    BY <2>1 DEF TapIsKept
  <2> QED BY <2>3, <2>4, <2>5
<1>3. ASSUME NEW h \in Host, Attach(h) PROVE Starts' /\ Fed' /\ TapIsKept'
  <2>1. /\ host[h].s = kept /\ kept # 0 /\ session[kept] = "open"
        /\ \A g \in Host \ {h} : host[g].at = "idle"
    BY <1>3 DEF Attach, Starts
  <2>2. /\ tap' = (IF call = "connected" THEN kept ELSE tap)
        /\ session' = (IF call = "connected" THEN [session EXCEPT ![kept] = "tapped"] ELSE session)
        /\ host' = [host EXCEPT ![h] = Free] /\ UNCHANGED <<kept, call>>
    BY <1>3, <2>1 DEF Attach, set_tap_in_map, MediaElseUnchanged, setup
  <2>3. \A g \in Host : host'[g].at = "idle"
    BY <2>1, <2>2 DEF Free
  <2>4. Starts'
    BY <2>3 DEF Starts
  <2>5. Fed'
    BY <2>1, <2>2, <2>3 DEF Fed, Detached, TypeOK, SettingUp
  <2>6. TapIsKept'
    BY <2>1, <2>2, <2>3 DEF TapIsKept
  <2> QED BY <2>4, <2>5, <2>6
<1>4. ASSUME NEW h \in Host, stop_capture(h) \/ Take(h) PROVE Starts' /\ Fed' /\ TapIsKept'
  <2>1. /\ host[h].at \in {"stop", "take"} /\ UNCHANGED <<call, tap>>
        /\ \A g \in Host \ {h} : host'[g] = host[g]
        /\ host'[h].at \in {"idle", "take"}
        /\ host'[h].at = "take" => host'[h].op = host[h].op
    BY <1>4 DEF stop_capture, Take, mediaVars, setup, Free
  <2>2. /\ \A s \in Captures : session'[s] \in {session[s], "stopped", "discarded"}
        /\ kept' = 0 \/ (kept' = kept /\ (kept # 0 => session'[kept] # "tapped"))
    BY <1>4, EndedType DEF stop_capture, Take
  <2>3. call = "connected" => tap = 0
    BY <2>1 DEF Fed, Detached
  <2>4. \A g \in Host : host[g].at # "attach" /\ host'[g].at # "attach"
    BY <2>1 DEF Starts
  <2>5. Starts'
    BY <2>4 DEF Starts
  <2>6. Fed'
    BY <2>1, <2>2, <2>3 DEF Fed, Detached, TypeOK, SettingUp
  <2>7. TapIsKept'
    BY <2>1, <2>2, <2>3 DEF TapIsKept
  <2> QED BY <2>5, <2>6, <2>7
<1>5. ASSUME UNCHANGED captureVars,
             UNCHANGED tap, SettingUp' => SettingUp, call' = "connected" => call = "connected" \/ SettingUp
      PROVE  Starts' /\ Fed' /\ TapIsKept'
  <2>0. UNCHANGED <<host, kept, session, tap>>
    BY <1>5 DEF captureVars
  <2>1. Starts'
    BY <2>0 DEF Starts
  <2>2. Fed'
    BY <1>5, <2>0 DEF Fed, Detached
  <2>3. CASE call = "connected" \/ call' # "connected"
    BY <1>5, <2>0, <2>1, <2>2, <2>3 DEF TapIsKept
  <2>4. CASE SettingUp
    BY <2>0, <2>1, <2>2, <2>4 DEF TapIsKept, Fed
  <2> QED BY <1>5, <2>1, <2>2, <2>3, <2>4
<1>6. ASSUME MediaNext
      PROVE  /\ UNCHANGED tap /\ (SettingUp' => SettingUp)
             /\ call' = "connected" => call = "connected" \/ SettingUp
  <2>1. CASE RxAny
    BY <2>1, RxMoves DEF setup, SettingUp
  <2>2. CASE TxStep
    BY <2>2, TxMoves DEF setup, SettingUp
  <2>3. CASE DtmfStep
    BY <2>3, DtmfMoves DEF MediaInv, setup, SettingUp
  <2>4. CASE FlagStep
    BY <2>4 DEF FlagStep, stop, set_mute, set_hold, setup, SettingUp
  <2>5. CASE CallStep
    BY <2>5 DEF CallStep, ApplyAnswer, Connect, Remove, SettingUp
  <2> QED BY <1>6, <2>1, <2>2, <2>3, <2>4, <2>5, MediaSteps
<1>7. CASE UNCHANGED vars
  BY <1>5, <1>7 DEF vars, mediaVars, setup, SettingUp
<1> QED BY <1>1, <1>2, <1>3, <1>4, <1>5, <1>6, <1>7 DEF CaptureNext, HostStep

-----------------------------------------------------------------------------
LEMMA MediaInvariant == CaptureSpec => [](MediaInv /\ CaptureTypeOK)
<1>1. CaptureInit => MediaInv /\ CaptureTypeOK
  BY CaptureInitInv DEF CaptureInv
<1>2. MediaInv /\ CaptureTypeOK /\ [CaptureNext]_vars => MediaInv' /\ CaptureTypeOK'
  BY MediaInvStep, CaptureTypeStep
<1> QED BY <1>1, <1>2, PTL DEF CaptureSpec

\* Held, muted or stopped, a call lets at most one more frame through each
\* way: the loops of media.rs read the flags once a frame.
THEOREM Silence == CaptureSpec => []QuietCallIsSilent
<1>1. MediaInv => QuietCallIsSilent
  BY DEF MediaInv, Quiet, QuietCallIsSilent
<1> QED BY <1>1, MediaInvariant, PTL

\* A call that negotiated encryption never sends a voice frame in the clear,
\* since its keys are installed before its loops start.
THEOREM Sealed == CaptureSpec => []NoClearVoice
<1>1. MediaInv => NoClearVoice
  BY Zenon DEF MediaInv, Keys, NoClearVoice
<1> QED BY <1>1, MediaInvariant, PTL

\* One address is heard and spoken to, whoever else sends to the port.
THEOREM SingleParty == CaptureSpec => []OnePeer
<1>1. MediaInv => OnePeer
  <2> SUFFICES ASSUME MediaInv PROVE Cardinality(parties) <= 1
    BY DEF OnePeer
  <2>1. parties = {} \/ parties = {remote}
    BY DEF MediaInv, OneAddress
  <2>2. Cardinality(parties) \in {0, 1}
    BY <2>1, FS_EmptySet, FS_Singleton, Zenon
  <2> QED BY <2>2
<1> QED BY <1>1, MediaInvariant, PTL

LEMMA CaptureInvariant == ASSUME NoOverlap PROVE CaptureSpec => []CaptureInv
<1>1. CaptureInit => CaptureInv
  BY CaptureInitInv
<1>2. CaptureInv /\ [CaptureNext]_vars => CaptureInv'
  BY MediaInvStep, CaptureTypeStep, CaptureStep DEF CaptureInv
<1> QED BY <1>1, <1>2, PTL DEF CaptureSpec

\* Between AI operations the tap is the capture that can be transcribed, for
\* an app that starts a capture only outside other operations on the call.
THEOREM TapKept == ASSUME NoOverlap PROVE CaptureSpec => []Consistent
<1>1. CaptureInv => Consistent
  BY DEF CaptureInv, Consistent
<1> QED BY <1>1, CaptureInvariant, PTL

\* The loops push audio to a running capture only: an operation that ends a
\* capture detaches it before it stops it.
THEOREM FedOnly == ASSUME NoOverlap PROVE CaptureSpec => FedWhileOpen
<1> DEFINE A == Pushes /\ tap # 0 /\ call = "connected" => session[tap] \in {"open", "tapped"}
<1>1. CaptureInv /\ [CaptureNext]_vars => [A]_vars
  BY DEF CaptureInv, Fed
<1> QED BY <1>1, CaptureInvariant, PTL DEF CaptureSpec, FedWhileOpen

=============================================================================
