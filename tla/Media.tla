------------------------------- MODULE Media -------------------------------
(***************************************************************************)
(* The media session of one call (src/src/media.rs): how it is set up from *)
(* the SDP exchange, the RX and TX loops, each a thread of its own that    *)
(* reads flags, keys and the remote address other threads set, the DTMF    *)
(* thread, and the engine's mute, hold, DTMF and teardown.                 *)
(*                                                                         *)
(* A loop takes one step for each thing it reads or hands over, so that a  *)
(* hold, a mute, a hangup or a new AI tap may fall between any two.  Audio *)
(* is not modelled, only whether a packet is sealed and a frame is live.   *)
(* The peer, the platform's audio bridge and rtp-engine are external.      *)
(***************************************************************************)
EXTENDS Naturals, FiniteSets

CONSTANTS Source,   \* addresses packets come from and go to
          Peer,     \* the address in the other side's SDP
          CAPTURES, \* bound: how many AI captures the app starts (Capture)
          DIGITS,   \* bound: how many DTMF digits the app sends
          DTMF_PACKETS, \* packets per digit: 5 in the source
          Uses      \* sets of what the app uses, a behaviour has one of them

NoPort == "no port"  \* the placeholder address, 0.0.0.0:0

ASSUME SourceAssumption == Peer \in Source /\ NoPort \notin Source
ASSUME BoundsAssumption ==
  CAPTURES \in Nat /\ DIGITS \in Nat /\ DTMF_PACKETS \in Nat \ {0}
ASSUME UsesAssumption == Uses \subseteq SUBSET {"dial", "controls", "ai", "overlap"}

VARIABLES
  uses,      \* what the app does: dials or answers the call, mutes, holds and
             \* sends digits, captures for the AI
  call,      \* where the call is: being set up, in the call map, or out of it
  offer,     \* offered_srtp_key: an SDP offer of ours carried a key
  crypto,    \* the crypto line of the peer's answer
  remote,    \* remote_addr
  muted, on_hold, running,
  srtp,      \* srtp_out and srtp_in are set
  tap,       \* ai_tap: the capture fed, 0 for None
  rx, tx,    \* the two loops: where each is, and the packet in hand
  dtmf,      \* dtmf[d]: packets left to send of digit d, and where to
  late,      \* frames played and captured since the flags last changed, if
             \* they forbid it
  parties,   \* addresses whose voice was played, or that voice or DTMF went to
  clear      \* some voice frame was sent in the clear

setup == <<uses, call, offer, crypto>>
flags == <<muted, on_hold, running>>
seen  == <<late, parties, clear>>
mediaVars == <<setup, remote, flags, srtp, tap, rx, tx, dtmf, seen>>

TypeOK ==
  /\ uses \in Uses
  /\ call \in {"inbound", "outbound", "answered", "connected", "removed"}
  /\ offer \in BOOLEAN
  /\ crypto \in {"none", "good", "unusable"}
  /\ remote \in Source \cup {NoPort}
  /\ muted \in BOOLEAN /\ on_hold \in BOOLEAN /\ running \in BOOLEAN
  /\ srtp \in BOOLEAN
  /\ tap \in 0 .. CAPTURES
  /\ rx \in [at : {"off", "loop", "recv", "held", "open", "play"},
             from : Source, sealed : BOOLEAN]
  /\ tx \in [at : {"off", "loop", "remote", "muted", "held", "mic", "tap", "send"},
             to : Source \cup {NoPort}]
  /\ dtmf \in [1 .. DIGITS -> [left : 0 .. DTMF_PACKETS, to : Source \cup {NoPort},
                               at : {"idle", "spawned", "sending", "done"}]]
  /\ late \in [play : Nat, mic : Nat]
  /\ parties \subseteq Source
  /\ clear \in BOOLEAN

\* A loop with nothing in hand.
RxAt(p) == [at |-> p, from |-> Peer, sealed |-> FALSE]
TxAt(p) == [at |-> p, to |-> NoPort]

\* What parse_sdp_remote may make of the other side's SDP: its address, or
\* port 0 (an SDP it cannot read gives no address either).
SdpAddress == {Peer, NoPort}

\* MobileMediaSession::new, from create_answer_session with the address of
\* the caller's offer, or from create_offer_session with the placeholder and
\* a key, if one could be generated.  An answer never carries a crypto line.
Init ==
  /\ uses \in Uses
  /\ IF "dial" \in uses
     THEN call = "outbound" /\ offer \in BOOLEAN /\ remote = NoPort
     ELSE call = "inbound" /\ offer = FALSE /\ remote \in SdpAddress
  /\ crypto = "none"
  /\ muted = FALSE /\ on_hold = FALSE /\ running = TRUE
  /\ srtp = FALSE /\ tap = 0
  /\ rx = RxAt("off") /\ tx = TxAt("off")
  /\ dtmf = [d \in 1 .. DIGITS |-> [left |-> 0, to |-> NoPort, at |-> "idle"]]
  /\ late = [play |-> 0, mic |-> 0] /\ parties = {} /\ clear = FALSE

-----------------------------------------------------------------------------
(* Set-up, by the thread that dials or answers: the session is its own. *)

\* Mutant: keys are installed only on a call that is already connected.
mut_ApplyAnswer ==
  /\ call = "outbound" /\ call' = "answered"
  /\ remote' \in SdpAddress
  /\ crypto' \in {"none", "good", "unusable"}
  /\ UNCHANGED <<uses, offer, flags, srtp, tap, rx, tx, dtmf, seen>>

\* Keys are installed if we offered one and the peer's is usable.
apply_remote_sdp == srtp' = (offer /\ crypto' = "good")

\* The gateway's answer: update_remote, if its SDP names an address, and
\* apply_remote_sdp.  dial goes on without keys if the peer's is unusable.
ApplyAnswer ==
  /\ call = "outbound" /\ call' = "answered"
  /\ remote' \in SdpAddress
  /\ crypto' \in {"none", "good", "unusable"}
  /\ apply_remote_sdp
  /\ UNCHANGED <<uses, offer, flags, tap, rx, tx, dtmf, seen>>

\* The call enters the call map and start_media starts the loops, if there is
\* an audio bridge; a loop whose codec cannot be created ends at once.
Connect ==
  /\ call \in {"inbound", "answered"} /\ call' = "connected"
  /\ \E r \in {"off", "loop"}, t \in {"off", "loop"} :
        rx' = RxAt(r) /\ tx' = TxAt(t)
  /\ UNCHANGED <<uses, offer, crypto, remote, flags, srtp, tap, dtmf, seen>>

-----------------------------------------------------------------------------
(* The engine's calls on a connected call, each under the call-map lock, and *)
(* its teardown.                                                             *)

FlagsChanged == late' = [play |-> 0, mic |-> 0] /\ UNCHANGED <<parties, clear>>

set_mute(b) ==
  /\ "controls" \in uses /\ call = "connected" /\ muted' = b /\ FlagsChanged
  /\ UNCHANGED <<setup, remote, on_hold, running, srtp, tap, rx, tx, dtmf>>

set_hold(b) ==
  /\ "controls" \in uses /\ call = "connected" /\ on_hold' = b /\ FlagsChanged
  /\ UNCHANGED <<setup, remote, muted, running, srtp, tap, rx, tx, dtmf>>

\* Whoever ends the call, or gives up setting it up, takes it ...
Remove ==
  /\ call # "removed" /\ call' = "removed"
  /\ UNCHANGED <<uses, offer, crypto, remote, flags, srtp, tap, rx, tx, dtmf, seen>>

\* ... and only then stops its media, with no lock held.
stop ==
  /\ call = "removed" /\ running /\ running' = FALSE /\ FlagsChanged
  /\ UNCHANGED <<setup, remote, muted, on_hold, srtp, tap, rx, tx, dtmf>>

send_dtmf(d) ==
  /\ "controls" \in uses /\ call = "connected" /\ dtmf[d].at = "idle"
  /\ dtmf' = [dtmf EXCEPT ![d].at = "spawned"]
  /\ UNCHANGED <<setup, remote, flags, srtp, tap, rx, tx, seen>>

\* The thread of a digit: it needs a remote address, and then sends its
\* packets there, whatever becomes of the call.  They are never sealed.
DtmfBegins(d) ==
  /\ dtmf[d].at = "spawned"
  /\ dtmf' = [dtmf EXCEPT ![d] = IF remote = NoPort THEN [@ EXCEPT !.at = "done"]
                ELSE [at |-> "sending", left |-> DTMF_PACKETS, to |-> remote]]
  /\ UNCHANGED <<setup, remote, flags, srtp, tap, rx, tx, seen>>

DtmfSends(d) ==
  /\ dtmf[d].at = "sending"
  /\ dtmf' = [dtmf EXCEPT ![d].left = @ - 1,
                          ![d].at = IF dtmf[d].left = 1 THEN "done" ELSE "sending"]
  /\ parties' = parties \cup {dtmf[d].to}
  /\ UNCHANGED <<setup, remote, flags, srtp, tap, rx, tx, late, clear>>

-----------------------------------------------------------------------------
(* The RX loop. *)

RxGoes(p) == rx' = IF p = "loop" THEN RxAt(p) ELSE [rx EXCEPT !.at = p]
RxOnly == UNCHANGED <<setup, flags, srtp, tap, tx, dtmf>>

RxLoop ==
  /\ rx.at = "loop" /\ RxGoes(IF running THEN "recv" ELSE "off")
  /\ RxOnly /\ UNCHANGED <<remote, seen>>

\* Mutant: the loop waits for a packet without a timeout.
mut_RxTimeout == rx.at = "recv" /\ UNCHANGED mediaVars

\* Nothing within 100 ms, an error, or less than an RTP header.
RxTimeout ==
  /\ rx.at = "recv" /\ RxGoes("loop")
  /\ RxOnly /\ UNCHANGED <<remote, seen>>

\* Mutant: the remote address follows every packet.
mut_RxReceives(s, sealed) ==
  /\ rx.at = "recv"
  /\ remote' = s
  /\ rx' = [at |-> "held", from |-> s, sealed |-> sealed]
  /\ RxOnly /\ UNCHANGED seen

\* Symmetric RTP: the first packet fixes the remote address if the SDP did
\* not; a packet from elsewhere is dropped.
RxReceives(s, sealed) ==
  /\ rx.at = "recv"
  /\ remote' = IF remote = NoPort THEN s ELSE remote
  /\ rx' = IF remote' = s THEN [at |-> "held", from |-> s, sealed |-> sealed]
                          ELSE RxAt("loop")
  /\ RxOnly /\ UNCHANGED seen

\* Mutant: a held call is played on.
mut_RxHeld ==
  /\ rx.at = "held" /\ RxGoes("open")
  /\ RxOnly /\ UNCHANGED <<remote, seen>>

RxHeld ==
  /\ rx.at = "held" /\ RxGoes(IF on_hold THEN "loop" ELSE "open")
  /\ RxOnly /\ UNCHANGED <<remote, seen>>

\* With keys only a packet the peer sealed is taken, and the header is parsed
\* from what unprotect_rtp opened; the payload is cut from the buffer that was
\* received, so rx.sealed stays as it is.  Without keys any packet is taken.
\* A decoded frame goes to the AI tap, and is then played.
RxOpen ==
  /\ rx.at = "open"
  /\ \/ (srtp => rx.sealed /\ rx.from = Peer) /\ RxGoes("play")
     \/ RxGoes("loop")  \* not authentic, a replay, no RTP header, PT 101, empty
  /\ RxOnly /\ UNCHANGED <<remote, seen>>

RxPlay ==
  /\ rx.at = "play" /\ RxGoes("loop")
  /\ late' = IF on_hold \/ ~running THEN [late EXCEPT !.play = @ + 1] ELSE late
  /\ parties' = parties \cup {rx.from}
  /\ RxOnly /\ UNCHANGED <<remote, clear>>

-----------------------------------------------------------------------------
(* The TX loop, every 20 ms. *)

TxGoes(p) == tx' = IF p = "loop" THEN TxAt(p) ELSE [tx EXCEPT !.at = p]
TxOnly == UNCHANGED <<setup, remote, flags, srtp, tap, rx, dtmf>>

TxLoop ==
  /\ tx.at = "loop" /\ TxGoes(IF running THEN "remote" ELSE "off")
  /\ TxOnly /\ UNCHANGED seen

TxRemote ==
  /\ tx.at = "remote"
  /\ IF remote = NoPort THEN TxGoes("loop")
     ELSE tx' = [at |-> "muted", to |-> remote]
  /\ TxOnly /\ UNCHANGED seen

\* `muted.load() || on_hold.load()`: two reads.
TxMuted ==
  /\ tx.at = "muted" /\ TxGoes(IF muted THEN "send" ELSE "held")
  /\ TxOnly /\ UNCHANGED seen

TxHeld ==
  /\ tx.at = "held" /\ TxGoes(IF on_hold THEN "send" ELSE "mic")
  /\ TxOnly /\ UNCHANGED seen

\* on_capture_audio: with nothing captured the frame is silence, untapped.
TxMic ==
  /\ tx.at = "mic"
  /\ TxGoes("send") \/ TxGoes("tap")
  /\ late' = IF muted \/ on_hold \/ ~running THEN [late EXCEPT !.mic = @ + 1] ELSE late
  /\ TxOnly /\ UNCHANGED <<parties, clear>>

TxTap ==
  /\ tx.at = "tap" /\ TxGoes("send")
  /\ TxOnly /\ UNCHANGED seen

\* With keys a frame is sealed; one that cannot be is dropped.
TxSend ==
  /\ tx.at = "send" /\ TxGoes("loop")
  /\ \/ parties' = parties \cup {tx.to} /\ clear' = (clear \/ ~srtp)
     \/ srtp /\ UNCHANGED <<parties, clear>>
  /\ TxOnly /\ UNCHANGED late

-----------------------------------------------------------------------------
RxStep == RxLoop \/ RxTimeout \/ RxHeld \/ RxOpen \/ RxPlay
TxStep == TxLoop \/ TxRemote \/ TxMuted \/ TxHeld \/ TxMic \/ TxTap \/ TxSend

\* Steps that leave the AI tap alone: all of the session's own.
MediaNext ==
  \/ ApplyAnswer \/ Connect \/ Remove \/ stop
  \/ \E b \in BOOLEAN : set_mute(b) \/ set_hold(b)
  \/ \E d \in 1 .. DIGITS : send_dtmf(d) \/ DtmfBegins(d) \/ DtmfSends(d)
  \/ \E s \in Source, sealed \in BOOLEAN : RxReceives(s, sealed)
  \/ RxStep \/ TxStep

set_ai_tap(t) ==
  /\ tap' = t
  /\ UNCHANGED <<setup, remote, flags, srtp, rx, tx, dtmf, seen>>

Next == MediaNext \/ \E t \in 0 .. CAPTURES : set_ai_tap(t)
Spec == Init /\ [][Next]_mediaVars

-----------------------------------------------------------------------------
\* Once a call is held, muted or stopped, at most the one frame that was past
\* its checks is still played, and one still captured, however long it stays
\* so: the flags are read by loops that are anywhere in a frame.  The speaker
\* and microphone of the call that is off hold are its own but for that frame.
QuietCallIsSilent == late.play <= 1 /\ late.mic <= 1

\* "No frame is ever sent in the clear on a call that negotiated encryption",
\* and the padlock of call_is_encrypted tells the truth about voice.
NoClearVoice == clear => ~srtp /\ ~(offer /\ crypto = "good")

\* All the voice played comes from, and all voice and DTMF goes to, a single
\* address, however many others send to the call's port and whether the SDP
\* named it or the first packet did.
OnePeer == Cardinality(parties) <= 1

\* What is played of a packet the peer sealed has been decrypted ("Decrypt
\* before parsing, when SRTP was negotiated").
PlayedIsDecrypted ==
  [][rx.at = "play" /\ rx'.at = "loop" /\ srtp => ~rx.sealed]_mediaVars

\* A stopped session's loops end, whatever packets come and however the
\* flags and keys were: no thread outlives its call.
LoopsEnd == ~running ~> (rx.at = "off" /\ tx.at = "off")

=============================================================================
