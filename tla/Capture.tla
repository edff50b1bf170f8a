------------------------------ MODULE Capture ------------------------------
(***************************************************************************)
(* On-device AI capture of one call: ai_start_capture, ai_stop_capture,    *)
(* ai_transcribe and ai_discard_capture (src/src/lib.rs, src/src/ai.rs),   *)
(* run by any of the app's threads, over the media session whose loops     *)
(* feed the tap.  Each operation takes the call-map lock and the session   *)
(* map's lock one after the other, never together.                         *)
(*                                                                         *)
(* ai_init has been called, once.  The captured audio, the models and the  *)
(* insight store are external: a CallSession takes audio while it is open, *)
(* and is tapped once its start has returned Ok, until it is stopped.      *)
(***************************************************************************)
EXTENDS Media

CONSTANT Host  \* the app's threads

VARIABLES
  host,       \* host[h]: the operation thread h is in, and its capture
  kept,       \* AiState.sessions: the capture of this call, 0 for none
  session     \* session[s]: the state of capture s

captureVars == <<host, kept, session>>
vars == <<mediaVars, captureVars>>

Captures == 1 .. CAPTURES

CaptureTypeOK ==
  /\ host \in [Host -> [at : {"idle", "attach", "stop", "take"},
                        op : {"none", "start", "stop", "transcribe", "discard"},
                        s : 0 .. CAPTURES]]
  /\ kept \in 0 .. CAPTURES
  /\ session \in [Captures -> {"none", "open", "tapped", "stopped", "discarded"}]

Free == [at |-> "idle", op |-> "none", s |-> 0]

CaptureInit ==
  /\ Init
  /\ host = [h \in Host |-> Free]
  /\ kept = 0
  /\ session = [s \in Captures |-> "none"]

\* Unless "overlap" is among its uses, the app does not start a capture of
\* the call while it is in another operation on it.
MayBegin(h, op) ==
  /\ "ai" \in uses /\ host[h].at = "idle"
  /\ "overlap" \in uses \/
       \A g \in Host : host[g].at # "idle" => op # "start" /\ host[g].op # "start"

set_tap_in_map(t) == tap' = IF call = "connected" THEN t ELSE tap
MediaElseUnchanged == UNCHANGED <<setup, remote, flags, srtp, rx, tx, dtmf, seen>>

\* Mutant: the session of an earlier start stays.
mut_start_capture(h, s) ==
  /\ MayBegin(h, "start") /\ session[s] = "none"
  /\ session' = [session EXCEPT ![s] = "open"]
  /\ kept' = IF kept = 0 THEN s ELSE kept
  /\ host' = [host EXCEPT ![h] = [at |-> "attach", op |-> "start", s |-> s]]
  /\ UNCHANGED <<mediaVars>>

\* AiState::start_capture: a new session replaces the one kept for the call,
\* before it is known whether there is such a call.
start_capture(h, s) ==
  /\ MayBegin(h, "start") /\ session[s] = "none"
  /\ session' = [session EXCEPT ![s] = "open"]
  /\ kept' = s
  /\ host' = [host EXCEPT ![h] = [at |-> "attach", op |-> "start", s |-> s]]
  /\ UNCHANGED <<mediaVars>>

\* The rest of ai_start_capture: with no connected call it fails, and the
\* session stays behind.
Attach(h) ==
  /\ host[h].at = "attach"
  /\ set_tap_in_map(host[h].s) /\ MediaElseUnchanged
  /\ session' = IF call = "connected" /\ session[host[h].s] = "open"
                THEN [session EXCEPT ![host[h].s] = "tapped"] ELSE session
  /\ host' = [host EXCEPT ![h] = Free]
  /\ UNCHANGED kept

\* Mutant: the tap stays in place.
mut_Detach(h, op) ==
  /\ MayBegin(h, op)
  /\ host' = [host EXCEPT ![h] = [at |-> "stop", op |-> op, s |-> 0]]
  /\ UNCHANGED <<mediaVars, kept, session>>

\* ai_stop_capture, with which ai_transcribe and ai_discard_capture begin.
Detach(h, op) ==
  /\ MayBegin(h, op)
  /\ set_tap_in_map(0) /\ MediaElseUnchanged
  /\ host' = [host EXCEPT ![h] = [at |-> "stop", op |-> op, s |-> 0]]
  /\ UNCHANGED <<kept, session>>

Ended(state) == IF kept = 0 THEN session
                ELSE [session EXCEPT ![kept] = IF @ = "discarded" THEN @ ELSE state]

stop_capture(h) ==
  /\ host[h].at = "stop"
  /\ session' = Ended("stopped")
  /\ host' = [host EXCEPT ![h] = IF host[h].op = "stop" THEN Free ELSE [@ EXCEPT !.at = "take"]]
  /\ UNCHANGED <<mediaVars, kept>>

\* AiState::transcribe and AiState::discard: the capture is taken, and gone
\* even if it cannot be transcribed.
Take(h) ==
  /\ host[h].at = "take"
  /\ session' = Ended(IF host[h].op = "discard" THEN "discarded" ELSE "stopped")
  /\ kept' = 0
  /\ host' = [host EXCEPT ![h] = Free]
  /\ UNCHANGED <<mediaVars>>

HostStep(h) ==
  \/ \E s \in Captures : start_capture(h, s)
  \/ \E op \in {"stop", "transcribe", "discard"} : Detach(h, op)
  \/ Attach(h) \/ stop_capture(h) \/ Take(h)

CaptureNext == \/ MediaNext /\ UNCHANGED captureVars
               \/ \E h \in Host : HostStep(h)

\* The loops' threads run; their receive times out; the platform's audio
\* callbacks return.
LoopFairness == WF_vars(RxStep /\ UNCHANGED captureVars)
                /\ WF_vars(TxStep /\ UNCHANGED captureVars)

CaptureSpec == CaptureInit /\ [][CaptureNext]_vars /\ LoopFairness

-----------------------------------------------------------------------------
Pushes == \/ rx.at = "open" /\ rx'.at = "play"
          \/ tx.at = "tap" /\ tx'.at = "send"

\* No audio goes to a capture that has been stopped, transcribed or thrown
\* away, as long as the call is connected (a call hung up first keeps its tap
\* until its loops end) and no start overlaps another operation.
FedWhileOpen ==
  [][Pushes /\ tap # 0 /\ call = "connected" => session[tap] \in {"open", "tapped"}]_vars

\* Between operations on a connected call the tap is exactly the capture that
\* can be transcribed, if it was started on the connected call and not
\* stopped since: no audio is recorded that nobody can reach, and no capture
\* the app believes to be running is without audio.
TapIsKept ==
  call = "connected" /\ (\A h \in Host : host[h].at = "idle") =>
    tap = IF kept # 0 /\ session[kept] = "tapped" THEN kept ELSE 0

\* TapIsKept over well-typed states.
Consistent == CaptureTypeOK /\ TapIsKept

=============================================================================
