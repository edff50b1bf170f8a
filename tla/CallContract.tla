---------------------------- MODULE CallContract ----------------------------
(***************************************************************************)
(* What the engine promises its app about each call: the order in which    *)
(* on_call_state_changed reports the call's states.  A call is first       *)
(* reported ringing (outgoing), connected (answered incoming) or ended (an *)
(* offer that was never answered, an outgoing call hung up before it was   *)
(* made); it connects at most once; it is ended exactly once, and nothing  *)
(* is reported after that.  Reported states are those of CallState in      *)
(* src/src/types.rs; "None" is a call nothing has been reported for.       *)
(***************************************************************************)
EXTENDS Naturals

CONSTANT Call           \* the call_ids the app can hear of

VARIABLES reported,     \* reported[c]: the state last reported for c
          endings       \* endings[c]: how many Ended events c has had

vars == <<reported, endings>>

States == {"None", "Ringing", "Connected", "OnHold", "Ended"}

\* The states that may be reported right after state s.
Follows(s) ==
  CASE s = "None"      -> {"Ringing", "Connected", "Ended"}
    [] s = "Ringing"   -> {"Connected", "Ended"}
    [] s = "Connected" -> {"Connected", "OnHold", "Ended"}
    [] s = "OnHold"    -> {"OnHold", "Connected", "Ended"}
    [] s = "Ended"     -> {}

Init == /\ reported = [c \in Call |-> "None"]
        /\ endings = [c \in Call |-> 0]

\* One step of the engine can report several calls (it holds the others when
\* one connects), each of them by a permitted change.
Next ==
  /\ reported' \in [Call -> States]
  /\ \A c \in Call :
       reported'[c] # reported[c] => reported'[c] \in Follows(reported[c])
  /\ endings' = [c \in Call |->
                   IF reported[c] # "Ended" /\ reported'[c] = "Ended"
                   THEN endings[c] + 1 ELSE endings[c]]

Spec == Init /\ [][Next]_vars

=============================================================================
