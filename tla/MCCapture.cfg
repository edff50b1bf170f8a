SPECIFICATION CaptureSpec
CONSTANTS
  Source = {peer, other}
  Peer = peer
  peer = peer
  other = other
  Host = {h1}
  CAPTURES = 2
  DIGITS = 1
  DTMF_PACKETS = 2
  Uses = {{"dial","controls"},{"controls"},{"ai"}}
INVARIANTS QuietCallIsSilent NoClearVoice OnePeer Consistent
PROPERTIES FedWhileOpen LoopsEnd
CHECK_DEADLOCK FALSE
