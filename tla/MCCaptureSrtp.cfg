SPECIFICATION CaptureSpec
CONSTANTS
  Source = {peer, other}
  Peer = peer
  peer = peer
  other = other
  Host = {}
  CAPTURES = 0
  DIGITS = 0
  DTMF_PACKETS = 5
  Uses = {{"dial"}}
PROPERTY PlayedIsDecrypted
CHECK_DEADLOCK FALSE
