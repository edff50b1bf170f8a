SPECIFICATION CaptureSpec
CONSTANTS
  Source = {peer, other}
  Peer = peer
  peer = peer
  other = other
  Host = {h1, h2}
  h1 = h1
  h2 = h2
  CAPTURES = 1
  DIGITS = 0
  DTMF_PACKETS = 2
  Uses = {{"ai", "overlap"}}
INVARIANT TapIsKept
CHECK_DEADLOCK FALSE
