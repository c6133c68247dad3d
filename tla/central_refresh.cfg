\* Two channels; a period of four times the longest refresh.
CONSTANTS
  Topics = {commands, reads}
  Loop = loop
  Rest = rest
  TTL = 8
  Interval = 4
  Skew = 1
  Timeout = 1
  Failures = 2
SPECIFICATION Spec
INVARIANTS TypeOK HandedOutIsGood ChannelsOutlive
SYMMETRY AnyTopic
