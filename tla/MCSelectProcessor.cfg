SPECIFICATION FairSpec
CONSTANTS
  t = t
  u = u
  child = child
  Traces = {t, u}
  Spans = {root, child}
  Root = root
  Incoming <- MCIncoming
  Calls = {c1, c2}
  MaxStall = 1
  MaxErrors = 1
INVARIANTS TypeOK SpansConserved BufferedNotEmitted
PROPERTIES UnitsApart EverySpanForwarded
