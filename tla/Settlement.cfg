\* Two attempts, of one row or of two, two kinds of hint, connections that fail, and close().
CONSTANTS
  Ctl = {a1, a2}
  a1 = a1  a2 = a2  r1 = r1  r2 = r2
  Id = {r1, r2}
  IdMaps <- MCMaps
  BatchCap = 2
  Notice = {"wake", "feed"}
  MaxAdds = 1
SPECIFICATION SettlementSpec
INVARIANTS TypeOK AnswerOwn HintKept CloseFlushes
PROPERTIES EveryoneAnswered HintDelivered FlushEnds
CHECK_DEADLOCK FALSE
