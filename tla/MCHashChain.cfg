SPECIFICATION Spec
CONSTANTS
  Docs = {d1, d2, d3, d4}
  NoDoc = NoDoc
  Workers = {w1, w2, w3}
  NoWorker = NoWorker
  Years = {1}
  Payloads = {"a", "b"}
  MaxNo = 4
  LoneReposts = TRUE
SYMMETRY Symmetry
CHECK_DEADLOCK FALSE
INVARIANT ChainVerifies
PROPERTIES SecuredForGood ImplementsLog
