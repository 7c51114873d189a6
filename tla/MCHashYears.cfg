SPECIFICATION Spec
CONSTANTS
  Docs = {d1, d2, d3}
  NoDoc = NoDoc
  Workers = {w1}
  NoWorker = NoWorker
  Years = {1, 2}
  Payloads = {"a"}
  MaxNo = 3
  LoneReposts = TRUE
SYMMETRY DocSymmetry
CHECK_DEADLOCK FALSE
INVARIANT JournalVerifies
