\* The DSP may answer a message after its second has passed.
CONSTANTS
  Apps = {app}
  KThreads = {codec}
  NoSender = NoSender
  LateAnswers = TRUE
  EnableRace = TRUE
  BlockKinds = {}
  NonblockKinds = {}
  MaxSignals = 1
SPECIFICATION Spec
INVARIANTS TxOneAtATime
