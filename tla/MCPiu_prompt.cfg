\* An application and the codec's thread send; the DSP answers in time or not at all,
\* and no second ends inside piulib_enable with the answer masked.
CONSTANTS
  Apps = {app}
  KThreads = {codec}
  NoSender = NoSender
  LateAnswers = FALSE
  EnableRace = FALSE
  BlockKinds = {"user", "audio"}
  NonblockKinds = {"user"}
  MaxSignals = 1
SPECIFICATION FairSpec
INVARIANTS TypeOK TxOneAtATime TxIntact TxNeverStuck RxOrder
PROPERTIES RxAnswered ImplementsChannel
