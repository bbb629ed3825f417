SPECIFICATION FairSpec
CONSTANTS
  MaxPods = 3
  MaxTokens = 3
  MaxEpochs = 2
INVARIANTS ReplacedOnceStopped TokenMatches
PROPERTY ChainContinues
