SPECIFICATION SpiSpec
INVARIANT SuccessMeansDoneUnlessLate
INVARIANT NothingLeftBehind
PROPERTY StuckForGood
PROPERTY CallReturns
