SPECIFICATION FairSpec
CONSTANT LEGS = 2
INVARIANTS Consistent ErrorKeepsCalls
PROPERTIES TransferReturns SucceededIsNotLeftUp RemoteEndReported
CHECK_DEADLOCK FALSE
