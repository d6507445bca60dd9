\* An address that comes while begin() still shows its progress.
SPECIFICATION Spec
CONSTANT maxConnectionAttempts = 3
CHECK_DEADLOCK FALSE
INVARIANT OneTaskInLvgl
