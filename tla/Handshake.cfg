SPECIFICATION Spec
CONSTANTS
  TOKEN_SZ = 3
  TOKENS <- SomeTokens
  MaxSlips = 1
  MaxHaste = 1
INVARIANTS StartIsComplete InStep ModeIsAgreed
PROPERTIES BootGoesOn StartIsReached
\* The next stage, or a download, takes over.
CHECK_DEADLOCK FALSE
