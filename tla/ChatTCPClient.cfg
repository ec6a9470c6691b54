SPECIFICATION FairSpec
CONSTANTS
    Own = own
    Stale = {stale}
    Window = 2
INVARIANTS  SilenceExplained
  
CHECK_DEADLOCK FALSE
