\* Once every sign-in of the bound is over there is nothing left to do.
SPECIFICATION FairSpec
CONSTANTS
  Users = {ana}
  Tabs = {left, right}
  Queries = {contacts}
  Families = 1
  Tokens = 2
  MaxFaults = 2
  None = None
  Refused = Refused
INVARIANTS IInv ReuseIsAnothers SignedOutShowsNothing
PROPERTY EverythingSettles
CHECK_DEADLOCK FALSE
