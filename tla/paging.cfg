\* Six rows, pages of two, three changes: a walk may take four pages.
\* A client that has read its list stops, which is no deadlock.
SPECIFICATION FairSpec
CONSTANTS
  MaxRow = 6
  Key <- SharedKeys
  PerPage = 2
  MaxChanges = 3
CHECK_DEADLOCK FALSE
INVARIANT TypeOK
INVARIANT StillListIsRead
INVARIANT InsertsHideNothing
INVARIANT DeletesRepeatNothing
PROPERTY WalksEnd
