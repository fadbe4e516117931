CONSTANTS
  MaxLaunches = 3
  Requests = 1
  BacklogMax = 1
SPECIFICATION FairSpec
INVARIANT TypeOK
INVARIANT ClientOkMeansServed
 
INVARIANT ServedNeverFails
PROPERTY ClientReports
PROPERTY ServedServerReports
PROPERTY ImplementsSession
