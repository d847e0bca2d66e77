SPECIFICATION Spec
CONSTANTS
  c1 = c1
  c2 = c2
  c3 = c3
  NotFound = NotFound
  Junk = Junk
  Clients <- MCClients
  Rntis <- MCRntis
  temp_c_rnti <- MCRnti
  MaxWaiting = 5
INVARIANT TypeOK
INVARIANT InBounds
PROPERTY ImplementsQueue
