\* Two attempts of devices, two dials of the host, one restart of the rendezvous.
SPECIFICATION FairSpec
CONSTANTS
  Attempts = {1, 2}
  Dials = {3, 4}
  MaxRestarts = 1
  None = none
INVARIANTS
  TypeOK
  HostReachable
  SessionsListed
  DevicesApart
PROPERTY OfferSettles
CHECK_DEADLOCK FALSE
