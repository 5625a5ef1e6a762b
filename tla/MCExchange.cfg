SPECIFICATION FairSpec
CONSTANTS
  None = None
  Identifiers = {"A", "I", "M"}
  Saids <- MCSaids
  Limits <- MCLimits
  Hosts <- MCHosts
  Workers <- MCWorkers
  Exns <- MCExns
  Strays <- MCStrays
  Facts <- MCFacts
  Initially <- MCInitially
  Fitting <- MCFitting
  MaxCrashes = 1
INVARIANTS
  GrantedAsOffered
PROPERTIES
  GrantsAreValid
  KeepsPromise
  TerminalIsFinal
  Concludes
CHECK_DEADLOCK FALSE
