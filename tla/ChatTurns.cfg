SPECIFICATION Spec
CONSTANTS
  NumTurns = 4
  Late = {3}
  MaxPlans = 2
  MaxPasses = 1
  Policies = {"always", "auto"}
  Noted = Noted
  Bare = Bare
  Projects = {Noted, Bare}
  WithContext = {Noted}
  None = None
INVARIANTS
  ApprovedAsOffered
  ProposalTurnsDoNotBuild
  SavedGraphIsOwn
  DecisionsAreFinal
CHECK_DEADLOCK FALSE
