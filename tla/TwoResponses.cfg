CONSTANTS
  Adapters = {"html"}
  Importers = {"i1", "i2"}
  Agendas <- MCAgendas
  Answered = {"response_submitted"}
  Packages <- MCPackages
  Results <- MCResults
  Advances <- MCAdvances
  Kinds = {"status_conflict"}
  Planners = {"p1", "p2"}
  Plannings <- MCPlannings
  Proposals <- MCProposals
  Briefs <- MCBriefs
  States <- MCStates
  Families = {"family"}
  Capabilities = {"cap"}
  Policy <- MCPolicy
  MaxSnapshots = 4
  Threads = {t1, t2}
  Requests <- MCRequests
  IdentityOf <- MCIdentity
  Responses = {"good", "bad"}
  Accepts <- MCAccepts
  Nothing = Nothing
  MaxSecond = 1
  MaxEvents = 4
SPECIFICATION WorkSpec
SYMMETRY Symmetry
INVARIANT OneResponseTaken
CHECK_DEADLOCK FALSE
