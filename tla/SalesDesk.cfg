\* Messages of any of seven keywords, two facts of one product and two tenants.
CONSTANTS
  Words = {"ok", "humano", "caro", "urgente", "hoy", "curiosidad", "viendo"}
  Tenants = {t1, t2}
  Products = {p1}
  MaxFacts = 2
SPECIFICATION Spec
INVARIANTS
  ClosedOnEvidence
  HumanOnRequest
  VerdictFollowsTag
  SaleNeedsPayment
  LookupsAreScoped
