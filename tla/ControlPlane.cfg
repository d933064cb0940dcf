SPECIFICATION Spec
CONSTANTS
  ann = ann
  bot = bot
  lead = lead
  spare = spare
  gating = gating
  working = working
  revoking = revoking
  op1 = op1
  op2 = op2
  Subjects = {ann, bot}
  Humans = {ann}
  Scopes = {gating, revoking, working}
  Roles = {lead, spare}
  Operators = {op1, op2}
  FirstRoles <- MCFirstRoles
  ScopeOf <- MCScopeOf
  Wired <- MCWired
  Deployments <- MCDeployments
  MaxTtl = 1
  Nobody = Nobody
SYMMETRY Symmetry
INVARIANTS TypeOK AuthorityHasARoot AnswersAreOnRecord
