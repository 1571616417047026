SPECIFICATION Spec
CONSTANTS
  c1 = c1  e1 = e1  d1 = d1  admin = admin  customer = customer
  NoSession = NoSession  NoToken = NoToken  Nobody = Nobody  Real = Real
  Clients = {c1}
  Limited = {"demo"}
  Emails = {e1}
  Sandboxes = {d1}
  Personas = {admin, customer}
  Customer = customer
  Keys <- DemoKeys
  Allowance <- TwoEach
  Window <- ThreeTicks
  Second = 2
  TokenLife = 3  Ttl = 4  IdleTimeout = 2  MaxActive = 1
  MaxIds = 3  MaxTokens = 3
  MaxClock = 5
CHECK_DEADLOCK FALSE
INVARIANTS
  TypeOK
  ActsInsideItsShop
  TokensDieWithSandbox
  EmailsIdentifyAccounts
  VisitorsKeepAccess
  SignupStaysInSandbox
  AllowanceHolds
  AdviceHonoured
PROPERTIES
  ResetRetiresTokens
