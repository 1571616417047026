----------------------------- MODULE AccessProofs -----------------------------
(***************************************************************************)
(* Access for every number of clients, addresses and sandboxes and without *)
(* a bound on time: it implements RateLimiter, so what is proved of the    *)
(* counters holds behind the handlers, and an inductive invariant ties     *)
(* accounts, tokens and sandboxes together.                                *)
(***************************************************************************)
EXTENDS Access, RateLimiterProofs

\* Sandbox ids are drawn before anything carries them.
RegistryDrawn == \A s \in Sandboxes : registry[s] # NoSession => s \in spent

\* An account of a sandbox is of one that was drawn, and an address made for
\* a sandbox is used there only.
AccountsAtHome ==
  \A a \in accounts :
    /\ a.shop # Real => a.shop \in spent
    /\ \A p \in Personas, s \in Sandboxes : a.email = <<p, s>> => a.shop = s

\* Whichever request issued it, a sandbox's token lasts to the end of the
\* sandbox or for a whole token's life.
TokensLast ==
  \A token \in tokens :
    token.shop # Real /\ registry[token.shop] # NoSession =>
      \/ token.exp = registry[token.shop].expires
      \/ token.exp = token.iat + TokenLife

\* Account ids are drawn in order.
IdsDrawn ==
  /\ \A a \in accounts : a.id[1] <= lastId
  /\ \A token \in tokens : token.user[1] <= lastId

ShopIInv ==
  /\ RegistryDrawn
  /\ AccountsAtHome
  /\ TokensLast
  /\ IdsDrawn
  /\ EmailsIdentifyAccounts
  /\ TokensDieWithSandbox

AnswerIInv == ActsInsideItsShop /\ SignupStaysInSandbox

-----------------------------------------------------------------------------
(* Access implements RateLimiter.                                          *)

LEMMA AccessStepIsLimiterStep == Next => [LimiterNext]_limiterVars
<1> SUFFICES ASSUME Next PROVE [LimiterNext]_limiterVars
  OBVIOUS
<1>1. Keys = Limited \X Clients
  BY AccessAssumption
<1>2. ASSUME NEW surface, NEW c \in Clients, LetIn(surface, c)
      PROVE  [LimiterNext]_limiterVars
  BY <1>1, <1>2 DEF LetIn, LimiterNext
<1>3. ASSUME NEW surface, NEW c \in Clients, Rejected(surface, c)
      PROVE  [LimiterNext]_limiterVars
  BY <1>2, <1>3 DEF Rejected
<1>4. ASSUME NEW c \in Clients, NEW token \in tokens \cup {NoToken}, NEW email \in Emails,
             Register(c, token, email) \/ Login(c, token, email)
      PROVE  [LimiterNext]_limiterVars
  BY <1>2, <1>3, <1>4 DEF Register, Login
<1>5. ASSUME NEW c \in Clients, NEW surface \in Surfaces, Refused(surface, c)
      PROVE  [LimiterNext]_limiterVars
  BY <1>1, <1>5 DEF Refused, LimiterNext
<1>6. ASSUME NEW c \in Clients, Start(c)
      PROVE  [LimiterNext]_limiterVars
  BY <1>2, <1>3, <1>6 DEF Start
<1>7. ASSUME NEW token, NEW email, TokenForm(token, email)
      PROVE  [LimiterNext]_limiterVars
  BY <1>7 DEF TokenForm
<1>8. ASSUME NEW token, Me(token) \/ Reset(token) \/ End(token)
      PROVE  [LimiterNext]_limiterVars
  BY <1>8 DEF Me, Reset, End, Removed
<1>9. ASSUME NEW token, NEW role, SwitchRole(token, role)
      PROVE  [LimiterNext]_limiterVars
  BY <1>9 DEF SwitchRole
<1>10. CleanUp => [LimiterNext]_limiterVars
  BY DEF CleanUp, Removed
<1>11. Tick \/ Restart => [LimiterNext]_limiterVars
  BY DEF LimiterNext
<1> QED
  BY <1>4, <1>5, <1>6, <1>7, <1>8, <1>9, <1>10, <1>11 DEF Next

\* Behind every mix of handlers the counters do what RateLimiter says.
THEOREM AccessImplementsLimiter == Spec => LimiterSpec
<1>1. Init => LimiterInit
  BY DEF Init
<1>2. [Next]_vars => [LimiterNext]_limiterVars
  BY AccessStepIsLimiterStep DEF vars
<1> QED
  BY <1>1, <1>2, PTL DEF Spec, LimiterSpec

\* However sign-ups, logins, visits and restarts alternate, no client is let
\* through more often than the allowance of a window.
THEOREM AccessAllowance == Spec => []AllowanceHolds
BY AccessImplementsLimiter, LimiterAllowance

\* Whoever waits as the refusal said is let through.
THEOREM AccessAdvice == Spec => []AdviceHonoured
BY AccessImplementsLimiter, LimiterAdvice

-----------------------------------------------------------------------------
(* The inductive invariant.                                                *)

\* The part of TypeOK that is not the limiter's.
ShopTypeOK ==
  /\ accounts \subseteq Accounts
  /\ registry \in [Sandboxes -> Sessions \cup {NoSession}]
  /\ spent \subseteq Sandboxes
  /\ tokens \subseteq Tokens
  /\ lastId \in Nat
  /\ answer \in [kind : {"none", "signup", "me", "reset"},
                 as : Shops, claim : Shops, tenant : Shops]

AccessIInv == ShopTypeOK /\ ShopIInv /\ AnswerIInv

\* Which sandboxes exist, and for how long, is as before.
SameLives ==
  /\ registry' \in [Sandboxes -> Sessions \cup {NoSession}]
  /\ \A s \in Sandboxes :
       /\ registry'[s] = NoSession <=> registry[s] = NoSession
       /\ registry[s] # NoSession => registry'[s].expires = registry[s].expires

LEMMA TenantFacts ==
  ASSUME ShopTypeOK, NEW token \in tokens \cup {NoToken}
  PROVE  /\ TenantOf(token) \in Shops \cup {Nobody}
         /\ TenantOf(token) \in Sandboxes => registry[TenantOf(token)] # NoSession
         /\ TenantOf(token) # Nobody => TenantOf(token) = Claim(token)
         /\ Claim(token) \in Shops
<1>1. Nobody \notin Shops /\ Real \notin Sandboxes /\ Shops = Sandboxes \cup {Real}
  BY AccessAssumption, NullsAreNoRows DEF Shops
<1>2. ASSUME Decodes(token)
      PROVE  token.shop \in Shops
  BY <1>2 DEF Decodes, ShopTypeOK, Tokens
<1>3. CASE Decodes(token) /\ token.shop # Real
  <2>1. Claim(token) = token.shop /\ token.shop \in Sandboxes
    BY <1>1, <1>2, <1>3 DEF Claim
  <2>2. CASE Alive(token.shop)
    BY <1>1, <1>3, <2>1, <2>2 DEF TenantOf, Alive
  <2>3. CASE ~Alive(token.shop)
    BY <1>1, <1>3, <2>1, <2>3 DEF TenantOf
  <2> QED
    BY <2>2, <2>3
<1>4. CASE ~(Decodes(token) /\ token.shop # Real)
  BY <1>1, <1>2, <1>4 DEF TenantOf, Claim
<1> QED
  BY <1>3, <1>4

LEMMA RefreshedSameLives ==
  ASSUME ShopTypeOK, clock \in Nat, NEW shop,
         shop \in Sandboxes => registry[shop] # NoSession,
         registry' = Refreshed(shop)
  PROVE  SameLives
<1>1. CASE shop \in Sandboxes
  <2>1. registry[shop] \in Sessions /\ NoSession \notin Sessions
    BY <1>1, NullsAreNoRows DEF ShopTypeOK
  <2>2. registry' = [registry EXCEPT ![shop] = [registry[shop] EXCEPT !.seen = clock]]
    BY <1>1 DEF Refreshed
  <2>3. /\ [registry[shop] EXCEPT !.seen = clock] \in Sessions
        /\ [registry[shop] EXCEPT !.seen = clock].expires = registry[shop].expires
    BY <2>1 DEF Sessions
  <2> HIDE DEF Sessions
  <2> QED
    BY <1>1, <2>1, <2>2, <2>3 DEF SameLives, ShopTypeOK
<1>2. CASE shop \notin Sandboxes
  BY <1>2 DEF Refreshed, SameLives, ShopTypeOK
<1> QED
  BY <1>1, <1>2

\* A token for a sandbox lasts as long as the sandbox, or less.
LEMMA MintFacts ==
  ASSUME clock \in Nat, NEW a, a.id \in Ids, NEW shop \in Shops,
         shop # Real => registry'[shop] \in Sessions
  PROVE  /\ Mint(a, shop) \in Tokens
         /\ Mint(a, shop).shop = shop
         /\ Mint(a, shop).user = a.id
         /\ shop # Real => Mint(a, shop).exp <= registry'[shop].expires
         /\ shop # Real => \/ Mint(a, shop).exp = registry'[shop].expires
                           \/ Mint(a, shop).exp = Mint(a, shop).iat + TokenLife
<1>1. TokenLife \in Nat
  BY AccessAssumption
<1>2. shop # Real => registry'[shop].expires \in Nat
  BY DEF Sessions
<1>3. Mint(a, shop).exp \in Nat
  BY <1>1, <1>2 DEF Mint
<1>4. Mint(a, shop) \in Tokens
  BY <1>3 DEF Mint, Tokens
<1> QED
  BY <1>1, <1>2, <1>4 DEF Mint

\* Sandboxes that live on are as they were.
LEMMA SessionsKeep ==
  ASSUME RegistryDrawn, SameLives, spent' = spent
  PROVE  RegistryDrawn'
BY DEF RegistryDrawn, SameLives

\* Handing out a token that is clamped to its sandbox's life and no further.
LEMMA TokenHandedOut ==
  ASSUME ShopTypeOK, RegistryDrawn, TokensDieWithSandbox, TokensLast, SameLives,
         clock \in Nat,
         NEW a, a.id \in Ids,
         NEW shop \in Shops, shop # Real => registry[shop] # NoSession,
         spent' = spent, tokens' = tokens \cup {Mint(a, shop)}
  PROVE  tokens' \subseteq Tokens /\ TokensDieWithSandbox' /\ TokensLast'
<1>1. shop # Real => /\ shop \in Sandboxes /\ shop \in spent
                     /\ registry'[shop] \in Sessions
  BY AccessAssumption DEF Shops, SameLives, RegistryDrawn
<1>2. /\ Mint(a, shop) \in Tokens /\ Mint(a, shop).shop = shop
      /\ shop # Real =>
           /\ Mint(a, shop).exp <= registry'[shop].expires
           /\ \/ Mint(a, shop).exp = registry'[shop].expires
              \/ Mint(a, shop).exp = Mint(a, shop).iat + TokenLife
  BY <1>1, MintFacts
<1>3. ASSUME NEW token \in tokens, token.shop # Real
      PROVE  /\ token.shop \in spent
             /\ registry'[token.shop] # NoSession =>
                  /\ token.exp <= registry'[token.shop].expires
                  /\ \/ token.exp = registry'[token.shop].expires
                     \/ token.exp = token.iat + TokenLife
  <2>1. token.shop \in Sandboxes
    BY <1>3 DEF ShopTypeOK, Tokens, Shops
  <2> QED
    BY <1>3, <2>1 DEF TokensDieWithSandbox, TokensLast, SameLives
<1>4. tokens' \subseteq Tokens
  BY <1>2 DEF ShopTypeOK
<1> QED
  BY <1>1, <1>2, <1>3, <1>4 DEF TokensDieWithSandbox, TokensLast

-----------------------------------------------------------------------------
(* Each step keeps the invariant.                                          *)

LEMMA NoAnswerFacts ==
  ASSUME answer' = NoAnswer
  PROVE  /\ answer' \in [kind : {"none", "signup", "me", "reset"},
                         as : Shops, claim : Shops, tenant : Shops]
         /\ AnswerIInv'
BY DEF NoAnswer, Answer, AnswerIInv, ActsInsideItsShop, SignupStaysInSandbox, Shops

LEMMA QuietInv ==
  ASSUME AccessIInv, UNCHANGED shopVars, answer' = NoAnswer
  PROVE  AccessIInv'
<1>1. ShopTypeOK' /\ AnswerIInv'
  BY NoAnswerFacts DEF AccessIInv, ShopTypeOK, shopVars
<1>2. ShopIInv'
  BY DEF AccessIInv, ShopIInv, shopVars, RegistryDrawn, AccountsAtHome, TokensLast,
         IdsDrawn, EmailsIdentifyAccounts, TokensDieWithSandbox
<1> QED
  BY <1>1, <1>2 DEF AccessIInv

LEMMA RegisterInv ==
  ASSUME AccessIInv, clock \in Nat, NEW c \in Clients, NEW token \in tokens \cup {NoToken},
         NEW email \in Emails, Register(c, token, email)
  PROVE  AccessIInv'
<1> DEFINE shop == TenantOf(token)
           account == [id |-> <<lastId + 1, Customer>>, email |-> email,
                       shop |-> shop, role |-> Customer]
<1>1. CASE Rejected("register", c)
  BY <1>1, QuietInv DEF Rejected
<1>2. CASE ~Rejected("register", c)
  <2>1. /\ shop # Nobody
        /\ Free(email)
        /\ registry' = Refreshed(shop)
        /\ accounts' = accounts \cup {account}
        /\ lastId' = lastId + 1
        /\ tokens' = tokens \cup {Mint(account, Real)}
        /\ answer' = Answer("signup", account.shop, Claim(token), shop)
        /\ spent' = spent
    BY <1>2 DEF Register, HandOut
  <2>2. /\ shop \in Shops /\ shop = Claim(token)
        /\ shop \in Sandboxes => registry[shop] # NoSession
    BY <2>1, TenantFacts DEF AccessIInv
  <2>3. SameLives
    BY <2>1, <2>2, RefreshedSameLives DEF AccessIInv
  <2>4. /\ account \in Accounts /\ account.id \in Ids /\ account.id[1] = lastId + 1
        /\ account.email = email /\ account.shop = shop
    BY <2>2, AccessAssumption DEF Accounts, Addresses, Ids, AccessIInv, ShopTypeOK
  <2>5. /\ Mint(account, Real) \in Tokens /\ Mint(account, Real).user = account.id
    BY <2>4, MintFacts DEF Shops
  <2> HIDE DEF shop, account
  <2>6. ShopTypeOK'
    <3>1. answer' \in [kind : {"none", "signup", "me", "reset"},
                       as : Shops, claim : Shops, tenant : Shops]
      BY <2>1, <2>2, <2>4 DEF Answer
    <3> QED
      BY <2>1, <2>3, <2>4, <2>5, <3>1 DEF ShopTypeOK, AccessIInv, SameLives
  <2>7. RegistryDrawn'
    BY <2>1, <2>3, SessionsKeep DEF AccessIInv, ShopIInv
  <2>8. AccountsAtHome'
    <3>1. shop # Real => shop \in spent
      BY <2>2 DEF AccessIInv, ShopIInv, RegistryDrawn, Shops
    <3>2. \A p \in Personas, s \in Sandboxes : email # <<p, s>>
      BY AccessAssumption
    <3> QED
      BY <2>1, <2>4, <3>1, <3>2 DEF AccessIInv, ShopIInv, AccountsAtHome
  <2>9. IdsDrawn'
    BY <2>1, <2>4, <2>5
    DEF AccessIInv, ShopIInv, IdsDrawn, ShopTypeOK, Accounts, Tokens, Ids
  <2>10. EmailsIdentifyAccounts'
    BY <2>1, <2>4 DEF AccessIInv, ShopIInv, EmailsIdentifyAccounts, Free
  <2>11. TokensDieWithSandbox' /\ TokensLast'
    BY <2>1, <2>3, <2>4, TokenHandedOut DEF AccessIInv, ShopIInv, Shops
  <2>12. AnswerIInv'
    BY <2>1, <2>2, <2>4
    DEF Answer, AnswerIInv, ActsInsideItsShop, SignupStaysInSandbox
  <2> QED
    BY <2>6, <2>7, <2>8, <2>9, <2>10, <2>11, <2>12 DEF AccessIInv, ShopIInv
<1> QED
  BY <1>1, <1>2

\* A token for an account that exists, from inside its shop.
LEMMA IssueInv ==
  ASSUME AccessIInv, clock \in Nat, NEW tenant \in Shops,
         tenant \in Sandboxes => registry[tenant] # NoSession,
         registry' = Refreshed(tenant),
         NEW a \in accounts, NEW shop \in {tenant, Real},
         tokens' = tokens \cup {Mint(a, shop)},
         answer' = NoAnswer, UNCHANGED <<accounts, spent, lastId>>
  PROVE  AccessIInv'
<1>1. SameLives
  BY RefreshedSameLives DEF AccessIInv
<1>2. a.id \in Ids /\ a.id[1] <= lastId
  BY DEF AccessIInv, ShopIInv, IdsDrawn, ShopTypeOK, Accounts
<1>3. shop \in Shops /\ (shop # Real => registry[shop] # NoSession /\ shop \in Sandboxes)
  BY DEF Shops
<1>4. tokens' \subseteq Tokens /\ TokensDieWithSandbox' /\ TokensLast'
  BY <1>1, <1>2, <1>3, TokenHandedOut DEF AccessIInv, ShopIInv
<1>5. Mint(a, shop).user = a.id
  BY <1>1, <1>2, <1>3, MintFacts DEF SameLives
<1>6. ShopTypeOK'
  BY <1>1, <1>4, NoAnswerFacts DEF AccessIInv, ShopTypeOK, SameLives
<1>7. RegistryDrawn'
  BY <1>1, SessionsKeep DEF AccessIInv, ShopIInv
<1>8. IdsDrawn'
  BY <1>2, <1>5 DEF AccessIInv, ShopIInv, IdsDrawn
<1>9. AccountsAtHome' /\ EmailsIdentifyAccounts'
  BY DEF AccessIInv, ShopIInv, AccountsAtHome, EmailsIdentifyAccounts
<1> QED
  BY <1>4, <1>6, <1>7, <1>8, <1>9, NoAnswerFacts DEF AccessIInv, ShopIInv

LEMMA LoggedInInv ==
  ASSUME AccessIInv, clock \in Nat, NEW token \in tokens \cup {NoToken},
         NEW email \in Emails, LoggedIn(token, email)
  PROVE  AccessIInv'
<1>1. PICK a \in Visible(TenantOf(token)) :
        /\ registry' = Refreshed(TenantOf(token))
        /\ tokens' = tokens \cup {Mint(a, Real)}
        /\ answer' = NoAnswer
        /\ UNCHANGED <<accounts, spent, lastId>>
  BY DEF LoggedIn, HandOut
<1>2. a \in accounts /\ TenantOf(token) = a.shop
  BY DEF Visible
<1>3. TenantOf(token) \in Shops
  BY <1>2 DEF AccessIInv, ShopTypeOK, Accounts
<1>4. TenantOf(token) \in Sandboxes => registry[TenantOf(token)] # NoSession
  BY TenantFacts DEF AccessIInv
<1> QED
  BY <1>1, <1>2, <1>3, <1>4, IssueInv

LEMMA SwitchRoleInv ==
  ASSUME AccessIInv, clock \in Nat, NEW token \in tokens, NEW role \in Personas,
         SwitchRole(token, role)
  PROVE  AccessIInv'
<1>1. PICK a \in Visible(TenantOf(token)) :
        /\ TenantOf(token) \in Sandboxes
        /\ registry' = Refreshed(TenantOf(token))
        /\ tokens' = tokens \cup {Mint(a, TenantOf(token))}
        /\ answer' = NoAnswer
        /\ UNCHANGED <<accounts, spent, lastId>>
  BY DEF SwitchRole, HandOut
<1>2. a \in accounts /\ TenantOf(token) \in Shops
  BY <1>1 DEF Visible, Shops
<1>3. registry[TenantOf(token)] # NoSession
  BY <1>1, TenantFacts DEF AccessIInv
<1> QED
  BY <1>1, <1>2, <1>3, IssueInv

LEMMA MeInv ==
  ASSUME AccessIInv, clock \in Nat, NEW token \in tokens, Me(token)
  PROVE  AccessIInv'
<1>1. PICK a \in ActsAs(token, TenantOf(token)) :
        answer' = Answer("me", a.shop, Claim(token), TenantOf(token))
  BY DEF Me
<1>2. /\ registry' = Refreshed(TenantOf(token))
      /\ UNCHANGED <<accounts, spent, tokens, lastId>>
  BY DEF Me
<1>3. a \in accounts /\ a.shop = TenantOf(token) /\ Claim(token) = TenantOf(token)
  BY DEF ActsAs, Visible, Claim
<1>4. TenantOf(token) \in Shops
  BY <1>3 DEF AccessIInv, ShopTypeOK, Accounts
<1>5. SameLives
  BY <1>2, TenantFacts, RefreshedSameLives DEF AccessIInv
<1>6. ShopTypeOK'
  BY <1>1, <1>2, <1>3, <1>4, <1>5 DEF Answer, AccessIInv, ShopTypeOK, SameLives
<1>7. RegistryDrawn'
  BY <1>2, <1>5, SessionsKeep DEF AccessIInv, ShopIInv
<1>8. TokensDieWithSandbox' /\ TokensLast'
  BY <1>2, <1>5
  DEF AccessIInv, ShopIInv, TokensDieWithSandbox, TokensLast, SameLives, ShopTypeOK, Tokens, Shops
<1>9. IdsDrawn' /\ AccountsAtHome' /\ EmailsIdentifyAccounts'
  BY <1>2 DEF AccessIInv, ShopIInv, IdsDrawn, AccountsAtHome, EmailsIdentifyAccounts
<1>10. AnswerIInv'
  BY <1>1, <1>3 DEF Answer, AnswerIInv, ActsInsideItsShop, SignupStaysInSandbox
<1> QED
  BY <1>6, <1>7, <1>8, <1>9, <1>10 DEF AccessIInv, ShopIInv

LEMMA SeededFacts ==
  ASSUME ShopTypeOK, NEW s \in Sandboxes, NEW a \in Seeded(s)
  PROVE  /\ a \in Accounts /\ a.shop = s /\ a.id \in Ids /\ a.id[1] = lastId + 1
         /\ a.email \in Personas \X Sandboxes /\ a.email[2] = s
         /\ a.email \notin Emails
         /\ \A b \in Seeded(s) : a.email = b.email => a = b
<1>1. PICK p \in Personas :
        a = [id |-> <<lastId + 1, p>>, email |-> <<p, s>>, shop |-> s, role |-> p]
  BY DEF Seeded
<1>2. a \in Accounts /\ a.id \in Ids
  BY <1>1 DEF Accounts, Addresses, Ids, Shops, ShopTypeOK
<1>3. ASSUME NEW b \in Seeded(s), a.email = b.email
      PROVE  a = b
  BY <1>1, <1>3 DEF Seeded
<1> QED
  BY <1>1, <1>2, <1>3, AccessAssumption

LEMMA StartInv ==
  ASSUME AccessIInv, clock \in Nat, NEW c \in Clients, Start(c)
  PROVE  AccessIInv'
<1>1. CASE Rejected("demo", c)
  BY <1>1, QuietInv DEF Rejected
<1>2. CASE ~Rejected("demo", c)
  <2>1. PICK s \in Sandboxes \ spent :
          /\ spent' = spent \cup {s}
          /\ registry' = [registry EXCEPT ![s] =
                            [expires |-> clock + Ttl, seen |-> clock]]
          /\ accounts' = accounts \cup Seeded(s)
          /\ \E a \in Seeded(s) :
               a.role = Customer /\ HandOut(Mint(a, s))
    BY <1>2 DEF Start
  <2>2. PICK a \in Seeded(s) : tokens' = tokens \cup {Mint(a, s)}
    BY <2>1 DEF HandOut
  <2>3. lastId' = lastId + 1 /\ answer' = NoAnswer
    BY <1>2 DEF Start
  <2> DEFINE fresh == [expires |-> clock + Ttl, seen |-> clock]
  <2>4. /\ fresh \in Sessions /\ fresh # NoSession /\ fresh.expires = clock + Ttl
        /\ registry'[s] = fresh
        /\ \A t \in Sandboxes : t # s => registry'[t] = registry[t]
        /\ registry' \in [Sandboxes -> Sessions \cup {NoSession}]
    BY <2>1, AccessAssumption, NullsAreNoRows DEF Sessions, AccessIInv, ShopTypeOK
  <2> HIDE DEF fresh
  <2>5. s \in Shops /\ s # Real
    BY AccessAssumption DEF Shops
  <2>6. /\ Mint(a, s) \in Tokens /\ Mint(a, s).shop = s /\ Mint(a, s).user = a.id
        /\ Mint(a, s).exp <= fresh.expires
        /\ \/ Mint(a, s).exp = fresh.expires
           \/ Mint(a, s).exp = Mint(a, s).iat + TokenLife
    BY <2>4, <2>5, SeededFacts, MintFacts DEF AccessIInv
  <2>7. ShopTypeOK'
    BY <2>1, <2>2, <2>3, <2>4, <2>6, SeededFacts, NoAnswerFacts DEF AccessIInv, ShopTypeOK
  <2>8. RegistryDrawn'
    BY <2>1, <2>4 DEF AccessIInv, ShopIInv, RegistryDrawn
  <2>9. AccountsAtHome'
    <3>1. \A b \in Seeded(s) : /\ b.shop = s /\ b.email[2] = s
      BY SeededFacts DEF AccessIInv
    <3> QED
      BY <2>1, <3>1 DEF AccessIInv, ShopIInv, AccountsAtHome
  <2>10. IdsDrawn'
    BY <2>1, <2>2, <2>3, <2>6, SeededFacts
    DEF AccessIInv, ShopIInv, IdsDrawn, ShopTypeOK, Accounts, Tokens, Ids
  <2>11. EmailsIdentifyAccounts'
    <3>1. ASSUME NEW x \in accounts, NEW y \in Seeded(s), x.email = y.email
          PROVE  FALSE
      <4>1. PICK p \in Personas, t \in Sandboxes : y.email = <<p, t>> /\ t = s
        BY SeededFacts DEF AccessIInv
      <4>2. x.shop = s
        BY <3>1, <4>1 DEF AccessIInv, ShopIInv, AccountsAtHome
      <4> QED
        BY <2>5, <4>2 DEF AccessIInv, ShopIInv, AccountsAtHome
    <3>2. \A x, y \in Seeded(s) : x.email = y.email => x = y
      BY SeededFacts DEF AccessIInv
    <3> QED
      BY <2>1, <3>1, <3>2 DEF AccessIInv, ShopIInv, EmailsIdentifyAccounts
  <2>12. TokensDieWithSandbox' /\ TokensLast'
    <3>1. ASSUME NEW token \in tokens, token.shop # Real
          PROVE  /\ token.shop \in Sandboxes /\ token.shop \in spent
                 /\ registry[token.shop] # NoSession =>
                      /\ token.exp <= registry[token.shop].expires
                      /\ \/ token.exp = registry[token.shop].expires
                         \/ token.exp = token.iat + TokenLife
      BY <3>1
      DEF AccessIInv, ShopIInv, TokensDieWithSandbox, TokensLast, ShopTypeOK, Tokens, Shops
    <3>2. clock + Ttl \in Nat
      BY AccessAssumption
    <3> QED
      BY <2>1, <2>2, <2>4, <2>6, <3>1, <3>2 DEF TokensDieWithSandbox, TokensLast
  <2> QED
    BY <2>3, <2>7, <2>8, <2>9, <2>10, <2>11, <2>12, NoAnswerFacts
    DEF AccessIInv, ShopIInv
<1> QED
  BY <1>1, <1>2

LEMMA ResetInv ==
  ASSUME AccessIInv, clock \in Nat, NEW token \in tokens, Reset(token)
  PROVE  AccessIInv'
<1> DEFINE s == TenantOf(token)
<1>1. /\ s \in Sandboxes
      /\ registry' = Refreshed(s)
      /\ accounts' = (accounts \ Visible(s)) \cup Seeded(s)
      /\ lastId' = lastId + 1
      /\ answer' = Answer("reset", s, s, s)
      /\ spent' = spent
  BY DEF Reset
<1>2. PICK a \in Seeded(s) : tokens' = tokens \cup {Mint(a, s)}
  BY DEF Reset, HandOut
<1>3. registry[s] # NoSession
  BY <1>1, TenantFacts DEF AccessIInv
<1>4. SameLives
  BY <1>1, <1>3, RefreshedSameLives DEF AccessIInv
<1> HIDE DEF s
<1>5. s \in Shops /\ s # Real /\ s \in spent
  BY <1>1, <1>3, AccessAssumption DEF Shops, AccessIInv, ShopIInv, RegistryDrawn
<1>6. \A b \in Seeded(s) :
        /\ b \in Accounts /\ b.shop = s /\ b.id[1] = lastId + 1
        /\ b.id \in Ids /\ b.email[2] = s
        /\ \E p \in Personas, t \in Sandboxes : b.email = <<p, t>> /\ t = s
        /\ \A d \in Seeded(s) : b.email = d.email => b = d
  BY <1>1, SeededFacts DEF AccessIInv
<1>7. tokens' \subseteq Tokens /\ TokensDieWithSandbox' /\ TokensLast'
  BY <1>1, <1>2, <1>3, <1>4, <1>5, <1>6, TokenHandedOut DEF AccessIInv, ShopIInv
<1>8. Mint(a, s).user = a.id
  BY <1>1, <1>3, <1>4, <1>5, <1>6, MintFacts DEF SameLives
<1>9. ShopTypeOK'
  BY <1>1, <1>4, <1>5, <1>6, <1>7 DEF Answer, AccessIInv, ShopTypeOK, SameLives
<1>10. RegistryDrawn'
  BY <1>1, <1>2, <1>4, SessionsKeep DEF AccessIInv, ShopIInv
<1>11. AccountsAtHome'
  BY <1>1, <1>5, <1>6 DEF AccessIInv, ShopIInv, AccountsAtHome
<1>12. IdsDrawn'
  BY <1>1, <1>2, <1>6, <1>8
  DEF AccessIInv, ShopIInv, IdsDrawn, ShopTypeOK, Accounts, Tokens, Ids
<1>13. EmailsIdentifyAccounts'
  <2>1. ASSUME NEW x \in accounts \ Visible(s), NEW y \in Seeded(s), x.email = y.email
        PROVE  FALSE
    <3>1. x.shop = s
      BY <1>6, <2>1 DEF AccessIInv, ShopIInv, AccountsAtHome
    <3> QED
      BY <2>1, <3>1 DEF Visible
  <2> QED
    BY <1>1, <1>6, <2>1 DEF AccessIInv, ShopIInv, EmailsIdentifyAccounts
<1>14. AnswerIInv'
  BY <1>1 DEF Answer, AnswerIInv, ActsInsideItsShop, SignupStaysInSandbox
<1> QED
  BY <1>7, <1>9, <1>10, <1>11, <1>12, <1>13, <1>14 DEF AccessIInv, ShopIInv

LEMMA RemovedInv ==
  ASSUME AccessIInv, NEW s \in Sandboxes, Removed(s)
  PROVE  AccessIInv'
<1>1. /\ registry' = [registry EXCEPT ![s] = NoSession]
      /\ accounts' = accounts \ Visible(s)
      /\ answer' = NoAnswer
      /\ UNCHANGED <<spent, tokens, lastId>>
  BY DEF Removed
<1>2. /\ registry' \in [Sandboxes -> Sessions \cup {NoSession}]
      /\ \A t \in Sandboxes : registry'[t] # NoSession => registry'[t] = registry[t]
  BY <1>1 DEF AccessIInv, ShopTypeOK
<1>3. ShopTypeOK'
  BY <1>1, <1>2, NoAnswerFacts DEF AccessIInv, ShopTypeOK
<1>4. RegistryDrawn'
  BY <1>1, <1>2 DEF AccessIInv, ShopIInv, RegistryDrawn
<1>5. AccountsAtHome' /\ IdsDrawn' /\ EmailsIdentifyAccounts'
  BY <1>1 DEF AccessIInv, ShopIInv, AccountsAtHome, IdsDrawn, EmailsIdentifyAccounts
<1>6. TokensDieWithSandbox' /\ TokensLast'
  BY <1>1, <1>2
  DEF AccessIInv, ShopIInv, TokensDieWithSandbox, TokensLast, ShopTypeOK, Tokens, Shops
<1> QED
  BY <1>1, <1>3, <1>4, <1>5, <1>6, NoAnswerFacts DEF AccessIInv, ShopIInv

LEMMA NextInv == AccessIInv /\ clock \in Nat /\ [Next]_vars => AccessIInv'
<1> SUFFICES ASSUME AccessIInv, clock \in Nat, [Next]_vars
             PROVE  AccessIInv'
  OBVIOUS
<1>1. CASE UNCHANGED vars
  BY <1>1
  DEF AccessIInv, vars, shopVars, ShopTypeOK, ShopIInv, AnswerIInv, RegistryDrawn,
      AccountsAtHome, TokensLast, IdsDrawn, EmailsIdentifyAccounts,
      TokensDieWithSandbox, ActsInsideItsShop, SignupStaysInSandbox
<1>2. ASSUME NEW c \in Clients, NEW token \in tokens \cup {NoToken}, NEW email \in Emails,
             Login(c, token, email) \/ TokenForm(token, email)
      PROVE  AccessIInv'
  BY <1>2, LoggedInInv, QuietInv DEF Login, Rejected, TokenForm
<1>3. ASSUME NEW c, NEW surface, Refused(surface, c)
      PROVE  AccessIInv'
  BY <1>3, QuietInv DEF Refused
<1>4. ASSUME NEW token, End(token)
      PROVE  AccessIInv'
  BY <1>4, RemovedInv DEF End
<1>5. ASSUME CleanUp
      PROVE  AccessIInv'
  BY <1>5, RemovedInv DEF CleanUp
<1>6. CASE Next
  <2>1. ASSUME NEW token \in tokens \cup {NoToken}, NEW email \in Emails,
               TokenForm(token, email)
        PROVE  AccessIInv'
    BY <2>1, LoggedInInv DEF TokenForm
  <2> QED
    BY <1>2, <1>3, <1>4, <1>5, <1>6, <2>1, RegisterInv, StartInv, MeInv, ResetInv,
       SwitchRoleInv, QuietInv
    DEF Next
<1> QED
  BY <1>1, <1>6

LEMMA InitInv == Init => AccessIInv
<1> SUFFICES ASSUME Init PROVE AccessIInv
  OBVIOUS
<1>1. ShopTypeOK
  BY DEF Init, ShopTypeOK, NoAnswer, Answer, Shops
<1>2. ShopIInv
  BY DEF Init, ShopIInv, RegistryDrawn, AccountsAtHome, TokensLast, IdsDrawn,
         EmailsIdentifyAccounts, TokensDieWithSandbox
<1>3. AnswerIInv
  BY DEF Init, NoAnswer, Answer, AnswerIInv, ActsInsideItsShop, SignupStaysInSandbox
<1> QED
  BY <1>1, <1>2, <1>3 DEF AccessIInv

LEMMA LimiterTyped == LimiterIInv => LimiterTypeOK /\ clock \in Nat
BY DEF LimiterIInv, LimiterTypeOK

\* Accounts, tokens and sandboxes keep the inductive invariant.
THEOREM AccessInvariant == Spec => []AccessIInv
<1>1. Spec => []LimiterIInv
  BY AccessImplementsLimiter, LimiterInvariant
<1>2. LimiterIInv => clock \in Nat
  BY LimiterTyped
<1>3. Init => AccessIInv
  BY InitInv
<1>4. AccessIInv /\ clock \in Nat /\ [Next]_vars => AccessIInv'
  BY NextInv
<1> QED
  BY <1>1, <1>2, <1>3, <1>4, PTL DEF Spec

-----------------------------------------------------------------------------
\* Every variable keeps its type.
THEOREM AccessTypeOK == Spec => []TypeOK
<1>1. LimiterIInv /\ AccessIInv => TypeOK
  BY LimiterTyped DEF AccessIInv, ShopTypeOK, TypeOK
<1>2. Spec => []LimiterIInv
  BY AccessImplementsLimiter, LimiterInvariant
<1> QED
  BY <1>1, <1>2, AccessInvariant, PTL

\* Whoever acts, acts in the shop of the token (jwt_config.get_current_user).
THEOREM ActingInside == Spec => []ActsInsideItsShop
<1>1. AccessIInv => ActsInsideItsShop
  BY DEF AccessIInv, AnswerIInv
<1> QED
  BY <1>1, AccessInvariant, PTL

\* A sign-up under a living token is of the token's shop (jwt_config.get_tenant).
THEOREM SigningUpInside == Spec => []SignupStaysInSandbox
<1>1. AccessIInv => SignupStaysInSandbox
  BY DEF AccessIInv, AnswerIInv
<1> QED
  BY <1>1, AccessInvariant, PTL

\* No token outlives its sandbox, and none opens a later one (routes/demo.py,
\* _issue).
THEOREM TokensDie == Spec => []TokensDieWithSandbox
<1>1. AccessIInv => TokensDieWithSandbox
  BY DEF AccessIInv, ShopIInv
<1> QED
  BY <1>1, AccessInvariant, PTL

\* An address names one account over all shops (users.email, unique).
THEOREM EmailsIdentify == Spec => []EmailsIdentifyAccounts
<1>1. AccessIInv => EmailsIdentifyAccounts
  BY DEF AccessIInv, ShopIInv
<1> QED
  BY <1>1, AccessInvariant, PTL

\* Whichever token of a sandbox a visitor holds, it opens the sandbox for as
\* long as that works and the token's own lifetime lasts (routes/demo.py,
\* _issue; jwt_config.create_access_token).
THEOREM VisitorsAreLetIn == Spec => []VisitorsKeepAccess
<1>1. AccessIInv /\ clock \in Nat => VisitorsKeepAccess
  <2> SUFFICES ASSUME AccessIInv, clock \in Nat, NEW token \in tokens,
                      token.shop # Real, Alive(token.shop),
                      clock <= token.iat + TokenLife
               PROVE  Decodes(token)
    BY DEF VisitorsKeepAccess
  <2>1. /\ token.shop \in Sandboxes /\ token # NoToken
        /\ registry[token.shop] # NoSession /\ registry[token.shop].expires > clock
    BY NullsAreNoRows DEF Alive, AccessIInv, ShopTypeOK, Tokens, Shops
  <2>2. \/ token.exp = registry[token.shop].expires
        \/ token.exp = token.iat + TokenLife
    BY <2>1 DEF AccessIInv, ShopIInv, TokensLast
  <2>3. registry[token.shop].expires \in Nat
    BY <2>1 DEF AccessIInv, ShopTypeOK, Sessions
  <2> QED
    BY <2>1, <2>2, <2>3 DEF Decodes
<1>2. Spec => []LimiterIInv
  BY AccessImplementsLimiter, LimiterInvariant
<1> QED
  BY <1>1, <1>2, LimiterTyped, AccessInvariant, PTL

\* After a reset every token handed out before acts as nobody in the sandbox
\* (demo_service.purge_session_data removes the accounts they name).
THEOREM ResetRetires == Spec => ResetRetiresTokens
<1> DEFINE Retired ==
      answer'.kind = "reset" =>
        \A a \in accounts', token \in tokens :
          a.shop = answer'.tenant /\ token.shop = a.shop => token.user # a.id
<1>1. ASSUME AccessIInv, NEW t \in tokens, Reset(t)
      PROVE  Retired
  <2> DEFINE s == TenantOf(t)
  <2>1. /\ s \in Sandboxes /\ answer'.tenant = s
        /\ accounts' = (accounts \ Visible(s)) \cup Seeded(s)
    BY <1>1 DEF Reset, Answer
  <2> HIDE DEF s
  <2>2. ASSUME NEW a \in accounts', NEW token \in tokens, a.shop = s
        PROVE  token.user # a.id
    <3>1. a \in Seeded(s)
      BY <2>1, <2>2 DEF Visible
    <3>2. a.id[1] = lastId + 1
      BY <1>1, <2>1, <3>1, SeededFacts DEF AccessIInv
    <3>3. token.user[1] <= lastId /\ lastId \in Nat
      BY <1>1 DEF AccessIInv, ShopIInv, IdsDrawn, ShopTypeOK
    <3> QED
      BY <3>2, <3>3
  <2> QED
    BY <2>1, <2>2
<1>2. ASSUME Next, ~\E t \in tokens : Reset(t)
      PROVE  answer'.kind # "reset"
  <2>1. \A surface, c : Rejected(surface, c) => answer'.kind # "reset"
    BY DEF Rejected, Answer, NoAnswer
  <2>2. \A c, token, email : Register(c, token, email) => answer'.kind # "reset"
    BY <2>1 DEF Register, Answer
  <2>3. \A token, email : LoggedIn(token, email) => answer'.kind # "reset"
    BY DEF LoggedIn, Answer, NoAnswer
  <2>4. \A token : Me(token) => answer'.kind # "reset"
    BY DEF Me, Answer
  <2>5. \A c : Start(c) => answer'.kind # "reset"
    BY <2>1 DEF Start, Answer, NoAnswer
  <2>6. \A s : Removed(s) => answer'.kind # "reset"
    BY DEF Removed, Answer, NoAnswer
  <2>7. \A token, role : SwitchRole(token, role) => answer'.kind # "reset"
    BY DEF SwitchRole, Answer, NoAnswer
  <2>8. answer' = NoAnswer => answer'.kind # "reset"
    BY DEF Answer, NoAnswer
  <2> QED
    BY <1>2, <2>1, <2>2, <2>3, <2>4, <2>5, <2>6, <2>7, <2>8
    DEF Next, Login, TokenForm, Refused, End, CleanUp
<1>3. AccessIInv /\ [Next]_vars => [Retired]_vars
  <2> SUFFICES ASSUME AccessIInv, Next PROVE Retired
    OBVIOUS
  <2>1. CASE \E t \in tokens : Reset(t)
    BY <1>1, <2>1
  <2>2. CASE ~\E t \in tokens : Reset(t)
    BY <1>2, <2>2
  <2> QED
    BY <2>1, <2>2
<1>4. Spec => [][Retired]_vars
  BY <1>3, AccessInvariant, PTL DEF Spec
<1> QED
  BY <1>4 DEF ResetRetiresTokens
=============================================================================
