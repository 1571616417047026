------------------------------- MODULE Access -------------------------------
(***************************************************************************)
(* Who may touch which shop: accounts and tokens (auth_service.py,         *)
(* jwt_config.py), tenants (core/tenancy.py), the life of a sandbox        *)
(* (routes/demo.py) and the rate limiters in front of them.  A handler is  *)
(* one step here; DemoSandbox and BackOffice look inside transactions.     *)
(*                                                                         *)
(* Registering and logging in return a token without a shop claim, even in *)
(* a sandbox; the demo's own endpoints return tokens that carry one.       *)
(* Nothing ever sets users.is_active to false, so it is left out.          *)
(***************************************************************************)
EXTENDS RateLimiter, FiniteSets

CONSTANTS Clients,      \* client addresses
          Limited,      \* the surfaces with a limiter: either can be off
          Emails,       \* addresses people register with
          Sandboxes,    \* sandbox ids
          Real,         \* the shop that is not a sandbox
          Personas,     \* the roles a sandbox is seeded with
          Customer,     \* the role of who registers, and of a new visitor
          TokenLife,    \* settings.jwt_access_token_expire_minutes
          Ttl,          \* settings.demo_session_ttl_minutes
          IdleTimeout,  \* settings.demo_idle_timeout_minutes
          MaxActive,    \* settings.demo_max_active_sessions
          MaxIds,       \* bound on the accounts ever made
          MaxTokens,    \* bound on the tokens ever handed out
          NoSession, NoToken, Nobody

\* The counter of the credential endpoints counts by address and path, the
\* other by address.
Surfaces == {"register", "login", "demo"}

ASSUME AccessAssumption ==
  /\ Limited \subseteq Surfaces
  /\ Keys = Limited \X Clients
  /\ Real \notin Sandboxes
  /\ Customer \in Personas
  /\ TokenLife \in Nat \ {0}
  /\ Ttl \in Nat \ {0}
  /\ IdleTimeout \in Nat \ {0}
  /\ MaxActive \in Nat \ {0}
  /\ MaxIds \in Nat
  /\ MaxTokens \in Nat
  /\ Emails \cap (Personas \X Sandboxes) = {}
  \* A limit of nothing switches the demo's limiter off instead.
  /\ \A k \in Keys : k[1] = "demo" => Allowance[k] > 0

Shops == Sandboxes \cup {Real}

Sessions == [expires : Nat, seen : Nat]

\* Seeded accounts have addresses of their own (demo_seed._email).
Addresses == Emails \cup (Personas \X Sandboxes)

Ids == Nat \X Personas

Accounts == [id : Ids, email : Addresses, shop : Shops, role : Personas]

Tokens == [user : Ids, shop : Shops, iat : Nat, exp : Nat]

ASSUME NullsAreNoRows ==
  /\ NoSession \notin Sessions
  /\ NoToken \notin Tokens
  /\ Nobody \notin Shops

VARIABLES accounts,  \* rows of users
          registry,  \* rows of demo_sessions
          spent,     \* sandbox ids already drawn
          tokens,    \* every token handed out
          lastId,    \* how often account ids have been drawn
          answer     \* history: what the last request did, as whom, where

shopVars == <<accounts, registry, spent, tokens, lastId>>
vars == <<limiterVars, shopVars, answer>>

\* The shops of the account, of the token's claim, and of the tenant.
Answer(kind, as, claim, tenant) ==
  [kind |-> kind, as |-> as, claim |-> claim, tenant |-> tenant]

NoAnswer == Answer("none", Real, Real, Real)

TypeOK ==
  /\ LimiterTypeOK
  /\ accounts \subseteq Accounts
  /\ registry \in [Sandboxes -> Sessions \cup {NoSession}]
  /\ spent \subseteq Sandboxes
  /\ tokens \subseteq Tokens
  /\ lastId \in Nat
  /\ answer \in [kind : {"none", "signup", "me", "reset"},
                 as : Shops, claim : Shops, tenant : Shops]

Init ==
  /\ LimiterInit
  /\ accounts = {}
  /\ registry = [s \in Sandboxes |-> NoSession]
  /\ spent = {}
  /\ tokens = {}
  /\ lastId = 0
  /\ answer = NoAnswer

-----------------------------------------------------------------------------
(* Tokens and tenants.                                                     *)

\* Fault: the lifetime is clamped to nothing.
MintUnclamped(account, shop) ==
  [user |-> account.id, shop |-> shop, iat |-> clock, exp |-> clock + TokenLife]

\* Fault: the lifetime is clamped to the idle deadline.
MintIdle(account, shop) ==
  [user |-> account.id, shop |-> shop, iat |-> clock,
   exp |-> IF shop # Real /\ registry'[shop].seen + IdleTimeout < clock + TokenLife
           THEN registry'[shop].seen + IdleTimeout ELSE clock + TokenLife]

\* create_access_token; a sandbox token is clamped to the sandbox's life.
Mint(account, shop) ==
  [user |-> account.id, shop |-> shop, iat |-> clock,
   exp |-> IF shop # Real /\ registry'[shop].expires < clock + TokenLife
           THEN registry'[shop].expires ELSE clock + TokenLife]

\* The answer carries the token; every client may use it from now on.
HandOut(token) ==
  /\ tokens' = tokens \cup {token}
  /\ Cardinality(tokens') <= MaxTokens

Alive(s) ==
  /\ registry[s] # NoSession
  /\ registry[s].expires > clock
  /\ registry[s].seen > clock - IdleTimeout

\* decode_token; a token is good to the end of the second it expires in.
Decodes(token) == token # NoToken /\ token.exp >= clock

\* The shop a token opens for as long as it lives.
Claim(token) == IF Decodes(token) THEN token.shop ELSE Real

\* Fault: a sandbox that has lapsed falls back to the real shop.
TenantOfFallback(token) ==
  IF Decodes(token) /\ token.shop # Real /\ Alive(token.shop)
  THEN token.shop ELSE Real

\* get_tenant: a token that does not decode is as good as none.
TenantOf(token) ==
  IF Decodes(token) /\ token.shop # Real
  THEN IF Alive(token.shop) THEN token.shop ELSE Nobody
  ELSE Real

\* get_tenant refreshes the idle timer of the sandbox it resolves.
Refreshed(shop) ==
  IF shop \in Sandboxes
  THEN [registry EXCEPT ![shop] = [@ EXCEPT !.seen = clock]]
  ELSE registry

\* Fault: the lookup is not scoped to the tenant.
VisibleUnscoped(shop) == accounts

\* Every query on users is scoped to the tenant.
Visible(shop) == {a \in accounts : a.shop = shop}

\* get_current_user.
ActsAs(token, shop) ==
  {a \in Visible(shop) :
     Decodes(token) /\ token.shop = shop /\ a.id = token.user}

\* Fault: users.email is not unique.
FreeUnchecked(email) == TRUE

\* The unique index on users.email spans all shops.
Free(email) == \A a \in accounts : a.email # email

-----------------------------------------------------------------------------
(* Accounts.  The middleware counts the request before the handler runs.   *)

Refused(surface, c) ==
  /\ surface \in Limited
  /\ Refuse(<<surface, c>>)
  /\ answer' = NoAnswer
  /\ UNCHANGED shopVars

LetIn(surface, c) ==
  IF surface \in Limited THEN Admit(<<surface, c>>) ELSE UNCHANGED limiterVars

\* A request that fails keeps only its hit.
Rejected(surface, c) ==
  /\ LetIn(surface, c)
  /\ answer' = NoAnswer
  /\ UNCHANGED shopVars

\* register; an address of another shop passes the check and fails on the
\* unique index, with the same answer.
Register(c, token, email) ==
  LET shop == TenantOf(token)
      account == [id |-> <<lastId + 1, Customer>>, email |-> email, shop |-> shop,
                  role |-> Customer]
  IN  IF /\ shop # Nobody
         /\ \A a \in Visible(shop) : a.email # email
         /\ Free(email)
      THEN /\ lastId < MaxIds
           /\ LetIn("register", c)
           /\ registry' = Refreshed(shop)
           /\ accounts' = accounts \cup {account}
           /\ lastId' = lastId + 1
           /\ HandOut(Mint(account, Real))
           /\ answer' = Answer("signup", account.shop, Claim(token), shop)
           /\ UNCHANGED spent
      ELSE Rejected("register", c)

\* login with the right password; a wrong one changes nothing more than a
\* rejection.  The effect is shared by /login and by /token.
LoggedIn(token, email) ==
  LET shop == TenantOf(token)
  IN  \E a \in Visible(shop) :
        /\ a.email = email
        /\ registry' = Refreshed(shop)
        /\ HandOut(Mint(a, Real))
        /\ answer' = NoAnswer
        /\ UNCHANGED <<accounts, spent, lastId>>

Login(c, token, email) ==
  \/ LetIn("login", c) /\ LoggedIn(token, email)
  \/ Rejected("login", c)

\* The form the interactive docs use; its path is not a protected one.
TokenForm(token, email) ==
  /\ LoggedIn(token, email)
  /\ UNCHANGED limiterVars

\* Any request for an authenticated account.
Me(token) ==
  LET shop == TenantOf(token)
  IN  /\ \E a \in ActsAs(token, shop) :
           answer' = Answer("me", a.shop, Claim(token), shop)
      /\ registry' = Refreshed(shop)
      /\ UNCHANGED <<limiterVars, accounts, spent, tokens, lastId>>

-----------------------------------------------------------------------------
(* Sandboxes.                                                              *)

\* Fault: the ids of a sandbox's accounts are derived from its own.
SeededFixed(s) ==
  {[id |-> <<0, p>>, email |-> <<p, s>>, shop |-> s, role |-> p] : p \in Personas}

\* The accounts of seed_sandbox.
Seeded(s) ==
  {[id |-> <<lastId + 1, p>>, email |-> <<p, s>>, shop |-> s, role |-> p] :
     p \in Personas}

Live == {s \in Sandboxes : registry[s] # NoSession /\ registry[s].expires > clock}

\* start_demo_session: the counter is charged before the cap is looked at.
Start(c) ==
  IF Cardinality(Live) >= MaxActive
  THEN Rejected("demo", c)
  ELSE /\ lastId < MaxIds
       /\ LetIn("demo", c)
       /\ \E s \in Sandboxes \ spent :
            /\ spent' = spent \cup {s}
            /\ registry' = [registry EXCEPT ![s] =
                              [expires |-> clock + Ttl, seen |-> clock]]
            /\ accounts' = accounts \cup Seeded(s)
            /\ \E a \in Seeded(s) :
                 a.role = Customer /\ HandOut(Mint(a, s))
       /\ lastId' = lastId + 1
       /\ answer' = NoAnswer

\* switch_demo_role: whoever of the sandbox has the role.  The token need
\* not belong to an account that still exists.
SwitchRole(token, role) ==
  LET s == TenantOf(token)
  IN  /\ s \in Sandboxes
      /\ registry' = Refreshed(s)
      /\ \E a \in Visible(s) :
           a.role = role /\ HandOut(Mint(a, s))
      /\ answer' = NoAnswer
      /\ UNCHANGED <<limiterVars, accounts, spent, lastId>>

\* reset_demo_session: the accounts are new ones.
Reset(token) ==
  LET s == TenantOf(token)
  IN  /\ s \in Sandboxes
      /\ lastId < MaxIds
      /\ registry' = Refreshed(s)
      /\ accounts' = (accounts \ Visible(s)) \cup Seeded(s)
      /\ \E a \in Seeded(s) :
           a.role = Customer /\ HandOut(Mint(a, s))
      /\ lastId' = lastId + 1
      /\ answer' = Answer("reset", s, s, s)
      /\ UNCHANGED <<limiterVars, spent>>

Removed(s) ==
  /\ registry' = [registry EXCEPT ![s] = NoSession]
  /\ accounts' = accounts \ Visible(s)
  /\ answer' = NoAnswer
  /\ UNCHANGED <<limiterVars, spent, tokens, lastId>>

End(token) ==
  /\ TenantOf(token) \in Sandboxes
  /\ Removed(TenantOf(token))

\* cleanup_expired, one sandbox at a time.
CleanUp ==
  \E s \in Sandboxes :
    /\ registry[s] # NoSession
    /\ registry[s].expires <= clock
    /\ Removed(s)

-----------------------------------------------------------------------------
Next ==
  \/ \E c \in Clients, token \in tokens \cup {NoToken}, email \in Emails :
       Register(c, token, email) \/ Login(c, token, email)
  \/ \E c \in Clients, surface \in Surfaces : Refused(surface, c)
  \/ \E c \in Clients : Start(c)
  \/ \E token \in tokens \cup {NoToken}, email \in Emails : TokenForm(token, email)
  \/ \E token \in tokens : Me(token) \/ Reset(token) \/ End(token)
  \/ \E token \in tokens, role \in Personas : SwitchRole(token, role)
  \/ CleanUp
  \/ Tick /\ answer' = NoAnswer /\ UNCHANGED shopVars
  \/ Restart /\ answer' = NoAnswer /\ UNCHANGED shopVars

Spec == Init /\ [][Next]_vars

-----------------------------------------------------------------------------
(* Properties.                                                             *)

\* Whoever a token acts as belongs to the shop the token names, the real one
\* when it names none, also for the tokens that registering and logging in
\* hand out inside a sandbox.  (README: "A demo token resolves only to users
\* inside its own sandbox".)
ActsInsideItsShop ==
  answer.kind = "me" =>
    /\ answer.as = answer.claim
    /\ answer.tenant = answer.claim

\* A token that opens a sandbox expires with it at the latest, through every
\* switch and reset, and there is none left for a sandbox that is gone that
\* a later sandbox would honour.  (README: "Tokens cannot outlive their
\* sandbox".)
TokensDieWithSandbox ==
  \A token \in tokens :
    token.shop # Real =>
      /\ token.shop \in spent
      /\ registry[token.shop] # NoSession =>
           token.exp <= registry[token.shop].expires

\* An address names one account over all shops, although the services look
\* for it in the caller's shop only.
EmailsIdentifyAccounts ==
  \A a, b \in accounts : a.email = b.email => a = b

\* Whichever token of a sandbox a visitor holds, the first or one that a
\* switch or a reset has issued since, it opens the sandbox for as long as that
\* works and activity keeps it alive, until the token's own lifetime is over:
\* the clamp never locks a visitor out early.  (routes/demo.py:108 clamps to
\* session.expires_at; the idle timeout is apart, README.md:65: "Absolute TTL
\* and idle timeout, both checked on every request".)  Where a sandbox is set
\* to outlive a token, a visitor who neither switches nor resets is locked out
\* of a working sandbox: the property ends where the token's lifetime does.
VisitorsKeepAccess ==
  \A token \in tokens :
    token.shop # Real /\ Alive(token.shop) /\ clock <= token.iat + TokenLife
      => Decodes(token)

\* A reset retires every account of the sandbox: what another tab still
\* holds acts as nobody from then on.  (README: "reset reseeds in place".)
ResetRetiresTokens ==
  [][answer'.kind = "reset" =>
       \A a \in accounts', token \in tokens :
         a.shop = answer'.tenant /\ token.shop = a.shop => token.user # a.id]_vars

\* Signing up with a sandbox token that has not expired makes an account of
\* that sandbox or none at all, also when the sandbox has lapsed, ended or
\* been reset meanwhile; only after its expiry is the token ignored.
\* (README.md:60, "signing up while holding one creates the account inside
\* the sandbox rather than in the real shop".)
SignupStaysInSandbox ==
  answer.kind = "signup" => answer.as = answer.claim
=============================================================================
