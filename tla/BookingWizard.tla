---------------------------- MODULE BookingWizard ---------------------------
(***************************************************************************)
(* One tab of the front end: the session it holds (session-store.ts), the  *)
(* requests it sends on behalf of it (api-client.ts), what the query cache *)
(* keeps of the answers, and the booking wizard (use-booking-state.ts,     *)
(* booking-flow.tsx) on top of them.                                       *)
(*                                                                         *)
(* The rows of a sandbox get new ids when it is reset, so "sandbox" below  *)
(* means one filling of a sandbox.  Of the three lists the wizard shows    *)
(* the services are kept; extras and barbers are fetched the same way.     *)
(* A failed fetch of a list only shows an error, and is left out.          *)
(***************************************************************************)
EXTENDS Naturals

CONSTANTS Real,        \* the shop that is no sandbox
          Sandboxes,   \* fillings of sandboxes
          Services, Extras, Barbers, Dates, Slots,
          ShopOf,      \* the shop a service belongs to
          Offer,       \* what availability may answer for each choice
          Today,
          None

ASSUME WizardAssumption ==
  /\ Today \in Dates
  /\ Offer \in [Services \X (SUBSET Extras) \X (Barbers \cup {None}) \X Dates
                 -> SUBSET Slots]
  /\ None \notin Slots

VARIABLES session,     \* the store: nobody, an account, or a sandbox
          lapsed,      \* expiresAt has passed
          opened,      \* the sandboxes there have been
          page,        \* what the router shows
          menu,        \* the shop whose services the cache holds
          fresh,       \* and whether they count as fresh
          fetching,    \* the shop asked for services, answer pending
          form,        \* BookingState
          list,        \* the start times on the screen
          asked,       \* the shop asked for them, answer pending
          sent,        \* the booking submitted, answer pending
          confirmed    \* the success screen shows

visit == <<session, lapsed, opened>>
catalogue == <<menu, fresh, fetching>>
grid == <<list, asked>>
vars == <<visit, page, catalogue, form, grid, sent, confirmed>>

Shops == Sandboxes \cup {Real}

initialState == [step |-> 0, service |-> None, extras |-> {}, barber |-> None,
                 date |-> Today, slot |-> None]

Init ==
  /\ session = "nobody" /\ lapsed = FALSE /\ opened = {}
  /\ page = "home"
  /\ menu = None /\ fresh = FALSE /\ fetching = Real
  /\ form = initialState
  /\ list = "empty" /\ asked = None
  /\ sent = None /\ confirmed = FALSE

\* The shop that answers a request sent with the active token: an expired
\* one is not sent at all, and without a token the real shop answers.
ShopFor(s, late) == IF s \in Sandboxes /\ ~late THEN s ELSE Real

Tenant == ShopFor(session, lapsed)

-----------------------------------------------------------------------------
(* The query cache. *)

\* A page that lists services fetches them when it appears, unless the cache
\* holds fresh ones or a fetch is under way.  The key names no shop.
ListServices(p, shop) ==
  /\ fetching' = IF /\ p \in {"home", "booking"}
                    /\ fetching = None
                    /\ menu = None \/ ~fresh
                 THEN shop ELSE fetching
  /\ UNCHANGED <<menu, fresh>>

AnswerServices ==
  /\ fetching # None
  /\ menu' = fetching /\ fresh' = TRUE /\ fetching' = None
  /\ UNCHANGED <<visit, page, form, grid, sent, confirmed>>

\* staleTime is over.
Age ==
  /\ fresh
  /\ fresh' = FALSE
  /\ UNCHANGED <<visit, page, menu, fetching, form, grid, sent, confirmed>>

\* Start times are asked for from the third step on, once for each choice of
\* service, extras, barber and date.
Choice(f) == <<f.service, f.extras, f.barber, f.date>>

Enabled(f) == f.service # None /\ f.step >= 2

\* A choice asked before may be in the cache; fetching hides what it holds.
Observe(f) ==
  \/ ~Enabled(f) /\ list' = "empty" /\ asked' = None
  \/ /\ Enabled(f) /\ Enabled(form) /\ Choice(f) = Choice(form)
     /\ UNCHANGED grid
  \/ /\ Enabled(f) /\ ~(Enabled(form) /\ Choice(f) = Choice(form))
     /\ \/ list' = "shown" /\ asked' = None
        \/ list' = "empty" /\ asked' = Tenant

\* A service of another shop is unknown there.
AnswerTimes ==
  /\ asked # None
  /\ asked' = None
  /\ \/ list' = "shown" /\ ShopOf[form.service] = asked
     \/ list' = "failed"
  /\ UNCHANGED <<visit, page, catalogue, form, sent, confirmed>>

\* invalidateQueries: what is on the screen is fetched again, except that a
\* first fetch under way is left to finish; the rest becomes stale.
InvalidateTimes(shop) ==
  IF Enabled(form)
  THEN /\ list' = "empty"
       /\ asked' = IF asked = None THEN shop ELSE asked
  ELSE UNCHANGED grid

InvalidateServices(shop) ==
  /\ fresh' = FALSE
  /\ fetching' = IF /\ page \in {"home", "booking"}
                    /\ fetching = None \/ menu # None
                 THEN shop ELSE fetching
  /\ UNCHANGED menu

-----------------------------------------------------------------------------
(* The wizard. *)

\* A page that appears starts from its initial state, and an answer to the
\* page that was left changes nothing on it.
Show(p, shop) ==
  IF p = page THEN UNCHANGED <<page, catalogue, form, grid, sent, confirmed>>
  ELSE /\ page' = p
       /\ form' = initialState
       /\ list' = "empty" /\ asked' = None
       /\ sent' = None /\ confirmed' = FALSE
       /\ ListServices(p, shop)

Editing == page = "booking" /\ ~confirmed

Update(f) ==
  /\ Editing
  /\ form' = f
  /\ Observe(f)
  /\ UNCHANGED <<visit, page, catalogue, sent, confirmed>>

SelectService(s) ==
  /\ form.step = 0 /\ menu # None /\ ShopOf[s] = menu
  /\ Update([form EXCEPT !.service = s,
                         !.slot = IF form.service = s THEN @ ELSE None])

\* Fault: an extra is taken for a matter of price only.
ToggleExtraPriceOnly(e) ==
  /\ form.step = 0 /\ menu # None
  /\ Update([form EXCEPT !.extras = (@ \ {e}) \cup ({e} \ @)])

ToggleExtra(e) ==
  /\ form.step = 0 /\ menu # None
  /\ Update([form EXCEPT !.extras = (@ \ {e}) \cup ({e} \ @), !.slot = None])

SelectBarber(b) ==
  /\ form.step = 1
  /\ Update([form EXCEPT !.barber = b, !.slot = None])

SelectDate(d) ==
  /\ form.step = 2
  /\ Update([form EXCEPT !.date = d, !.slot = None])

SelectSlot(s) ==
  /\ form.step = 2 /\ list = "shown" /\ asked = None
  /\ s \in Offer[Choice(form)]
  /\ Update([form EXCEPT !.slot = s])

MaxReachableStep(f) ==
  CASE f.service = None -> 0
    [] f.service # None /\ f.slot = None -> 2
    [] OTHER -> 3

\* The stepper, and the footer's two buttons.
JumpTo(n) == n <= MaxReachableStep(form) /\ Update([form EXCEPT !.step = n])

Back == form.step > 0 /\ Update([form EXCEPT !.step = @ - 1])

Forward ==
  /\ form.step < 3
  /\ form.step = 0 => form.service # None
  /\ form.step = 2 => form.slot # None
  /\ Update([form EXCEPT !.step = @ + 1])

Retry ==
  /\ Editing /\ form.step = 2 /\ list = "failed" /\ asked = None
  /\ asked' = Tenant
  /\ UNCHANGED <<visit, page, catalogue, form, list, sent, confirmed>>

\* The button is disabled while a booking is under way.  A booking carries
\* the token of the store, expired or not; "choice" is kept for the property.
Confirm ==
  /\ Editing /\ form.step = 3 /\ sent = None
  /\ session # "nobody" /\ form.slot # None /\ form.service # None
  /\ sent' = [slot |-> form.slot, choice |-> Choice(form),
              shop |-> IF lapsed THEN None ELSE Tenant]
  /\ UNCHANGED <<visit, page, catalogue, form, grid, confirmed>>

\* The back end knows its own services only, and no expired token.
Accepted ==
  /\ sent # None /\ sent.shop = ShopOf[sent.choice[1]]
  /\ confirmed' = TRUE /\ sent' = None
  /\ UNCHANGED <<visit, page, catalogue, form, grid>>

\* Refused or not answered: back to a grid that is loaded again, wherever
\* the customer has gone meanwhile.
Refused ==
  /\ sent # None
  /\ sent' = None
  /\ form' = [form EXCEPT !.slot = None, !.step = 2]
  /\ list' = "empty" /\ asked' = Tenant
  /\ UNCHANGED <<visit, page, catalogue, confirmed>>

BookAnother ==
  /\ page = "booking" /\ confirmed
  /\ confirmed' = FALSE
  /\ form' = initialState
  /\ list' = "empty" /\ asked' = None
  /\ UNCHANGED <<visit, page, catalogue, sent>>

-----------------------------------------------------------------------------
(* The session. *)

Navigate(p) == p # page /\ Show(p, Tenant) /\ UNCHANGED visit

\* Customers go on to the wizard, staff to the dashboard. The login page does
\* not ask whether somebody is signed in: the new session replaces a sandbox's,
\* and its token names no shop even when the sandbox answered for it.
SignIn(p) ==
  /\ page = "elsewhere"
  /\ session' = "account" /\ lapsed' = FALSE /\ UNCHANGED opened
  /\ Show(p, Real)

Enter(d) ==
  /\ d \notin opened
  /\ session' = d /\ lapsed' = FALSE /\ opened' = opened \cup {d}

\* begin: the cache is left as it is.
StartDemo(d) == page = "elsewhere" /\ Enter(d) /\ Show("booking", d)

InSandbox == session \in Sandboxes /\ ~lapsed

\* adopt, and the lists besides.  The wizard keeps its state.
Reset(d) ==
  /\ InSandbox /\ Enter(d)
  /\ InvalidateTimes(d) /\ InvalidateServices(d)
  /\ UNCHANGED <<page, form, sent, confirmed>>

\* adopt, and a page of the new role.
ChangeRole(p) ==
  /\ InSandbox
  /\ \/ /\ p = page
        /\ InvalidateTimes(Tenant)
        /\ UNCHANGED <<page, catalogue, form, sent, confirmed>>
     \/ p # page /\ Show(p, Tenant)
  /\ UNCHANGED visit

\* Ended by the visitor, or given up because the poll failed.
LeaveDemo ==
  /\ session \in Sandboxes
  /\ session' = "nobody" /\ lapsed' = FALSE /\ UNCHANGED opened
  /\ Show("elsewhere", Real)

SignOut ==
  /\ session # "nobody"
  /\ session' = "nobody" /\ lapsed' = FALSE /\ UNCHANGED opened
  /\ Show("home", Real)

Lapse ==
  /\ session # "nobody" /\ ~lapsed
  /\ lapsed' = TRUE
  /\ UNCHANGED <<session, opened, page, catalogue, form, grid, sent, confirmed>>

\* The browser loads the page anew: only the stored session survives, and
\* only until it expires (hydrate).
Reload ==
  /\ session' = IF lapsed THEN "nobody" ELSE session
  /\ lapsed' = FALSE
  /\ menu' = None /\ fresh' = FALSE
  /\ fetching' = IF page \in {"home", "booking"} THEN Tenant ELSE None
  /\ form' = initialState
  /\ list' = "empty" /\ asked' = None
  /\ sent' = None /\ confirmed' = FALSE
  /\ UNCHANGED <<opened, page>>

Next ==
  \/ AnswerServices \/ Age \/ AnswerTimes \/ Retry
  \/ \E s \in Services : SelectService(s)
  \/ \E e \in Extras : ToggleExtra(e)
  \/ \E b \in Barbers \cup {None} : SelectBarber(b)
  \/ \E d \in Dates : SelectDate(d)
  \/ \E s \in Slots : SelectSlot(s)
  \/ \E n \in 0..3 : JumpTo(n)
  \/ Back \/ Forward \/ Confirm \/ Accepted \/ Refused \/ BookAnother
  \/ \E p \in {"home", "booking", "elsewhere"} : Navigate(p)
  \/ \E p \in {"booking", "elsewhere"} : ChangeRole(p) \/ SignIn(p)
  \/ \E d \in Sandboxes : StartDemo(d) \/ Reset(d)
  \/ LeaveDemo \/ SignOut \/ Lapse \/ Reload

Spec == Init /\ [][Next]_vars

-----------------------------------------------------------------------------
(* Properties. *)

\* What a customer submits, however they went back and forth and whatever
\* failed meanwhile, is a start that was offered for the very service,
\* extras, barber and day it is submitted with.
SubmitsAsOffered == sent # None => sent.slot \in Offer[sent.choice]

\* "A demo visitor must see their sandbox's catalog, barbers and hours, not
\* the real shop's" (api-client.ts): the services the wizard lists, once
\* nothing is being loaded, are those of the shop the visitor is in.
ShowsItsShop ==
  (page = "booking" /\ InSandbox /\ menu # None /\ fetching = None)
    => menu = session

=============================================================================
