------------------------ MODULE BookingWizardProofs -------------------------
(***************************************************************************)
(* What the wizard submits was offered for what it submits it with, for    *)
(* any services, extras, barbers, days and offers.                         *)
(***************************************************************************)
EXTENDS BookingWizard, TLAPS

\* BookingState.
Forms == [step : 0..3, service : Services \cup {None}, extras : SUBSET Extras,
          barber : Barbers \cup {None}, date : Dates, slot : Slots \cup {None}]

\* The slot on the form is one offered for the choices on the form: whoever
\* changes a choice gives the slot up.
SlotFits(f) == f.slot # None => f.slot \in Offer[Choice(f)]

WizardIInv == form \in Forms /\ SlotFits(form) /\ SubmitsAsOffered

\* The form as it is when the page appears.
LEMMA EmptyFormFits == initialState \in Forms /\ SlotFits(initialState)
  BY WizardAssumption DEF initialState, Forms, SlotFits

\* An edit that keeps the form well-typed and its slot fitting keeps all.
LEMMA UpdateKeeps ==
  ASSUME WizardIInv, NEW f \in Forms, SlotFits(f), Update(f)
  PROVE  WizardIInv'
  BY DEF WizardIInv, Update, SlotFits, Choice, SubmitsAsOffered

\* A page that appears is empty, one that stays is unchanged.
LEMMA ShowKeeps ==
  ASSUME WizardIInv, NEW p, NEW shop, Show(p, shop)
  PROVE  WizardIInv'
<1>1. CASE p = page
  BY <1>1 DEF Show, WizardIInv, SlotFits, Choice, SubmitsAsOffered
<1>2. CASE p # page
  BY <1>2, EmptyFormFits DEF Show, WizardIInv, SlotFits, Choice, SubmitsAsOffered
<1> QED BY <1>1, <1>2

LEMMA InitFits == Init => WizardIInv
  BY EmptyFormFits DEF Init, WizardIInv, SubmitsAsOffered

\* The steps that edit one field of the form.
LEMMA EditsKeep ==
  ASSUME WizardIInv
  PROVE  /\ \A s \in Services : SelectService(s) => WizardIInv'
         /\ \A e \in Extras : ToggleExtra(e) => WizardIInv'
         /\ \A b \in Barbers \cup {None} : SelectBarber(b) => WizardIInv'
         /\ \A d \in Dates : SelectDate(d) => WizardIInv'
         /\ \A s \in Slots : SelectSlot(s) => WizardIInv'
         /\ \A n \in 0..3 : JumpTo(n) => WizardIInv'
         /\ Back => WizardIInv'
         /\ Forward => WizardIInv'
<1>0. form \in Forms /\ SlotFits(form)
  BY DEF WizardIInv
<1>1. ASSUME NEW s \in Services, SelectService(s) PROVE WizardIInv'
  <2> DEFINE f == [form EXCEPT !.service = s,
                               !.slot = IF form.service = s THEN @ ELSE None]
  <2>1. f \in Forms /\ SlotFits(f)
    BY <1>0 DEF Forms, SlotFits, Choice
  <2>2. Update(f)
    BY <1>1 DEF SelectService
  <2> QED BY <2>1, <2>2, UpdateKeeps
<1>2. ASSUME NEW e \in Extras, ToggleExtra(e) PROVE WizardIInv'
  <2> DEFINE f == [form EXCEPT !.extras = (@ \ {e}) \cup ({e} \ @), !.slot = None]
  <2>1. f \in Forms /\ SlotFits(f)
    BY <1>0 DEF Forms, SlotFits
  <2>2. Update(f)
    BY <1>2 DEF ToggleExtra
  <2> QED BY <2>1, <2>2, UpdateKeeps
<1>3. ASSUME NEW b \in Barbers \cup {None}, SelectBarber(b) PROVE WizardIInv'
  <2> DEFINE f == [form EXCEPT !.barber = b, !.slot = None]
  <2>1. f \in Forms /\ SlotFits(f)
    BY <1>0 DEF Forms, SlotFits
  <2>2. Update(f)
    BY <1>3 DEF SelectBarber
  <2> QED BY <2>1, <2>2, UpdateKeeps
<1>4. ASSUME NEW d \in Dates, SelectDate(d) PROVE WizardIInv'
  <2> DEFINE f == [form EXCEPT !.date = d, !.slot = None]
  <2>1. f \in Forms /\ SlotFits(f)
    BY <1>0 DEF Forms, SlotFits
  <2>2. Update(f)
    BY <1>4 DEF SelectDate
  <2> QED BY <2>1, <2>2, UpdateKeeps
<1>5. ASSUME NEW s \in Slots, SelectSlot(s) PROVE WizardIInv'
  <2> DEFINE f == [form EXCEPT !.slot = s]
  <2>1. f \in Forms
    BY <1>0 DEF Forms
  <2>2. Choice(f) = Choice(form) /\ f.slot = s
    BY <1>0 DEF Forms, Choice
  <2>3. SlotFits(f)
    BY <1>5, <2>2 DEF SelectSlot, SlotFits
  <2>4. Update(f)
    BY <1>5 DEF SelectSlot
  <2> QED BY <2>1, <2>3, <2>4, UpdateKeeps
<1>6. ASSUME NEW n \in 0..3, Update([form EXCEPT !.step = n]) PROVE WizardIInv'
  <2> DEFINE f == [form EXCEPT !.step = n]
  <2>1. f \in Forms /\ SlotFits(f)
    BY <1>0 DEF Forms, SlotFits, Choice
  <2> QED BY <1>6, <2>1, UpdateKeeps
<1>7. ASSUME NEW n \in 0..3, JumpTo(n) PROVE WizardIInv'
  BY <1>6, <1>7 DEF JumpTo
<1>8. ASSUME Back PROVE WizardIInv'
  <2>1. form.step - 1 \in 0..3
    BY <1>0, <1>8 DEF Forms, Back
  <2> QED BY <1>6, <1>8, <2>1 DEF Back
<1>9. ASSUME Forward PROVE WizardIInv'
  <2>1. form.step + 1 \in 0..3
    BY <1>0, <1>9 DEF Forms, Forward
  <2> QED BY <1>6, <1>9, <2>1 DEF Forward
<1> QED BY <1>1, <1>2, <1>3, <1>4, <1>5, <1>7, <1>8, <1>9

\* The steps around a submission.
LEMMA SubmissionsKeep ==
  ASSUME WizardIInv, Confirm \/ Accepted \/ Refused \/ BookAnother
  PROVE  WizardIInv'
<1>1. CASE Confirm
  BY <1>1 DEF Confirm, WizardIInv, SlotFits, Choice, SubmitsAsOffered
<1>2. CASE Accepted
  BY <1>2 DEF Accepted, WizardIInv, SlotFits, Choice, SubmitsAsOffered
<1>3. CASE Refused
  <2> DEFINE g == [form EXCEPT !.slot = None]
             f == [g EXCEPT !.step = 2]
  <2>1. g \in Forms /\ g.slot = None
    BY DEF WizardIInv, Forms
  <2>2. form' = f /\ sent' = None
    BY <1>3, Zenon DEF Refused
  <2> HIDE DEF g
  <2>3. f \in Forms /\ f.slot = None
    BY <2>1 DEF Forms
  <2> HIDE DEF f
  <2> QED BY <2>2, <2>3 DEF WizardIInv, SlotFits, SubmitsAsOffered
<1>4. CASE BookAnother
  BY <1>4, EmptyFormFits
  DEF BookAnother, WizardIInv, SlotFits, Choice, SubmitsAsOffered
<1> QED BY <1>1, <1>2, <1>3, <1>4

\* The steps of the session and of the pages.
LEMMA SessionKeeps ==
  ASSUME WizardIInv
  PROVE  /\ \A p : Navigate(p) \/ ChangeRole(p) \/ SignIn(p) => WizardIInv'
         /\ \A d : StartDemo(d) \/ Reset(d) => WizardIInv'
         /\ LeaveDemo \/ SignOut \/ Lapse \/ Reload => WizardIInv'
<1>1. ASSUME UNCHANGED <<form, sent>> PROVE WizardIInv'
  BY <1>1 DEF WizardIInv, SlotFits, Choice, SubmitsAsOffered
<1>2. ASSUME NEW p, Navigate(p) \/ ChangeRole(p) \/ SignIn(p) PROVE WizardIInv'
  BY <1>1, <1>2, ShowKeeps DEF Navigate, ChangeRole, SignIn
<1>3. ASSUME NEW d, StartDemo(d) \/ Reset(d) PROVE WizardIInv'
  BY <1>1, <1>3, ShowKeeps DEF StartDemo, Reset
<1>4. CASE LeaveDemo \/ SignOut \/ Lapse
  BY <1>1, <1>4, ShowKeeps DEF LeaveDemo, SignOut, Lapse
<1>5. CASE Reload
  BY <1>5, EmptyFormFits DEF Reload, WizardIInv, SlotFits, Choice, SubmitsAsOffered
<1> QED BY <1>2, <1>3, <1>4, <1>5

LEMMA NextKeeps == WizardIInv /\ [Next]_vars => WizardIInv'
<1> SUFFICES ASSUME WizardIInv, [Next]_vars PROVE WizardIInv'
  OBVIOUS
<1>1. ASSUME UNCHANGED <<form, sent>> PROVE WizardIInv'
  BY <1>1 DEF WizardIInv, SlotFits, Choice, SubmitsAsOffered
<1>2. CASE AnswerServices \/ Age \/ AnswerTimes \/ Retry
  BY <1>1, <1>2 DEF AnswerServices, Age, AnswerTimes, Retry
<1>3. CASE UNCHANGED vars
  BY <1>1, <1>3 DEF vars
<1> QED BY <1>2, <1>3, EditsKeep, SubmissionsKeep, SessionKeeps DEF Next

\* Whatever the customer changes, skips or repeats, and whatever fails
\* meanwhile, the wizard submits what was offered for its choices.
THEOREM SubmissionsOffered == Spec => []SubmitsAsOffered
<1>1. WizardIInv => SubmitsAsOffered
  BY DEF WizardIInv
<1> QED BY <1>1, InitFits, NextKeeps, PTL DEF Spec
=============================================================================
