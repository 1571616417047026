SPECIFICATION Spec
CONSTANTS
  real = real  d1 = d1  d2 = d2
  short = short  long = long  demo = demo  wash = wash
  ana = ana  leo = leo  mon = mon  tue = tue
  None = None
  Real = real
  Sandboxes = {d1, d2}
  Services = {short, long, demo}
  Extras = {wash}
  Barbers = {leo}
  Dates = {mon, tue}
  Today = mon
  Slots <- Times
  ShopOf <- Belongs
  Offer <- Listed
INVARIANTS
  SubmitsAsOffered
