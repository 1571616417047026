---------------------------- MODULE MCBackOffice ----------------------------
(***************************************************************************)
(* Small instances of BackOffice for TLC.                                  *)
(***************************************************************************)
EXTENDS BackOffice, TLC

CONSTANTS a, b, c,   \* requests and scripts
          shop, d1,  \* the real shop and a sandbox
          k1, k2,    \* names, addresses, weekdays, windows
          k3,        \* another spelling of k2, a window that overlaps k2's
          slash,     \* a name with a backslash
          blank,     \* the empty name
          u, v       \* barbers

Answering ==
  (k1 :> {k1}) @@ (k2 :> {k2, k3}) @@ (k3 :> {k2, k3}) @@ (slash :> {})
    @@ (blank :> {blank})

WindowOf == [k \in Keys |-> IF k = k1 THEN u ELSE v]

\* A target without times, and a weekday with its times.
Plain(kind, table, key) ==
  [kind |-> kind, table |-> table, key |-> key, opens |-> 1, closes |-> 2,
   closed |-> FALSE]

Day(key, opens, closes, closed) ==
  [kind |-> "replace", table |-> "hours", key |-> key,
   opens |-> opens, closes |-> closes, closed |-> closed]

Job(s, targets) == [shop |-> s, targets |-> targets]

Row(table, s, n, key, opens, closes, closed) ==
  [table |-> table, shop |-> s, id |-> <<Before, n>>, key |-> key,
   opens |-> opens, closes |-> closes, closed |-> closed, by |-> Before]

\* The sandbox's weekday is closed.
ShopRows ==
  {Row("service", shop, 1, k1, 1, 2, FALSE),
   Row("service", d1, 2, k1, 1, 2, FALSE),
   Row("absence", shop, 3, k1, 1, 2, FALSE),
   Row("hours", shop, 4, k1, 1, 3, FALSE),
   Row("hours", d1, 5, k1, 1, 3, TRUE),
   Row("service", shop, 6, slash, 1, 2, FALSE)}

\* One job of every kind, and those that can collide with it.
OfficeJobs ==
  {Job(shop, <<Plain("add", "service", k2)>>),
   Job(shop, <<Plain("add", "service", slash)>>),
   Job(d1, <<Plain("rename", "service", k2)>>),
   Job(shop, <<Plain("rename", "service", k3)>>),
   Job(shop, <<Plain("rename", "service", blank)>>),
   Job(shop, <<Plain("add", "user", k1)>>),
   Job(d1, <<Plain("add", "user", k1)>>),
   Job(shop, <<Plain("ensure", "profile", k1)>>),
   Job(shop, <<Plain("add", "absence", k2)>>),
   Job(shop, <<Plain("add", "absence", k3)>>),
   Job(d1, <<Plain("remove", "absence", k1)>>),
   Job(shop, <<Plain("add", "extra", k3)>>),
   Job(shop, <<Plain("ensure", "user", k1), Plain("seed", "extra", k1),
               Plain("seed", "extra", k2), Plain("seed", "hours", k1)>>)}

\* The sandbox's day is opened by one request, while another leaves it closed
\* and turns its times round.
WeekJobs ==
  {Job(shop, <<Day(k1, 1, 2, FALSE), Day(k2, 1, 2, FALSE)>>),
   Job(shop, <<Day(k2, 2, 3, FALSE), Day(k1, 2, 3, FALSE)>>),
   Job(d1, <<Day(k1, 2, 3, FALSE), Day(k2, 1, 2, FALSE)>>),
   Job(d1, <<Day(k2, 1, 3, FALSE), Day(k1, 3, 1, TRUE)>>)}

AnyJobs ==
  [t \in {a, b, c} |->
     IF t = c THEN {Job(shop, <<Plain("add", "service", k2)>>),
                    Job(d1, <<Day(k2, 1, 2, FALSE), Day(k1, 1, 2, FALSE)>>)}
     ELSE OfficeJobs \cup WeekJobs]
=============================================================================
