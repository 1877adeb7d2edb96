----------------------------- MODULE OrderRules -----------------------------
(***************************************************************************)
(* What an order must satisfy on its way from the topic to the tables:     *)
(* ValidateOrder (internal/validators/validate_order.go), which the        *)
(* receiver asks, and the columns of db/migrations/000001_init.up.sql,     *)
(* which PostgreSQL enforces.                                              *)
(*                                                                         *)
(* An order is a record with the JSON names of models.Order.  A string is  *)
(* <<field, class>>: the field it was written to, so that values of two    *)
(* fields are never taken for each other, and how it meets the rules:      *)
(* "empty", "blank" (white space only), "fits", "long" (longer than its    *)
(* column), "nul" (with a NUL, which PostgreSQL does not take), "quoted"   *)
(* (with an apostrophe) or "doubled" (every apostrophe twice), which       *)
(* matters in an item, because saveItems formats its statement.  order_uid *)
(* is the sequence of its characters, as the API escapes them.  Integers   *)
(* are small ones.                                                         *)
(***************************************************************************)
EXTENDS Integers, Sequences, TLC

CONSTANTS UidMax,  \* the length of VARCHAR(50) and of the API's maxLength
          IntMax   \* the largest INTEGER of PostgreSQL; Go's int is wider

ASSUME RulesAssumption == UidMax \in Nat \ {0} /\ IntMax \in Nat /\ IntMax > 101

Text(f, class) == <<f, class>>

\* The string and the integer fields of the four structs.
OrderText    == {"track_number", "entry", "locale", "internal_signature", "customer_id",
                 "delivery_service", "shardkey", "oof_shard"}
OrderInt     == {"sm_id"}
DeliveryText == {"name", "phone", "zip", "city", "address", "region", "email"}
PaymentText  == {"transaction", "request_id", "currency", "provider", "bank"}
PaymentInt   == {"amount", "payment_dt", "delivery_cost", "goods_total", "custom_fee"}
ItemText     == {"track_number", "rid", "name", "size", "brand"}
ItemInt      == {"chrt_id", "price", "sale", "total_price", "nm_id", "status"}

\* Dates tell apart the zero time, the future and a fraction of a second.
Date == {"zero", "past", "past_fraction", "future"}

\* How an e-mail may meet the rules.
EmailClass == {"empty", "blank", "fits", "long", "named", "noaddress"}
-----------------------------------------------------------------------------
\* strings.TrimSpace(s) == ""
IsBlank(s) == s[2] \in {"empty", "blank"}

\* Mutant: the format is not checked.
isValidEmailAny(s) == TRUE

\* mail.ParseAddress: also a name before the address ("named").
isValidEmail(s) == s[2] # "noaddress"

\* order_uid is not trimmed, internal_signature is not looked at.
validateOrderMain(o) ==
  /\ o.order_uid # <<>>
  /\ \A f \in OrderText \ {"internal_signature"} : ~IsBlank(o[f])
  /\ o.sm_id >= 0
  /\ o.date_created \notin {"zero", "future"}

validateDelivery(d) ==
  /\ \A f \in DeliveryText : ~IsBlank(d[f])
  /\ isValidEmail(d.email)

\* request_id is not looked at.
validatePayment(p) ==
  /\ \A f \in PaymentText \ {"request_id"} : ~IsBlank(p[f])
  /\ \A f \in PaymentInt \ {"payment_dt"} : p[f] >= 0
  /\ p.payment_dt > 0

\* Mutant: sale has no upper bound.
validateItemAnySale(i) ==
  /\ \A f \in ItemText : ~IsBlank(i[f])
  /\ i.chrt_id > 0 /\ i.nm_id > 0
  /\ \A f \in {"price", "total_price", "status", "sale"} : i[f] >= 0

validateItem(i) ==
  /\ \A f \in ItemText : ~IsBlank(i[f])
  /\ i.chrt_id > 0 /\ i.nm_id > 0
  /\ \A f \in {"price", "total_price", "status"} : i[f] >= 0
  /\ i.sale >= 0 /\ i.sale <= 100

validateItems(items) ==
  /\ Len(items) > 0
  /\ \A n \in 1..Len(items) : validateItem(items[n])

ValidateOrder(o) ==
  /\ validateOrderMain(o) /\ validateDelivery(o.delivery)
  /\ validatePayment(o.payment) /\ validateItems(o.items)
-----------------------------------------------------------------------------
(***************************************************************************)
(* The tables, as SaveOrder fills them.                                    *)
(***************************************************************************)
Holds(s) == s[2] \notin {"long", "nul"}         \* VARCHAR(n)
InInteger(n) == n >= -IntMax - 1 /\ n <= IntMax \* INTEGER

\* BIGINT columns take every Go int.
ColumnsHold(o) ==
  /\ Len(o.order_uid) <= UidMax
  /\ \A f \in OrderText : Holds(o[f])
  /\ \A f \in DeliveryText : Holds(o.delivery[f])
  /\ \A f \in PaymentText : Holds(o.payment[f])
  /\ InInteger(o.sm_id)
  /\ \A f \in PaymentInt \ {"payment_dt"} : InInteger(o.payment[f])
  /\ \A n \in 1..Len(o.items) :
       /\ \A f \in ItemText : Holds(o.items[n][f])
       /\ \A f \in ItemInt \ {"chrt_id", "nm_id"} : InInteger(o.items[n][f])

\* PRIMARY KEY (order_id, nm_id)
ItemsDistinct(o) ==
  \A m, n \in 1..Len(o.items) : o.items[m].nm_id = o.items[n].nm_id => m = n

\* The CHECKs of payments and order_items.
ChecksHold(o) ==
  /\ \A f \in PaymentInt \ {"payment_dt"} : o.payment[f] >= 0
  /\ \A n \in 1..Len(o.items) :
       /\ o.items[n].price >= 0 /\ o.items[n].total_price >= 0
       /\ o.items[n].sale >= 0 /\ o.items[n].sale <= 100

\* saveItems puts order_uid and the strings of the items between apostrophes
\* as they are: one apostrophe more makes the statement another one, which
\* fails (a text made to be SQL is left out).  Doubled ones are taken for
\* single ones, and then no order has that order_uid.
ItemsWritable(o) ==
  /\ \A n \in 1..Len(o.order_uid) : o.order_uid[n] # "'"
  /\ \A n \in 1..Len(o.items) : \A f \in ItemText : o.items[n][f][2] # "quoted"

TablesTake(o) == ColumnsHold(o) /\ ItemsWritable(o) /\ ItemsDistinct(o) /\ ChecksHold(o)
-----------------------------------------------------------------------------
(***************************************************************************)
(* Orders a producer may send: a plain one with k items, or one that       *)
(* departs from it in a single field.                                      *)
(***************************************************************************)
Texts(F) == [f \in F |-> Text(f, "fits")]

Plain(uid, k) ==
  [order_uid |-> uid, date_created |-> "past", sm_id |-> 1,
   delivery  |-> Texts(DeliveryText),
   payment   |-> Texts(PaymentText) @@
                 [amount |-> 2, payment_dt |-> 3, delivery_cost |-> 4,
                  goods_total |-> 5, custom_fee |-> 6],
   items     |-> [n \in 1..k |-> Texts(ItemText) @@
                    [chrt_id |-> 7, price |-> 8, sale |-> 9, total_price |-> 10,
                     nm_id |-> 10 + n, status |-> 13]]] @@ Texts(OrderText)

TextValues(f) == {Text(f, c) : c \in {"empty", "blank", "long"}
                              \cup (IF f = "email" THEN {"named", "noaddress"}
                                    ELSE {"nul", "quoted", "doubled"})}
IntValues == {-1, 0, 100, 101, IntMax, IntMax + 1}

\* Records that differ from r in one of the fields T (strings) or N (integers).
Departures(r, T, N) ==
  UNION {{[r EXCEPT ![f] = v] : v \in TextValues(f)} : f \in T}
    \cup {[r EXCEPT ![f] = v] : f \in N, v \in IntValues}

Candidates(uid) ==
  LET o   == Plain(uid, 1)
      two == Plain(uid, 2)
  IN  {o} \cup Departures(o, OrderText, OrderInt)
          \cup {[o EXCEPT !.date_created = d] : d \in Date}
          \cup {[o EXCEPT !.delivery = d] : d \in Departures(o.delivery, DeliveryText, {})}
          \cup {[o EXCEPT !.payment = p] : p \in Departures(o.payment, PaymentText, PaymentInt)}
          \cup {[two EXCEPT !.items[2] = i] : i \in Departures(two.items[2], ItemText, ItemInt)}
          \cup {[o EXCEPT !.items = s] : s \in {<<>>, <<o.items[1], o.items[1]>>}}
=============================================================================
