------------------------------ MODULE ApiCodec ------------------------------
(***************************************************************************)
(* The JSON of the generated API (internal/api/oas_json_gen.go) and the    *)
(* checks of oas_validators_gen.go.                                        *)
(*                                                                         *)
(* A document is what the parser (jx, external) hands to a Decode method:  *)
(* an object is the sequence of its members, [key, val]; a value is        *)
(* [t, v], its JSON type and what it holds.  A Go struct is a record with  *)
(* the JSON names; an OptString is [Set, Value]; the slice items is        *)
(* [isNil, elems].                                                         *)
(***************************************************************************)
EXTENDS OrderRules

\* jsonFieldsNameOf...: the fields of each struct, in the order of their bits.
NamesOfDelivery  == <<"name", "phone", "zip", "city", "address", "region", "email">>
NamesOfPayment   == <<"transaction", "request_id", "currency", "provider", "amount",
                      "payment_dt", "bank", "delivery_cost", "goods_total", "custom_fee">>
NamesOfOrderItem == <<"chrt_id", "track_number", "price", "rid", "name", "sale", "size",
                      "total_price", "nm_id", "brand", "status">>
NamesOfOrderResponse ==
  <<"order_uid", "track_number", "entry", "delivery", "payment", "items", "locale",
    "internal_signature", "customer_id", "delivery_service", "shardkey", "sm_id",
    "date_created", "oof_shard">>
NamesOfError     == <<"message">>

IntNames == OrderInt \cup PaymentInt \cup ItemInt
OptNames == {"internal_signature", "request_id"}
-----------------------------------------------------------------------------
(***************************************************************************)
(* Encode.                                                                 *)
(***************************************************************************)
Str(v) == [t |-> "string", v |-> v]
Num(v) == [t |-> "number", v |-> v]
Null   == [t |-> "null", v |-> 0]

\* json.EncodeDateTime (external) writes RFC 3339, without fractions.
DateTime(d) == IF d = "past_fraction" THEN "past" ELSE d

\* The value of a field that is no struct: e.Str, e.Int, e.Int64 and
\* OptString.Encode.
EncodeScalar(f, v) ==
  IF f \in IntNames THEN Num(v)
  ELSE IF f \in OptNames THEN Str(v.Value)
  ELSE IF f = "date_created" THEN Str(DateTime(v))
  ELSE Str(v)

\* A member of an object.
Pair(f, val) == [key |-> f, val |-> val]

\* The members of ms whose key is in keys, in their order.
Keep(acc, m, keys) == IF m.key \in keys THEN Append(acc, m) ELSE acc

Kept(ms, keys) ==
  LET walk[n \in 0..Len(ms)] == IF n = 0 THEN <<>> ELSE Keep(walk[n - 1], ms[n], keys)
  IN  walk[Len(ms)]

\* encodeFields: an OptString that is not set is left out.
Written(s, names) == {f \in {names[n] : n \in 1..Len(names)} : f \in OptNames => s[f].Set}

EncodeFields(s, names) ==
  Kept([n \in 1..Len(names) |-> Pair(names[n], EncodeScalar(names[n], s[names[n]]))],
       Written(s, names))

Obj(members) == [t |-> "object", v |-> members]

EncodeDelivery(s)  == EncodeFields(s, NamesOfDelivery)
EncodePayment(s)   == EncodeFields(s, NamesOfPayment)
EncodeOrderItem(s) == EncodeFields(s, NamesOfOrderItem)
EncodeError(s)     == EncodeFields(s, NamesOfError)

\* The value of a field of OrderResponse.
EncodeValue(f, v) ==
  CASE f = "delivery" -> Obj(EncodeDelivery(v))
    [] f = "payment"  -> Obj(EncodePayment(v))
    [] f = "items"    -> [t |-> "array",
                          v |-> [n \in 1..Len(v.elems) |-> Obj(EncodeOrderItem(v.elems[n]))]]
    [] OTHER          -> EncodeScalar(f, v)

EncodeOrderResponse(s) ==
  LET names == NamesOfOrderResponse
  IN  Kept([n \in 1..Len(names) |-> Pair(names[n], EncodeValue(names[n], s[names[n]]))],
           Written(s, names))
-----------------------------------------------------------------------------
(***************************************************************************)
(* Decode.  What a Decode method has when it returns: the struct s, whether*)
(* a value had the wrong type (bad) and the names of the required fields   *)
(* that are missing.                                                       *)
(***************************************************************************)
Got(s)  == [s |-> s, bad |-> FALSE, missed |-> {}]
Bad(s)  == [s |-> s, bad |-> TRUE, missed |-> {}]
Fine(r) == ~r.bad /\ r.missed = {}

\* The same outcome with the struct s.
Over(r, s) == [s |-> s, bad |-> r.bad, missed |-> r.missed]

\* d.Str, d.Int, d.Int64, DecodeDateTime and OptString.Decode: null or
\* another type is an error.
DecodeScalar(old, f, val) ==
  CASE f \in IntNames -> IF val.t = "number" THEN Got(val.v) ELSE Bad(old)
    [] f \in OptNames -> IF val.t = "string" THEN Got([Set |-> TRUE, Value |-> val.v])
                         ELSE Bad([old EXCEPT !.Set = TRUE])
    [] OTHER          -> IF val.t = "string" THEN Got(val.v) ELSE Bad(old)

\* The masks of "Validate required fields": per byte of requiredBitSet the
\* bits that must be set.
MaskOfDelivery      == <<{0, 1, 2, 3, 4, 5, 6}>>
MaskOfPayment       == <<{0, 2, 3, 4, 5, 6, 7}, {0, 1}>>
MaskOfOrderItem     == <<{0, 1, 2, 3, 4, 5, 6, 7}, {0, 1, 2}>>
MaskOfError         == <<{0}>>
\* Mutant: the bit of internal_signature is counted in.
MaskOfOrderResponseAll == <<{0, 1, 2, 3, 4, 5, 6, 7}, {0, 1, 2, 3, 4, 5}>>
MaskOfOrderResponse == <<{0, 1, 2, 3, 4, 5, 6}, {0, 1, 2, 3, 4, 5}>>

\* (bits & mask) ^ mask, for every byte; fieldIdx = i * 8 + bitIdx.
Missed(bits, mask, names) ==
  UNION {{names[(i - 1) * 8 + b + 1] : b \in mask[i] \ bits[i]} : i \in 1..Len(mask)}

\* Decode at its start: no bit of requiredBitSet is set.
Begin(start, mask) == [s |-> start, bits |-> [i \in 1..Len(mask) |-> {}], end |-> Got(0)]

Index(names, f) == CHOOSE n \in 1..Len(names) : names[n] = f

\* ObjBytes calls back for every member: a known key sets the bit of its
\* field, unless it is optional, and the struct takes what the value was
\* decoded to, r; an unknown one is skipped; the first error ends it.
Member(acc, m, names, r) ==
  LET at == Index(names, m.key) - 1
  IN  IF ~Fine(acc.end) \/ \A n \in 1..Len(names) : names[n] # m.key THEN acc
      ELSE [s    |-> [acc.s EXCEPT ![m.key] = r.s],
            bits |-> IF m.key \in OptNames THEN acc.bits
                     ELSE [acc.bits EXCEPT ![at \div 8 + 1] = @ \cup {at % 8}],
            end  |-> r]

\* Decode at its end: the error of a member, or the required fields missing.
Ended(last, names, mask) ==
  IF ~Fine(last.end) THEN Over(last.end, last.s)
  ELSE [s |-> last.s, bad |-> FALSE, missed |-> Missed(last.bits, mask, names)]

\* Decode of a struct of scalars, over what it has.
DecodeField(acc, m, names) ==
  Member(acc, m, names, DecodeScalar(acc.s[m.key], m.key, m.val))

DecodeFields(start, doc, names, mask) ==
  LET walk[n \in 0..Len(doc)] ==
        IF n = 0 THEN Begin(start, mask) ELSE DecodeField(walk[n - 1], doc[n], names)
  IN  Ended(walk[Len(doc)], names, mask)

\* The zero values of the structs.
ZeroOpt(f) == [Set |-> FALSE, Value |-> Text(f, "empty")]
Zero(f)    == IF f \in IntNames THEN 0 ELSE IF f \in OptNames THEN ZeroOpt(f) ELSE Text(f, "empty")
ZeroDelivery  == [f \in DeliveryText |-> Zero(f)]
ZeroPayment   == [f \in PaymentText \cup PaymentInt |-> Zero(f)]
ZeroOrderItem == [f \in ItemText \cup ItemInt |-> Zero(f)]
ZeroOrderResponse ==
  [f \in OrderText \cup OrderInt \cup {"order_uid", "date_created", "delivery", "payment", "items"} |->
     CASE f = "order_uid"    -> <<>>
       [] f = "date_created" -> "zero"
       [] f = "delivery"     -> ZeroDelivery
       [] f = "payment"      -> ZeroPayment
       [] f = "items"        -> [isNil |-> TRUE, elems |-> <<>>]
       [] OTHER              -> Zero(f)]
ZeroError == [message |-> "none"]

DecodeDelivery(old, doc) == DecodeFields(old, doc, NamesOfDelivery, MaskOfDelivery)
DecodePayment(old, doc)  == DecodeFields(old, doc, NamesOfPayment, MaskOfPayment)
DecodeOrderItem(doc)     == DecodeFields(ZeroOrderItem, doc, NamesOfOrderItem, MaskOfOrderItem)
DecodeError(doc)         == DecodeFields(ZeroError, doc, NamesOfError, MaskOfError)

\* The elements of items: the first that does not decode ends it.
DecodeElem(acc, e) ==
  LET r == DecodeOrderItem(e.v)
  IN  IF ~Fine(acc) THEN acc
      ELSE IF e.t # "object" THEN Bad(acc.s)
      ELSE IF Fine(r) THEN Got(Append(acc.s, r.s)) ELSE Over(r, acc.s)

DecodeElems(es) ==
  LET walk[n \in 0..Len(es)] == IF n = 0 THEN Got(<<>>) ELSE DecodeElem(walk[n - 1], es[n])
  IN  walk[Len(es)]

\* d.Arr: items starts as an empty slice that is not nil.
DecodeItems(val) ==
  LET r == IF val.t = "array" THEN DecodeElems(val.v) ELSE Bad(<<>>)
  IN  Over(r, [isNil |-> FALSE, elems |-> r.s])

\* The value of a field of OrderResponse.
DecodeValue(old, f, val) ==
  CASE f = "delivery" -> IF val.t = "object" THEN DecodeDelivery(old, val.v) ELSE Bad(old)
    [] f = "payment"  -> IF val.t = "object" THEN DecodePayment(old, val.v) ELSE Bad(old)
    [] f = "items"    -> DecodeItems(val)
    [] OTHER          -> DecodeScalar(old, f, val)

DecodeOrderField(acc, m) ==
  Member(acc, m, NamesOfOrderResponse, DecodeValue(acc.s[m.key], m.key, m.val))

DecodeOrderResponse(doc) ==
  LET walk[n \in 0..Len(doc)] ==
        IF n = 0 THEN Begin(ZeroOrderResponse, MaskOfOrderResponse)
        ELSE DecodeOrderField(walk[n - 1], doc[n])
  IN  Ended(walk[Len(doc)], NamesOfOrderResponse, MaskOfOrderResponse)
-----------------------------------------------------------------------------
(***************************************************************************)
(* Validate, which the client calls on what it decoded.  What ogen's       *)
(* e-mail check (external) says of a name before the address is left open: *)
(* named tells it.                                                         *)
(***************************************************************************)
ValidateDelivery(s, named) ==
  s.email[2] \in {"fits", "long"} \cup (IF named THEN {"named"} ELSE {})

ValidateOrderItem(s) == s.sale >= 0 /\ s.sale <= 100

ValidateOrderResponse(s, named) ==
  /\ ValidateDelivery(s.delivery, named)
  /\ ~s.items.isNil
  /\ \A n \in 1..Len(s.items.elems) : ValidateOrderItem(s.items.elems[n])
=============================================================================
