----------------------------- MODULE ApiProofs -----------------------------
(***************************************************************************)
(* The theorems about OrderApi: validator and tables, for every order      *)
(* whatever its fields hold; the way of an id from the client to the       *)
(* handler, for every id and for every request of another client; the      *)
(* types of the whole exchange; that an answer is the one asked for, and   *)
(* what the client makes of it, through the documents of CodecProofs.      *)
(***************************************************************************)
EXTENDS OrderApi, CodecProofs
LOCAL INSTANCE SequencesExt
-----------------------------------------------------------------------------
(***************************************************************************)
(* The steps.                                                              *)
(***************************************************************************)
\* What another version of the API may do to an object of the reply.
IsFault(f) ==
  /\ f.kind \in {"dropped", "null", "twice", "more"}
  /\ f.obj \in Objects /\ f.fields \subseteq FieldsOf(f.obj)

\* The steps in which it does.
ArrivesOther == \E f : IsFault(f) /\ ArrivesChanged(f)

\* The steps of the system.
LEMMA NextCases ==
  ASSUME Next
  PROVE  \/ ReceiveOrder
         \/ \E id \in Ids : SendOrderIDGet(id)
         \/ \E r \in Others : SendOther(r)
         \/ ServeHTTP
         \/ OrderFound \/ OrderNotFound \/ GetOrderFails \/ HandlerPanics
         \/ ArrivesWhole \/ ArrivesCut \/ ArrivesTrailing
         \/ ArrivesOther
         \/ ConnectionLost
         \/ OrderIDGetReturns
<1>1. ASSUME NEW kind \in {"dropped", "null", "twice", "more"}, NEW obj \in Objects,
             NEW F, F \subseteq FieldsOf(obj), ArrivesChanged(Fault(kind, obj, F))
      PROVE  ArrivesOther
  <2>1. IsFault(Fault(kind, obj, F))
    BY <1>1 DEF IsFault, Fault
  <2> QED
    BY <1>1, <2>1, Zenon DEF ArrivesOther
<1>2. ASSUME NEW obj \in Objects, NEW f \in FieldsOf(obj), NEW g \in FieldsOf(obj), ArrivesWithout(obj, {f, g})
      PROVE  ArrivesOther
  <2>1. {f, g} \subseteq FieldsOf(obj)
    BY Zenon
  <2> QED
    BY <1>1, <1>2, <2>1 DEF ArrivesWithout
<1>3. ASSUME NEW obj \in Objects, NEW f \in FieldsOf(obj), ArrivesWithNull(obj, f) \/ ArrivesWithTwice(obj, f)
      PROVE  ArrivesOther
  <2>1. {f} \subseteq FieldsOf(obj)
    BY Zenon
  <2> QED
    BY <1>1, <1>3, <2>1 DEF ArrivesWithNull, ArrivesWithTwice
<1>4. ASSUME NEW obj \in Objects, ArrivesWithMore(obj)
      PROVE  ArrivesOther
  BY <1>1, <1>4 DEF ArrivesWithMore
<1> QED
  BY <1>2, <1>3, <1>4, ZenonT(60) DEF Next
-----------------------------------------------------------------------------
(***************************************************************************)
(* The validator and the tables.                                           *)
(***************************************************************************)
\* What ValidateOrder (validate_order.go) lets pass satisfies every CHECK of
\* payments and order_items.
LEMMA ValidatorCoversChecks ==
  ASSUME NEW o, ValidateOrder(o)
  PROVE  ChecksHold(o)
  <1>1. \A f \in PaymentInt \ {"payment_dt"} : o.payment[f] >= 0
    BY DEF ValidateOrder, validatePayment
  <1>2. \A n \in 1..Len(o.items) : validateItem(o.items[n])
    BY DEF ValidateOrder, validateItems
  <1>3. ASSUME NEW i, validateItem(i)
        PROVE  i.price >= 0 /\ i.total_price >= 0 /\ i.sale >= 0 /\ i.sale <= 100
    <2>1. i["price"] >= 0 /\ i["total_price"] >= 0 BY <1>3 DEF validateItem
    <2> QED BY <2>1, <1>3 DEF validateItem
  <1> QED BY <1>1, <1>2, <1>3 DEF ChecksHold

\* An order the tables refused had passed the validator.
RefusedInv == fate = "refused" => ValidateOrder(order)

\* Only the consumer touches the order.
LEMMA FateIsSettledOnce ==
  Next => ReceiveOrder \/ UNCHANGED <<order, fate>>
  BY NextCases, ZenonT(60) DEF SendOrderIDGet, SendOther, ServeHTTP, OrderFound, OrderNotFound,
         GetOrderFails, Answers, HandlerPanics, ArrivesWhole, ArrivesCut, ArrivesTrailing,
         ArrivesOther, ArrivesChanged, Arrives, ConnectionLost, OrderIDGetReturns

\* No CHECK of the tables (000001_init.up.sql) ever refuses an order that
\* ValidateOrder let pass, for any order and any limits.
THEOREM ChecksAreCovered == Spec => []ChecksNeverFire
  <1>1. Init => RefusedInv BY DEF Init, RefusedInv, None
  <1>2. RefusedInv /\ [Next]_vars => RefusedInv'
    <2> SUFFICES ASSUME RefusedInv, [Next]_vars PROVE RefusedInv'
      OBVIOUS
    <2>1. CASE ReceiveOrder BY <2>1 DEF ReceiveOrder, RefusedInv
    <2>2. CASE UNCHANGED <<order, fate>> BY <2>2 DEF RefusedInv
    <2> QED BY <2>1, <2>2, FateIsSettledOnce DEF vars
  <1>3. RefusedInv => ChecksNeverFire
    BY ValidatorCoversChecks DEF RefusedInv, ChecksNeverFire
  <1> QED BY <1>1, <1>2, <1>3, PTL DEF Spec
-----------------------------------------------------------------------------
(***************************************************************************)
(* The way of an id.                                                       *)
(***************************************************************************)
\* The escaping of single characters, case by case.
LEMMA EscapeFacts ==
  /\ Escape("a") = "a" /\ Escape("/") = "%2F" /\ Escape("%") = "%25"
  /\ Unescape("a") = "a" /\ Unescape("/") = "/" /\ Unescape("%2F") = "/" /\ Unescape("%25") = "%"
  /\ Unescape("%61") = "a"
  BY Zenon DEF Escape, Unescape

\* url.PathEscape, then unescaping, is the identity on ids.
LEMMA RoundTrip ==
  ASSUME NEW id \in Seq(Char)
  PROVE  Map(Unescape, Map(Escape, id)) = id
<1>1. \A n \in 1..Len(id) : Unescape(Escape(id[n])) = id[n]
  BY EscapeFacts DEF Char
<1>2. Map(Escape, id) = [n \in 1..Len(id) |-> Escape(id[n])]
  BY DEF Map
<1> QED
  BY <1>1, <1>2 DEF Map

\* On the symbols of a path PathUnescape never fails: a "%" comes only as
\* part of an escape.
LEMMA NoPercent ==
  ASSUME NEW s \in Seq(Symbol)
  PROVE  ~PathUnescape(s).err /\ PathUnescape(s).value = Map(Unescape, s)
  BY DEF PathUnescape, Contains, Symbol

\* NormalizeEscapedPath keeps what a path means.
LEMMA NormalizeFacts ==
  ASSUME NEW s \in Seq(Symbol)
  PROVE  /\ Normalize(s) \in Seq(Symbol) /\ Len(Normalize(s)) = Len(s)
         /\ \A n \in 1..Len(s) : Normalize(s)[n] = IF s[n] = "%61" THEN "a" ELSE s[n]
         /\ Map(Unescape, Normalize(s)) = Map(Unescape, s)
<1> DEFINE t == [n \in 1..Len(s) |-> IF s[n] = "%61" THEN "a" ELSE s[n]]
<1>1. Normalize(s) = t
  BY DEF Normalize, Map
<1>2. t \in [1..Len(s) -> Symbol]
  BY DEF Symbol
<1>3. t \in Seq(Symbol) /\ Len(t) = Len(s)
  BY <1>2
<1>4. \A n \in 1..Len(s) : Unescape(t[n]) = Unescape(s[n])
  BY EscapeFacts
<1> HIDE DEF t
<1>5. Map(Unescape, t) = Map(Unescape, s)
  BY <1>3, <1>4 DEF Map
<1> QED
  BY <1>1, <1>3, <1>5 DEF t

\* The path ServeHTTP matches.
Matched(wire) == Elem(ParseURL(wire)).rest

\* Which path that is: Path when the escaping on the wire is the usual one,
\* else RawPath, normalized, still escaped exactly when a slash or a percent
\* sign is.
LEMMA ParseFacts ==
  ASSUME NEW wire, wire.rest \in Seq(Symbol)
  PROVE  LET url == ParseURL(wire)
         IN  /\ url.prefix = wire.prefix /\ url.path = Map(Unescape, wire.rest)
             /\ \/ url.raw = <<>> /\ Matched(wire) = url.path /\ ~Elem(url).escaped
                \/ /\ url.raw = wire.rest /\ url.raw # <<>> /\ Matched(wire) = Normalize(wire.rest)
                   /\ Elem(url).escaped <=> \E n \in 1..Len(wire.rest) : wire.rest[n] \in {"%2F", "%25"}
<1> DEFINE url == ParseURL(wire)
<1>1. /\ url.prefix = wire.prefix /\ url.path = Map(Unescape, wire.rest)
      /\ url.raw = <<>> \/ url.raw = wire.rest
  BY DEF ParseURL
<1> HIDE DEF url
<1>2. CASE url.raw = <<>>
  BY <1>1, <1>2 DEF Matched, Elem, url
<1>3. CASE url.raw # <<>>
  <2>1. /\ Elem(url).rest = Normalize(wire.rest)
        /\ Elem(url).escaped <=> \/ Contains(Normalize(wire.rest), "%2F")
                                 \/ Contains(Normalize(wire.rest), "%25")
    BY <1>1, <1>3 DEF Elem
  <2>2. \A c \in {"%2F", "%25"} : Contains(Normalize(wire.rest), c) <=>
                                  \E n \in 1..Len(wire.rest) : wire.rest[n] = c
    BY NormalizeFacts DEF Contains
  <2> QED
    BY <1>1, <1>3, <2>1, <2>2 DEF Matched, url
<1> QED
  BY <1>2, <1>3

\* decodeOrderIDGetParams gets the id the path means, unescaped once and not
\* twice, and fails exactly for the lengths the specification excludes.
LEMMA ParamFacts ==
  ASSUME NEW wire, wire.rest \in Seq(Symbol)
  PROVE  LET params == DecodeParams(Matched(wire), Elem(ParseURL(wire)).escaped)
         IN  /\ params.id = Map(Unescape, wire.rest)
             /\ params.err <=> Len(wire.rest) \notin 1..UidMax
<1> DEFINE url == ParseURL(wire)
           elem == Matched(wire)
           value == Map(Unescape, wire.rest)
           ok == Elem(url).escaped
           params == DecodeParams(elem, ok)
<1>1. Len(value) = Len(wire.rest)
  BY DEF Map
<1>2. CASE url.raw = <<>> /\ elem = value /\ ~ok
  <2> HIDE DEF value, ok, elem
  <2>1. params.id = value /\ (params.err <=> Len(value) \notin 1..UidMax)
    BY <1>2 DEF DecodeParams
  <2> QED
    BY <1>1, <2>1 DEF value, ok, elem
<1>3. CASE ok /\ elem = Normalize(wire.rest)
  <2>1. ~PathUnescape(elem).err /\ PathUnescape(elem).value = value
    BY <1>3, NormalizeFacts, NoPercent
  <2> HIDE DEF value, ok, elem
  <2>2. params.id = value /\ (params.err <=> Len(value) \notin 1..UidMax)
    BY <1>3, <2>1 DEF DecodeParams
  <2> QED
    BY <1>1, <2>2 DEF value, ok, elem
<1>4. CASE /\ ~ok /\ elem = Normalize(wire.rest)
           /\ \A n \in 1..Len(wire.rest) : wire.rest[n] \notin {"%2F", "%25"}
  <2>1. \A n \in 1..Len(wire.rest) : Unescape(wire.rest[n]) = IF wire.rest[n] = "%61" THEN "a" ELSE wire.rest[n]
    BY <1>4, EscapeFacts DEF Symbol
  <2>2. elem = value
    BY <1>4, <2>1 DEF Normalize, Map
  <2> HIDE DEF value, ok, elem
  <2>3. params.id = value /\ (params.err <=> Len(value) \notin 1..UidMax)
    BY <1>4, <2>2 DEF DecodeParams
  <2> QED
    BY <1>1, <2>3 DEF value, ok, elem
<1> QED
  BY <1>2, <1>3, <1>4, ParseFacts

\* The switch of FindPath finds what that of ServeHTTP gives to OrderIDGet.
LEMMA SwitchesAgree ==
  ASSUME NEW prefix, NEW rest, NEW method
  PROVE  Matches(prefix, rest, method) <=> Route(prefix, rest, method) = "OrderIDGet"
  BY DEF Matches, Route, Contains

\* FindPath, the second copy of the router, finds the operation when the
\* first one does, with the id the path means.
LEMMA FindFacts ==
  ASSUME NEW wire, wire.rest \in Seq(Symbol), NEW method
  PROVE  LET url == ParseURL(wire)
             path == FindPath(method, url)
         IN  /\ path.found <=> Route(url.prefix, Matched(wire), method) = "OrderIDGet"
             /\ path.found => path.arg = Map(Unescape, wire.rest)
<1> DEFINE url == ParseURL(wire)
           elem == Matched(wire)
           value == Map(Unescape, wire.rest)
           path == FindPath(method, url)
<1>1. elem = IF url.raw # <<>> THEN Normalize(url.raw) ELSE url.path
  BY DEF Matched, Elem
<1> HIDE DEF elem
<1>2. path = IF ~Matches(url.prefix, elem, method) THEN [found |-> FALSE, arg |-> <<>>]
             ELSE [found |-> TRUE,
                   arg |-> IF url.raw # <<>> /\ ~PathUnescape(elem).err
                           THEN PathUnescape(elem).value ELSE elem]
  BY <1>1 DEF FindPath
<1>3. \/ url.raw = <<>> /\ elem = value
      \/ url.raw # <<>> /\ elem = Normalize(wire.rest)
  BY ParseFacts DEF elem
<1>4. elem = Normalize(wire.rest) => ~PathUnescape(elem).err /\ PathUnescape(elem).value = value
  BY NormalizeFacts, NoPercent
<1> HIDE DEF path, url, value
<1>5. path.found <=> Route(url.prefix, elem, method) = "OrderIDGet"
  BY <1>2, SwitchesAgree
<1>6. path.found => path.arg = value
  BY <1>2, <1>3, <1>4
<1> QED
  BY <1>5, <1>6 DEF path, url, value, elem

\* What the client writes into a path is routed to OrderIDGet and means the
\* id it was given: an escaped slash does not end the parameter.
LEMMA OwnIsRouted ==
  ASSUME NEW id \in Seq(Char), NEW wire, wire = [prefix |-> "/order/", rest |-> Map(Escape, id)]
  PROVE  /\ wire.rest \in Seq(Symbol) /\ Len(wire.rest) = Len(id)
         /\ Map(Unescape, wire.rest) = id
         /\ Route("/order/", Matched(wire), "GET") = "OrderIDGet"
<1> DEFINE s == [n \in 1..Len(id) |-> Escape(id[n])]
<1>1. wire.rest = s /\ wire.prefix = "/order/"
  BY DEF Map
<1>2. \A n \in 1..Len(id) : Escape(id[n]) \in Symbol \ {"/"}
  BY EscapeFacts DEF Char, Symbol
<1>3. s \in [1..Len(id) -> Symbol]
  BY <1>2
<1>4. s \in Seq(Symbol) /\ Len(s) = Len(id)
  BY <1>3
<1>5. Map(Unescape, wire.rest) = id
  BY RoundTrip
<1>6. ~Contains(Matched(wire), "/")
  <2>1. CASE Matched(wire) = Normalize(wire.rest)
    <3>1. \A n \in 1..Len(s) : Normalize(s)[n] # "/"
      BY <1>2, <1>4, NormalizeFacts
    <3>2. Len(Normalize(s)) = Len(s)
      BY <1>4, NormalizeFacts
    <3> HIDE DEF s
    <3> QED
      BY <1>1, <2>1, <3>1, <3>2 DEF Contains
  <2>2. CASE ParseURL(wire).raw = <<>> /\ Matched(wire) = id
    <3> DEFINE usual(c) == IF c = "/" THEN "/" ELSE Escape(c)
    <3>1. s = Map(usual, id)
      <4>1. CASE s = <<>>
        BY <1>4, <4>1 DEF Map
      <4>2. CASE s # <<>>
        BY <1>1, <1>5, <2>2, <4>2 DEF ParseURL
      <4> QED
        BY <4>1, <4>2
    <3>2. \A n \in 1..Len(id) : s[n] = usual(id[n])
      BY <3>1 DEF Map
    <3>3. \A n \in 1..Len(id) : id[n] # "/"
      BY <3>2, EscapeFacts
    <3> QED
      BY <2>2, <3>3 DEF Contains
  <2> QED
    BY <1>1, <1>4, <1>5, <2>1, <2>2, ParseFacts
<1> QED
  BY <1>1, <1>4, <1>5, <1>6 DEF Route
-----------------------------------------------------------------------------
\* Where a request may be.
Places == {"idle", "sent", "handling", "replied", "arrived", "returned"}

\* The path the client writes for an id.
OwnWire(id) == [prefix |-> "/order/", rest |-> Map(Escape, id)]

\* The paths that may come.
Wires == {NoCall.wire} \cup {OwnWire(id) : id \in Ids} \cup {r.wire : r \in Others}

\* The requests that may come.
Calls == [pc : Places, own : BOOLEAN, method : {"GET"} \cup {r.method : r \in Others},
          id : Ids \cup {NoId}, wire : Wires]

\* The inductive invariant: the request is what its sender made of it, and
\* handled, once set, what the path means.
RouteInv ==
  /\ call \in Calls
  /\ call.own => call.id \in Ids /\ call.wire = OwnWire(call.id) /\ call.method = "GET"
  /\ call.pc \in {"idle", "sent"} => handled = NoId
  /\ handled # NoId => /\ handled = Map(Unescape, call.wire.rest)
                       /\ Route(call.wire.prefix, Matched(call.wire), call.method) = "OrderIDGet"
  /\ call.own /\ call.pc \in {"handling", "replied", "arrived"} /\ Len(call.id) \in 1..UidMax
       => handled = call.id

\* Every path is made of the symbols of a path.
LEMMA WiresAreSymbols ==
  ASSUME NEW w \in Wires
  PROVE  w.rest \in Seq(Symbol)
<1>1. CASE w = NoCall.wire
  <2>1. w.rest = <<>>
    BY <1>1 DEF NoCall
  <2> QED
    BY <2>1
<1>2. ASSUME NEW id \in Ids, w = OwnWire(id) PROVE w.rest \in Seq(Symbol)
  <2>1. id \in Seq(Char)
    BY RequestAssumption
  <2> QED
    BY <1>2, <2>1, OwnIsRouted DEF OwnWire
<1>3. ASSUME NEW r \in Others, w = r.wire PROVE w.rest \in Seq(Symbol)
  BY <1>3, RequestAssumption
<1> QED
  BY <1>1, <1>2, <1>3 DEF Wires

\* The request goes on to p.
Goes(p) == call' = [call EXCEPT !.pc = p]

\* After the router has decided, a request only goes on.
LEMMA Later ==
  ASSUME Next
  PROVE  \/ UNCHANGED <<call, handled>>
         \/ \E id \in Ids : SendOrderIDGet(id)
         \/ \E r \in Others : SendOther(r)
         \/ ServeHTTP
         \/ call.pc \in {"handling", "replied"} /\ Goes("replied") /\ UNCHANGED handled
         \/ call.pc \in {"replied"} /\ Goes("arrived") /\ UNCHANGED handled
         \/ Goes("returned") /\ UNCHANGED handled
<1> DEFINE R == \/ UNCHANGED <<call, handled>>
                \/ \E id \in Ids : SendOrderIDGet(id)
                \/ \E r \in Others : SendOther(r)
                \/ ServeHTTP
                \/ call.pc \in {"handling", "replied"} /\ Goes("replied") /\ UNCHANGED handled
                \/ call.pc \in {"replied"} /\ Goes("arrived") /\ UNCHANGED handled
                \/ Goes("returned") /\ UNCHANGED handled
<1> SUFFICES R
  OBVIOUS
<1>1. CASE ReceiveOrder
  BY <1>1 DEF ReceiveOrder
<1>2. CASE (\E id \in Ids : SendOrderIDGet(id)) \/ (\E r \in Others : SendOther(r)) \/ ServeHTTP
  BY <1>2
<1>3. CASE OrderFound \/ OrderNotFound \/ GetOrderFails
  BY <1>3, ZenonT(60) DEF OrderFound, OrderNotFound, GetOrderFails, Answers, Goes
<1>4. CASE HandlerPanics \/ ConnectionLost \/ OrderIDGetReturns
  BY <1>4 DEF HandlerPanics, ConnectionLost, OrderIDGetReturns, Goes
<1>5. CASE ArrivesWhole \/ ArrivesCut \/ ArrivesTrailing
  BY <1>5 DEF ArrivesWhole, ArrivesCut, ArrivesTrailing, Arrives, Goes
<1>6. CASE ArrivesOther
  BY <1>6, Zenon DEF ArrivesOther, ArrivesChanged, Arrives, Goes
<1> HIDE DEF R
<1> QED
  BY <1>1, <1>2, <1>3, <1>4, <1>5, <1>6, NextCases, Zenon

\* ServeHTTP calls the handler with the id the path means, or not at all.
LEMMA ServeRoutes ==
  ASSUME RouteInv, ServeHTTP
  PROVE  RouteInv'
<1> DEFINE w == call.wire
           value == Map(Unescape, w.rest)
           routed == Route(w.prefix, Matched(w), call.method) = "OrderIDGet"
<1>1. call \in Calls /\ w \in Wires /\ call.pc = "sent" /\ handled = NoId
  BY DEF RouteInv, ServeHTTP, Calls
<1>2. w.rest \in Seq(Symbol)
  BY <1>1, WiresAreSymbols
<1>3. LET params == DecodeParams(Matched(w), Elem(ParseURL(w)).escaped)
      IN  params.id = value /\ (params.err <=> Len(w.rest) \notin 1..UidMax)
  BY <1>2, ParamFacts
<1>4. ParseURL(w).prefix = w.prefix
  BY <1>2, ParseFacts
<1>5. \/ routed /\ Len(w.rest) \in 1..UidMax /\ Goes("handling") /\ handled' = value
      \/ ~(routed /\ Len(w.rest) \in 1..UidMax) /\ Goes("replied") /\ UNCHANGED handled
  BY <1>3, <1>4 DEF ServeHTTP, Matched, Goes
<1>6. call.own => /\ Len(w.rest) = Len(call.id) /\ value = call.id /\ routed
  <2> SUFFICES ASSUME call.own PROVE Len(w.rest) = Len(call.id) /\ value = call.id /\ routed
    OBVIOUS
  <2>1. call.id \in Ids /\ w = OwnWire(call.id) /\ call.method = "GET" /\ call.id \in Seq(Char)
    BY RequestAssumption DEF RouteInv
  <2>2. w.prefix = "/order/" /\ w = [prefix |-> "/order/", rest |-> Map(Escape, call.id)]
    BY <2>1 DEF OwnWire
  <2> QED
    BY <2>1, <2>2, OwnIsRouted
<1>7. CASE routed /\ Len(w.rest) \in 1..UidMax /\ Goes("handling") /\ handled' = value
  <2>1. /\ call' \in Calls /\ call'.pc = "handling" /\ call'.own = call.own /\ call'.id = call.id
        /\ call'.wire = w /\ call'.method = call.method
    BY <1>1, <1>7 DEF Calls, Places, Goes
  <2> QED
    BY <1>6, <1>7, <2>1 DEF RouteInv
<1>8. CASE ~(routed /\ Len(w.rest) \in 1..UidMax) /\ Goes("replied") /\ UNCHANGED handled
  <2>1. /\ call' \in Calls /\ call'.pc = "replied" /\ call'.own = call.own /\ call'.id = call.id
        /\ call'.wire = w /\ call'.method = call.method
    BY <1>1, <1>8 DEF Calls, Places, Goes
  <2> QED
    BY <1>1, <1>6, <1>8, <2>1 DEF RouteInv
<1> QED
  BY <1>5, <1>7, <1>8

\* Every step keeps the invariant.
LEMMA RouteStep ==
  ASSUME RouteInv, [Next]_vars
  PROVE  RouteInv'
<1>1. CASE UNCHANGED <<call, handled>>
  BY <1>1 DEF RouteInv
<1>2. ASSUME NEW id \in Ids, SendOrderIDGet(id) PROVE RouteInv'
  <2>1. handled' = NoId /\ call' = [pc |-> "sent", own |-> TRUE, method |-> "GET", id |-> id, wire |-> OwnWire(id)]
    BY <1>2 DEF SendOrderIDGet, RouteInv, OwnWire
  <2>2. call' \in Calls
    BY <2>1 DEF Calls, Places, Wires
  <2> QED
    BY <2>1, <2>2 DEF RouteInv
<1>3. ASSUME NEW r \in Others, SendOther(r) PROVE RouteInv'
  <2>1. handled' = NoId /\ call' = [pc |-> "sent", own |-> FALSE, method |-> r.method, id |-> NoId, wire |-> r.wire]
    BY <1>3 DEF SendOther, RouteInv
  <2>2. call' \in Calls
    BY <2>1 DEF Calls, Places, Wires
  <2> QED
    BY <2>1, <2>2 DEF RouteInv
<1>4. CASE ServeHTTP
  BY <1>4, ServeRoutes
<1>5. ASSUME NEW p \in {"replied", "arrived", "returned"}, Goes(p), UNCHANGED handled,
             p \in {"replied", "arrived"} => call.pc \in {"handling", "replied"}
      PROVE  RouteInv'
  <2>1. /\ call' \in Calls /\ call'.pc = p /\ call'.own = call.own /\ call'.id = call.id
        /\ call'.wire = call.wire /\ call'.method = call.method
    BY <1>5 DEF RouteInv, Calls, Places, Goes
  <2> QED
    BY <1>5, <2>1 DEF RouteInv
<1>6. CASE UNCHANGED vars
  BY <1>6 DEF RouteInv, vars
<1>7. CASE Next
  BY <1>1, <1>2, <1>3, <1>4, <1>5, <1>7, Later
<1> QED
  BY <1>6, <1>7

\* The invariant, for all behaviours.
LEMMA AlwaysRoute == Spec => []RouteInv
<1>1. Init => RouteInv
  <2> SUFFICES ASSUME Init PROVE RouteInv
    OBVIOUS
  <2>1. call = NoCall /\ handled = NoId
    BY DEF Init
  <2>2. NoCall \in Calls
    BY DEF NoCall, Calls, Places, Wires
  <2> QED
    BY <2>1, <2>2 DEF RouteInv, NoCall
<1>2. RouteInv /\ [Next]_vars => RouteInv'
  BY RouteStep
<1> QED
  BY <1>1, <1>2, PTL DEF Spec

\* For ids of any length, with slashes and percent signs anywhere, and for
\* any path another client may send: OrderIDGet is called with the id the
\* path means, and an id of a length the specification allows always gets
\* there.
THEOREM IdsArrive == Spec => []IdArrives
<1>1. ASSUME RouteInv PROVE IdArrives
  <2>1. call.own => Map(Unescape, call.wire.rest) = call.id
    <3> SUFFICES ASSUME call.own PROVE Map(Unescape, call.wire.rest) = call.id
      OBVIOUS
    <3>1. call.wire = [prefix |-> "/order/", rest |-> Map(Escape, call.id)] /\ call.id \in Seq(Char)
      BY <1>1, RequestAssumption DEF RouteInv, OwnWire
    <3> QED
      BY <3>1, OwnIsRouted
  <2> QED
    BY <1>1, <2>1 DEF RouteInv, IdArrives
<1> QED
  BY <1>1, AlwaysRoute, PTL

\* FindPath and ServeHTTP (oas_router_gen.go), two copies of one router that
\* unescape at different moments, agree on every request.
THEOREM RoutersAlike == Spec => []RoutersAgree
<1>1. ASSUME RouteInv PROVE RoutersAgree
  <2> DEFINE w == call.wire
             url == ParseURL(w)
             path == FindPath(call.method, url)
  <2>1. w.rest \in Seq(Symbol)
    BY <1>1, WiresAreSymbols DEF RouteInv, Calls
  <2>2. /\ path.found <=> Route(url.prefix, Matched(w), call.method) = "OrderIDGet"
        /\ path.found => path.arg = Map(Unescape, w.rest)
    BY <2>1, FindFacts
  <2>3. url.prefix = w.prefix
    BY <2>1, ParseFacts
  <2> QED
    BY <1>1, <2>2, <2>3 DEF RouteInv, RoutersAgree, Matched
<1> QED
  BY <1>1, AlwaysRoute, PTL
-----------------------------------------------------------------------------
(***************************************************************************)
(* Types.                                                                  *)
(***************************************************************************)
\* What may become of an order.
Fates   == {None, "invalid", "refused", "stored", "doubtful"}

\* What OrderIDGet may return.
Answer  == {None, "order", "notfound", "error"}

\* What the client may return.
Kinds   == {None, "failed", "order", "badrequest", "notfound", "error"}

\* A reply with a JSON body.
Json(status, doc)  == Reply(status, TRUE, doc)

\* A reply without one.
Bodiless(status, doc) == Reply(status, FALSE, doc)

\* The replies: which status goes with which body.
IsReply(r) ==
  \/ r.status \in {200, 400, 404, 500} /\ r = Json(r.status, r.doc)
  \/ r.status \in {0, 204, 404, 405} /\ r = Bodiless(r.status, r.doc)

\* The inductive invariant for the types.
TypeInv ==
  /\ fate \in Fates /\ answered \in Answer /\ result.kind \in Kinds
  /\ IsReply(reply)

\* The statuses of encodeOrderIDGetResponse, of the error handler and of the
\* router are among them.
LEMMA ReplyTypes ==
  ASSUME NEW doc
  PROVE  /\ \A status \in {200, 400, 404, 500} : IsReply(Json(status, doc))
         /\ \A status \in {0, 204, 404, 405} : IsReply(Bodiless(status, doc))
  BY DEF IsReply, Reply, Json, Bodiless

\* Another version of the API may change the body, not the status.
LEMMA ReplyChanged ==
  ASSUME NEW r, IsReply(r), NEW doc
  PROVE  IsReply([r EXCEPT !.doc = doc]) /\ r = [r EXCEPT !.doc = r.doc]
<1>1. ASSUME NEW json, r = Reply(r.status, json, r.doc)
      PROVE  [r EXCEPT !.doc = doc] = Reply(r.status, json, doc) /\ r = [r EXCEPT !.doc = r.doc]
  BY <1>1 DEF Reply
<1>2. /\ r = Json(r.status, r.doc) => [r EXCEPT !.doc = doc] = Json(r.status, doc)
      /\ r = Bodiless(r.status, r.doc) => [r EXCEPT !.doc = doc] = Bodiless(r.status, doc)
      /\ r = Json(r.status, r.doc) \/ r = Bodiless(r.status, r.doc) => r = [r EXCEPT !.doc = r.doc]
  BY <1>1, Zenon DEF Json, Bodiless
<1> QED
  BY <1>2, ReplyTypes DEF IsReply

\* A body decodes to what it was read as, or the client fails.
LEMMA DecodedKind ==
  ASSUME NEW kind, NEW r
  PROVE  Decoded(kind, r).kind \in {"failed", kind}
  BY DEF Decoded, Failed

\* decodeOrderIDGetResponse returns a kind of answer the specification has,
\* or an error, for every status and body.
LEMMA ClientReturns ==
  ASSUME NEW named
  PROVE  DecodeOrderIDGetResponse(named).kind \in Kinds
<1> DEFINE asOrder == Decoded("order", DecodeOrderResponse(reply.doc))
           order200 == IF asOrder.kind = "order" /\ ~ValidateOrderResponse(asOrder.s, named)
                       THEN Failed({}) ELSE asOrder
           bad == Decoded("badrequest", DecodeError(reply.doc))
           missing == Decoded("notfound", DecodeError(reply.doc))
           error == Decoded("error", DecodeError(reply.doc))
<1>1. order200.kind \in {"failed", "order"}
  BY DecodedKind DEF Failed
<1>2. /\ bad.kind \in {"failed", "badrequest"} /\ missing.kind \in {"failed", "notfound"}
      /\ error.kind \in {"failed", "error"} /\ Failed({}).kind = "failed"
  BY DecodedKind DEF Failed
<1>3. DecodeOrderIDGetResponse(named) =
        CASE ~reply.json -> Failed({})
          [] reply.json /\ reply.status = 200 -> order200
          [] reply.json /\ reply.status = 400 -> bad
          [] reply.json /\ reply.status = 404 -> missing
          [] reply.json /\ reply.status = 500 -> error
          [] OTHER -> Failed({})
  BY DEF DecodeOrderIDGetResponse
<1> HIDE DEF asOrder, order200, bad, missing, error
<1>4. DecodeOrderIDGetResponse(named) \in {Failed({}), order200, bad, missing, error}
  BY <1>3, Zenon
<1> QED
  BY <1>1, <1>2, <1>4 DEF Kinds

\* Every step keeps the types.
LEMMA TypeStep ==
  ASSUME TypeInv, [Next]_vars
  PROVE  TypeInv'
<1> USE DEF Fates, Answer, Kinds
<1>1. CASE ReceiveOrder
  <2>1. fate' \in {"invalid", "refused", "stored", "doubtful"}
    BY <1>1, Zenon DEF ReceiveOrder
  <2> QED
    BY <1>1, <2>1 DEF ReceiveOrder, TypeInv
<1>2. ASSUME UNCHANGED <<fate, answered, reply, result>> PROVE TypeInv'
  BY <1>2 DEF TypeInv
<1>3. CASE ServeHTTP
  <2>1. ASSUME NEW route
        PROVE  \E s \in {404, 204, 405} : NoRoute(route, call.method) = Bodiless(s, <<>>)
    <3>1. \/ NoRoute(route, call.method) = Bodiless(404, <<>>)
          \/ NoRoute(route, call.method) = Bodiless(204, <<>>)
          \/ NoRoute(route, call.method) = Bodiless(405, <<>>)
      BY ZenonT(60) DEF NoRoute, Bodiless
    <3> QED
      BY <3>1
  <2> DEFINE route == Route(ParseURL(call.wire).prefix, Elem(ParseURL(call.wire)).rest, call.method)
  <2>2. \/ UNCHANGED reply
        \/ reply' = Json(400, DefaultErrorBody)
        \/ reply' = NoRoute(route, call.method)
    BY <1>3, Zenon DEF ServeHTTP, Json
  <2>3. (IsReply(reply))'
    BY <2>1, <2>2, ReplyTypes DEF TypeInv
  <2> QED
    BY <1>3, <2>3 DEF ServeHTTP, TypeInv
<1>4. ASSUME NEW kind \in Answer, NEW status \in {200, 404, 500}, NEW doc, Answers(kind, status, doc)
      PROVE  TypeInv'
  <2>1. reply' = Json(status, doc) /\ answered' = kind /\ UNCHANGED <<fate, result>>
    BY <1>4, Zenon DEF Answers, Json
  <2>2. (IsReply(reply))'
    BY <2>1, ReplyTypes
  <2> QED
    BY <2>1, <2>2 DEF TypeInv
<1>5. ASSUME NEW new, NEW f, NEW doc, Arrives(new, f), new = [reply EXCEPT !.doc = doc] PROVE TypeInv'
  <2>1. (IsReply(reply))'
    BY <1>5, ReplyChanged DEF Arrives, TypeInv
  <2> QED
    BY <1>5, <2>1 DEF Arrives, TypeInv
<1>6. CASE HandlerPanics \/ ConnectionLost
  BY <1>6 DEF HandlerPanics, ConnectionLost, TypeInv, Failed
<1>7. CASE OrderIDGetReturns
  BY <1>7, ClientReturns DEF OrderIDGetReturns, TypeInv
<1>8. CASE ArrivesWhole \/ ArrivesCut \/ ArrivesTrailing
  <2>1. reply = [reply EXCEPT !.doc = reply.doc]
    BY ReplyChanged DEF TypeInv
  <2> QED
    BY <1>5, <1>8, <2>1 DEF ArrivesWhole, ArrivesCut, ArrivesTrailing
<1>9. CASE ArrivesOther
  <2>1. PICK f, doc : Arrives([reply EXCEPT !.doc = doc], f)
    BY <1>9, Zenon DEF ArrivesOther, ArrivesChanged
  <2> QED
    BY <1>5, <2>1
<1>10. CASE OrderFound \/ OrderNotFound \/ GetOrderFails
  <2>1. \E doc : Answers("order", 200, doc) \/ Answers("notfound", 404, doc) \/ Answers("error", 500, doc)
    BY <1>10, ZenonT(60) DEF OrderFound, OrderNotFound, GetOrderFails
  <2> QED
    BY <1>4, <2>1
<1>11. CASE \/ UNCHANGED vars \/ \E id \in Ids : SendOrderIDGet(id)
            \/ \E r \in Others : SendOther(r)
  BY <1>2, <1>11 DEF vars, SendOrderIDGet, SendOther
<1> QED
  BY <1>1, <1>3, <1>6, <1>7, <1>8, <1>9, <1>10, <1>11, NextCases

\* Whatever is sent and whatever happens to the reply: statuses, answers and
\* the results of the client are those of the specification, and a JSON body
\* comes only with a status that has one.
THEOREM ApiTyped == Spec => []TypeOK
<1>1. Init => TypeInv
  BY DEF Init, TypeInv, Fates, Answer, Kinds, NoReply, IsReply, Bodiless, Reply
<1>2. TypeInv /\ [Next]_vars => TypeInv'
  BY TypeStep
<1>3. ASSUME TypeInv, RouteInv PROVE TypeOK
  <2>1. reply.status \in (IF reply.json THEN {200, 400, 404, 500} ELSE {0, 204, 404, 405})
    BY <1>3 DEF TypeInv, IsReply, Json, Bodiless, Reply
  <2> QED
    BY <1>3, <2>1 DEF TypeInv, RouteInv, Calls, Places, TypeOK, Fates, Answer, Kinds
<1> QED
  BY <1>1, <1>2, <1>3, AlwaysRoute, PTL DEF Spec
-----------------------------------------------------------------------------
(***************************************************************************)
(* The answer.                                                             *)
(***************************************************************************)
\* What OrderIDGet returns as an order is one that was saved without an error
\* (Commit may have failed behind it) under the id the caller of the client
\* asked for.
RightOrder ==
  answered = "order" => fate \in {"stored", "doubtful"} /\ order.order_uid = call.id

\* Inductive, next to RouteInv: the handler runs with the id the path means,
\* and has answered only when the request is past it.
AnsweredInv ==
  /\ call.pc = "handling" => handled = Map(Unescape, call.wire.rest)
  /\ answered # None => call.own /\ call.pc \notin {"idle", "sent", "handling"}
  /\ RightOrder

\* OrderIDGet, whose three answers end the handling of a request.
LEMMA AnswerStep ==
  ASSUME RouteInv, AnsweredInv, OrderFound \/ OrderNotFound \/ GetOrderFails
  PROVE  AnsweredInv'
<1>1. /\ call.pc = "handling" /\ call.own /\ Goes("replied") /\ UNCHANGED <<order, fate, handled>>
      /\ answered' = "order" => HasOrder
  BY ZenonT(60) DEF OrderFound, OrderNotFound, GetOrderFails, Answers, Goes
<1>2. call.id \in Seq(Char) /\ call.wire = [prefix |-> "/order/", rest |-> Map(Escape, call.id)]
  BY <1>1, RequestAssumption DEF RouteInv, OwnWire
<1>3. handled = call.id
  BY <1>1, <1>2, OwnIsRouted DEF AnsweredInv
<1>4. call'.pc = "replied" /\ call'.own = call.own /\ call'.id = call.id
  BY <1>1 DEF RouteInv, Calls, Goes
<1> QED
  BY <1>1, <1>3, <1>4 DEF AnsweredInv, RightOrder, HasOrder

\* The steps of a request before and after it.
LEMMA AnsweredStep ==
  ASSUME RouteInv, AnsweredInv, [Next]_vars
  PROVE  AnsweredInv'
<1>1. CASE ReceiveOrder
  BY <1>1 DEF ReceiveOrder, AnsweredInv, RightOrder, None
<1>2. CASE \/ \E id \in Ids : SendOrderIDGet(id)
           \/ \E r \in Others : SendOther(r)
  <2>1. /\ call.pc = "idle" /\ call'.pc = "sent" /\ UNCHANGED <<order, fate, answered>>
    BY <1>2 DEF SendOrderIDGet, SendOther
  <2> QED
    BY <2>1 DEF AnsweredInv, RightOrder, None
<1>3. CASE ServeHTTP
  <2> DEFINE w == call.wire
  <2>1. w.rest \in Seq(Symbol)
    BY WiresAreSymbols DEF RouteInv, Calls
  <2>2. DecodeParams(Matched(w), Elem(ParseURL(w)).escaped).id = Map(Unescape, w.rest)
    BY <2>1, ParamFacts
  <2>3. /\ call.pc = "sent" /\ UNCHANGED <<order, fate, answered>>
        /\ \/ Goes("handling") /\ handled' = Map(Unescape, w.rest)
           \/ Goes("replied")
    BY <1>3, <2>2 DEF ServeHTTP, Matched, Goes
  <2>4. \A p : Goes(p) => call'.wire = w /\ call'.pc = p
    BY DEF RouteInv, Calls, Goes
  <2> QED
    BY <2>3, <2>4 DEF AnsweredInv, RightOrder, None
<1>4. CASE OrderFound \/ OrderNotFound \/ GetOrderFails
  BY <1>4, AnswerStep
<1>5. ASSUME NEW p \in {"arrived", "returned"}, Goes(p), UNCHANGED <<order, fate, answered>>
      PROVE  AnsweredInv'
  <2>1. call'.pc = p /\ call'.own = call.own /\ call'.id = call.id
    BY <1>5 DEF RouteInv, Calls, Goes
  <2> QED
    BY <1>5, <2>1 DEF AnsweredInv, RightOrder
<1>6. CASE UNCHANGED vars
  BY <1>6 DEF vars, AnsweredInv, RightOrder
<1>7. ASSUME NEW new, NEW f, Arrives(new, f) PROVE AnsweredInv'
  BY <1>5, <1>7 DEF Arrives, Goes
<1>8. CASE HandlerPanics \/ ConnectionLost \/ OrderIDGetReturns
  BY <1>5, <1>8 DEF HandlerPanics, ConnectionLost, OrderIDGetReturns, Goes
<1>9. CASE ArrivesWhole \/ ArrivesCut \/ ArrivesTrailing
  BY <1>7, <1>9 DEF ArrivesWhole, ArrivesCut, ArrivesTrailing
<1>10. CASE ArrivesOther
  BY <1>7, <1>10 DEF ArrivesOther, ArrivesChanged
<1> QED
  BY <1>1, <1>2, <1>3, <1>4, <1>6, <1>8, <1>9, <1>10, NextCases, Zenon

\* The invariant, for all behaviours.
LEMMA AlwaysAnswered == Spec => []AnsweredInv
<1>1. Init => AnsweredInv
  BY DEF Init, NoCall, AnsweredInv, RightOrder, None
<1>2. RouteInv /\ AnsweredInv /\ [Next]_vars => AnsweredInv'
  BY AnsweredStep
<1> QED
  BY <1>1, <1>2, AlwaysRoute, PTL DEF Spec

\* Across the client's escaping, the router and the handler (handler.go), for
\* every order and every id: an order is answered only when it passed the
\* validator, SaveOrder returned no error for it (the tables took it, whether
\* Commit failed behind them or not), and its id is the one the client asked
\* for; an order that came and was refused is never answered.
THEOREM AnswersAreAsked == Spec => []RightOrder
<1>1. AnsweredInv => RightOrder
  BY DEF AnsweredInv
<1> QED
  BY <1>1, AlwaysAnswered, PTL
-----------------------------------------------------------------------------
(***************************************************************************)
(* What another version of the API says.                                   *)
(***************************************************************************)
\* The members a server of another version may add to those in M.
Foreign(M) == M \cup {Pair("unknown", Null)} \cup {Pair(m.key, Null) : m \in M}

\* It drops members, doubles them, adds one or makes them null.
Alters(f) == f.kind \in {"dropped", "null", "twice", "more"}

\* What it makes of an object.
LEMMA ChangedFacts ==
  ASSUME NEW M, NEW ms \in Seq(M), NEW f, Alters(f)
  PROVE  Changed(ms, f) \in Seq(Foreign(M))
<1> DEFINE F == Foreign(M)
<1>1. /\ M \subseteq F /\ Pair("unknown", Null) \in F
      /\ \A m \in M : Pair(m.key, Null) \in F
  BY Zenon DEF Foreign
<1>2. Len(ms) \in Nat /\ \A n \in 1..Len(ms) : ms[n] \in M
  OBVIOUS
<1> HIDE DEF F
<1>3. ms \in Seq(F)
  BY <1>1
<1>4. CASE f.kind = "dropped"
  <2> DEFINE keys == {ms[n].key : n \in 1..Len(ms)} \ f.fields
  <2>1. Changed(ms, f) = Kept(ms, keys)
    BY <1>4, Zenon DEF Changed
  <2> HIDE DEF keys
  <2> QED
    BY <1>3, <2>1, KeptFacts DEF F
<1>5. CASE f.kind = "null"
  <2> DEFINE new == [n \in 1..Len(ms) |-> IF ms[n].key \in f.fields THEN Pair(ms[n].key, Null) ELSE ms[n]]
  <2>1. Changed(ms, f) = new
    BY <1>5, Zenon DEF Changed
  <2>2. \A n \in 1..Len(ms) : new[n] \in F
    BY <1>1, <1>2
  <2>3. new \in [1..Len(ms) -> F]
    BY <2>2
  <2> HIDE DEF new
  <2> QED
    BY <1>2, <2>1, <2>3 DEF F
<1>6. CASE f.kind = "twice"
  <2>1. Changed(ms, f) = ms \o Kept(ms, f.fields)
    BY <1>6, Zenon DEF Changed
  <2>2. Kept(ms, f.fields) \in Seq(F)
    BY <1>3, KeptFacts
  <2> QED
    BY <1>3, <2>1, <2>2 DEF F
<1>7. CASE f.kind = "more"
  <2> DEFINE p == Pair("unknown", Null)
  <2>1. Changed(ms, f) = <<p>> \o ms
    BY <1>7, Zenon DEF Changed
  <2> HIDE DEF p
  <2>2. p \in F
    BY <1>1 DEF p
  <2> QED
    BY <1>3, <2>1, <2>2 DEF F
<1> QED
  BY <1>4, <1>5, <1>6, <1>7 DEF Alters

\* A struct of scalars it changes still says what was encoded, or null.
LEMMA ChangedSays ==
  ASSUME NEW v, NEW names, NEW doc \in Seq(FieldMembers(v, names)),
         NEW f, Alters(f)
  PROVE  SaysFields(Changed(doc, f), v, {Null})
<1> DEFINE M == FieldMembers(v, names)
<1>1. Changed(doc, f) \in Seq(Foreign(M))
  BY ChangedFacts
<1>2. \A m \in M : SaysField(m, v, {Null})
  BY FieldMembersSay
<1> HIDE DEF M
<1>3. ASSUME NEW m \in Foreign(M) PROVE SaysField(m, v, {Null})
  <2>1. m \in M \/ m.val = Null
    BY PairFacts DEF Foreign
  <2> QED
    BY <1>2, <2>1 DEF SaysField
<1> QED
  BY <1>1, <1>3, Zenon DEF SaysFields

\* So does an OrderResponse.
LEMMA ChangedOrderSays ==
  ASSUME NEW v, Len(v.items.elems) \in Nat, NEW doc \in Seq(OrderMembers(v)),
         NEW f, Alters(f)
  PROVE  SaysOrder(Changed(doc, f), v, {Null})
<1> DEFINE M == OrderMembers(v)
<1>1. Changed(doc, f) \in Seq(Foreign(M))
  BY ChangedFacts
<1>2. \A m \in M : SaysValue(m, v, {Null})
  BY OrderMembersSay
<1> HIDE DEF M
<1>3. ASSUME NEW m \in Foreign(M) PROVE SaysValue(m, v, {Null})
  <2>1. m \in M \/ m.val = Null
    BY PairFacts DEF Foreign
  <2> QED
    BY <1>2, <2>1 DEF SaysValue
<1> QED
  BY <1>1, <1>3, Zenon DEF SaysOrder

\* The first item, changed.
LEMMA ItemInsideSays ==
  ASSUME NEW v, Len(v.items.elems) \in Nat, NEW m, m.key = "items", m.val = EncodeValue("items", v.items),
         NEW f, Alters(f), f.obj = "item"
  PROVE  SaysValue(Inside(m, f), v, {Null})
<1> DEFINE vs == v.items.elems
           es == m.val.v
           new == [n \in 1..Len(es) |-> IF n = 1 THEN Obj(Changed(es[n].v, f)) ELSE es[n]]
           val == [t |-> "array", v |-> new]
<1>1. Inside(m, f) = Pair("items", val)
  BY Zenon DEF Inside
<1>2. es = [n \in 1..Len(vs) |-> Obj(EncodeOrderItem(vs[n]))]
  <2>1. m.val = [t |-> "array", v |-> [n \in 1..Len(vs) |-> Obj(EncodeOrderItem(vs[n]))]]
    BY EncodeBranches, Zenon
  <2> QED
    BY <2>1
<1>3. Len(es) = Len(vs)
  BY <1>2
<1>4. \A n \in 1..Len(vs) : es[n] = Obj(EncodeOrderItem(vs[n]))
  BY <1>2
<1> HIDE DEF es, vs
<1>5. Len(new) = Len(vs) /\ Len(vs) \in Nat
  BY <1>3 DEF vs
<1>6. ASSUME NEW n \in 1..Len(vs)
      PROVE  new[n].t = "object" /\ SaysFields(new[n].v, vs[n], {Null})
  <2> DEFINE d == EncodeOrderItem(vs[n])
  <2>1. d \in Seq(FieldMembers(vs[n], NamesOfOrderItem)) /\ SaysFields(d, vs[n], {Null})
    BY EncodedSays
  <2>2. SaysFields(Changed(d, f), vs[n], {Null})
    BY <2>1, ChangedSays
  <2>3. \A x : Obj(x).t = "object" /\ Obj(x).v = x
    BY DEF Obj
  <2>4. new[n] = IF n = 1 THEN Obj(Changed(es[n].v, f)) ELSE es[n]
    BY <1>3
  <2> HIDE DEF d, new
  <2>5. es[n].v = d /\ es[n] = Obj(d)
    BY <1>4, <2>3 DEF d
  <2> QED
    BY <2>1, <2>2, <2>3, <2>4, <2>5
<1>7. val.t = "array" /\ val.v = new
  BY Zenon
<1> HIDE DEF new, val
<1>8. SaysElems(new, vs, {Null})
  BY <1>5, <1>6 DEF SaysElems
<1> QED
  BY <1>1, <1>7, <1>8, PairFacts DEF SaysValue, vs

\* It changes the delivery, the payment or an item.
InObject(f) == f.obj \in {"delivery", "payment", "item"}

\* A member with an object in it, changed.
LEMMA InsideSays ==
  ASSUME NEW v, Len(v.items.elems) \in Nat, NEW m \in OrderMembers(v),
         NEW f, Alters(f), InObject(f)
  PROVE  SaysValue(Inside(m, f), v, {Null})
<1>1. PICK k \in Elems(NamesOfOrderResponse) : m = Pair(k, EncodeValue(k, v[k]))
  BY DEF OrderMembers
<1>2. m.key = k /\ m.val = EncodeValue(k, v[k]) /\ k # "item"
  BY <1>1, PairFacts, SMTT(30) DEF Elems, NamesOfOrderResponse
<1>3. CASE f.obj = "item" /\ k = "items"
  <2>1. v[k] = v.items
    BY <1>3
  <2>2. m.key = "items" /\ m.val = EncodeValue("items", v.items)
    BY <1>2, <1>3, <2>1, Zenon
  <2> QED
    BY <1>3, <2>2, ItemInsideSays
<1>4. CASE f.obj = "delivery" /\ k = "delivery"
  <2> DEFINE d == EncodeDelivery(v.delivery)
  <2>1. v[k] = v.delivery
    BY <1>4
  <2>2. m.val = Obj(d)
    BY <1>2, <1>4, <2>1, EncodeBranches, Zenon
  <2>3. SaysFields(Changed(d, f), v.delivery, {Null})
    BY EncodedSays, ChangedSays
  <2> HIDE DEF d
  <2>4. m.val.v = d
    BY <2>2 DEF Obj
  <2>5. Inside(m, f) = Pair("delivery", Obj(Changed(d, f)))
    <3>1. Inside(m, f) = Pair(m.key, Obj(Changed(m.val.v, f)))
      BY <1>2, <1>4, Zenon DEF Inside
    <3> QED
      BY <1>2, <1>4, <2>4, <3>1
  <2>6. Inside(m, f).key = "delivery" /\ Inside(m, f).val = Obj(Changed(d, f))
    BY <2>5, PairFacts
  <2>7. Inside(m, f).val.t = "object" /\ Inside(m, f).val.v = Changed(d, f)
    BY <2>6 DEF Obj
  <2> QED
    BY <2>3, <2>6, <2>7 DEF SaysValue
<1>5. CASE f.obj = "payment" /\ k = "payment"
  <2> DEFINE d == EncodePayment(v.payment)
  <2>1. v[k] = v.payment
    BY <1>5
  <2>2. m.val = Obj(d)
    BY <1>2, <1>5, <2>1, EncodeBranches, Zenon
  <2>3. SaysFields(Changed(d, f), v.payment, {Null})
    BY EncodedSays, ChangedSays
  <2> HIDE DEF d
  <2>4. m.val.v = d
    BY <2>2 DEF Obj
  <2>5. Inside(m, f) = Pair("payment", Obj(Changed(d, f)))
    <3>1. Inside(m, f) = Pair(m.key, Obj(Changed(m.val.v, f)))
      BY <1>2, <1>5, Zenon DEF Inside
    <3> QED
      BY <1>2, <1>5, <2>4, <3>1
  <2>6. Inside(m, f).key = "payment" /\ Inside(m, f).val = Obj(Changed(d, f))
    BY <2>5, PairFacts
  <2>7. Inside(m, f).val.t = "object" /\ Inside(m, f).val.v = Changed(d, f)
    BY <2>6 DEF Obj
  <2> QED
    BY <2>3, <2>6, <2>7 DEF SaysValue
<1>6. CASE ~(f.obj = "item" /\ k = "items") /\ f.obj # k
  <2>1. Inside(m, f) = m
    BY <1>2, <1>6, Zenon DEF Inside
  <2> QED
    BY <2>1, OrderMembersSay
<1> QED
  BY <1>2, <1>3, <1>4, <1>5, <1>6 DEF InObject

\* Whatever another version of the API does to an order, its document still
\* says of every field what was encoded, or null.
LEMMA WithinSays ==
  ASSUME NEW v, Len(v.items.elems) \in Nat, NEW f, IsFault(f)
  PROVE  SaysOrder(Within(EncodeOrderResponse(v), f), v, {Null})
<1> DEFINE doc == EncodeOrderResponse(v)
           M == OrderMembers(v)
<1>1. doc \in Seq(M)
  BY EncodedOrder
<1>2. Alters(f) /\ (f.obj = "order" \/ InObject(f))
  BY DEF IsFault, Objects, Alters, InObject
<1> HIDE DEF doc
<1>3. CASE f.obj = "order"
  <2>1. Within(doc, f) = Changed(doc, f)
    BY <1>3, Zenon DEF Within
  <2> QED
    BY <1>1, <1>2, <2>1, ChangedOrderSays DEF doc
<1>4. CASE f.obj # "order"
  <2> DEFINE new == [n \in 1..Len(doc) |-> Inside(doc[n], f)]
             X == {Inside(m, f) : m \in M}
  <2>1. Within(doc, f) = new
    BY <1>4, Zenon DEF Within
  <2>2. \A x \in X : SaysValue(x, v, {Null})
    BY <1>2, <1>4, InsideSays
  <2> HIDE DEF M
  <2>3. Len(doc) \in Nat /\ \A n \in 1..Len(doc) : doc[n] \in M
    BY <1>1
  <2>4. new \in [1..Len(doc) -> X]
    BY <2>3
  <2> HIDE DEF new, X
  <2>5. new \in Seq(X)
    BY <2>3, <2>4
  <2> QED
    BY <2>1, <2>2, <2>5, Zenon DEF SaysOrder, doc
<1> QED
  BY <1>3, <1>4
-----------------------------------------------------------------------------
(***************************************************************************)
(* What the client shows.                                                  *)
(***************************************************************************)
\* o has the fields of models.Order, its payment and items those of Payment
\* and Item.
IsOrder(o) ==
  /\ DOMAIN o = FieldsOf("order") /\ DOMAIN o.payment = FieldsOf("payment")
  /\ Len(o.items) \in Nat
  /\ \A n \in 1..Len(o.items) : DOMAIN o.items[n] = FieldsOf("item")

\* v is o with items of o, each as it was sent or as it is stored.
IsView(v, o) ==
  /\ IsOrder(v)
  /\ \A f \in FieldsOf("order") \ {"items"} : v[f] = o[f]
  /\ \A n \in 1..Len(v.items) : \E k \in 1..Len(o.items) :
       v.items[n] \in {o.items[k], AsStored(o.items[k])}

\* An item that is stored has its fields still.
LEMMA StoredFields ==
  ASSUME NEW i
  PROVE  /\ DOMAIN AsStored(i) = DOMAIN i
         /\ \A f \in DOMAIN i \ ItemText : AsStored(i)[f] = i[f]
  BY DEF AsStored

\* Whatever GetOrder gives of an order is that order with some of its items.
LEMMA ViewFacts ==
  ASSUME NEW o, IsOrder(o), NEW v \in Views(o)
  PROVE  IsView(v, o)
<1>1. CASE v = o
  BY <1>1 DEF IsView
<1>2. ASSUME NEW p \in Picks(Len(o.items)),
             v = [o EXCEPT !.items = [n \in DOMAIN p |-> AsStored(o.items[p[n]])]]
      PROVE  IsView(v, o)
  <2> DEFINE new == [n \in DOMAIN p |-> AsStored(o.items[p[n]])]
  <2>1. PICK n \in 0..Len(o.items) : p \in [1..n -> 1..Len(o.items)]
    BY <1>2 DEF Picks
  <2>2. /\ DOMAIN new = 1..n /\ n \in Nat
        /\ \A k \in 1..n : p[k] \in 1..Len(o.items) /\ new[k] = AsStored(o.items[p[k]])
    BY <2>1
  <2> HIDE DEF new
  <2>3. Len(new) = n
    BY <2>2
  <2>4. "items" \in FieldsOf("order") /\ "payment" \in FieldsOf("order")
    BY Zenon DEF FieldsOf
  <2>5. /\ v.items = new /\ DOMAIN v = DOMAIN o
        /\ \A f \in FieldsOf("order") \ {"items"} : v[f] = o[f]
    BY <1>2, <2>4 DEF IsOrder, new
  <2>6. v.payment = o.payment
    BY <2>4, <2>5
  <2>7. \A k \in 1..n : DOMAIN new[k] = FieldsOf("item")
    BY <2>2, StoredFields DEF IsOrder
  <2>8. IsOrder(v)
    BY <2>2, <2>3, <2>5, <2>6, <2>7 DEF IsOrder
  <2> QED
    BY <2>2, <2>3, <2>5, <2>8 DEF IsView
<1> QED
  BY <1>1, <1>2, Zenon DEF Views

\* The api.OrderResponse the handler makes of an order.
LEMMA ResponseFacts ==
  ASSUME NEW o, IsOrder(o)
  PROVE  /\ \A f \in FieldsOf("order") \ {"payment", "internal_signature", "items"} : ToResponse(o)[f] = o[f]
         /\ ToResponse(o).internal_signature = SetOpt(o.internal_signature)
         /\ \A f \in FieldsOf("payment") \ {"request_id"} : ToResponse(o).payment[f] = o.payment[f]
         /\ ToResponse(o).payment.request_id = SetOpt(o.payment.request_id)
         /\ ToResponse(o).items = [isNil |-> FALSE, elems |-> o.items]
<1> DEFINE a == SetOpt(o.internal_signature)
           b == SetOpt(o.payment.request_id)
           c == [isNil |-> FALSE, elems |-> o.items]
           p == [o.payment EXCEPT !.request_id = b]
           v == [o EXCEPT !.payment = p, !.internal_signature = a, !.items = c]
<1>1. ToResponse(o) = v
  BY DEF ToResponse
<1>2. DOMAIN o = FieldsOf("order") /\ DOMAIN o.payment = FieldsOf("payment")
  BY DEF IsOrder
<1>3. {"payment", "internal_signature", "items"} \subseteq FieldsOf("order")
  <2>1. FieldsOf("order") = OrderText \cup OrderInt \cup {"order_uid", "date_created", "delivery", "payment", "items"}
    BY Zenon DEF FieldsOf
  <2> QED
    BY <2>1 DEF OrderText
<1>4. "request_id" \in FieldsOf("payment")
  <2>1. FieldsOf("payment") = PaymentText \cup PaymentInt
    BY Zenon DEF FieldsOf
  <2> QED
    BY <2>1 DEF PaymentText
<1> HIDE DEF a, b, c
<1>5. p.request_id = b /\ \A f \in FieldsOf("payment") \ {"request_id"} : p[f] = o.payment[f]
  BY <1>2, <1>4
<1> HIDE DEF p
<1>6. /\ v.payment = p /\ v.internal_signature = a /\ v.items = c
      /\ \A f \in FieldsOf("order") \ {"payment", "internal_signature", "items"} : v[f] = o[f]
  BY <1>2, <1>3
<1> HIDE DEF v
<1> QED
  BY <1>1, <1>5, <1>6, Zenon DEF a, b, c

\* What the optional fields and the items of it are.
LEMMA ResponseParts ==
  ASSUME NEW o, IsOrder(o)
  PROVE  /\ ToResponse(o).internal_signature.Value = o.internal_signature
         /\ ToResponse(o).payment.request_id.Value = o.payment.request_id
         /\ ToResponse(o).internal_signature.Set /\ ToResponse(o).payment.request_id.Set
         /\ ToResponse(o).items.elems = o.items /\ Len(o.items) \in Nat
<1>1. \A x : SetOpt(x).Set /\ SetOpt(x).Value = x
  BY Zenon DEF SetOpt
<1>2. \A x : [isNil |-> FALSE, elems |-> x].elems = x
  BY Zenon
<1>3. Len(o.items) \in Nat
  BY DEF IsOrder
<1> QED
  <2>1. /\ ToResponse(o).internal_signature = SetOpt(o.internal_signature)
        /\ ToResponse(o).payment.request_id = SetOpt(o.payment.request_id)
        /\ ToResponse(o).items = [isNil |-> FALSE, elems |-> o.items]
    BY ResponseFacts
  <2> QED
    BY <1>1, <1>2, <1>3, <2>1, Zenon

\* The names of the structs are the fields of models.Order.
LEMMA NamesAreFields ==
  /\ DeliveryText = Elems(NamesOfDelivery)
  /\ PaymentText \cup PaymentInt = Elems(NamesOfPayment)
  /\ ItemText \cup ItemInt = Elems(NamesOfOrderItem)
  /\ FieldsOf("order") = Elems(NamesOfOrderResponse)
<1>1. \A f \in DeliveryText : \E n \in 1..Len(NamesOfDelivery) : f = NamesOfDelivery[n]
  BY DEF DeliveryText, NamesOfDelivery
<1>2. \A n \in 1..Len(NamesOfDelivery) : NamesOfDelivery[n] \in DeliveryText
  BY DEF DeliveryText, NamesOfDelivery
<1>3. \A f \in PaymentText \cup PaymentInt : \E n \in 1..Len(NamesOfPayment) : f = NamesOfPayment[n]
  BY DEF PaymentText, PaymentInt, NamesOfPayment
<1>4. \A n \in 1..Len(NamesOfPayment) : NamesOfPayment[n] \in PaymentText \cup PaymentInt
  BY DEF PaymentText, PaymentInt, NamesOfPayment
<1>5. \A f \in ItemText \cup ItemInt : \E n \in 1..Len(NamesOfOrderItem) : f = NamesOfOrderItem[n]
  BY DEF ItemText, ItemInt, NamesOfOrderItem
<1>6. \A n \in 1..Len(NamesOfOrderItem) : NamesOfOrderItem[n] \in ItemText \cup ItemInt
  BY DEF ItemText, ItemInt, NamesOfOrderItem
<1>7. FieldsOf("order") = OrderText \cup OrderInt \cup {"order_uid", "date_created", "delivery", "payment", "items"}
  BY Zenon DEF FieldsOf
<1>8. \A f \in FieldsOf("order") : \E n \in 1..Len(NamesOfOrderResponse) : f = NamesOfOrderResponse[n]
  BY <1>7 DEF OrderText, OrderInt, NamesOfOrderResponse
<1>9. \A n \in 1..Len(NamesOfOrderResponse) : NamesOfOrderResponse[n] \in FieldsOf("order")
  BY <1>7 DEF OrderText, OrderInt, NamesOfOrderResponse
<1> QED
  BY <1>1, <1>2, <1>3, <1>4, <1>5, <1>6, <1>8, <1>9, Zenon DEF Elems

\* A struct of scalars that tells what w has shows it.
LEMMA FieldsShow ==
  ASSUME NEW x, NEW w, NEW names, Tells(x, w, names),
         NEW F, F = Elems(names)
  PROVE  /\ \A f \in F \ (OptNames \cup {"date_created"}) : x[f] = w[f]
         /\ \A f \in F \cap OptNames : x[f].Set => x[f].Value = w[f].Value
<1>1. \A f \in F : TellsScalar(f, x[f], w[f])
  BY DEF Tells, Elems
<1> QED
  BY <1>1, Zenon DEF TellsScalar

\* A decoded order that tells what the handler answered shows the order it
\* answered.
LEMMA OrderShows ==
  ASSUME NEW o, IsOrder(o), NEW s, TellsOrder(s, ToResponse(o))
  PROVE  Shows(s, o)
<1> DEFINE v == ToResponse(o)
<1>1. FieldsOf("order") = OrderText \cup OrderInt \cup {"order_uid", "date_created", "delivery", "payment", "items"}
  BY Zenon DEF FieldsOf
<1>2. FieldsOf("payment") = PaymentText \cup PaymentInt
  BY Zenon DEF FieldsOf
<1>3. \A f \in FieldsOf("order") : /\ ReadyValue(f, s[f], v[f])
                                   /\ f \notin OptNames => TellsValue(f, s[f], v[f])
  BY NamesAreFields DEF TellsOrder, Elems
<1>4. \A f \in FieldsOf("order") \ {"payment", "internal_signature", "items"} : v[f] = o[f]
  BY ResponseFacts
<1> HIDE DEF v
<1>5. ASSUME NEW f \in (OrderText \cup OrderInt \cup {"order_uid"}) \ OptNames PROVE s[f] = o[f]
  <2>1. f \notin Structs /\ f # "date_created" /\ f \in FieldsOf("order") /\ f # "internal_signature"
    BY <1>1 DEF OrderText, OrderInt, Structs, OptNames
  <2>2. TellsScalar(f, s[f], v[f]) /\ v[f] = o[f]
    BY <1>3, <1>4, <2>1 DEF TellsValue, Structs
  <2> QED
    BY <2>1, <2>2 DEF TellsScalar
<1>6. s.order_uid = o.order_uid
  <2>1. "order_uid" \in (OrderText \cup OrderInt \cup {"order_uid"}) \ OptNames
    BY DEF OptNames
  <2> QED
    BY <1>5, <2>1
<1>7. s.date_created = DateTime(o.date_created)
  <2>1. "date_created" \in FieldsOf("order") /\ "date_created" \notin OptNames /\ "date_created" \notin Structs
    BY <1>1 DEF OptNames, Structs
  <2>2. TellsScalar("date_created", s.date_created, o.date_created)
    BY <1>3, <1>4, <2>1 DEF TellsValue, Structs
  <2> QED
    BY <2>1, <2>2 DEF TellsScalar
<1>8. \A f \in (OrderText \cup OrderInt) \cap OptNames : s[f].Set => s[f].Value = o[f]
  <2> TAKE f \in (OrderText \cup OrderInt) \cap OptNames
  <2>1. f = "internal_signature" /\ f \in FieldsOf("order")
    BY <1>1 DEF OrderText, OrderInt, OptNames
  <2>2. TellsScalar(f, s[f], v[f])
    BY <1>3, <2>1 DEF ReadyValue
  <2>3. v[f].Value = o[f]
    BY <2>1, ResponseParts DEF v
  <2> QED
    BY <2>2, <2>3, Zenon DEF TellsScalar
<1>9. /\ \A f \in DeliveryText \ OptNames : s.delivery[f] = o.delivery[f]
      /\ \A f \in DeliveryText \cap OptNames : s.delivery[f].Set => s.delivery[f].Value = o.delivery[f]
  <2>1. "delivery" \in FieldsOf("order") /\ "delivery" \notin OptNames
    BY <1>1 DEF OptNames
  <2>2. Tells(s.delivery, o.delivery, NamesOfDelivery)
    BY <1>3, <1>4, <2>1 DEF TellsValue
  <2>3. \A f \in DeliveryText \ (OptNames \cup {"date_created"}) : s.delivery[f] = o.delivery[f]
    BY <2>2, NamesAreFields, FieldsShow
  <2>4. \A f \in DeliveryText : f \notin OptNames /\ f # "date_created"
    BY DEF DeliveryText, OptNames
  <2> QED
    BY <2>3, <2>4
<1>10. /\ \A f \in (PaymentText \cup PaymentInt) \ OptNames : s.payment[f] = o.payment[f]
       /\ \A f \in (PaymentText \cup PaymentInt) \cap OptNames :
            s.payment[f].Set => s.payment[f].Value = o.payment[f]
  <2>1. "payment" \in FieldsOf("order") /\ "payment" \notin OptNames
    BY <1>1 DEF OptNames
  <2>2. Tells(s.payment, v.payment, NamesOfPayment)
    BY <1>3, <2>1 DEF TellsValue
  <2>3. /\ \A f \in FieldsOf("payment") \ (OptNames \cup {"date_created"}) : s.payment[f] = v.payment[f]
        /\ \A f \in FieldsOf("payment") \cap OptNames : s.payment[f].Set => s.payment[f].Value = v.payment[f].Value
    BY <1>2, <2>2, NamesAreFields, FieldsShow
  <2>4. /\ \A f \in FieldsOf("payment") \ {"request_id"} : v.payment[f] = o.payment[f]
        /\ v.payment.request_id.Value = o.payment.request_id
    BY ResponseFacts, ResponseParts DEF v
  <2>5. /\ \A f \in PaymentText \cup PaymentInt : f # "date_created"
        /\ \A f \in (PaymentText \cup PaymentInt) \cap OptNames : f = "request_id"
        /\ "request_id" \in OptNames
    BY DEF PaymentText, PaymentInt, OptNames
  <2>6. \A f \in (PaymentText \cup PaymentInt) \ OptNames : s.payment[f] = o.payment[f]
    BY <1>2, <2>3, <2>4, <2>5
  <2>7. \A f \in (PaymentText \cup PaymentInt) \cap OptNames :
          s.payment[f].Set => s.payment[f].Value = o.payment[f]
    BY <1>2, <2>3, <2>4, <2>5
  <2> QED
    BY <2>6, <2>7
<1>11. /\ Len(s.items.elems) = Len(o.items)
       /\ \A n \in 1..Len(o.items) : Tells(s.items.elems[n], o.items[n], NamesOfOrderItem)
  <2>1. "items" \in FieldsOf("order") /\ "items" \notin OptNames
    BY <1>1 DEF OptNames
  <2>2. TellsItems(s.items, v.items)
    BY <1>3, <2>1 DEF TellsValue
  <2>3. v.items.elems = o.items
    BY ResponseParts DEF v
  <2> QED
    BY <2>2, <2>3 DEF TellsItems
<1>12. ASSUME NEW n \in 1..Len(o.items)
       PROVE  /\ \A f \in (ItemText \cup ItemInt) \ OptNames : s.items.elems[n][f] = o.items[n][f]
              /\ \A f \in (ItemText \cup ItemInt) \cap OptNames :
                   s.items.elems[n][f].Set => s.items.elems[n][f].Value = o.items[n][f]
  <2>1. \A f \in (ItemText \cup ItemInt) \ (OptNames \cup {"date_created"}) : s.items.elems[n][f] = o.items[n][f]
    BY <1>11, NamesAreFields, FieldsShow
  <2>2. \A f \in ItemText \cup ItemInt : f \notin OptNames /\ f # "date_created"
    BY DEF ItemText, ItemInt, OptNames
  <2> QED
    BY <2>1, <2>2
<1> QED
  BY <1>5, <1>6, <1>7, <1>8, <1>9, <1>10, <1>11, <1>12 DEF Shows
-----------------------------------------------------------------------------
(***************************************************************************)
(* The answer and the result.                                              *)
(***************************************************************************)
\* The body of the default error handler is no BadRequestErrorResponse: the
\* message is missing.
LEMMA DefaultErrorMisses == ~Fine(DecodeError(DefaultErrorBody))
<1> DEFINE doc == DefaultErrorBody
           names == NamesOfError
           mask == MaskOfError
<1>1. PICK x : doc = <<Pair("error_message", x)>>
  BY Zenon DEF DefaultErrorBody
<1> HIDE DEF doc
<1>2. Len(doc) = 1 /\ doc[1].key = "error_message"
  BY <1>1, PairFacts
<1> DEFINE N == Len(doc)
<1>3. PICK w : /\ FieldWalk(w, doc, names, Begin(ZeroError, mask), N)
               /\ DecodeFields(ZeroError, doc, names, mask) = Ended(w[N], names, mask)
  <2> HIDE DEF names, mask
  <2>1. N \in Nat
    BY <1>2
  <2> QED
    BY ONLY <2>1, DecodeFieldsIsWalk
<1>4. w[0] = Begin(ZeroError, mask) /\ w[1] = DecodeField(w[0], doc[1], names)
  BY <1>2, <1>3 DEF FieldWalk
<1>5. \A n \in 1..Len(names) : names[n] # doc[1].key
  BY <1>2 DEF NamesOfError
<1>6. w[1] = Begin(ZeroError, mask)
  BY <1>4, <1>5, MemberSkips DEF DecodeField
<1>7. Table(names, mask)
  BY TablesRight
<1>8. \A n \in 1..Len(names) : ~HasBit(w[1].bits, n)
  BY <1>6, <1>7, BeginFacts
<1>9. 1 \in 1..Len(names) /\ names[1] \notin OptNames
  BY DEF NamesOfError, OptNames
<1>10. Lacking(w[1].bits, names) # {}
  BY <1>8, <1>9 DEF Lacking
<1>11. DecodeFields(ZeroError, doc, names, mask) = Ended(w[1], names, mask)
  BY <1>2, <1>3
<1> HIDE DEF names, mask
<1>12. ~Fine(DecodeFields(ZeroError, doc, names, mask))
  BY <1>7, <1>10, <1>11, EndedFacts
<1> QED
  BY <1>12 DEF DecodeError, doc, names, mask

\* What a body decodes to.
LEMMA DecodedFacts ==
  ASSUME NEW kind, NEW r
  PROVE  \/ Decoded(kind, r).kind = "failed"
         \/ Fine(r) /\ Decoded(kind, r) = [kind |-> kind, s |-> r.s, missed |-> {}]
<1>1. CASE fault.kind \in {"cut", "trailing"} \/ r.bad
  BY <1>1 DEF Decoded, Failed
<1>2. CASE ~(fault.kind \in {"cut", "trailing"} \/ r.bad) /\ r.missed # {}
  BY <1>2 DEF Decoded, Failed
<1>3. CASE ~(fault.kind \in {"cut", "trailing"} \/ r.bad) /\ r.missed = {}
  BY <1>3 DEF Decoded, Fine
<1> QED
  BY <1>1, <1>2, <1>3

\* The document encodeOrderIDGetResponse writes for the order GetOrder gave.
Sent == EncodeOrderResponse(ToResponse(found))

\* The replies r without an order, and the answers a they belong to.
NoOrder(r, a) ==
  \/ \E status \in {204, 404, 405} : \E doc : r = Bodiless(status, doc) /\ a = None
  \/ r = Json(400, DefaultErrorBody) /\ a = None
  \/ \E doc : r = Json(404, doc) /\ a = "notfound"
  \/ \E doc : r = Json(500, doc) /\ a = "error"

\* The document of an order, as it is after the fault f.
Body(f) == IF IsFault(f) THEN Within(Sent, f) ELSE Sent

\* The reply to a request of the client: what belongs to the answer.
Carried == NoOrder(reply, answered) \/ (reply = Json(200, Body(fault)) /\ answered = "order")

\* The result of the client is the answer, or an error.
TrueResult ==
  result.kind \notin {None, "failed"} =>
    result.kind = answered /\ (answered = "order" => Shows(result.s, found))

\* f leaves fields out.
Drops(f) == f.kind = "dropped"

\* There is an item when f changes one.
Touches(f) == f.obj = "item" => Len(found.items) > 0

\* Inductive, next to RouteInv: what is on the wire and what is returned
\* belong to the order GetOrder gave.
CarryInv ==
  /\ order \in Orders
  /\ answered = "order" => found \in Views(order)
  /\ call.pc \in {"idle", "sent", "handling"} => answered = None
  /\ call.pc \in {"idle", "sent", "handling", "replied"} => fault = NoFault
  /\ call.pc # "returned" => result.kind = None
  /\ call.pc = "arrived" => call.own
  /\ call.own /\ call.pc \in {"replied", "arrived"} => Carried
  /\ call.pc = "arrived" /\ Drops(fault) =>
       IsFault(fault) /\ answered = "order" /\ Touches(fault)
  /\ TrueResult

\* decodeOrderIDGetResponse, status by status.
LEMMA ResponseBranches ==
  ASSUME NEW named, NEW doc
  PROVE  LET asOrder == Decoded("order", DecodeOrderResponse(doc))
         IN  /\ \A status : reply = Bodiless(status, doc) => DecodeOrderIDGetResponse(named) = Failed({})
             /\ reply = Json(200, doc) =>
                  DecodeOrderIDGetResponse(named) =
                    IF asOrder.kind = "order" /\ ~ValidateOrderResponse(asOrder.s, named)
                    THEN Failed({}) ELSE asOrder
             /\ reply = Json(400, doc) =>
                  DecodeOrderIDGetResponse(named) = Decoded("badrequest", DecodeError(doc))
             /\ reply = Json(404, doc) =>
                  DecodeOrderIDGetResponse(named) = Decoded("notfound", DecodeError(doc))
             /\ reply = Json(500, doc) =>
                  DecodeOrderIDGetResponse(named) = Decoded("error", DecodeError(doc))
<1> DEFINE asOrder == Decoded("order", DecodeOrderResponse(doc))
           E == DecodeError(doc)
           X == IF asOrder.kind = "order" /\ ~ValidateOrderResponse(asOrder.s, named)
                THEN Failed({}) ELSE asOrder
           D == DecodeOrderIDGetResponse(named)
<1>1. ASSUME NEW status, reply = Json(status, doc)
      PROVE  reply.json /\ reply.doc = doc /\ reply.status = status
  BY <1>1, Zenon DEF Json, Reply
<1>2. \A status : ~Bodiless(status, doc).json
  BY Zenon DEF Bodiless, Reply
<1>3. ASSUME ~reply.json PROVE D = Failed({})
  BY <1>3, Zenon DEF DecodeOrderIDGetResponse
<1> DEFINE B == Decoded("badrequest", E)
           N == Decoded("notfound", E)
           R == Decoded("error", E)
           F == Failed({})
           st == reply.status
<1>4. ASSUME reply.json, reply.doc = doc
      PROVE  D = CASE ~reply.json -> F
                   [] reply.json /\ st = 200 -> X
                   [] reply.json /\ st = 400 -> B
                   [] reply.json /\ st = 404 -> N
                   [] reply.json /\ st = 500 -> R
                   [] OTHER -> F
  BY <1>4 DEF DecodeOrderIDGetResponse
<1> HIDE DEF D, X, B, N, R, F, E, st
<1>5. ASSUME reply = Json(200, doc) PROVE D = X
  <2>1. reply.json /\ reply.doc = doc /\ st = 200
    BY <1>1, <1>5 DEF st
  <2>2. st = 200 /\ st # 400 /\ st # 404 /\ st # 500
    BY <2>1
  <2> QED
    BY <1>4, <2>1, <2>2, Zenon
<1>6. ASSUME reply = Json(400, doc) PROVE D = B
  <2>1. reply.json /\ reply.doc = doc /\ st = 400
    BY <1>1, <1>6 DEF st
  <2>2. st = 400 /\ st # 200 /\ st # 404 /\ st # 500
    BY <2>1
  <2> QED
    BY <1>4, <2>1, <2>2, Zenon
<1>7. ASSUME reply = Json(404, doc) PROVE D = N
  <2>1. reply.json /\ reply.doc = doc /\ st = 404
    BY <1>1, <1>7 DEF st
  <2>2. st = 404 /\ st # 200 /\ st # 400 /\ st # 500
    BY <2>1
  <2> QED
    BY <1>4, <2>1, <2>2, Zenon
<1>8. ASSUME reply = Json(500, doc) PROVE D = R
  <2>1. reply.json /\ reply.doc = doc /\ st = 500
    BY <1>1, <1>8 DEF st
  <2>2. st = 500 /\ st # 200 /\ st # 400 /\ st # 404
    BY <2>1
  <2> QED
    BY <1>4, <2>1, <2>2, Zenon
<1> QED
  BY <1>2, <1>3, <1>5, <1>6, <1>7, <1>8, Zenon DEF D, X, B, N, R, F, E

\* Every member of the document that arrives is one the order has, null or
\* unknown.
LEMMA BodySays ==
  ASSUME IsOrder(found), NEW doc, doc = Sent \/ \E f : IsFault(f) /\ doc = Within(Sent, f)
  PROVE  SaysOrder(doc, ToResponse(found), {Null})
<1> DEFINE v == ToResponse(found)
<1>1. Len(v.items.elems) \in Nat
  BY ResponseParts
<1>2. SaysOrder(doc, v, {Null})
  <2>1. CASE doc = Sent
    <3>1. Sent \in Seq(OrderMembers(v))
      BY EncodedOrder DEF Sent
    <3>2. \A m \in OrderMembers(v) : SaysValue(m, v, {Null})
      BY <1>1, OrderMembersSay
    <3> QED
      BY <2>1, <3>1, <3>2, Zenon DEF SaysOrder
  <2>2. ASSUME NEW f, IsFault(f), doc = Within(Sent, f) PROVE SaysOrder(doc, v, {Null})
    BY <1>1, <2>2, WithinSays DEF Sent
  <2> QED
    BY <2>1, <2>2
<1> QED
  BY <1>2

\* What the client makes of an order: an error, or one that shows it.
LEMMA OrderReturned ==
  ASSUME IsOrder(found), NEW doc, doc = Sent \/ \E f : IsFault(f) /\ doc = Within(Sent, f),
         reply = Json(200, doc), NEW named
  PROVE  LET res == DecodeOrderIDGetResponse(named)
         IN  res.kind = "failed" \/ (res.kind = "order" /\ Shows(res.s, found))
<1> DEFINE v == ToResponse(found)
           r == DecodeOrderResponse(doc)
           asOrder == Decoded("order", r)
           res == DecodeOrderIDGetResponse(named)
<1>2. SaysOrder(doc, v, {Null})
  BY BodySays
<1>3. res = Failed({}) \/ res = asOrder
  BY ResponseBranches, Zenon
<1> HIDE DEF res
<1>4. Failed({}).kind = "failed"
  BY DEF Failed
<1>5. asOrder.kind = "failed" \/ (Fine(r) /\ asOrder.kind = "order" /\ asOrder.s = r.s)
  BY DecodedFacts
<1>6. Fine(r) => Shows(r.s, found)
  <2> SUFFICES ASSUME Fine(r) PROVE Shows(r.s, found)
    OBVIOUS
  <2>1. TellsOrder(r.s, v)
    BY <1>2, OrderTells
  <2> QED
    BY <2>1, OrderShows
<1> QED
  BY <1>3, <1>4, <1>5, <1>6 DEF res

\* The order that is answered has the fields of an order.
LEMMA FoundIsOrder ==
  ASSUME CarryInv, answered = "order"
  PROVE  IsOrder(found) /\ IsView(found, order)
<1>1. IsOrder(order)
  BY OrderAssumption DEF CarryInv, IsOrder
<1>2. IsView(found, order)
  BY <1>1, ViewFacts DEF CarryInv
<1> QED
  BY <1>2 DEF IsView

\* The end of sendOrderIDGet: whatever came, the result is the answer, or an
\* error.
LEMMA ReturnIsTrue ==
  ASSUME CarryInv, OrderIDGetReturns
  PROVE  TrueResult'
<1>1. PICK named : result' = DecodeOrderIDGetResponse(named)
  BY DEF OrderIDGetReturns
<1> DEFINE res == DecodeOrderIDGetResponse(named)
<1>2. Carried /\ UNCHANGED <<found, answered>>
  BY DEF CarryInv, OrderIDGetReturns
<1>3. CASE \E status, doc : reply = Bodiless(status, doc)
  <2>1. res = Failed({})
    BY <1>3, ResponseBranches, ZenonT(60)
  <2> QED
    BY <1>1, <2>1 DEF Failed, TrueResult
<1>4. CASE reply = Json(400, DefaultErrorBody)
  <2>1. res = Decoded("badrequest", DecodeError(DefaultErrorBody))
    BY <1>4, ResponseBranches, Zenon
  <2>2. res.kind = "failed"
    BY <2>1, DecodedFacts, DefaultErrorMisses
  <2> QED
    BY <1>1, <2>2 DEF TrueResult
<1>5. ASSUME NEW doc, reply = Json(404, doc), answered = "notfound" PROVE TrueResult'
  <2>1. res = Decoded("notfound", DecodeError(doc))
    BY <1>5, ResponseBranches, Zenon
  <2>2. res.kind \in {"failed", "notfound"}
    BY <2>1, DecodedKind
  <2> QED
    BY <1>1, <1>2, <1>5, <2>2 DEF TrueResult
<1>6. ASSUME NEW doc, reply = Json(500, doc), answered = "error" PROVE TrueResult'
  <2>1. res = Decoded("error", DecodeError(doc))
    BY <1>6, ResponseBranches, Zenon
  <2>2. res.kind \in {"failed", "error"}
    BY <2>1, DecodedKind
  <2> QED
    BY <1>1, <1>2, <1>6, <2>2 DEF TrueResult
<1>7. ASSUME NEW doc, doc = Sent \/ \E f : IsFault(f) /\ doc = Within(Sent, f),
             reply = Json(200, doc), answered = "order"
      PROVE  TrueResult'
  <2>1. res.kind = "failed" \/ (res.kind = "order" /\ Shows(res.s, found))
    BY <1>7, FoundIsOrder, OrderReturned
  <2> QED
    BY <1>1, <1>2, <1>7, <2>1 DEF TrueResult
<1> QED
  <2>1. CASE NoOrder(reply, answered)
    BY <1>3, <1>4, <1>5, <1>6, <2>1 DEF NoOrder
  <2>2. CASE reply = Json(200, Body(fault)) /\ answered = "order"
    BY <1>7, <2>2 DEF Body
  <2> QED
    BY <1>2, <2>1, <2>2 DEF Carried

\* The request that goes on is the same.
LEMMA GoesFacts ==
  ASSUME RouteInv, NEW p, Goes(p)
  PROVE  call'.pc = p /\ call'.own = call.own /\ call'.id = call.id
  BY DEF RouteInv, Calls, Goes

\* Up to the answer there is nothing to carry.
LEMMA CarryBefore ==
  ASSUME RouteInv, CarryInv, UNCHANGED <<order, found, answered, fault, result>>,
         \/ call.pc = "idle" /\ call'.pc = "sent"
         \/ call.pc = "sent" /\ Goes("handling")
         \/ call.pc = "sent" /\ Goes("replied") /\ Carried'
  PROVE  CarryInv'
<1>1. \A p : Goes(p) => call'.pc = p
  BY GoesFacts
<1>2. TrueResult'
  BY DEF CarryInv, TrueResult
<1> QED
  BY <1>1, <1>2 DEF CarryInv

\* ServeHTTP replies without an answer of the handler.
LEMMA CarryServe ==
  ASSUME RouteInv, CarryInv, ServeHTTP
  PROVE  CarryInv'
<1>1. /\ call.pc = "sent" /\ UNCHANGED <<order, found, answered, fault, result>>
      /\ \/ Goes("handling")
         \/ /\ Goes("replied")
            /\ \E route : reply' = Json(400, DefaultErrorBody) \/ reply' = NoRoute(route, call.method)
  <2> DEFINE route == Route(ParseURL(call.wire).prefix, Elem(ParseURL(call.wire)).rest, call.method)
  <2>1. /\ call.pc = "sent" /\ UNCHANGED <<order, found, answered, fault, result>>
    BY DEF ServeHTTP
  <2>2. \/ Goes("handling")
        \/ Goes("replied") /\ (reply' = Json(400, DefaultErrorBody) \/ reply' = NoRoute(route, call.method))
    BY Zenon DEF ServeHTTP, Goes, Json
  <2> HIDE DEF route
  <2> QED
    BY <2>1, <2>2, Zenon
<1>2. ASSUME NEW route PROVE \E s \in {204, 404, 405} : NoRoute(route, call.method) = Bodiless(s, <<>>)
  <2>1. \/ NoRoute(route, call.method) = Bodiless(404, <<>>)
        \/ NoRoute(route, call.method) = Bodiless(204, <<>>)
        \/ NoRoute(route, call.method) = Bodiless(405, <<>>)
    BY ZenonT(60) DEF NoRoute, Bodiless
  <2> QED
    BY <2>1
<1>3. answered = None
  BY <1>1 DEF CarryInv
<1>4. Goes("replied") => Goes("handling") \/ NoOrder(reply', answered')
  BY <1>1, <1>2, <1>3 DEF NoOrder
<1> QED
  BY <1>1, <1>4, CarryBefore DEF Carried

\* OrderIDGet answers, and its answer is what goes on the wire.
LEMMA CarryAnswer ==
  ASSUME RouteInv, CarryInv, OrderFound \/ OrderNotFound \/ GetOrderFails
  PROVE  CarryInv'
<1>1. /\ call.pc = "handling" /\ call.own /\ Goes("replied")
      /\ UNCHANGED <<order, fault, result>>
  BY Zenon DEF OrderFound, OrderNotFound, GetOrderFails, Answers, Goes
<1>2. PICK a, b : a = ErrorDoc("not found") /\ b = ErrorDoc("couldn't get order")
  BY Zenon
<1>3. \/ answered' = "order" /\ found' \in Views(order) /\ reply' = Json(200, Sent')
      \/ answered' = "notfound" /\ reply' = Json(404, a)
      \/ answered' = "error" /\ reply' = Json(500, b)
  BY <1>2, ZenonT(60) DEF OrderFound, OrderNotFound, GetOrderFails, Answers, Json, Sent
<1>4. call'.pc = "replied" /\ call'.own = call.own
  BY <1>1, GoesFacts
<1>5. fault' = NoFault /\ ~IsFault(NoFault)
  BY <1>1 DEF CarryInv, IsFault, NoFault, None
<1>6. Carried'
  BY <1>3, <1>5 DEF Carried, NoOrder, Body
<1>7. TrueResult'
  BY <1>1 DEF CarryInv, TrueResult, None
<1>8. answered' = "order" => found' \in Views(order')
  BY <1>1, <1>3
<1> QED
  BY <1>1, <1>4, <1>5, <1>6, <1>7, <1>8 DEF CarryInv

\* The reply arrives as it is, or as another version of the API wrote it.
LEMMA CarryArrives ==
  ASSUME RouteInv, CarryInv, ArrivesWhole \/ ArrivesCut \/ ArrivesTrailing \/ ArrivesOther
  PROVE  CarryInv'
<1>1. \E new, f : Arrives(new, f)
  <2>1. CASE ArrivesWhole \/ ArrivesCut \/ ArrivesTrailing
    BY <2>1, Zenon DEF ArrivesWhole, ArrivesCut, ArrivesTrailing
  <2>2. ASSUME NEW f, ArrivesChanged(f) PROVE \E new, g : Arrives(new, g)
    BY <2>2, Zenon DEF ArrivesChanged
  <2> QED
    BY <2>1, <2>2, Zenon DEF ArrivesOther
<1>2. call.pc = "replied" /\ call.own /\ Goes("arrived") /\ UNCHANGED <<order, found, answered, result>>
  BY <1>1, Zenon DEF Arrives, Goes
<1>3. call'.pc = "arrived" /\ call'.own = call.own
  BY <1>2, GoesFacts
<1>4. Carried /\ fault = NoFault /\ ~IsFault(NoFault)
  BY <1>2 DEF CarryInv, IsFault, NoFault, None
<1>5. Sent' = Sent
  BY <1>2 DEF Sent
<1>6. ASSUME ArrivesWhole \/ ArrivesCut \/ ArrivesTrailing PROVE Carried' /\ ~Drops(fault')
  <2>1. reply' = reply /\ fault' \in {NoFault, Fault("cut", None, {}), Fault("trailing", None, {})}
    BY <1>6, Zenon DEF ArrivesWhole, ArrivesCut, ArrivesTrailing, Arrives
  <2>2. ~IsFault(Fault("cut", None, {})) /\ ~IsFault(Fault("trailing", None, {}))
    BY DEF IsFault, Fault
  <2>3. ~IsFault(fault')
    BY <1>4, <2>1, <2>2
  <2>4. Body(fault) = Sent /\ Body(fault)' = Sent
    BY <1>4, <1>5, <2>3 DEF Body
  <2>5. ~Drops(fault')
    BY <2>1 DEF Drops, NoFault, None, Fault
  <2> QED
    BY <1>2, <1>4, <2>1, <2>4, <2>5 DEF Carried
<1>7. ASSUME ArrivesOther PROVE Carried' /\ IsFault(fault') /\ answered' = "order" /\ Touches(fault)'
  <2>1. PICK f : IsFault(f) /\ ArrivesChanged(f)
    BY <1>7 DEF ArrivesOther
  <2>2. /\ reply.status = 200 /\ reply' = [reply EXCEPT !.doc = Within(reply.doc, f)] /\ fault' = f
        /\ f.obj = "item" => Len(found.items) > 0
    BY <2>1, Zenon DEF ArrivesChanged, Arrives
  <2>7. Touches(fault)'
    BY <1>2, <2>2 DEF Touches
  <2>3. \A status, doc : Json(status, doc).status = status /\ Bodiless(status, doc).status = status
    BY DEF Json, Bodiless, Reply
  <2>4. reply = Json(200, Sent) /\ answered = "order"
    <3>1. ~NoOrder(reply, answered)
      BY <2>2, <2>3 DEF NoOrder
    <3> QED
      BY <1>4, <3>1 DEF Carried, Body
  <2>5. reply' = Json(200, Within(Sent, f))
    <3>1. ASSUME NEW json, NEW status, NEW a, NEW b
          PROVE  [Reply(status, json, a) EXCEPT !.doc = b] = Reply(status, json, b)
      BY DEF Reply
    <3>2. \A status, a, b : [Json(status, a) EXCEPT !.doc = b] = Json(status, b)
      BY <3>1, Zenon DEF Json
    <3>3. reply.doc = Sent
      BY <2>4 DEF Json, Reply
    <3> QED
      BY <2>2, <2>4, <3>2, <3>3
  <2>6. Body(fault)' = Within(Sent, f)
    BY <1>5, <2>1, <2>2 DEF Body
  <2> QED
    BY <1>2, <2>1, <2>2, <2>4, <2>5, <2>6, <2>7 DEF Carried
<1>8. Carried' /\ (Drops(fault') => IsFault(fault') /\ answered' = "order" /\ Touches(fault)')
  BY <1>6, <1>7
<1>9. TrueResult'
  BY <1>2 DEF CarryInv, TrueResult, None
<1> QED
  BY <1>2, <1>3, <1>8, <1>9 DEF CarryInv

\* Every step keeps the invariant.
LEMMA CarryStep ==
  ASSUME RouteInv, CarryInv, [Next]_vars
  PROVE  CarryInv'
<1>1. CASE ReceiveOrder \/ UNCHANGED vars
  <2>1. UNCHANGED <<order, call, found, answered, reply, fault, result>>
    BY <1>1 DEF ReceiveOrder, vars
  <2>2. Carried' <=> Carried
    <3>1. Body(fault)' = Body(fault)
      BY <2>1 DEF Body, Sent
    <3> QED
      BY <2>1, <3>1 DEF Carried
  <2> QED
    BY <2>1, <2>2 DEF CarryInv, TrueResult, Touches
<1>2. CASE (\E id \in Ids : SendOrderIDGet(id)) \/ (\E r \in Others : SendOther(r))
  <2>1. call.pc = "idle" /\ call'.pc = "sent" /\ UNCHANGED <<order, found, answered, fault, result>>
    BY <1>2 DEF SendOrderIDGet, SendOther
  <2> QED
    BY <2>1, CarryBefore
<1>3. CASE HandlerPanics \/ ConnectionLost
  <2>1. Goes("returned") /\ UNCHANGED <<order, found, answered>> /\ result' = Failed({})
    BY <1>3 DEF HandlerPanics, ConnectionLost, Goes
  <2>2. call'.pc = "returned"
    BY <2>1, GoesFacts
  <2>3. TrueResult'
    BY <2>1 DEF TrueResult, Failed
  <2> QED
    BY <2>1, <2>2, <2>3 DEF CarryInv
<1>4. CASE OrderIDGetReturns
  <2>1. Goes("returned") /\ UNCHANGED <<order, found, answered>>
    BY <1>4 DEF OrderIDGetReturns, Goes
  <2>2. call'.pc = "returned"
    BY <2>1, GoesFacts
  <2> QED
    BY <1>4, <2>1, <2>2, ReturnIsTrue DEF CarryInv
<1> QED
  BY <1>1, <1>2, <1>3, <1>4, CarryServe, CarryAnswer, CarryArrives, NextCases, Zenon

\* The invariant, for all behaviours.
LEMMA AlwaysCarry == Spec => []CarryInv
<1>1. Init => CarryInv
  BY DEF Init, NoCall, CarryInv, TrueResult, None
<1>2. RouteInv /\ CarryInv /\ [Next]_vars => CarryInv'
  BY CarryStep
<1> QED
  BY <1>1, <1>2, AlwaysRoute, PTL DEF Spec

\* For every order, every id and whatever happens to the reply on its way
\* (cut, with members dropped, null, doubled or unknown in any of its
\* objects): the client (oas_response_decoders_gen.go) returns what the
\* handler answered, or an error; an order it returns was saved without an
\* error under the id the client asked for, and shows, field by field through
\* EncodeFields and Decode, the order GetOrder gave to the handler: this one,
\* with its items as the cache or the queries had them.
THEOREM AnswersAreTrue == Spec => []AnswerIsTrue
<1>1. AnsweredInv /\ CarryInv => AnswerIsTrue
  BY DEF AnsweredInv, RightOrder, CarryInv, TrueResult, AnswerIsTrue
<1> QED
  BY <1>1, AlwaysAnswered, AlwaysCarry, PTL
-----------------------------------------------------------------------------
(***************************************************************************)
(* What is missing, and what is taken.                                     *)
(***************************************************************************)
\* The keys of an object are those of its members.
LEMMA KeysOfElems ==
  ASSUME NEW doc
  PROVE  Keys(doc) = {m.key : m \in Elems(doc)}
  BY DEF Keys, Elems

\* Encode writes every required field of a struct of scalars.
LEMMA EncodedKeys ==
  ASSUME NEW v, NEW names, Len(names) \in Nat
  PROVE  Needed(names) \subseteq Keys(EncodeFields(v, names))
<1> DEFINE doc == EncodeFields(v, names)
<1>1. Elems(doc) = {m \in FieldMembers(v, names) : m.key \in Written(v, names)}
  BY EncodedFields
<1> HIDE DEF doc
<1>2. ASSUME NEW f \in Needed(names) PROVE f \in Keys(doc)
  <2>1. f \in Elems(names) /\ f \in Written(v, names)
    BY DEF Needed, Written, Elems
  <2> DEFINE m == Pair(f, EncodeScalar(f, v[f]))
  <2>2. m \in FieldMembers(v, names) /\ m.key = f
    BY <2>1, PairFacts DEF FieldMembers
  <2> HIDE DEF m
  <2>3. m \in Elems(doc)
    BY <1>1, <2>1, <2>2
  <2> QED
    BY <2>2, <2>3, KeysOfElems
<1> QED
  BY <1>2 DEF doc

\* So it does for an OrderResponse.
LEMMA EncodedOrderKeys ==
  ASSUME NEW v
  PROVE  Needed(NamesOfOrderResponse) \subseteq Keys(EncodeOrderResponse(v))
<1> DEFINE doc == EncodeOrderResponse(v)
           names == NamesOfOrderResponse
<1>1. Elems(doc) = {m \in OrderMembers(v) : m.key \in Written(v, names)}
  BY EncodedOrder
<1> HIDE DEF doc
<1>2. ASSUME NEW f \in Needed(names) PROVE f \in Keys(doc)
  <2>1. f \in Elems(names) /\ f \in Written(v, names)
    BY DEF Needed, Written, Elems
  <2> DEFINE m == Pair(f, EncodeValue(f, v[f]))
  <2>2. m \in OrderMembers(v) /\ m.key = f
    BY <2>1, PairFacts DEF OrderMembers
  <2> HIDE DEF m
  <2>3. m \in Elems(doc)
    BY <1>1, <2>1, <2>2
  <2> QED
    BY <2>2, <2>3, KeysOfElems
<1> QED
  BY <1>2 DEF doc

\* A server that leaves fields out keeps the other members.
LEMMA DroppedFacts ==
  ASSUME NEW M, NEW doc \in Seq(M), NEW f, f.kind = "dropped"
  PROVE  Changed(doc, f) \in Seq(M) /\ Keys(Changed(doc, f)) = Keys(doc) \ f.fields
<1> DEFINE new == Changed(doc, f)
           keys == Keys(doc) \ f.fields
<1>1. new = Kept(doc, keys)
  BY Zenon DEF Changed, Keys
<1> HIDE DEF new
<1>2. new \in Seq(M) /\ Elems(new) = {m \in Elems(doc) : m.key \in keys}
  BY <1>1, KeptFacts
<1>3. Keys(new) = {m.key : m \in Elems(new)} /\ Keys(doc) = {m.key : m \in Elems(doc)}
  BY KeysOfElems
<1> QED
  BY <1>2, <1>3 DEF new

\* Of a struct of scalars it wrote, exactly the required fields among those
\* are missing.
LEMMA DroppedEnds ==
  ASSUME NEW v, NEW names, Len(names) \in Nat, NEW f, f.kind = "dropped"
  PROVE  LET new == Changed(EncodeFields(v, names), f)
         IN  SaysFields(new, v, {}) /\ Needed(names) \ Keys(new) = Needed(names) \cap f.fields
<1> DEFINE doc == EncodeFields(v, names)
           M == FieldMembers(v, names)
           new == Changed(doc, f)
<1>1. doc \in Seq(M) /\ Needed(names) \subseteq Keys(doc)
  BY EncodedFields, EncodedKeys
<1> HIDE DEF doc, M
<1>2. new \in Seq(M) /\ Keys(new) = Keys(doc) \ f.fields
  BY <1>1, DroppedFacts
<1>3. \A m \in M : SaysField(m, v, {})
  BY FieldMembersSay DEF M
<1> HIDE DEF new
<1>4. SaysFields(new, v, {})
  BY <1>2, <1>3, Zenon DEF SaysFields
<1>5. Needed(names) \ Keys(new) = Needed(names) \cap f.fields
  BY <1>1, <1>2
<1> QED
  BY <1>4, <1>5 DEF new, doc

\* An item that is encoded decodes.
LEMMA ItemEnds ==
  ASSUME NEW x, NEW f
  PROVE  /\ Ends(DecodeOrderItem(EncodeOrderItem(x)), {})
         /\ f.kind = "dropped" =>
              Ends(DecodeOrderItem(Changed(EncodeOrderItem(x), f)), Needed(NamesOfOrderItem) \cap f.fields)
<1> DEFINE names == NamesOfOrderItem
           d == EncodeOrderItem(x)
<1>1. Len(names) \in Nat /\ Table(names, MaskOfOrderItem)
  BY TablesRight DEF NamesOfOrderItem
<1>2. d = EncodeFields(x, names)
  BY DEF EncodeOrderItem
<1>3. SaysFields(d, x, {})
  BY EncodedSays
<1> HIDE DEF names, d
<1>4. Needed(names) \ Keys(d) = {}
  BY <1>1, <1>2, EncodedKeys
<1>5. \A doc : DecodeOrderItem(doc) = DecodeFields(ZeroOrderItem, doc, names, MaskOfOrderItem)
  BY DEF DecodeOrderItem, names
<1>6. Ends(DecodeOrderItem(d), {})
  BY <1>1, <1>3, <1>4, <1>5, FieldsDecode
<1>7. ASSUME f.kind = "dropped" PROVE Ends(DecodeOrderItem(Changed(d, f)), Needed(names) \cap f.fields)
  <2>1. SaysFields(Changed(d, f), x, {}) /\ Needed(names) \ Keys(Changed(d, f)) = Needed(names) \cap f.fields
    BY <1>1, <1>2, <1>7, DroppedEnds
  <2>2. Ends(DecodeFields(ZeroOrderItem, Changed(d, f), names, MaskOfOrderItem), Needed(names) \ Keys(Changed(d, f)))
    BY <1>1, <2>1, FieldsDecode
  <2> QED
    BY <1>5, <2>1, <2>2
<1> QED
  BY <1>6, <1>7 DEF d, names

\* So do delivery and payment.
LEMMA ObjectDecodes ==
  ASSUME NEW m, NEW x, NEW f, NEW d,
         (d = EncodeDelivery(x) /\ m.key = "delivery") \/ (d = EncodePayment(x) /\ m.key = "payment")
  PROVE  /\ m.val = Obj(d) => ValueEnds(m, {})
         /\ f.kind = "dropped" /\ m.val = Obj(Changed(d, f)) => ValueEnds(m, Required(m.key) \cap f.fields)
<1>0. \A y : Obj(y).t = "object" /\ Obj(y).v = y
  BY DEF Obj
<1>1. ASSUME NEW names, Len(names) \in Nat, d = EncodeFields(x, names), Required(m.key) = Needed(names),
             \A y : SaysFields(m.val.v, y, {}) /\ m.val.t = "object" => ValueEnds(m, Needed(names) \ Keys(m.val.v))
      PROVE  /\ m.val = Obj(d) => ValueEnds(m, {})
             /\ f.kind = "dropped" /\ m.val = Obj(Changed(d, f)) => ValueEnds(m, Required(m.key) \cap f.fields)
  <2>1. ASSUME m.val = Obj(d) PROVE ValueEnds(m, {})
    <3>1. m.val.t = "object" /\ m.val.v = d
      BY <1>0, <2>1
    <3>2. SaysFields(d, x, {})
      <4>1. d \in Seq(FieldMembers(x, names))
        BY <1>1, EncodedFields
      <4>2. \A k \in FieldMembers(x, names) : SaysField(k, x, {})
        BY FieldMembersSay
      <4> QED
        BY <4>1, <4>2, Zenon DEF SaysFields
    <3>3. Needed(names) \ Keys(d) = {}
      BY <1>1, EncodedKeys
    <3> QED
      BY <1>1, <3>1, <3>2, <3>3
  <2>2. ASSUME f.kind = "dropped", m.val = Obj(Changed(d, f)) PROVE ValueEnds(m, Required(m.key) \cap f.fields)
    <3>1. m.val.t = "object" /\ m.val.v = Changed(d, f)
      BY <1>0, <2>2
    <3>2. SaysFields(Changed(d, f), x, {}) /\ Needed(names) \ Keys(Changed(d, f)) = Needed(names) \cap f.fields
      BY <1>1, <2>2, DroppedEnds
    <3> QED
      BY <1>1, <3>1, <3>2
  <2> QED
    BY <2>1, <2>2
<1>2. CASE d = EncodeDelivery(x) /\ m.key = "delivery"
  <2>1. Len(NamesOfDelivery) \in Nat /\ d = EncodeFields(x, NamesOfDelivery)
    BY <1>2 DEF NamesOfDelivery, EncodeDelivery
  <2>2. Required(m.key) = Needed(NamesOfDelivery)
    <3>1. FieldsOf("delivery") = DeliveryText
      BY Zenon DEF FieldsOf
    <3> QED
      BY <1>2, <3>1, NamesAreFields DEF Required, Needed
  <2>3. ASSUME NEW y, SaysFields(m.val.v, y, {}), m.val.t = "object"
        PROVE  ValueEnds(m, Needed(NamesOfDelivery) \ Keys(m.val.v))
    BY <1>2, <2>3, ObjectEnds
  <2> QED
    BY <1>1, <2>1, <2>2, <2>3
<1>3. CASE d = EncodePayment(x) /\ m.key = "payment"
  <2>1. Len(NamesOfPayment) \in Nat /\ d = EncodeFields(x, NamesOfPayment)
    BY <1>3 DEF NamesOfPayment, EncodePayment
  <2>2. Required(m.key) = Needed(NamesOfPayment)
    <3>1. FieldsOf("payment") = PaymentText \cup PaymentInt
      BY Zenon DEF FieldsOf
    <3> QED
      BY <1>3, <3>1, NamesAreFields DEF Required, Needed
  <2>3. ASSUME NEW y, SaysFields(m.val.v, y, {}), m.val.t = "object"
        PROVE  ValueEnds(m, Needed(NamesOfPayment) \ Keys(m.val.v))
    BY <1>3, <2>3, ObjectEnds
  <2> QED
    BY <1>1, <2>1, <2>2, <2>3
<1> QED
  BY <1>2, <1>3

\* The elements of items, as Encode writes the items vs, with fields of the
\* first one left out by f.
ItemsFor(es, vs, f) ==
  /\ Len(es) = Len(vs) /\ Len(vs) \in Nat \ {0}
  /\ \A n \in 1..Len(vs) : n # 1 => es[n] = Obj(EncodeOrderItem(vs[n]))
  /\ es[1] = Obj(Changed(EncodeOrderItem(vs[1]), f))

\* The elements of items, as Encode writes them.
ItemsOf(es, vs) ==
  /\ Len(es) = Len(vs) /\ Len(vs) \in Nat
  /\ \A n \in 1..Len(vs) : es[n] = Obj(EncodeOrderItem(vs[n]))

\* An item as an element of items.
LEMMA ItemElem ==
  ASSUME NEW e, NEW x, NEW f
  PROVE  /\ e = Obj(EncodeOrderItem(x)) => e.t = "object" /\ Ends(DecodeOrderItem(e.v), {})
         /\ Drops(f) /\ e = Obj(Changed(EncodeOrderItem(x), f)) =>
              e.t = "object" /\ Ends(DecodeOrderItem(e.v), Needed(NamesOfOrderItem) \cap f.fields)
<1> DEFINE d == EncodeOrderItem(x)
           c == Changed(d, f)
<1>1. /\ Ends(DecodeOrderItem(d), {})
      /\ Drops(f) => Ends(DecodeOrderItem(c), Needed(NamesOfOrderItem) \cap f.fields)
  BY ItemEnds DEF Drops
<1>2. \A y : Obj(y).t = "object" /\ Obj(y).v = y
  BY DEF Obj
<1> HIDE DEF d, c
<1> QED
  BY <1>1, <1>2 DEF d, c

\* Items that are encoded decode.
LEMMA ItemsDecode ==
  ASSUME NEW m, NEW vs, m.key = "items", m.val.t = "array", ItemsOf(m.val.v, vs)
  PROVE  ValueEnds(m, {})
<1> DEFINE es == m.val.v
<1>1. Len(es) = Len(vs) /\ Len(vs) \in Nat
  BY DEF ItemsOf
<1>2. ASSUME NEW n \in 1..Len(es)
      PROVE  es[n].t = "object" /\ Ends(DecodeOrderItem(es[n].v), {})
  <2>1. es[n] = Obj(EncodeOrderItem(vs[n]))
    BY <1>1 DEF ItemsOf
  <2> HIDE DEF es
  <2> QED
    BY <2>1, ItemElem
<1> HIDE DEF es
<1>3. ElemsEnd(es, {})
  BY <1>2 DEF ElemsEnd
<1> QED
  BY <1>1, <1>3, ItemsEnd DEF es

\* With fields of the first left out, the required ones among them are
\* missing.
LEMMA ItemsDropped ==
  ASSUME NEW m, NEW vs, NEW f, Drops(f), m.key = "items", m.val.t = "array", ItemsFor(m.val.v, vs, f)
  PROVE  ValueEnds(m, Needed(NamesOfOrderItem) \cap f.fields)
<1> DEFINE es == m.val.v
           L == Needed(NamesOfOrderItem) \cap f.fields
<1>1. Len(es) = Len(vs) /\ Len(vs) \in Nat \ {0}
  BY DEF ItemsFor
<1>2. ASSUME NEW n \in 1..Len(es)
      PROVE  es[n].t = "object" /\ Ends(DecodeOrderItem(es[n].v), IF n = 1 THEN L ELSE {})
  <2>1. CASE n = 1
    <3>1. es[1] = Obj(Changed(EncodeOrderItem(vs[1]), f))
      BY DEF ItemsFor
    <3>2. es[1].t = "object" /\ Ends(DecodeOrderItem(es[1].v), L)
      <4> HIDE DEF es
      <4> QED
        BY <3>1, ItemElem
    <3> HIDE DEF es, L
    <3> QED
      BY <2>1, <3>2
  <2>2. CASE n # 1
    <3>1. es[n] = Obj(EncodeOrderItem(vs[n]))
      BY <1>1, <2>2 DEF ItemsFor
    <3>2. es[n].t = "object" /\ Ends(DecodeOrderItem(es[n].v), {})
      <4> HIDE DEF es
      <4> QED
        BY <3>1, ItemElem
    <3> HIDE DEF es, L
    <3> QED
      BY <2>2, <3>2
  <2> QED
    BY <2>1, <2>2
<1> HIDE DEF es, L
<1>3. ElemsEnd(es, L)
  BY <1>2 DEF ElemsEnd
<1> QED
  BY <1>1, <1>3, ItemsEnd DEF es, L

\* What Encode writes for delivery or payment, whole and with fields left
\* out by f.
LEMMA ObjectMember ==
  ASSUME NEW m, NEW x, NEW f
  PROVE  /\ m.key = "delivery" /\ m.val = Obj(EncodeDelivery(x)) => ValueEnds(m, {})
         /\ m.key = "payment" /\ m.val = Obj(EncodePayment(x)) => ValueEnds(m, {})
         /\ Drops(f) /\ m.key = "delivery" /\ m.val = Obj(Changed(EncodeDelivery(x), f)) =>
              ValueEnds(m, Required(m.key) \cap f.fields)
         /\ Drops(f) /\ m.key = "payment" /\ m.val = Obj(Changed(EncodePayment(x), f)) =>
              ValueEnds(m, Required(m.key) \cap f.fields)
<1>1. ASSUME m.key = "delivery"
      PROVE  /\ m.val = Obj(EncodeDelivery(x)) => ValueEnds(m, {})
             /\ Drops(f) /\ m.val = Obj(Changed(EncodeDelivery(x), f)) => ValueEnds(m, Required(m.key) \cap f.fields)
  <2> DEFINE d == EncodeDelivery(x)
  <2>1. d = EncodeDelivery(x) /\ m.key = "delivery"
    BY <1>1
  <2> HIDE DEF d
  <2>2. (d = EncodeDelivery(x) /\ m.key = "delivery") \/ (d = EncodePayment(x) /\ m.key = "payment")
    BY <2>1
  <2>3. /\ m.val = Obj(d) => ValueEnds(m, {})
        /\ f.kind = "dropped" /\ m.val = Obj(Changed(d, f)) => ValueEnds(m, Required(m.key) \cap f.fields)
    BY ONLY <2>2, ObjectDecodes
  <2> QED
    BY <2>3 DEF d, Drops
<1>2. ASSUME m.key = "payment"
      PROVE  /\ m.val = Obj(EncodePayment(x)) => ValueEnds(m, {})
             /\ Drops(f) /\ m.val = Obj(Changed(EncodePayment(x), f)) => ValueEnds(m, Required(m.key) \cap f.fields)
  <2> DEFINE d == EncodePayment(x)
  <2>1. d = EncodePayment(x) /\ m.key = "payment"
    BY <1>2
  <2> HIDE DEF d
  <2>2. (d = EncodeDelivery(x) /\ m.key = "delivery") \/ (d = EncodePayment(x) /\ m.key = "payment")
    BY <2>1
  <2>3. /\ m.val = Obj(d) => ValueEnds(m, {})
        /\ f.kind = "dropped" /\ m.val = Obj(Changed(d, f)) => ValueEnds(m, Required(m.key) \cap f.fields)
    BY ONLY <2>2, ObjectDecodes
  <2> QED
    BY <2>3 DEF d, Drops
<1> QED
  BY <1>1, <1>2

\* Every member that is encoded decodes.
LEMMA MembersEnd ==
  ASSUME NEW v, Len(v.items.elems) \in Nat, NEW m \in OrderMembers(v)
  PROVE  ValueEnds(m, {})
<1>1. PICK k \in Elems(NamesOfOrderResponse) : m = Pair(k, EncodeValue(k, v[k]))
  BY DEF OrderMembers
<1>2. m.key = k /\ m.val = EncodeValue(k, v[k])
  BY <1>1, PairFacts
<1>3. CASE k = "delivery"
  <2>1. v[k] = v.delivery
    BY <1>3
  <2>2. m.val = Obj(EncodeDelivery(v.delivery))
    BY <1>2, <1>3, <2>1, EncodeBranches, Zenon
  <2> QED
    BY <1>2, <1>3, <2>2, ObjectMember
<1>4. CASE k = "payment"
  <2>1. v[k] = v.payment
    BY <1>4
  <2>2. m.val = Obj(EncodePayment(v.payment))
    BY <1>2, <1>4, <2>1, EncodeBranches, Zenon
  <2> QED
    BY <1>2, <1>4, <2>2, ObjectMember
<1>5. CASE k = "items"
  <2> DEFINE vs == v.items.elems
             es == [n \in 1..Len(vs) |-> Obj(EncodeOrderItem(vs[n]))]
  <2>1. v[k] = v.items
    BY <1>5
  <2>2. m.val = [t |-> "array", v |-> es]
    BY <1>2, <1>5, <2>1, EncodeBranches, Zenon
  <2>3. Len(es) = Len(vs) /\ \A n \in 1..Len(vs) : es[n] = Obj(EncodeOrderItem(vs[n]))
    OBVIOUS
  <2> HIDE DEF es, vs
  <2>4. m.val.t = "array" /\ m.val.v = es
    BY <2>2
  <2>5. Len(vs) \in Nat
    BY DEF vs
  <2>6. ItemsOf(m.val.v, vs)
    BY <2>3, <2>4, <2>5 DEF ItemsOf
  <2> QED
    BY <1>2, <1>5, <2>4, <2>6, ItemsDecode
<1>6. CASE k \notin Structs
  <2>1. m.val = EncodeScalar(k, v[k])
    BY <1>2, <1>6, EncodeBranches, Zenon
  <2>2. ASSUME NEW old PROVE Ends(DecodeValue(old, m.key, m.val), {})
    <3>1. DecodeValue(old, k, m.val) = DecodeScalar(old, k, m.val)
      BY ONLY <1>6, ValueBranches, Zenon
    <3>2. DecodeValue(old, m.key, m.val) = DecodeScalar(old, k, EncodeScalar(k, v[k]))
      BY ONLY <1>2, <2>1, <3>1, Zenon
    <3> QED
      BY <3>2, ScalarDecodes, EndsFacts
  <2> QED
    BY <2>2 DEF ValueEnds
<1> QED
  BY <1>3, <1>4, <1>5, <1>6 DEF Structs

\* Where an object is: the key of the member that holds it.
Holder(obj) == IF obj = "item" THEN "items" ELSE obj

\* There is an object to leave fields out of: of items, the first.
HasObject(v, f) == f.obj = "item" => Len(v.items.elems) > 0

\* A member with fields of the object in it left out ends with exactly the
\* required ones among them missing.
LEMMA InsideEnds ==
  ASSUME NEW v, Len(v.items.elems) \in Nat, NEW m \in OrderMembers(v),
         NEW f, Drops(f), InObject(f), HasObject(v, f)
  PROVE  /\ Inside(m, f).key = m.key /\ m.key \in Elems(NamesOfOrderResponse)
         /\ m.key = Holder(f.obj) => ValueEnds(Inside(m, f), Required(f.obj) \cap f.fields)
         /\ m.key # Holder(f.obj) => ValueEnds(Inside(m, f), {})
<1> DEFINE new == Inside(m, f)
           L == Required(f.obj) \cap f.fields
<1>1. PICK k \in Elems(NamesOfOrderResponse) : m = Pair(k, EncodeValue(k, v[k]))
  BY DEF OrderMembers
<1>2. m.key = k /\ m.val = EncodeValue(k, v[k]) /\ k # "item"
  BY <1>1, PairFacts, SMTT(30) DEF Elems, NamesOfOrderResponse
<1>3. CASE f.obj = "item" /\ k = "items"
  <2> DEFINE vs == v.items.elems
             es == [n \in 1..Len(vs) |-> Obj(EncodeOrderItem(vs[n]))]
             ns == [n \in 1..Len(es) |-> IF n = 1 THEN Obj(Changed(es[n].v, f)) ELSE es[n]]
  <2>1. v[k] = v.items
    BY <1>3
  <2>2. m.val = [t |-> "array", v |-> es]
    BY <1>2, <1>3, <2>1, EncodeBranches, Zenon
  <2>3. m.val.v = es
    BY <2>2
  <2>4. Len(es) = Len(vs) /\ Len(vs) \in Nat /\ \A n \in 1..Len(vs) : es[n] = Obj(EncodeOrderItem(vs[n]))
    OBVIOUS
  <2>13. Len(vs) > 0
    BY <1>3 DEF HasObject
  <2> HIDE DEF es, vs
  <2>5. new = Pair(k, [t |-> "array", v |-> ns])
    BY <1>2, <1>3, <2>3, Zenon DEF Inside
  <2>6. Len(ns) = Len(vs)
    BY <2>4
  <2>7. \A n \in 1..Len(vs) : ns[n] = IF n = 1 THEN Obj(Changed(es[n].v, f)) ELSE es[n]
    BY <2>4
  <2> HIDE DEF ns, new
  <2>8. new.key = k /\ new.val.t = "array" /\ new.val.v = ns
    BY <2>5, PairFacts
  <2>9. \A y : Obj(y).v = y
    BY DEF Obj
  <2>10. ItemsFor(new.val.v, vs, f)
    <3>1. ns[1] = Obj(Changed(EncodeOrderItem(vs[1]), f))
      <4>1. 1 \in 1..Len(vs)
        BY <2>4, <2>13
      <4>2. ns[1] = Obj(Changed(es[1].v, f)) /\ es[1] = Obj(EncodeOrderItem(vs[1]))
        BY <2>4, <2>7, <4>1
      <4> QED
        BY <2>9, <4>2
    <3>2. \A n \in 1..Len(vs) : n # 1 => ns[n] = Obj(EncodeOrderItem(vs[n]))
      BY <2>4, <2>7
    <3>3. new.val.v = ns
      BY <2>8
    <3> QED
      BY <2>4, <2>6, <2>13, <3>1, <3>2, <3>3 DEF ItemsFor
  <2>11. L = Needed(NamesOfOrderItem) \cap f.fields
    <3>1. FieldsOf("item") = ItemText \cup ItemInt
      BY Zenon DEF FieldsOf
    <3> QED
      BY <1>3, <3>1, NamesAreFields DEF Required, Needed
  <2> HIDE DEF L
  <2>12. ValueEnds(new, L)
    BY <1>3, <2>8, <2>10, <2>11, ItemsDropped
  <2> QED
    BY <1>2, <1>3, <2>8, <2>12 DEF Holder, new, L
<1>4. CASE f.obj = "delivery" /\ k = "delivery"
  <2> DEFINE d == EncodeDelivery(v.delivery)
  <2>1. v[k] = v.delivery
    BY <1>4
  <2>2. m.val = Obj(d)
    BY <1>2, <1>4, <2>1, EncodeBranches, Zenon
  <2>3. m.val.v = d
    BY <2>2 DEF Obj
  <2>4. new = Pair(m.key, Obj(Changed(m.val.v, f)))
    BY <1>2, <1>4, Zenon DEF Inside
  <2> HIDE DEF d, new
  <2>5. new.key = k /\ new.val = Obj(Changed(d, f))
    BY <1>2, <2>3, <2>4, PairFacts
  <2>6. ValueEnds(new, L)
    <3>1. new.key = f.obj /\ new.val = Obj(Changed(d, f))
      BY <1>4, <2>5
    <3>2. ValueEnds(new, Required(new.key) \cap f.fields)
      BY <1>4, <3>1, ObjectMember DEF d
    <3> QED
      BY <3>1, <3>2
  <2> QED
    BY <1>2, <1>4, <2>5, <2>6 DEF Holder, new
<1>5. CASE f.obj = "payment" /\ k = "payment"
  <2> DEFINE d == EncodePayment(v.payment)
  <2>1. v[k] = v.payment
    BY <1>5
  <2>2. m.val = Obj(d)
    BY <1>2, <1>5, <2>1, EncodeBranches, Zenon
  <2>3. m.val.v = d
    BY <2>2 DEF Obj
  <2>4. new = Pair(m.key, Obj(Changed(m.val.v, f)))
    BY <1>2, <1>5, Zenon DEF Inside
  <2> HIDE DEF d, new
  <2>5. new.key = k /\ new.val = Obj(Changed(d, f))
    BY <1>2, <2>3, <2>4, PairFacts
  <2>6. ValueEnds(new, L)
    <3>1. new.key = f.obj /\ new.val = Obj(Changed(d, f))
      BY <1>5, <2>5
    <3>2. ValueEnds(new, Required(new.key) \cap f.fields)
      BY <1>5, <3>1, ObjectMember DEF d
    <3> QED
      BY <3>1, <3>2
  <2> QED
    BY <1>2, <1>5, <2>5, <2>6 DEF Holder, new
<1>6. CASE ~(f.obj = "item" /\ k = "items") /\ f.obj # k
  <2>1. new = m
    BY <1>2, <1>6, Zenon DEF Inside
  <2>2. k # Holder(f.obj)
    BY <1>6 DEF Holder
  <2> QED
    BY <1>2, <2>1, <2>2, MembersEnd
<1> QED
  BY <1>2, <1>3, <1>4, <1>5, <1>6 DEF InObject

\* An order that is encoded decodes.
LEMMA SentEnds ==
  ASSUME NEW v, Len(v.items.elems) \in Nat
  PROVE  Ends(DecodeOrderResponse(EncodeOrderResponse(v)), {})
<1> DEFINE doc == EncodeOrderResponse(v)
           M == OrderMembers(v)
<1>1. doc \in Seq(M) /\ Needed(NamesOfOrderResponse) \ Keys(doc) = {}
  BY EncodedOrder, EncodedOrderKeys
<1>2. \A m \in M : ValueEnds(m, {})
  BY MembersEnd
<1> HIDE DEF doc, M
<1>3. Len(doc) \in Nat /\ \A i \in 1..Len(doc) : doc[i] \in M
  BY <1>1
<1> QED
  BY <1>1, <1>2, <1>3, OrderDecodes DEF doc

\* With fields left out of one of its objects, exactly the required ones
\* among them are missing.
LEMMA WithinEnds ==
  ASSUME NEW v, Len(v.items.elems) \in Nat, NEW f, IsFault(f), Drops(f), HasObject(v, f)
  PROVE  Ends(DecodeOrderResponse(Within(EncodeOrderResponse(v), f)), f.fields \cap Required(f.obj))
<1> DEFINE doc == EncodeOrderResponse(v)
           M == OrderMembers(v)
           names == NamesOfOrderResponse
           L == f.fields \cap Required(f.obj)
<1>1. doc \in Seq(M) /\ Needed(names) \subseteq Keys(doc)
  BY EncodedOrder, EncodedOrderKeys
<1>2. \A m \in M : ValueEnds(m, {})
  BY MembersEnd
<1> HIDE DEF doc
<1>3. Len(doc) \in Nat /\ \A i \in 1..Len(doc) : doc[i] \in M
  <2> HIDE DEF M
  <2> QED
    BY <1>1
<1>4. CASE f.obj = "order"
  <2> DEFINE new == Changed(doc, f)
  <2>1. Within(doc, f) = new
    BY <1>4, Zenon DEF Within
  <2> HIDE DEF M
  <2>2. new \in Seq(M) /\ Keys(new) = Keys(doc) \ f.fields
    BY <1>1, DroppedFacts DEF Drops
  <2> HIDE DEF new
  <2>3. Len(new) \in Nat /\ \A i \in 1..Len(new) : ValueEnds(new[i], {})
    <3>1. Len(new) \in Nat /\ \A i \in 1..Len(new) : new[i] \in M
      BY <2>2
    <3> QED
      BY <1>2, <3>1
  <2>4. Ends(DecodeOrderResponse(new), Needed(names) \ Keys(new))
    BY <2>3, OrderDecodes
  <2>5. Required(f.obj) = Needed(names)
    BY <1>4, NamesAreFields DEF Required, Needed
  <2>6. Needed(names) \ Keys(new) = L
    BY <1>1, <2>2, <2>5
  <2> QED
    BY <2>1, <2>4, <2>6 DEF doc
<1>5. CASE f.obj # "order"
  <2> DEFINE new == [n \in 1..Len(doc) |-> Inside(doc[n], f)]
  <2>0. InObject(f)
    BY <1>5 DEF IsFault, Objects, InObject
  <2>1. Within(doc, f) = new
    BY <1>5, Zenon DEF Within
  <2>2. Len(new) = Len(doc) /\ \A i \in 1..Len(doc) : new[i] = Inside(doc[i], f)
    BY <1>3
  <2> HIDE DEF new
  <2>3. ASSUME NEW i \in 1..Len(doc)
        PROVE  /\ new[i].key = doc[i].key /\ new[i].key \in Elems(names)
               /\ doc[i].key = Holder(f.obj) => ValueEnds(new[i], L)
               /\ doc[i].key # Holder(f.obj) => ValueEnds(new[i], {})
    <3>1. doc[i] \in M /\ new[i] = Inside(doc[i], f)
      BY <1>3, <2>2
    <3>2. L = Required(f.obj) \cap f.fields
      OBVIOUS
    <3>3. doc[i] \in OrderMembers(v)
      BY <3>1
    <3> HIDE DEF L, M
    <3>4. PICK m : m = doc[i]
      OBVIOUS
    <3>5. m \in OrderMembers(v) /\ new[i] = Inside(m, f)
      BY <3>1, <3>3, <3>4
    <3>6. /\ Inside(m, f).key = m.key /\ m.key \in Elems(names)
          /\ m.key = Holder(f.obj) => ValueEnds(Inside(m, f), L)
          /\ m.key # Holder(f.obj) => ValueEnds(Inside(m, f), {})
      BY ONLY <2>0, <3>2, <3>5, Drops(f), HasObject(v, f), Len(v.items.elems) \in Nat, InsideEnds
    <3> QED
      BY <3>4, <3>5, <3>6
  <2> HIDE DEF L, M
  <2>4. Keys(new) = Keys(doc)
    BY <2>2, <2>3 DEF Keys
  <2>5. CASE L = {}
    <3>1. \A i \in 1..Len(new) : ValueEnds(new[i], {})
      BY <2>2, <2>3, <2>5
    <3>2. Ends(DecodeOrderResponse(new), Needed(names) \ Keys(new))
      BY <1>3, <2>2, <3>1, OrderDecodes
    <3>3. Needed(names) \ Keys(new) = L
      BY <1>1, <2>4, <2>5
    <3> QED
      BY <2>1, <3>2, <3>3 DEF doc, L
  <2>6. CASE L # {}
    <3>1. Holder(f.obj) \in Needed(names)
      <4>1. Holder(f.obj) \in {"items", "delivery", "payment"}
        BY <2>0 DEF InObject, Holder
      <4>2. FieldsOf("order") = OrderText \cup OrderInt \cup {"order_uid", "date_created", "delivery", "payment", "items"}
        BY Zenon DEF FieldsOf
      <4>3. Holder(f.obj) \in FieldsOf("order") /\ Holder(f.obj) \notin OptNames
        BY <4>1, <4>2 DEF OptNames
      <4> QED
        BY <4>3, NamesAreFields DEF Needed
    <3>2. PICK i \in 1..Len(doc) : doc[i].key = Holder(f.obj)
      BY <1>1, <3>1 DEF Keys
    <3>3. ValueEnds(new[i], L)
      BY <2>3, <3>2
    <3>4. /\ Len(new) \in Nat
          /\ \A j \in 1..Len(new) : ValueEnds(new[j], {}) \/ ValueEnds(new[j], L)
          /\ \A j \in 1..Len(new) : new[j].key \in Elems(names)
          /\ \E j \in 1..Len(new) : ValueEnds(new[j], L)
      BY <1>3, <2>2, <2>3, <3>3
    <3>5. Ends(DecodeOrderResponse(new), L)
      BY <2>6, <3>4, OrderFails
    <3> QED
      BY <2>1, <3>5 DEF doc, L
  <2> QED
    BY <2>5, <2>6
<1> QED
  BY <1>4, <1>5

\* What was saved, or seemed to be, has passed ValidateOrder.
StoredInv == fate \in {"stored", "doubtful"} => ValidateOrder(order)

\* The order stays, and its fate is settled by ValidateOrder and the tables.
LEMMA AlwaysStored == Spec => []StoredInv
<1>1. Init => StoredInv
  BY DEF Init, StoredInv, None
<1>2. ASSUME StoredInv, [Next]_vars PROVE StoredInv'
  <2>1. CASE ReceiveOrder
    <3>1. order' = order /\ (~ValidateOrder(order) => fate' \in {"invalid"})
      BY <2>1, Zenon DEF ReceiveOrder
    <3>2. ValidateOrder(order)' <=> ValidateOrder(order)
      BY <3>1
    <3> QED
      BY <3>1, <3>2 DEF StoredInv
  <2>2. CASE UNCHANGED <<order, fate>>
    BY <1>2, <2>2 DEF StoredInv
  <2>3. ReceiveOrder \/ UNCHANGED <<order, fate>>
    <3>1. \A f : ArrivesChanged(f) => UNCHANGED <<order, fate>>
      BY DEF ArrivesChanged, Arrives
    <3>2. CASE UNCHANGED vars
      BY <3>2 DEF vars
    <3>3. CASE \/ \E id \in Ids : SendOrderIDGet(id)
               \/ \E r \in Others : SendOther(r)
               \/ ServeHTTP
      BY <3>3 DEF SendOrderIDGet, SendOther, ServeHTTP
    <3>4. CASE OrderFound \/ OrderNotFound \/ GetOrderFails \/ HandlerPanics
      BY <3>4, ZenonT(60) DEF OrderFound, OrderNotFound, GetOrderFails, HandlerPanics, Answers
    <3>5. CASE ArrivesWhole \/ ArrivesCut \/ ArrivesTrailing \/ ArrivesOther
      BY <3>1, <3>5 DEF ArrivesWhole, ArrivesCut, ArrivesTrailing, ArrivesOther, Arrives
    <3>6. CASE ConnectionLost \/ OrderIDGetReturns
      BY <3>6 DEF ConnectionLost, OrderIDGetReturns
    <3> QED
      BY <1>2, <3>2, <3>3, <3>4, <3>5, <3>6, NextCases, Zenon
  <2> QED
    BY <2>1, <2>2, <2>3
<1> QED
  BY <1>1, <1>2, PTL DEF Spec

\* The items of a view are as cheap as those of the order.
LEMMA ViewSales ==
  ASSUME NEW o, IsOrder(o), ValidateOrder(o), NEW v, IsView(v, o), NEW n \in 1..Len(v.items)
  PROVE  v.items[n].sale >= 0 /\ v.items[n].sale <= 100
<1>1. PICK k \in 1..Len(o.items) : v.items[n] \in {o.items[k], AsStored(o.items[k])}
  BY DEF IsView
<1>2. validateItem(o.items[k]) /\ DOMAIN o.items[k] = FieldsOf("item")
  BY DEF ValidateOrder, validateItems, IsOrder
<1>3. "sale" \in FieldsOf("item") \ ItemText
  <2>1. FieldsOf("item") = ItemText \cup ItemInt
    BY Zenon DEF FieldsOf
  <2> QED
    BY <2>1 DEF ItemText, ItemInt
<1> DEFINE i == o.items[k]
           x == v.items[n]
<1>4. x = i \/ x = AsStored(i)
  BY <1>1
<1> HIDE DEF i, x
<1>5. x["sale"] = i["sale"]
  BY <1>2, <1>3, <1>4, StoredFields DEF i
<1>6. i.sale >= 0 /\ i.sale <= 100
  BY <1>2 DEF i, validateItem
<1> QED
  BY <1>5, <1>6 DEF x

\* The Validate of the client takes what the ValidateOrder of the receiver
\* took: both bound sale, and an e-mail that is neither blank nor without an
\* address is one without a name or one with it.
LEMMA ValidTaken ==
  ASSUME NEW o, IsOrder(o), o.delivery.email[2] \in EmailClass, ValidateOrder(o),
         o.delivery.email[2] # "named", NEW v, IsView(v, o),
         NEW s, Shows(s, v), ~s.items.isNil, NEW named
  PROVE  ValidateOrderResponse(s, named)
<1>1. ValidateDelivery(s.delivery, named)
  <2>1. s.delivery.email = o.delivery.email
    <3>1. "email" \in DeliveryText \ OptNames
      BY DEF DeliveryText, OptNames
    <3>2. \A f \in DeliveryText \ OptNames : s.delivery[f] = v.delivery[f]
      BY DEF Shows
    <3>3. s.delivery["email"] = v.delivery["email"]
      BY <3>1, <3>2
    <3>4. "delivery" \in FieldsOf("order") \ {"items"}
      BY Zenon DEF FieldsOf
    <3>5. v["delivery"] = o["delivery"]
      BY <3>4 DEF IsView
    <3> QED
      BY <3>3, <3>5
  <2>3. ~IsBlank(o.delivery.email) /\ isValidEmail(o.delivery.email)
    <3>1. "email" \in DeliveryText
      BY DEF DeliveryText
    <3>2. validateDelivery(o.delivery)
      BY DEF ValidateOrder
    <3>3. ~IsBlank(o.delivery["email"]) /\ isValidEmail(o.delivery.email)
      BY <3>1, <3>2 DEF validateDelivery
    <3> QED
      BY <3>3
  <2>4. o.delivery.email[2] \in {"fits", "long"}
    BY <2>3 DEF EmailClass, IsBlank, isValidEmail
  <2>5. s.delivery.email[2] \in {"fits", "long"}
    BY <2>1, <2>4
  <2> QED
    BY <2>5, Zenon DEF ValidateDelivery
<1>2. ASSUME NEW n \in 1..Len(s.items.elems) PROVE ValidateOrderItem(s.items.elems[n])
  <2> DEFINE x == s.items.elems[n]
             i == v.items[n]
  <2>1. n \in 1..Len(v.items) /\ \A f \in (ItemText \cup ItemInt) \ OptNames : x[f] = i[f]
    BY DEF Shows
  <2>2. "sale" \in (ItemText \cup ItemInt) \ OptNames
    BY DEF ItemInt, OptNames
  <2>3. i.sale >= 0 /\ i.sale <= 100
    BY <2>1, ViewSales
  <2> HIDE DEF x, i
  <2>4. x["sale"] = i["sale"]
    BY <2>1, <2>2
  <2>5. x.sale = i.sale
    BY <2>4
  <2> QED
    BY <2>3, <2>5 DEF ValidateOrderItem, x
<1> QED
  BY <1>1, <1>2 DEF ValidateOrderResponse

\* What the client makes of a body that decodes with exactly L missing.
LEMMA OrderTaken ==
  ASSUME order \in Orders, IsOrder(order), IsView(found, order),
         NEW doc, doc = Sent \/ \E f : IsFault(f) /\ doc = Within(Sent, f),
         reply = Json(200, doc), fault.kind \notin {"cut", "trailing"}, NEW named,
         NEW L, Ends(DecodeOrderResponse(doc), L)
  PROVE  LET res == DecodeOrderIDGetResponse(named)
         IN  /\ L # {} => res = Failed(L)
             /\ L = {} /\ ValidateOrder(order) /\ order.delivery.email[2] # "named" => res.kind = "order"
<1> DEFINE r == DecodeOrderResponse(doc)
           asOrder == Decoded("order", r)
           res == DecodeOrderIDGetResponse(named)
<1>1. res = IF asOrder.kind = "order" /\ ~ValidateOrderResponse(asOrder.s, named)
            THEN Failed({}) ELSE asOrder
  BY ResponseBranches, Zenon
<1>2. ~r.bad /\ r.missed = L
  BY Zenon DEF Ends
<1>3. asOrder = IF L # {} THEN Failed(L) ELSE [kind |-> "order", s |-> r.s, missed |-> {}]
  <2> HIDE DEF r
  <2> QED
    BY <1>2, Zenon DEF Decoded
<1>4. ASSUME L # {} PROVE res = Failed(L)
  <2>1. asOrder = Failed(L) /\ Failed(L).kind = "failed"
    BY <1>3, <1>4 DEF Failed
  <2> HIDE DEF asOrder, res
  <2> QED
    BY <1>1, <2>1
<1>5. ASSUME L = {}, ValidateOrder(order), order.delivery.email[2] # "named" PROVE res.kind = "order"
  <2>1. Fine(r)
    BY <1>2, <1>5, Zenon DEF Fine
  <2>7. IsOrder(found)
    BY DEF IsView
  <2>2. TellsOrder(r.s, ToResponse(found))
    BY <2>1, <2>7, BodySays, OrderTells
  <2>3. Shows(r.s, found)
    BY <2>2, <2>7, OrderShows
  <2>4. ~r.s.items.isNil
    <3>1. "items" \in FieldsOf("order") /\ "items" \notin OptNames
      <4>1. FieldsOf("order") = OrderText \cup OrderInt \cup {"order_uid", "date_created", "delivery", "payment", "items"}
        BY Zenon DEF FieldsOf
      <4> QED
        BY <4>1 DEF OptNames
    <3>2. TellsValue("items", r.s["items"], ToResponse(found)["items"])
      <4> HIDE DEF r
      <4> QED
        BY <2>2, <3>1, NamesAreFields DEF TellsOrder, Elems
    <3> HIDE DEF r
    <3>3. ~r.s["items"].isNil
      BY <3>2, Zenon DEF TellsValue, TellsItems
    <3> QED
      BY <3>3
  <2>5. ValidateOrderResponse(r.s, named)
    <3> HIDE DEF r
    <3>1. order.delivery.email[2] \in EmailClass
      BY OrderAssumption
    <3> QED
      BY <1>5, <2>3, <2>4, <3>1, ValidTaken
  <2>6. asOrder.kind = "order" /\ asOrder.s = r.s
    BY <1>3, <1>5
  <2> HIDE DEF asOrder, res, r
  <2> QED
    BY <1>1, <2>5, <2>6
<1> QED
  BY <1>4, <1>5

\* The end of sendOrderIDGet, when the order came whole or without some
\* of its fields.
LEMMA ReturnIsReported ==
  ASSUME CarryInv, AnsweredInv, StoredInv, OrderIDGetReturns
  PROVE  ServedIsDecodable' /\ MissingReported'
<1> DEFINE v == ToResponse(found)
           lost == fault.fields \cap Required(fault.obj)
<1>1. PICK named : result' = DecodeOrderIDGetResponse(named)
  BY DEF OrderIDGetReturns
<1>2. call.pc = "arrived" /\ UNCHANGED <<order, fate, found, answered, fault>>
  BY DEF OrderIDGetReturns
<1>3. Carried /\ order \in Orders
  BY <1>2 DEF CarryInv
<1>4. ASSUME answered = "order"
      PROVE  /\ reply = Json(200, Body(fault)) /\ ValidateOrder(order)
             /\ v.items.elems = found.items /\ Len(v.items.elems) \in Nat
             /\ IsOrder(order) /\ IsView(found, order)
  <2>1. reply = Json(200, Body(fault))
    BY <1>3, <1>4 DEF Carried, NoOrder, None
  <2>2. ValidateOrder(order)
    BY <1>4 DEF AnsweredInv, RightOrder, StoredInv
  <2>3. IsOrder(found) /\ IsView(found, order)
    BY <1>4, FoundIsOrder
  <2>4. IsOrder(order)
    BY <1>3, OrderAssumption DEF IsOrder
  <2>5. v.items.elems = found.items /\ Len(found.items) \in Nat
    BY <2>3, ResponseParts
  <2> QED
    BY <2>1, <2>2, <2>3, <2>4, <2>5
<1>5. ASSUME answered = "order", fault = NoFault
      PROVE  result'.kind = "order" \/ order.delivery.email[2] = "named"
  <2>1. ~IsFault(fault) /\ fault.kind \notin {"cut", "trailing"}
    BY <1>5 DEF IsFault, NoFault, None
  <2>2. reply = Json(200, Sent)
    BY <1>4, <1>5, <2>1 DEF Body
  <2>3. Ends(DecodeOrderResponse(Sent), {})
    BY <1>4, <1>5, SentEnds DEF Sent
  <2> QED
    BY <1>1, <1>3, <1>4, <1>5, <2>1, <2>2, <2>3, OrderTaken
<1>6. ASSUME Drops(fault)
      PROVE  IF lost # {} THEN result' = Failed(lost)
             ELSE result'.kind = "order" \/ order.delivery.email[2] = "named"
  <2>1. IsFault(fault) /\ answered = "order" /\ Touches(fault)
    BY <1>2, <1>6 DEF CarryInv
  <2>2. fault.kind \notin {"cut", "trailing"}
    BY <1>6 DEF Drops
  <2> DEFINE doc == Within(Sent, fault)
  <2>3. reply = Json(200, doc)
    BY <1>4, <2>1 DEF Body
  <2>7. HasObject(v, fault) /\ Len(v.items.elems) \in Nat
    BY <1>4, <2>1 DEF HasObject, Touches
  <2>4. Ends(DecodeOrderResponse(doc), lost)
    BY <1>6, <2>1, <2>7, WithinEnds DEF Sent
  <2>5. \E f : IsFault(f) /\ doc = Within(Sent, f)
    BY <2>1
  <2> HIDE DEF doc, lost
  <2>6. /\ lost # {} => result' = Failed(lost)
        /\ lost = {} /\ order.delivery.email[2] # "named" => result'.kind = "order"
    BY <1>1, <1>3, <1>4, <2>1, <2>2, <2>3, <2>4, <2>5, OrderTaken
  <2> QED
    BY <2>6
<1>7. ServedIsDecodable'
  BY <1>2, <1>5 DEF ServedIsDecodable
<1>8. MissingReported'
  BY <1>2, <1>6 DEF MissingReported, Drops
<1> QED
  BY <1>7, <1>8

\* Every step keeps both: a result is there at the end of the request, and
\* stays.
LEMMA ReportStep ==
  ASSUME RouteInv, CarryInv, AnsweredInv, StoredInv, ServedIsDecodable, MissingReported, [Next]_vars
  PROVE  ServedIsDecodable' /\ MissingReported'
<1>1. CASE ReceiveOrder \/ UNCHANGED vars
  <2>1. UNCHANGED <<order, call, answered, fault, result>>
    BY <1>1 DEF ReceiveOrder, vars
  <2> QED
    BY <2>1 DEF ServedIsDecodable, MissingReported
<1>2. CASE call'.pc # "returned"
  BY <1>2 DEF ServedIsDecodable, MissingReported
<1>3. CASE HandlerPanics
  <2>1. answered' = None /\ fault' = NoFault
    BY <1>3 DEF HandlerPanics, CarryInv
  <2> QED
    BY <2>1 DEF ServedIsDecodable, MissingReported, None, NoFault
<1>4. CASE ConnectionLost
  <2>1. fault'.kind = "lost"
    BY <1>4 DEF ConnectionLost, Fault
  <2> QED
    BY <2>1 DEF ServedIsDecodable, MissingReported, NoFault, None
<1>5. CASE OrderIDGetReturns
  BY <1>5, ReturnIsReported
<1>6. ASSUME NEW p, p \in {"handling", "replied", "arrived"}, Goes(p) PROVE call'.pc # "returned"
  BY <1>6, GoesFacts
<1>7. CASE \/ \E id \in Ids : SendOrderIDGet(id)
           \/ \E r \in Others : SendOther(r)
  <2>1. call'.pc = "sent"
    BY <1>7 DEF SendOrderIDGet, SendOther
  <2> QED
    BY <1>2, <2>1
<1>8. CASE \/ ServeHTTP \/ OrderFound \/ OrderNotFound \/ GetOrderFails
           \/ ArrivesWhole \/ ArrivesCut \/ ArrivesTrailing \/ ArrivesOther
  <2>1. Goes("handling") \/ Goes("replied") \/ Goes("arrived")
    BY <1>8, ZenonT(60) DEF ServeHTTP, OrderFound, OrderNotFound, GetOrderFails, Answers, Goes,
                   ArrivesWhole, ArrivesCut, ArrivesTrailing, ArrivesOther, ArrivesChanged, Arrives
  <2> QED
    BY <1>2, <1>6, <2>1
<1> QED
  BY <1>1, <1>3, <1>4, <1>5, <1>7, <1>8, NextCases, Zenon

\* The two properties, for all behaviours.
LEMMA AlwaysReported == Spec => [](ServedIsDecodable /\ MissingReported)
<1> DEFINE I == ServedIsDecodable /\ MissingReported
<1>1. Init => I
  BY DEF Init, NoCall, ServedIsDecodable, MissingReported
<1>2. RouteInv /\ CarryInv /\ AnsweredInv /\ StoredInv /\ I /\ [Next]_vars => I'
  BY ReportStep
<1> HIDE DEF I
<1>3. Spec => []I
  BY <1>1, <1>2, AlwaysRoute, AlwaysCarry, AlwaysAnswered, AlwaysStored, PTL DEF Spec
<1> QED
  BY <1>3 DEF I

\* For every order that passed ValidateOrder (validate_order.go) and the
\* tables, with however many of its items GetOrder gives it to the handler:
\* what the handler encodes is what the client (oas_json_gen.go,
\* oas_validators_gen.go) decodes and takes, unless its e-mail has a name
\* before the address.
THEOREM ServedAreDecodable == Spec => []ServedIsDecodable
  BY AlwaysReported, PTL

\* For every order, whichever two fields a server of another version leaves
\* out of it, its delivery, its payment or its first item: the client names
\* exactly the required ones (requiredBitSet of oas_json_gen.go), and takes
\* the order when only optional ones are gone.  (WithinEnds, on which it
\* rests, is for any set of fields.)
THEOREM MissingAreReported == Spec => []MissingReported
  BY AlwaysReported, PTL
=============================================================================
