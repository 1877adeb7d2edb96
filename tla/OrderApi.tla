------------------------------ MODULE OrderApi ------------------------------
(***************************************************************************)
(* GET /order/{id}, from the generated client to the handler and back      *)
(* (internal/api, internal/handlers/httphandlers/handler.go), about an     *)
(* order that came through the topic: what the validator and the tables    *)
(* let pass is what the API has to carry.  How the service finds an order  *)
(* is OrderService's subject; here GetOrder gives the handler any of the   *)
(* views of the order that OrderService has, or an error.                  *)
(*                                                                         *)
(* net/http and the network are external: the connection may be lost, a    *)
(* reply may be cut short, and the server that answers a client may be of  *)
(* another version of the API and leave fields out, send null, a field     *)
(* twice or one the client does not know.                                  *)
(***************************************************************************)
EXTENDS ApiCodec
LOCAL INSTANCE SequencesExt

CONSTANTS Orders,      \* the orders a producer may send
          Ids,         \* the ids a client may ask for
          Others       \* the requests other clients may send, [method, wire]

\* Characters of an id: "a" stands for the ones a path carries as they are.
\* A path on the wire is [prefix, rest]: what precedes the id, and the id's
\* symbols, where "%61" is an "a" that was escaped without need.
Char   == {"a", "/", "%"}
Symbol == {"a", "/", "%2F", "%25", "%61"}

ASSUME RequestAssumption ==
  /\ Ids \subseteq Seq(Char)
  /\ \A r \in Others : r.wire.rest \in Seq(Symbol)

Escape(c)   == CASE c = "/" -> "%2F" [] c = "%" -> "%25" [] OTHER -> c
Unescape(t) == CASE t = "%2F" -> "/" [] t = "%25" -> "%" [] t = "%61" -> "a" [] OTHER -> t

Map(Op(_), s) == [n \in 1..Len(s) |-> Op(s[n])]

VARIABLES order, fate,   \* the order, and what became of it
          call,          \* the request: where it is, who sent it and what
          handled,       \* the id OrderIDGet was called with
          found,         \* the order GetOrder gave to it
          answered,      \* what OrderIDGet returned
          reply,         \* the response on its way
          fault,         \* what happened to it
          result         \* what the caller of the client gets

vars == <<order, fate, call, handled, found, answered, reply, fault, result>>

None   == "none"
NoId   == <<"none">>
NoCall == [pc |-> "idle", own |-> FALSE, method |-> "GET", id |-> NoId,
           wire |-> [prefix |-> "/order/", rest |-> <<>>]]
NoFault == [kind |-> None, obj |-> None, fields |-> {}]
NoReply == [status |-> 0, json |-> FALSE, doc |-> <<>>]
Failed(missed) == [kind |-> "failed", s |-> <<>>, missed |-> missed]

Init ==
  /\ order \in Orders /\ fate = None
  /\ call = NoCall /\ handled = NoId /\ found = None /\ answered = None
  /\ reply = NoReply /\ fault = NoFault
  /\ result = [kind |-> None, s |-> <<>>, missed |-> {}]

\* The message is consumed: ValidateOrder, then SaveOrder's inserts.  When
\* Commit fails behind them SaveOrder still returns nil and the order is
\* cached, stored or not: its fate is "doubtful".
ReceiveOrder ==
  /\ fate = None
  /\ fate' \in CASE ~ValidateOrder(order) -> {"invalid"}
                 [] ValidateOrder(order) /\ ~TablesTake(order) -> {"refused"}
                 [] OTHER -> {"stored", "doubtful"}
  /\ UNCHANGED <<order, call, handled, found, answered, reply, fault, result>>
-----------------------------------------------------------------------------
(***************************************************************************)
(* The request.                                                            *)
(***************************************************************************)
\* Client.sendOrderIDGet: the id is escaped into the path.
SendOrderIDGet(id) ==
  /\ call.pc = "idle"
  /\ call' = [pc |-> "sent", own |-> TRUE, method |-> "GET", id |-> id,
              wire |-> [prefix |-> "/order/", rest |-> Map(Escape, id)]]
  /\ UNCHANGED <<order, fate, handled, found, answered, reply, fault, result>>

\* Another client sends what it likes.  Such a request is followed to the
\* handler or to the reply of the router, and no further.
SendOther(r) ==
  /\ call.pc = "idle"
  /\ call' = [pc |-> "sent", own |-> FALSE, method |-> r.method, id |-> NoId, wire |-> r.wire]
  /\ UNCHANGED <<order, fate, handled, found, answered, reply, fault, result>>

\* net/http parses the path: Path is unescaped; RawPath is kept when it is
\* not the usual escaping of Path, in which "/" stands for itself.
ParseURL(wire) ==
  LET path == Map(Unescape, wire.rest)
      usual(c) == IF c = "/" THEN "/" ELSE Escape(c)
  IN  [prefix |-> wire.prefix, path |-> path,
       raw |-> IF wire.rest = Map(usual, path) THEN <<>> ELSE wire.rest]

\* uri.NormalizeEscapedPath: escapes that need not be are undone.
Normalize(raw) == Map(LAMBDA t : IF t = "%61" THEN "a" ELSE t, raw)

\* Mutant: every argument is taken to be escaped.
ElemAlwaysEscaped(url) ==
  [rest |-> IF url.raw # <<>> THEN Normalize(url.raw) ELSE url.path, escaped |-> TRUE]

\* ServeHTTP up to its switch, cutPrefix with the empty Prefix included: the
\* path to match and whether it is still escaped.
Elem(url) ==
  LET elem == IF url.raw # <<>> THEN Normalize(url.raw) ELSE url.path
  IN  [rest |-> elem,
       escaped |-> url.raw # <<>> /\ (Contains(elem, "%2F") \/ Contains(elem, "%25"))]

\* The switch of ServeHTTP: slashes are prohibited in the leaf parameter.
Route(prefix, rest, method) ==
  IF prefix # "/order/" \/ Contains(rest, "/") THEN "notFound"
  ELSE IF method = "GET" THEN "OrderIDGet" ELSE "notAllowed"

\* url.PathUnescape: a "%" alone is an error.
PathUnescape(arg) == [err |-> Contains(arg, "%"), value |-> Map(Unescape, arg)]

\* decodeOrderIDGetParams: the id, or an error for one that is empty or
\* longer than the specification allows.
DecodeParams(arg, escaped) ==
  LET param == IF escaped THEN PathUnescape(arg) ELSE [err |-> FALSE, value |-> arg]
  IN  [id |-> param.value,
       err |-> param.err \/ Len(param.value) \notin 1..UidMax]

\* The switch of FindPath, which the generator wrote out again.
Matches(prefix, rest, method) ==
  /\ prefix = "/order/"
  /\ \A n \in 1..Len(rest) : rest[n] # "/"
  /\ method = "GET"

\* Mutant: FindPath forgets to unescape what it found.
FindPathRaw(method, url) ==
  LET elem == IF url.raw # <<>> THEN Normalize(url.raw) ELSE url.path
  IN  IF ~Matches(url.prefix, elem, method) THEN [found |-> FALSE, arg |-> <<>>]
      ELSE [found |-> TRUE, arg |-> elem]

\* FindPath, the router's second copy: it unescapes whenever there is a
\* RawPath, and keeps the argument when that fails.
FindPath(method, url) ==
  LET elem == IF url.raw # <<>> THEN Normalize(url.raw) ELSE url.path
      unescaped == PathUnescape(elem)
  IN  IF ~Matches(url.prefix, elem, method) THEN [found |-> FALSE, arg |-> <<>>]
      ELSE [found |-> TRUE,
            arg |-> IF url.raw # <<>> /\ ~unescaped.err THEN unescaped.value ELSE elem]

Reply(status, json, doc) == [status |-> status, json |-> json, doc |-> doc]

\* ogen's DefaultErrorHandler (external) writes another body than the
\* BadRequestErrorResponse of the specification.
DefaultErrorBody == <<Pair("error_message", Str("decode params"))>>

\* Mutant: OPTIONS is answered like a request that was served.
NoRouteOk(route, method) ==
  IF route = "notFound" THEN Reply(404, FALSE, <<>>)
  ELSE Reply(IF method = "OPTIONS" THEN 200 ELSE 405, FALSE, <<>>)

\* notFound and notAllowed, as newServerConfig sets them.
NoRoute(route, method) ==
  IF route = "notFound" THEN Reply(404, FALSE, <<>>)
  ELSE Reply(IF method = "OPTIONS" THEN 204 ELSE 405, FALSE, <<>>)

\* ServeHTTP and handleOrderIDGetRequest up to the call of the handler.
ServeHTTP ==
  LET url    == ParseURL(call.wire)
      elem   == Elem(url)
      route  == Route(url.prefix, elem.rest, call.method)
      params == DecodeParams(elem.rest, elem.escaped)
  IN  /\ call.pc = "sent"
      /\ IF route = "OrderIDGet" /\ ~params.err
         THEN /\ call' = [call EXCEPT !.pc = "handling"]
              /\ handled' = params.id
              /\ UNCHANGED reply
         ELSE /\ call' = [call EXCEPT !.pc = "replied"]
              /\ reply' = IF route = "OrderIDGet" THEN Reply(400, TRUE, DefaultErrorBody)
                          ELSE NoRoute(route, call.method)
              /\ UNCHANGED handled
      /\ UNCHANGED <<order, fate, found, answered, fault, result>>
-----------------------------------------------------------------------------
(***************************************************************************)
(* OrderIDGet of the handler, and the encoding of what it returns.         *)
(***************************************************************************)
SetOpt(v) == [Set |-> TRUE, Value |-> v]

\* Mutant: a field of the payment is forgotten.
ToResponseNoFee(o) ==
  [o EXCEPT !.payment = [@ EXCEPT !.request_id = SetOpt(@), !.custom_fee = 0],
            !.internal_signature = SetOpt(@),
            !.items = [isNil |-> FALSE, elems |-> @]]

\* The api.OrderResponse of an order.
ToResponse(o) ==
  [o EXCEPT !.payment = [o.payment EXCEPT !.request_id = SetOpt(o.payment.request_id)],
            !.internal_signature = SetOpt(o.internal_signature),
            !.items = [isNil |-> FALSE, elems |-> o.items]]

ErrorDoc(text) == EncodeError([message |-> text])

\* encodeOrderIDGetResponse
Answers(kind, status, doc) ==
  /\ call.pc = "handling" /\ call.own
  /\ call' = [call EXCEPT !.pc = "replied"]
  /\ answered' = kind
  /\ reply' = Reply(status, TRUE, doc)
  /\ UNCHANGED <<order, fate, handled, fault, result>>

\* An item as it is read back: saveItems writes its strings into the
\* statement, where a doubled apostrophe stands for one.
AsStored(i) ==
  [f \in DOMAIN i |-> IF f \in ItemText /\ i[f][2] = "doubled" THEN Text(f, "quoted") ELSE i[f]]

\* The ways to take some of k items, each once, in some order.
Picks(k) ==
  UNION {{p \in [1..n -> 1..k] : \A a, b \in 1..n : p[a] = p[b] => a = b} : n \in 0..k}

\* What GetOrder may give of an order: the cache has it as it was consumed;
\* the queries read the items in any order (there is no ORDER BY), without
\* the last ones or without any (rows.Err is not asked), and what they read
\* is cached, too.
Views(o) ==
  {o} \cup {[o EXCEPT !.items = [n \in DOMAIN p |-> AsStored(o.items[p[n]])]] :
              p \in Picks(Len(o.items))}

\* SaveOrder returned nil for the order the request asks for.
HasOrder == fate \in {"stored", "doubtful"} /\ order.order_uid = handled

OrderFound ==
  /\ HasOrder
  /\ \E v \in Views(order) :
       /\ found' = v
       /\ Answers("order", 200, EncodeOrderResponse(ToResponse(v)))

\* An order that is stored is found, in the cache or in the database.
OrderNotFound ==
  /\ ~(HasOrder /\ fate = "stored")
  /\ Answers("notfound", 404, ErrorDoc("not found"))
  /\ UNCHANGED found

\* Any other error of GetOrder.
GetOrderFails ==
  /\ Answers("error", 500, ErrorDoc("couldn't get order"))
  /\ UNCHANGED found

\* A panic of the handler: net/http closes the connection.
HandlerPanics ==
  /\ call.pc = "handling" /\ call.own
  /\ call' = [call EXCEPT !.pc = "returned"]
  /\ result' = Failed({})
  /\ UNCHANGED <<order, fate, handled, found, answered, reply, fault>>
-----------------------------------------------------------------------------
(***************************************************************************)
(* The way back.                                                           *)
(***************************************************************************)
Arrives(new, f) ==
  /\ call.pc = "replied" /\ call.own
  /\ call' = [call EXCEPT !.pc = "arrived"]
  /\ reply' = new /\ fault' = f
  /\ UNCHANGED <<order, fate, handled, found, answered, result>>

Fault(kind, obj, fields) == [kind |-> kind, obj |-> obj, fields |-> fields]

ArrivesWhole == Arrives(reply, NoFault)

\* The body ends early (io.ReadAll fails), or more follows the object.
ArrivesCut == Arrives(reply, Fault("cut", None, {}))
ArrivesTrailing == Arrives(reply, Fault("trailing", None, {}))

\* The members of an object as a server of another version writes them.
Changed(ms, f) ==
  CASE f.kind = "dropped" -> Kept(ms, {ms[n].key : n \in 1..Len(ms)} \ f.fields)
    [] f.kind = "null"    -> [n \in 1..Len(ms) |-> IF ms[n].key \in f.fields
                                                  THEN Pair(ms[n].key, Null) ELSE ms[n]]
    [] f.kind = "twice"   -> ms \o Kept(ms, f.fields)
    [] f.kind = "more"    -> <<Pair("unknown", Null)>> \o ms

\* A member of an OrderResponse with the object in it changed: of items, the
\* first element.
Inside(m, f) ==
  LET es == m.val.v
  IN  IF f.obj = "item" /\ m.key = "items"
      THEN Pair(m.key, [t |-> "array", v |-> [n \in 1..Len(es) |-> IF n = 1 THEN Obj(Changed(es[n].v, f))
                                                                   ELSE es[n]]])
      ELSE IF f.obj = m.key THEN Pair(m.key, Obj(Changed(m.val.v, f))) ELSE m

\* An OrderResponse with one of its objects changed.
Within(doc, f) ==
  IF f.obj = "order" THEN Changed(doc, f) ELSE [n \in 1..Len(doc) |-> Inside(doc[n], f)]

\* The fields of each object, from models.Order.
FieldsOf(obj) ==
  CASE obj = "delivery" -> DeliveryText
    [] obj = "payment"  -> PaymentText \cup PaymentInt
    [] obj = "item"     -> ItemText \cup ItemInt
    [] obj = "order"    -> OrderText \cup OrderInt
                             \cup {"order_uid", "date_created", "delivery", "payment", "items"}

Objects == {"order", "delivery", "payment", "item"}

\* Every order has the fields of models.Order, its payment and its items
\* those of Payment and Item.
ASSUME OrderAssumption ==
  \A o \in Orders : /\ DOMAIN o = FieldsOf("order") /\ DOMAIN o.payment = FieldsOf("payment")
                    /\ Len(o.items) \in Nat /\ o.delivery.email[2] \in EmailClass
                    /\ \A n \in 1..Len(o.items) : DOMAIN o.items[n] = FieldsOf("item")

\* Of the items the first is changed, when there is one.
ArrivesChanged(f) ==
  /\ reply.status = 200
  /\ f.obj = "item" => Len(found.items) > 0
  /\ Arrives([reply EXCEPT !.doc = Within(@, f)], f)

\* Bound: no more than two fields are left out.
ArrivesWithout(obj, fields) == ArrivesChanged(Fault("dropped", obj, fields))
ArrivesWithNull(obj, f)     == ArrivesChanged(Fault("null", obj, {f}))
ArrivesWithTwice(obj, f)    == ArrivesChanged(Fault("twice", obj, {f}))
ArrivesWithMore(obj)        == ArrivesChanged(Fault("more", obj, {}))

\* The connection is lost before the reply is read: Client.Do fails.
ConnectionLost ==
  /\ call.pc \in {"sent", "replied"} /\ call.own
  /\ call' = [call EXCEPT !.pc = "returned"]
  /\ result' = Failed({}) /\ fault' = Fault("lost", None, {})
  /\ UNCHANGED <<order, fate, handled, found, answered, reply>>

\* What the client makes of an object it decoded as r: an error for a cut
\* body, one that does not decode or is followed by more.
Decoded(kind, r) ==
  IF fault.kind \in {"cut", "trailing"} \/ r.bad THEN Failed({})
  ELSE IF r.missed # {} THEN Failed(r.missed)
  ELSE [kind |-> kind, s |-> r.s, missed |-> {}]

\* decodeOrderIDGetResponse: an order is validated, too; a status that is
\* not in the specification becomes an error whatever its body.
DecodeOrderIDGetResponse(named) ==
  LET asOrder == Decoded("order", DecodeOrderResponse(reply.doc))
  IN  CASE ~reply.json -> Failed({})
        [] reply.json /\ reply.status = 200 ->
             IF asOrder.kind = "order" /\ ~ValidateOrderResponse(asOrder.s, named)
             THEN Failed({}) ELSE asOrder
        [] reply.json /\ reply.status = 400 -> Decoded("badrequest", DecodeError(reply.doc))
        [] reply.json /\ reply.status = 404 -> Decoded("notfound", DecodeError(reply.doc))
        [] reply.json /\ reply.status = 500 -> Decoded("error", DecodeError(reply.doc))
        [] OTHER -> Failed({})

\* The end of sendOrderIDGet.
OrderIDGetReturns ==
  /\ call.pc = "arrived"
  /\ \E named \in BOOLEAN : result' = DecodeOrderIDGetResponse(named)
  /\ call' = [call EXCEPT !.pc = "returned"]
  /\ UNCHANGED <<order, fate, handled, found, answered, reply, fault>>
-----------------------------------------------------------------------------
Next ==
  \/ ReceiveOrder
  \/ \E id \in Ids : SendOrderIDGet(id)
  \/ \E r \in Others : SendOther(r)
  \/ ServeHTTP
  \/ OrderFound \/ OrderNotFound \/ GetOrderFails \/ HandlerPanics
  \/ ArrivesWhole \/ ArrivesCut \/ ArrivesTrailing
  \/ \E obj \in Objects :
       \/ \E f, g \in FieldsOf(obj) : ArrivesWithout(obj, {f, g})
       \/ \E f \in FieldsOf(obj) : ArrivesWithNull(obj, f) \/ ArrivesWithTwice(obj, f)
       \/ ArrivesWithMore(obj)
  \/ ConnectionLost
  \/ OrderIDGetReturns

Spec == Init /\ [][Next]_vars
-----------------------------------------------------------------------------
TypeOK ==
  /\ fate \in {None, "invalid", "refused", "stored", "doubtful"}
  /\ call.pc \in {"idle", "sent", "handling", "replied", "arrived", "returned"}
  /\ answered \in {None, "order", "notfound", "error"}
  /\ reply.status \in (IF reply.json THEN {200, 400, 404, 500} ELSE {0, 204, 404, 405})
  /\ result.kind \in {None, "failed", "order", "badrequest", "notfound", "error"}

\* IdArrives: through the escaping of the client, the parsing of net/http,
\* the choice between Path and RawPath, the router and the decoding of the
\* parameter, OrderIDGet is called with the id the path means, and with no
\* other; an id of a length the specification allows always gets there.
IdArrives ==
  /\ handled # NoId => handled = Map(Unescape, call.wire.rest)
  /\ call.own /\ handled # NoId => handled = call.id
  /\ call.own /\ call.pc = "replied" /\ Len(call.id) \in 1..UidMax => handled = call.id

\* RoutersAgree: FindPath finds the operation for the requests ServeHTTP
\* gives to it, and no others, with the argument the handler is called with.
RoutersAgree ==
  LET url   == ParseURL(call.wire)
      path  == FindPath(call.method, url)
  IN  /\ path.found <=> Route(url.prefix, Elem(url).rest, call.method) = "OrderIDGet"
      /\ handled # NoId => path.found /\ path.arg = handled

\* What the client may show of an order: seconds without fractions, and an
\* optional field that did not come as not set.
Shows(s, o) ==
  LET eq(new, old, F) ==
        /\ \A f \in F \ OptNames : new[f] = old[f]
        /\ \A f \in F \cap OptNames : new[f].Set => new[f].Value = old[f]
  IN  /\ s.order_uid = o.order_uid /\ s.date_created = DateTime(o.date_created)
      /\ eq(s, o, OrderText \cup OrderInt)
      /\ eq(s.delivery, o.delivery, DeliveryText)
      /\ eq(s.payment, o.payment, PaymentText \cup PaymentInt)
      /\ Len(s.items.elems) = Len(o.items)
      /\ \A n \in 1..Len(o.items) : eq(s.items.elems[n], o.items[n], ItemText \cup ItemInt)

\* AnswerIsTrue: whatever is cut, dropped or added on the way, the client
\* returns what the handler answered, or an error; an order it returns has
\* the id it asked for and was saved without an error, and it shows, field
\* by field, what GetOrder gave to the handler.  (How far that may be from
\* the order that was sent, Views says: items missing, in another order.)
AnswerIsTrue ==
  result.kind \notin {None, "failed"} =>
    /\ result.kind = answered
    /\ answered = "order" => /\ fate \in {"stored", "doubtful"}
                             /\ order.order_uid = call.id
                             /\ found \in Views(order) /\ Shows(result.s, found)

\* ServedIsDecodable: an order that passed ValidateOrder and the tables is
\* one the client takes: a reply that arrives whole is not refused.  (Of an
\* e-mail with a name before the address nothing is promised.)
ServedIsDecodable ==
  call.pc = "returned" /\ call.own /\ answered = "order" /\ fault = NoFault
    => result.kind = "order" \/ order.delivery.email[2] = "named"

\* The required properties of the schemas in openapi.yml.
Required(obj) == FieldsOf(obj) \ OptNames

\* MissingReported: the client names exactly the required fields that are
\* missing, and takes an order without the optional ones.
MissingReported ==
  LET lost == fault.fields \cap Required(fault.obj)
  IN  call.pc = "returned" /\ fault.kind = "dropped" =>
        IF lost # {} THEN result = Failed(lost)
        ELSE result.kind = "order" \/ order.delivery.email[2] = "named"

\* ChecksNeverFire: when the tables refuse a validated order, no CHECK is the
\* reason: ValidateOrder is at least as strict on every field that has one.
\* (What else they refuse it for, ColumnsHold, ItemsWritable and
\* ItemsDistinct say.)
ChecksNeverFire == fate = "refused" => ChecksHold(order)
=============================================================================
