# Verification of order_service

TLA+ specifications of the order service in `src/order_service`, checked with
TLC and, for the theorems listed below, proved with TLAPS.  Paths are relative
to the root of the repository.

## 1. The system

`order_service` reads orders from a Kafka topic, validates them, stores them in
PostgreSQL and answers `GET /order/{id}` from an in-memory LRU cache in front of
the database.  `simulator_service` is a test producer for the topic.

| Component | State | Operations | Talks to |
|---|---|---|---|
| Linked list (`pkg/linkedlist/list.go`) | nodes, `head`, `tail`, `length`, `mu` | Insert, Remove*, Get*, MoveToFirst, GetIndex, GetAll | used by the cache |
| LRU cache (`pkg/pkgports/adapters/cache/lru/in_memory.go`) | map, key list, `mu` (RWMutex), capacity | Get, Set, GetKeys... | called by the order service from many goroutines |
| Kafka receiver (`pkg/pkgports/adapters/receiver/kafka.go`) | Kafka reader, `retryChan` | Consume, OnSuccess, OnFail | Kafka; the receiver service |
| Order receiver service (`internal/service/order_receiver_service.go`) | `done` channel, one goroutine per order | StartReceivingOrders, StopReceivingOrders | receiver, validator, order service |
| Order service (`internal/service/order_service.go`) | none of its own | SaveOrder, GetOrder, GetLastOrders, CacheLastOrders | cache, storage |
| Storage (`internal/ports/adapters/storage/postgres.go`) | the database | SaveOrder (one transaction), GetOrderByID (two parallel queries), GetLastOrders | PostgreSQL |
| main and runners (`cmd/main.go`, `internal/runner`) | the signal context | start, warm-up, shutdown | everything |
| Validator (`internal/validators/validate_order.go`) and tables (`db/migrations`) | none | ValidateOrder; columns, CHECKs, keys | the receiver service; the storage |
| HTTP handler (`internal/handlers/httphandlers`) | none | OrderIDGet | order service |
| Generated API (`internal/api`) | none | client, router, parameter decoding, JSON encoding and decoding, response validation | HTTP clients; the handler |
| Logger, configuration, models, ports | none that is shared | | |

What is hard, and what makes each part correct:

* **List**: `tail` and `length` are maintained by hand.  Correct when every call
  behaves as on a sequence and leaves a well-formed chain.
* **Cache**: `Get` rearranges the list under a *read* lock.  Correct when map and
  list agree, the least recently used key is evicted, concurrent Gets do not
  corrupt the list, and every call returns.
* **Receiver**: a goroutine per order, a bounded channel that its only reader
  also writes to, offsets committed by `ReadMessage` and again, in any order, by
  `OnSuccess`; crashes and shutdown.  Correct when no message is duplicated or
  forgotten inside the process and every message comes to an end.
* **main**: three shutdown goroutines beside the receiver's goroutines and the
  requests under way, a signal that may come at any moment, errors that are
  only logged.  Correct when nothing is used after it was closed and main ends.
* **Validator, tables, API**: three sets of limits for the same fields, ids that
  are escaped and unescaped on their way, required fields counted in bit masks,
  replies of another server version.  Correct when the client gets the order it
  asked for, as the service had it, or an error, and when what one part lets pass
  the next one takes.
* **Order service and storage**: a transaction whose commit error is dropped, a
  read made of two snapshots, and goroutines that fill the cache after the call
  has returned.  Correct when the cache holds what is stored, an order once seen
  stays found, and every call ends.  That the answer is whole the code does not
  see to (section 3).

The hazards, each at its line, with the properties that watch it, are in
`PROJECT.json` under `hazards`.

## 2. Modules

| Module | Models |
|---|---|
| `LinkedListOps` | the list as a record of pointers, one operator per method |
| `SeqList` | what the list promises: a sequence |
| `LinkedList` | a caller of the list; implements `SeqList` |
| `AbstractLru` | what the cache promises: atomic Get and Set on a sequence of keys |
| `LruRecency` | `AbstractLru` with a clock, to say "least recently used" |
| `LruCache` | the cache as it is: two locks, unlocked search, stores one by one |
| `OrderReceiver` | loop, Kafka receiver, goroutines, signal, crash |
| `Lifecycle` | main and the runners around `OrderReceiver`: start, HTTP server, requests, pool, reader, shutdown, restart |
| `OrderService` | warm-up, SaveOrder, GetOrder, the cache they fill, the transaction and the queries |
| `OrderRules` | an order's fields, ValidateOrder, the columns and constraints of the tables |
| `ApiCodec` | the generated JSON encoders, decoders and validators |
| `OrderApi` | `GET /order/{id}` from the generated client to the handler and back, for an order that came through the topic |
| `ListLemmas` | lemmas: what each list method does to a whole list, for every list |
| `ListProofs`, `LruProofs`, `CacheProofs`, `ServiceProofs`, `LifecycleProofs`, `CodecProofs`, `ApiProofs` | theorems about `LinkedList`, `LruRecency`, `LruCache`, `OrderService`, `OrderReceiver` and `Lifecycle`, `ApiCodec`, `OrderApi` |
| `MC*` | instances for TLC; the `.cfg` files give the constants |

Definitions named in a comment as *Mutant* are not part of the model: each is a
plausible bug of the definition that follows it, kept to show that a property
notices it.

### How state and actions correspond to the code

**LinkedListOps / LinkedList.**  A list is `[head, tail, length, value, next]`
with node addresses.  Every method is an operator from the list to the new list
and the error.  Loops over `next` are `NodeAt`.  `Fresh` is the allocator and
`Collect` the garbage collector.  A `LinkedList` action is one call with any
argument between -1 and one past the bound.

**LruCache.**  `Set` holds `c.mu` for writing, so its body is one step
(`SetBody`), preceded by the announcement with which a Go writer keeps new
readers out (`SetAnnounce`).  `Get` holds `c.mu` for reading: its map lookup is
one step, the search (`ReadHead`, `Scan*`) one step per node, `MoveToFirst` one
step per store (`MoveHead`, `MoveLink`, `MoveUnlink`) under `list.mu` (`mu`).
Loads and stores are single words in program order, as compiled for amd64; the
data race is the interleaving of these steps.

**OrderReceiver.**  A message is its offset in one partition; traffic of other
partitions is `ReadOther`.  `stage[m]` says where a message is, `tries[m]` is
`TotalTries`, `ripe` holds the messages whose `RetryAfter` has passed.  The loop
is `pc`: `select`, `consume`, `requeue` (between taking a message from the
channel and putting it back), `read`.  With a GroupID, `ReadMessage` commits
what it returns, and a commit that returns an error may have taken effect
(`ReadCommitFails`); `CommitMessages` sets the group's offset, also backwards
(`CommitInterval` is 0 in `config/.env.example`).  `Crash` is any end of the
process that is not `os.Interrupt`.

**Lifecycle.**  `main` is where main is: `config`, `postgres`, `topic`, `warm`,
`server` (each of them, but the warm-up, may end in `logger.Fatal`), `running`,
`stopping` (the three goroutines of the wait group run), `exited`.  `http`,
`pool` and `reader` are what main has opened.  The steps of `OrderReceiver`
happen only while its goroutines exist (`Runs`), and with what the process has:
`tx` holds the messages whose SaveOrder has a connection, which `BeginTx` gets
only from an open pool under a live context; with a closed reader `OnSuccess`
commits nothing.  A request (`req`) takes connections of the pool when it misses
the cache.  External, by their documentation: `http.Server.Shutdown` waits for
the requests, `pgxpool.Close` for the connections in use.  `StopReceiver` is
`StopReceivingOrders`, a plain send on `done` that ignores its timeout.

**OrderRules.**  An order is a record with the JSON names of `models.Order`.
A string is its field and how it meets the rules (empty, white space, fits, too
long for its column, with a NUL, with an apostrophe, with every apostrophe
doubled; for e-mails no address, or a name before it); `order_uid` is a sequence
of characters, because its escaping matters.  `ItemsWritable` is the INSERT that
`saveItems` formats with `'%s'` (`postgres.go:412`): an apostrophe makes it
another statement, which is taken to fail; dates are zero, past,
past with a fraction of a second, or future.  Go's `int` is wider than INTEGER,
so `IntMax + 1` is a value an order may have and a column may not.

**ApiCodec.**  The generated methods are copies of one pattern, so each is
the pattern (`EncodeFields`, `DecodeFields`) applied to its own table of names and
its own bit mask, both taken from the code; `EncodeValue` and `DecodeValue` are
the fields of an `OrderResponse` that are objects or the array.  Decoding goes member by member,
over what the struct already has, and stops at the first error, as jx does.

**OrderApi.**  `ReceiveOrder` takes the order from the topic through validator
and tables; its `fate` is `doubtful` when Commit failed behind the inserts, which
SaveOrder does not report.  `SendOrderIDGet` escapes the id; `ServeHTTP` is net/http's split
into Path and RawPath (external), the router, and the decoding of the
parameter; the four outcomes of the handler follow.  `found` is the order GetOrder
gave it, one of `Views`: as it was consumed, or with its items as the queries
read them back, in any order, some or all of them missing, and with a doubled
apostrophe stored as one.  Then comes what happens to the reply (`Arrives...`: whole, cut, followed by more, fields missing, null, twice,
or unknown, as a server of another version sends them), then
`DecodeOrderIDGetResponse`.  `FindPath` is the router's second copy, with a switch
of its own (`Matches` beside `Route`).

**OrderService.**  A slot of `save` is one SaveOrder call and the goroutine it
leaves behind; a slot of `get` the same for GetOrder.  `tables` counts the
inserts; a first insert waits for another open transaction on the same key.
`CommitFails` is a Commit that returns an error, in which case the rows are
stored or not and the caller gets nil.  The two queries of GetOrderByID are two
steps.  A view of an order is `whole`, `empty` or `cut`, by its items: `rows.Err`
is not asked, so an item query that fails before its first row, or between two,
gives `empty` or `cut` and no error, to GetOrder and to the warm-up.  The cache
is taken at its weakest here (some other entry is evicted, Get may fail), so what
holds does not depend on LRU.  `OtherSaves` is another replica.  `doubt`, `seen`
and `known` are history variables.

## 3. Runs

| Run | Bounds | Shows |
|---|---|---|
| `linked_list` | 2 values, up to 4 nodes | `WellFormed`; `ImplementsSeqList` (refinement) |
| `lru_recency` | 4 keys, capacity 3, 8 uses | `CacheConsistent`, `LeastRecentlyUsed` |
| `lru_readers` | 2 Gets, 1 Set, 4 keys, capacity 3 | `ListSurvivesReaders`: the list is never corrupted |
| `lru_liveness` | 2 Gets, 1 Set, 2 keys, capacity 2 | `GetReturns`, `SetReturns` |
| `lru_one_reader` | 1 Get, 2 Sets, 3 keys, capacity 2 | `ImplementsLru` (refinement), `StoredKeyIsFound`, which two Gets break (`lru_stored_key`) |
| `lifecycle` | 2 messages, 1 retry, channel of 1, 1 request, 1 restart | `RetryQueueSound`, `Accounted`, `CleanExit`, `ReaderOutlivesLoop`; `ExitsUnlessStuck`, `Settles` |
| `order_api` | every order with one field out of the ordinary, 1 or 2 items, ids of up to 2 characters and one too long | `IdArrives`, `RoutersAgree`, `AnswerIsTrue`, `ServedIsDecodable`, `MissingReported`, `ChecksNeverFire` |
| `service` | 2 orders, 2 savers, 1 getter, cache of 1 | `CachedIsStored`, `KnownIsFound`; `SaveEnds`, `GetAnswers` |

Why the bounds are enough: four nodes have a first, a last and two inner
positions, so every branch of the list methods and every pair of neighbouring
positions occurs; a cache one smaller than the set of keys evicts, refills and
renews, and with three nodes a moved key is the first, an inner or the last one;
two messages on a channel of one fill it and overflow it, are committed out of
order, and block the loop; two savers meet on one key, and a getter and a cache
of one make fills and evictions cross.  `lru_liveness` has as many nodes as two
Gets need to rearrange the list under each other.  What `lifecycle` shows of the
retry channel and the offsets is proved for every number of messages, retries and
crashes (section 4).  In `order_api` an id of two characters has every pair of an
ordinary character, a slash and a percent sign; UidMax stands for the 50 of
VARCHAR(50) and of `maxLength`, IntMax for 2^31 - 1: only comparisons with them
matter, and 101, the first sale that is too large, is below IntMax.  Two items are
enough for views with one missing and with the two swapped.  At most two
fields of a reply are missing, which is enough to have one in each byte of the
bit set, required and optional.  The configurations of the receiver, of the life
cycle and of the API do not check for deadlock, because the process, or the
call, ends.  `lru_readers` and `lru_recency` use the symmetry of the keys (and of the
Gets); both check invariants only.

### Disagreements between code and comments

Each of these runs has a counterexample; `findings` in `PROJECT.json` quotes the
comment.

| Run | What the code does |
|---|---|
| `lru_stored_key` | with two concurrent Gets one of them fails (or panics) on a key that is cached |
| `receiver_requeue` | the loop blocks for ever on its own full channel |
| `service_commit` | an order whose commit failed is reported as saved, and cached |
| `lifecycle_stop` | main does not return after the signal, because `StopReceivingOrders` sends to a loop that has left |

The models contain further behaviour of this sort that no run singles out:

* the index that a Get found is stale when another Get has moved a key in
  between, so `MoveToFirst` renews another key than the one read (`ScanFound`,
  then `MoveHead`);
* on a quiet topic a retry waits in `Consume` for a new message, because
  `ReadMessage` blocks (`ConsumeNoRetry` and the requeue path, then `pc = "read"`),
  although `kafka.go:77` gives it "high priority"; `Settles` therefore holds only
  while ReadMessage keeps returning (`ReadsReturn`);
* `MoveToFirst` on an empty list returns `ErrInvalidIndex` (`list.go:250`), while
  the comment at `list.go:24` says that an empty list gives `ErrEmptyList`; this
  is the one place where `SeqList` follows the code against that comment, so
  `ImplementsSeqList` does not speak for the comment there (`Insert` returns
  `ErrInvalidIndex` for every index out of range, whatever the length, too);
* the two queries of GetOrderByID have two snapshots: an order that commits
  between them is answered, and cached, without items (the view `empty`);
* an order whose Commit failed is answered from the cache although it may not be
  stored (`doubtful`);
* an id that is empty or too long is answered by ogen's default error handler
  with a body that is not the `BadRequestErrorResponse` of the specification, so
  the client reports a decoding error (`DefaultErrorBody`);
* a string too long for its column or with a NUL, a number too large for INTEGER,
  an item twice in one order, or an apostrophe in `order_uid` or in a string of an
  item pass the validator, fail in the database and are retried to the end
  (`fate = "refused"`; `ChecksNeverFire` says only that no CHECK of the tables is
  ever the reason);
* a doubled apostrophe in a string of an item is stored as one, so the order that
  is read back is not the one that was sent (`AsStored`);
* the body of a reply is decoded over what was decoded before, so a repeated
  member replaces the first (`ArrivesWithTwice`);
* `ReadMessage` commits what it returns before it is processed, so a crash loses
  the orders in memory (`stage` after `Crash`);
* an item query that fails before its first row, or is cut short, looks complete,
  because `rows.Err` is not asked: a stored order is answered, and cached, without
  items or without some of them, at any time (the views `empty` and `cut`).

The properties of the passing runs say how far the damage goes: the races in the
cache never corrupt the list nor block a caller, and one reader alone sees a
perfect LRU cache; a message that was read is done with as long as ReadMessage keeps returning,
unless the loop blocks on its own channel, and main ends unless one of the two waits that `ExitsUnlessStuck` names
holds it; and apart from commit errors the cache never holds an
order that is not stored.

### Fairness

* `LruCache`: runnable goroutines run (weak fairness); `sync.RWMutex` and
  `sync.Mutex` do not starve a waiter (strong fairness of the steps that take a
  lock: a leaving writer lets the blocked readers in, a mutex has a starvation
  mode).  Nobody has to call.
* `OrderReceiver`: the loop and the goroutines run, time passes, main goes past
  `<-ctx.Done()`.  Producers, signals and crashes promise nothing.
* `Lifecycle`: the same for main, its goroutines, the HTTP server and the
  handlers.  Nothing is assumed of the traffic on the topic (`OtherReads`): the
  loop may wait in `ReadMessage` for ever, so `Settles` has the condition
  `ReadsReturn` in its statement.  Of main's goroutines it is
  enough that one goes on, because each takes every step once in a life of the
  process.  That a query ends is assumed (PostgreSQL answers or the connection
  breaks); which way it ends is not.  Requests, signals, restarts and messages
  of the partition promise nothing.
* `OrderApi` has no liveness: a call is a chain of steps, and each may fail.
* `OrderService`: goroutines run and queries return; PostgreSQL queues
  transactions that wait for a key (strong fairness of `InsertRow`).  Failures
  are possible, never promised: no liveness property rests on one.

## 4. Proofs

TLAPS checks the following for every value of the constants.  Every type
invariant a run checks is among them (`ListTyped`, `CacheTyped`, `ServiceTyped`,
`ProcessTyped`, `ApiTyped`).

* **`ListStaysWhole`, `ListIsSequence`** (`ListProofs`, on `ListLemmas`).
  Assumed: `Nil` is no address, and there are finitely many addresses, more than
  the bound on the length (the allocator does not run dry).  `WellFormed` counts
  the nodes and looks at the tail; it is not inductive, because it does not say
  which node follows which.  The invariant is `Whole`: some sequence of nodes is
  the chain of the list (`Chain`: no node twice, each link leads to the next,
  nil at the end, `length`, `head` and `tail` as they should be).  For each
  method a lemma names the chain it leaves and says what `GetAll` returns then
  (`InsertFacts`, `RemoveFacts`, `MoveFacts`, ...).  The refinement compares
  these, position by position, with the sequence operators of `SeqList`, and the
  results and errors of the getters with `Found`.
* **`ReadersKeepList`** (`CacheProofs`), for any number of Gets and Sets and any
  capacity.  Assumed: the capacity is an integer, `NoValue` is not stored,
  `NoOne` is no goroutine, a goroutine calls Get or Set, and there are more
  addresses than the capacity.  The invariant looks through the move under way:
  `Settled` is the list with that move undone; it is whole and lists the keys of
  the map once each (`Sound`), and `Moving` says which of the three stores of
  `MoveToFirst` have been made, between two of which the list has a cycle.  That
  an index stays in range (`InRange`) needs that a Set's body runs only without
  readers (`Locks`).  Nothing is assumed of what a search sees: the theorem does
  not depend on it.
* **`OneReaderIsLru`, `OneReaderFinds`** (`CacheProofs`): with one goroutine in
  Get and any number in Set, the cache implements `AbstractLru` and no Get fails.
  The hypothesis is the one the code needs: with two the run `lru_stored_key` has
  a counterexample.  Get takes effect at the step it returns with, Set at its
  body.  The invariant adds what the search of the only reader has seen: the
  value it read is still in the map (`Sees`), its node is the one at its
  position, and it has not passed its key (`Scans`), so it ends at it (`Found`).
* **`LruConsistent`, `EvictsLeastRecentlyUsed`** (`LruProofs`).  Assumed: the
  capacity is an integer, the zero value is not a value that is stored.
  `CacheConsistent` is inductive with the type invariant, given lemmas on what
  moving, removing, pushing and dropping do to a sequence without duplicates.
  `LeastRecentlyUsed` needs `ClockBounds` besides: no time of use is ahead of the
  clock, and a stored key has been used, so that the key used now is newer than
  all others and never older than one that was never used.
* **`RetryQueueIsSound`, `MessagesAccounted`** (`LifecycleProofs`).  Assumed: the
  bounds are naturals; `MaxRetries` is any integer.  The three invariants are
  inductive together: the channel's soundness needs `Accounted` to know that a
  message read from the topic is not also in the channel.
* **`CacheFollowsStorage`, `SeenStaysFound`** (`ServiceProofs`).  For every number
  of orders and slots and every integer capacity.  The inductive
  invariant adds `Shape` (a busy slot has an order; a transaction that commits
  has inserted, hence holds its key) and `KnownIsStored` (a call whose order was
  known works on a stored order, because `db` only grows).
* **`ProcessIsReceiver`** (`LifecycleProofs`): every step of `Lifecycle` is a step
  of `OrderReceiver` or leaves its variables alone, so `RetryQueueSound` and
  `Accounted` hold in the process (`ProcessQueueIsSound`, `ProcessAccounts`).
  **`ReaderIsFreeWhenClosed`** needs that the reader is closed only when the send
  on `done` has been received, and that the loop which received it ends
  (`StoppedInv`).  **`ExitIsClean`** needs `ClosedInv`: a closed pool has no
  transaction and no query and lets none in, a stopped server has no request and
  takes none, and main exits after both.
* **`ChecksAreCovered`** (`ApiProofs`): an order is refused only after
  `ValidateOrder` let it pass (`RefusedInv`), and what that lets pass satisfies
  the CHECKs (`ValidatorCoversChecks`, for any order whatsoever).
* **`IdsArrive`, `RoutersAlike`** (`ApiProofs`), for ids and paths of any length.
  Assumed: an id is made of the three kinds of character, a path of another
  client of the symbols of an escaped path (`RequestAssumption`).  The argument
  is in lemmas about the operators: escaping and unescaping give the id back
  (`RoundTrip`), whichever of Path and RawPath is matched means the same
  (`ParseFacts`), the parameter is unescaped once (`ParamFacts`), and what the
  client wrote has no slash to stop at (`OwnIsRouted`).  `RouteInv` carries this
  to the states.
* **`AnswersAreAsked`** (`ApiProofs`): an order is answered only when it passed the
  validator, SaveOrder returned no error for it (its Commit may have failed) and
  its uid is the id the client was asked for; `AnsweredInv` says when a request
  is past its handler.
* **`AnswersAreTrue`** (`ApiProofs`, on `CodecProofs`), for every order, every
  number of items, every view of it and every fault of the reply: an order the
  client returns shows what GetOrder gave the handler.  Assumed: an order and its
  items have the fields of `models.Order`, finitely many items and an e-mail of
  one of the classes (`OrderAssumption`).  A view has them, too (`ViewFacts`,
  `FoundIsOrder`).  `CarryInv` says what the reply on its way is: the document of
  `found` as the fault left it (`Body`), or one without an order.
  What remains is about documents.  `SaysOrder`: every member of a document is
  one Encode wrote of the order, null, or unknown; it holds of what is sent and
  of every change to it (`WithinSays`).  `OrderTells`: a document that says
  nothing else and decodes without an error gives back the order, because each
  required field has its bit only from a member that was read, and each bit of
  the mask is asked for (`TablesRight`: the names and the mask of each struct fit).
* **`ServedAreDecodable`, `MissingAreReported`** (`ApiProofs`, on `CodecProofs`).
  Here the outcome of a decoder is needed exactly: `Ends(r, L)` is that no value
  was bad and exactly `L` is missing.  `FieldsDecode`, `ElemsDecode`,
  `OrderDecodes` and `OrderFails` give it for a struct, the items and an
  `OrderResponse`; Encode writes every required key (`EncodedOrderKeys`), and
  leaving members out takes away just those keys (`DroppedFacts`), so `SentEnds`
  and `WithinEnds` follow, the second for any set of fields.  That the client's
  Validate takes the result (`ValidTaken`) needs `StoredInv`: what was saved
  passed `ValidateOrder`, so every sale is within the bounds of both validators,
  in each view of it, however many items that has (`ViewSales`).

Recursive definitions are proved about without the library's induction
theorems, whose operator parameter the provers cannot instantiate: `SetInduction`
in `ListLemmas` and `CodecProofs` is induction over a set of numbers, derived
from the fact that every set of naturals has a least element.  `WalkExists` uses
it to show that the recursive function in `NodeAt` exists, and `NodeAtSteps` that
it takes one link per step; `KeptIsWalk`, `DecodeFieldsIsWalk`,
`DecodeElemsIsWalk` and `DecodeOrderIsWalk` do the same for the codec.  The codec is
written with such functions and without operator arguments for this reason.

Only model-checked: liveness and what rests on `ENABLED`, which are out of the
prover's reach.  Every safety invariant a run checks is also proved.

## 5. Not modelled

* **Logging** and the logging middleware: no state the program reads back.
* **Telemetry, getters, setters and options** of the generated API: nobody in the
  program reads or passes them.  `encodeErrorResponse` and `NewError` are not
  reached, because `OrderIDGet` returns no error.
* **Accessors** of the cache and `GetLastOrders` of the order service: they change
  nothing; one serves a log line.
* **Rebalances of the consumer group**: when a replica comes or goes, Kafka may move
  a partition and a living reader back to the committed offset.  In
  `OrderReceiver` a reader moves back only at a restart; the double SaveOrder it
  causes is in `OrderService` (`OtherSaves`, two calls for one order).
* **Text made to be SQL** in the statement of `saveItems`: an apostrophe is taken
  to make the statement fail.
* **Connections**: each is one step of the start; what happens on the wire is I/O.
  `CreateTopicWithRetry` is not called.
* **`simulator_service`** appears as the producer of any message; its own HTTP
  side, the end-to-end test program, the web page and the deployment do not.

Kafka, kafka-go, pgx and PostgreSQL are
external and appear by what the code relies on.

## 6. What is left

The composition of `OrderReceiver` and `OrderService`: an order from the topic to
an answer, with redelivery after a crash and the key conflict it causes.
