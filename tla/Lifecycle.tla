----------------------------- MODULE Lifecycle -----------------------------
(***************************************************************************)
(* One order_service process from main's first line to its last            *)
(* (cmd/main.go, internal/runner): it reads its configuration, connects    *)
(* (pkg/postgres, pkg/kafka), starts the HTTP server and the receiver, and *)
(* after os.Interrupt stops them and the connection pool in three          *)
(* goroutines it waits for.  The receiver is OrderReceiver, whose steps    *)
(* happen here only while the process runs and with the pool and the       *)
(* reader the process has.                                                 *)
(*                                                                         *)
(* External: http.Server.Shutdown stops listening and waits for the        *)
(* requests under way; pgxpool's Close refuses new work and waits for the  *)
(* connections in use; os.Exit and the return of main end every goroutine. *)
(***************************************************************************)
EXTENDS OrderReceiver

CONSTANTS Request      \* bound: HTTP requests at a time

VARIABLES main,        \* where main is
          http,        \* the HTTP server
          pool,        \* the pgx pool
          reader,      \* the Kafka reader
          req,         \* of each request, where its handler is
          tx           \* the messages whose SaveOrder holds a connection

bootVars == <<main, http, pool, reader, req, tx>>
allVars  == <<vars, bootVars>>

Starts == /\ main = "config" /\ http = "off" /\ pool = "none" /\ reader = "none"
          /\ req = [r \in Request |-> "none"] /\ tx = {}

LifeInit == Init /\ Starts

Runs  == main \in {"running", "stopping"}       \* the goroutines exist
Alive == main \notin {"exited", "fatal"}
-----------------------------------------------------------------------------
(***************************************************************************)
(* The start.                                                              *)
(***************************************************************************)
MainGoes(from, to) == main = from /\ main' = to

\* config.TryRead
ReadConfig ==
  /\ MainGoes("config", "postgres")
  /\ UNCHANGED <<vars, http, pool, reader, req, tx>>

\* postgres.New: the pool and the migrations.
ConnectPostgres ==
  /\ MainGoes("postgres", "topic")
  /\ pool' = "open"
  /\ UNCHANGED <<vars, http, reader, req, tx>>

\* kafka.CreateTopicIfNotExists and NewReader.
ConnectKafka ==
  /\ MainGoes("topic", "warm")
  /\ reader' = "open"
  /\ UNCHANGED <<vars, http, pool, req, tx>>

\* CacheLastOrders (OrderService tells what it does): an error is logged.
WarmUp ==
  /\ MainGoes("warm", "server")
  /\ UNCHANGED <<vars, http, pool, reader, req, tx>>

\* api.NewServer, then go RunHTTP and go RunOrderReceiver.
StartServing ==
  /\ MainGoes("server", "running")
  /\ http' = "starting"
  /\ UNCHANGED <<vars, pool, reader, req, tx>>

\* logger.Fatal ends the process at any of these steps but the warm-up.
BootFails ==
  /\ main \in {"config", "postgres", "topic", "server"}
  /\ main' = "fatal"
  /\ UNCHANGED <<vars, http, pool, reader, req, tx>>

Boot == ReadConfig \/ ConnectPostgres \/ ConnectKafka \/ WarmUp \/ StartServing \/ BootFails

\* RunHTTP: an error of ListenAndServe is logged, and the process goes on.
ListenAndServe ==
  /\ http = "starting" /\ Alive
  /\ http' \in {"listening", "failed"}
  /\ UNCHANGED <<vars, main, pool, reader, req, tx>>
-----------------------------------------------------------------------------
(***************************************************************************)
(* A request: its context is not the signal's.                             *)
(***************************************************************************)
Goes(r, from, to) == Runs /\ req[r] = from /\ req' = [req EXCEPT ![r] = to]

Accept(r) ==
  /\ http = "listening" /\ Goes(r, "none", "accepted")
  /\ UNCHANGED <<vars, main, http, pool, reader, tx>>

\* GetOrder misses the cache and takes connections from the pool.
Query(r) ==
  /\ pool = "open" /\ Goes(r, "accepted", "querying")
  /\ UNCHANGED <<vars, main, http, pool, reader, tx>>

\* The cache has the order, or the pool is closed and an error is answered.
AnswerAtOnce(r) ==
  /\ Goes(r, "accepted", "none")
  /\ UNCHANGED <<vars, main, http, pool, reader, tx>>

Answer(r) ==
  /\ Goes(r, "querying", "none")
  /\ UNCHANGED <<vars, main, http, pool, reader, tx>>

Serve(r) == Query(r) \/ AnswerAtOnce(r) \/ Answer(r)
-----------------------------------------------------------------------------
(***************************************************************************)
(* The receiver in this process.                                           *)
(***************************************************************************)
LoopRuns   == Runs /\ Loop /\ UNCHANGED bootVars
OtherReads == Runs /\ ReadOther /\ UNCHANGED bootVars

\* SaveOrder's BeginTx, with the signal's context.
BeginTx(m) ==
  /\ Runs /\ stage[m] = "work" /\ m \notin tx
  /\ pool = "open" /\ ~ctxDone
  /\ tx' = tx \cup {m}
  /\ UNCHANGED <<vars, main, http, pool, reader, req>>

\* Mutant: a save that fails is not rolled back and keeps its connection.
EndSaveLeaks(m) ==
  /\ Runs
  /\ ProcessFails(m) \/ (m \in tx /\ (ProcessOk(m) \/ ProcessCommitLost(m)))
  /\ tx' = IF stage'[m] = "failed" THEN tx ELSE tx \ {m}
  /\ UNCHANGED <<main, http, pool, reader, req>>

\* The transaction ends; without one SaveOrder has failed.
EndSave(m) ==
  /\ Runs
  /\ ProcessFails(m) \/ (m \in tx /\ (ProcessOk(m) \/ ProcessCommitLost(m)))
  /\ tx' = tx \ {m}
  /\ UNCHANGED <<main, http, pool, reader, req>>

\* OnSuccess or OnFail; a closed reader commits nothing.
AfterSave(m) ==
  /\ Runs
  /\ OnSuccess(m) \/ RetriesExhausted(m) \/ SendToRetries(m) \/ RetryOverflow(m)
  /\ reader = "closed" => committed' = committed
  /\ UNCHANGED bootVars

Worker(m) == BeginTx(m) \/ EndSave(m) \/ AfterSave(m)
-----------------------------------------------------------------------------
(***************************************************************************)
(* The end.                                                                *)
(***************************************************************************)
\* <-ctx.Done(): the three goroutines start.
BeginShutdown ==
  /\ ctxDone /\ MainGoes("running", "stopping")
  /\ UNCHANGED <<vars, http, pool, reader, req, tx>>

\* ShutdownHTTP
HttpShutdown ==
  /\ main = "stopping" /\ http \in {"starting", "listening", "failed"}
  /\ http' = "shutting"
  /\ UNCHANGED <<vars, main, pool, reader, req, tx>>

Busy == \E r \in Request : req[r] # "none"

HttpStopped ==
  /\ http = "shutting" /\ main = "stopping" /\ ~Busy
  /\ http' = "stopped"
  /\ UNCHANGED <<vars, main, pool, reader, req, tx>>

\* The 10 seconds are over: Shutdown returns an error, which is logged.
HttpTimesOut ==
  /\ http = "shutting" /\ main = "stopping" /\ Busy
  /\ http' = "timedout"
  /\ UNCHANGED <<vars, main, pool, reader, req, tx>>

PoolClose ==
  /\ main = "stopping" /\ pool = "open"
  /\ pool' = "closing"
  /\ UNCHANGED <<vars, main, http, reader, req, tx>>

PoolClosed ==
  /\ main = "stopping" /\ pool = "closing"
  /\ tx = {} /\ \A r \in Request : req[r] # "querying"
  /\ pool' = "closed"
  /\ UNCHANGED <<vars, main, http, reader, req, tx>>

\* ShutdownOrderReceiver: StopReceivingOrders sends, whatever its timeout.
StopReceiver ==
  /\ main = "stopping" /\ StopReceivingOrders
  /\ UNCHANGED bootVars

\* Mutant: the reader is closed beside StopReceivingOrders, not after it.
CloseReaderAtOnce ==
  /\ main = "stopping" /\ reader = "open"
  /\ reader' = "closed"
  /\ UNCHANGED <<vars, main, http, pool, req, tx>>

\* kafkaConsumer.Close, once StopReceivingOrders has returned.
CloseReader ==
  /\ main = "stopping" /\ stop = "sent" /\ reader = "open"
  /\ reader' = "closed"
  /\ UNCHANGED <<vars, main, http, pool, req, tx>>

\* Mutant: the pool's goroutine is not waited for.
ExitWithoutPool ==
  /\ http \in {"stopped", "timedout"} /\ reader = "closed"
  /\ MainGoes("stopping", "exited")
  /\ UNCHANGED <<vars, http, pool, reader, req, tx>>

\* shutdownWg.Wait returns, and so does main.
Exit ==
  /\ http \in {"stopped", "timedout"} /\ pool = "closed" /\ reader = "closed"
  /\ MainGoes("stopping", "exited")
  /\ UNCHANGED <<vars, http, pool, reader, req, tx>>

\* The process is killed, or was at its end, and is started again.
Restart ==
  /\ Crash
  /\ main' = "config" /\ http' = "off" /\ pool' = "none" /\ reader' = "none"
  /\ req' = [r \in Request |-> "none"] /\ tx' = {}
-----------------------------------------------------------------------------
Main     == Boot \/ BeginShutdown \/ Exit
Shutdown == \/ HttpShutdown \/ HttpStopped \/ HttpTimesOut
            \/ PoolClose \/ PoolClosed
            \/ StopReceiver \/ CloseReader
TimePasses(m) == Runs /\ BackoffOver(m) /\ UNCHANGED bootVars

LifeNext ==
  \/ Main \/ ListenAndServe \/ Shutdown
  \/ \E r \in Request : Accept(r) \/ Serve(r)
  \/ LoopRuns \/ OtherReads
  \/ \E m \in Msg : Worker(m) \/ TimePasses(m)
  \/ Produce /\ UNCHANGED bootVars
  \/ Alive /\ Interrupt /\ UNCHANGED bootVars
  \/ Restart

LifeSpec == LifeInit /\ [][LifeNext]_allVars

\* Goroutines that can run are run, and time passes.  The goroutines of main
\* take each of their steps once in a life of the process, so it is enough
\* that one of them goes on.  Nobody promises messages (OtherReads, Produce),
\* requests, signals or restarts.
LifeFairness ==
  /\ WF_allVars(Main \/ ListenAndServe \/ Shutdown)
  /\ WF_allVars(\E r \in Request : Serve(r))
  /\ WF_allVars(LoopRuns)
  /\ \A m \in Msg : WF_allVars(Worker(m))
  /\ WF_allVars(\E m \in Msg : TimePasses(m))

LifeFairSpec == LifeSpec /\ LifeFairness
-----------------------------------------------------------------------------
LifeTypeOK ==
  /\ TypeOK
  /\ main \in {"config", "postgres", "topic", "warm", "server", "running",
               "stopping", "exited", "fatal"}
  /\ http \in {"off", "starting", "listening", "failed", "shutting", "stopped", "timedout"}
  /\ pool \in {"none", "open", "closing", "closed"}
  /\ reader \in {"none", "open", "closed"}
  /\ req \in [Request -> {"none", "accepted", "querying"}]
  /\ tx \subseteq Msg

\* CleanExit: when main returns after a signal no transaction is open and no
\* query is running, although saves, requests and the closing of the pool
\* race each other; and no request is left without an answer unless
\* ShutdownHTTP gave up waiting.
CleanExit ==
  main = "exited" =>
    /\ tx = {} /\ \A r \in Request : req[r] # "querying"
    /\ http = "timedout" \/ ~Busy

\* ReaderOutlivesLoop: the Kafka reader is not closed under the loop that
\* reads from it: StopReceivingOrders returns only to a loop that has ended.
ReaderOutlivesLoop == reader = "closed" => pc = "exited"

\* The loop waits for room in retryChan that only itself could make.
Blocked == pc = "requeue" /\ Len(retryChan) = RetryCap

\* StopReceivingOrders sends to a loop that has left through ctx.Done.
Unheard == stop = "sending" /\ pc = "exited"

\* ExitsUnlessStuck: after the signal the process ends, whatever it was
\* doing, unless one of the two waits above holds it for ever.
ExitsUnlessStuck ==
  ctxDone ~> (~Alive \/ ~ctxDone \/ Unheard \/ Blocked)

\* The loop comes out of ReadMessage again and again.  Nothing in the code
\* sees to it: on a quiet topic the loop waits there, retries or no retries.
ReadsReturn == []<>(pc # "read")

\* Settles: as long as ReadMessage keeps returning, a message that was read is
\* eventually done with, whatever fails on the way, unless the process is
\* told to stop or Consume blocks: every retry is taken in the end, and there
\* is an end to the retries.
Settles ==
  ReadsReturn =>
    \A m \in Msg : stage[m] \in InMemory ~> (stage[m] \notin InMemory \/ ctxDone \/ Blocked)

\* ShutdownEnds: after the signal the process ends.
ShutdownEnds == ctxDone ~> (~Alive \/ ~ctxDone)
=============================================================================
