--------------------------- MODULE OrderReceiver ---------------------------
(***************************************************************************)
(* The path of an order from Kafka to the storage in one order_service     *)
(* process: the loop of OrderReceiverService                               *)
(* (internal/service/order_receiver_service.go), the KafkaReceiver it      *)
(* calls (pkg/pkgports/adapters/receiver/kafka.go), one goroutine per      *)
(* order, and the way main stops them.                                     *)
(*                                                                         *)
(* A message is its offset in one partition.  Kafka and its reader are     *)
(* external: with a GroupID, ReadMessage commits the offset it returns;    *)
(* CommitMessages (CommitInterval is 0) makes the group's offset that of   *)
(* the message it is given, even when a later one was committed before;    *)
(* a restarted process reads on from the group's offset.  The partition    *)
(* stays with this process: a rebalance of the group, which would take it  *)
(* away or move the reader back, is left out.                              *)
(***************************************************************************)
EXTENDS Integers, Sequences

CONSTANTS MaxMsg,      \* bound: messages in the partition
          MaxRetries,  \* k.maxRetries
          RetryCap,    \* the capacity of k.retryChan
          MaxCrashes   \* bound: restarts of the process

ASSUME ReceiverAssumption ==
  /\ MaxMsg \in Nat /\ MaxRetries \in Int /\ RetryCap \in Nat /\ MaxCrashes \in Nat

Msg == 1..MaxMsg

\* What a message holds: an order that passes ValidateOrder, one that does
\* not, or bytes that are no JSON order.
Kind == {"valid", "invalid", "garbage"}

\* Where a message is: "topic" not read yet; "work" in ProcessOrder; "saved"
\* or "failed" after it; "retry" in retryChan; "held" taken from it; or at an
\* end: "done", "dlq" (a log line), "dropped" after an error of Consume,
\* "lost" when a crash forgets a message that will not be read again.
Stage == {"topic", "work", "saved", "failed", "retry", "held",
          "done", "dlq", "dropped", "lost"}

InMemory == {"work", "saved", "failed", "retry", "held"}

VARIABLES kind, produced,        \* the partition: contents and length
          committed,             \* the offset committed for the group
          stored,                \* the messages whose order is in the storage
          position,              \* the offset the reader read last
          stage, tries,          \* of each message; tries is TotalTries
          ripe,                  \* the retried messages past their RetryAfter
          retryChan, held,       \* the channel; the message taken from it
          pc,                    \* where the loop is
          ctx, stop,             \* the signal context; StopReceivingOrders
          crashes

kafkaVars == <<kind, produced>>
lifeVars  == <<ctx, stop, crashes>>
vars == <<kind, produced, committed, stored, position, stage, tries, ripe,
          retryChan, held, pc, ctx, stop, crashes>>

ctxDone == ctx = "done"

NoMsg == 0

Init ==
  /\ kind \in [Msg -> Kind] /\ produced = 0
  /\ committed = 0 /\ stored = {}
  /\ position = 0
  /\ stage = [m \in Msg |-> "topic"] /\ tries = [m \in Msg |-> 0]
  /\ ripe = {} /\ retryChan = <<>> /\ held = NoMsg
  /\ pc = "select"
  /\ ctx = "live" /\ stop = "idle" /\ crashes = 0

\* A step moves m to another stage.
Becomes(m, s) == stage' = [stage EXCEPT ![m] = s]
-----------------------------------------------------------------------------
(***************************************************************************)
(* The loop of StartReceivingOrders.                                       *)
(***************************************************************************)
SelectCtxDone ==
  /\ pc = "select" /\ ctxDone
  /\ pc' = "exited"
  /\ UNCHANGED <<kafkaVars, committed, stored, position, stage, tries, ripe,
                 retryChan, held, lifeVars>>

\* done is unbuffered: receiving from it is what lets the sender go on.
SelectDone ==
  /\ pc = "select" /\ stop = "sending"
  /\ pc' = "exited" /\ stop' = "sent"
  /\ UNCHANGED <<kafkaVars, committed, stored, position, stage, tries, ripe,
                 retryChan, held, ctx, crashes>>

SelectDefault ==
  /\ pc = "select" /\ ~ctxDone /\ stop # "sending"
  /\ pc' = "consume"
  /\ UNCHANGED <<kafkaVars, committed, stored, position, stage, tries, ripe,
                 retryChan, held, lifeVars>>

\* Consume: nothing to retry.
ConsumeNoRetry ==
  /\ pc = "consume" /\ retryChan = <<>>
  /\ pc' = "read"
  /\ UNCHANGED <<kafkaVars, committed, stored, position, stage, tries, ripe,
                 retryChan, held, lifeVars>>

\* Consume returns a message to retry whose backoff is over.  It was valid
\* when it was read, ValidateOrder passes it again and its goroutine starts.
ConsumeRetry ==
  /\ pc = "consume" /\ retryChan # <<>> /\ Head(retryChan) \in ripe
  /\ retryChan' = Tail(retryChan)
  /\ ripe' = ripe \ {Head(retryChan)}
  /\ Becomes(Head(retryChan), "work")
  /\ pc' = "select"
  /\ UNCHANGED <<kafkaVars, committed, stored, position, tries, held, lifeVars>>

\* Consume took a message whose backoff is not over ...
ConsumeTooEarly ==
  /\ pc = "consume" /\ retryChan # <<>> /\ Head(retryChan) \notin ripe
  /\ retryChan' = Tail(retryChan)
  /\ held' = Head(retryChan)
  /\ Becomes(Head(retryChan), "held")
  /\ pc' = "requeue"
  /\ UNCHANGED <<kafkaVars, committed, stored, position, tries, ripe, lifeVars>>

\* Mutants: the send runs in the branch without a message, too; the message
\* gets a new RetryAfter, as NewRetriedMessage would give it.
RequeueNothing ==
  /\ pc \in {"consume", "requeue"} /\ Len(retryChan) < RetryCap
  /\ retryChan' = Append(retryChan, held)
  /\ Becomes(held, "retry")
  /\ held' = NoMsg
  /\ pc' = "read"
  /\ UNCHANGED <<kafkaVars, committed, stored, position, tries, ripe, lifeVars>>

RequeueRenews ==
  /\ pc = "requeue" /\ Len(retryChan) < RetryCap
  /\ retryChan' = Append(retryChan, held)
  /\ Becomes(held, "retry")
  /\ ripe' = ripe \ {held}
  /\ held' = NoMsg
  /\ pc' = "read"
  /\ UNCHANGED <<kafkaVars, committed, stored, position, tries, lifeVars>>

\* ... and puts it back at the end; the send blocks while the channel is full.
Requeue ==
  /\ pc = "requeue" /\ Len(retryChan) < RetryCap
  /\ retryChan' = Append(retryChan, held)
  /\ Becomes(held, "retry")
  /\ held' = NoMsg
  /\ pc' = "read"
  /\ UNCHANGED <<kafkaVars, committed, stored, position, tries, ripe, lifeVars>>

\* ReadMessage returns the next message and has committed it.  A valid order
\* gets a goroutine, an invalid one OnFail without a retry, and for one that
\* does not unmarshal Consume returns an error and the loop goes on.
ReadMessage ==
  LET m == position + 1
  IN  /\ pc = "read" /\ position < produced
      /\ position' = m /\ committed' = m
      /\ Becomes(m, CASE kind[m] = "valid"   -> "work"
                      [] kind[m] = "invalid" -> "dlq"
                      [] kind[m] = "garbage" -> "dropped")
      /\ tries' = [tries EXCEPT ![m] = 0]
      /\ pc' = "select"
      /\ UNCHANGED <<kafkaVars, stored, ripe, retryChan, held, lifeVars>>

\* ReadMessage fetched a message and its commit returned an error, taken by
\* the broker or not; the reader does not return the message again.
ReadCommitFails ==
  LET m == position + 1
  IN  /\ pc = "read" /\ position < produced
      /\ position' = m /\ committed' \in {m, committed}
      /\ Becomes(m, "dropped")
      /\ pc' = "select"
      /\ UNCHANGED <<kafkaVars, stored, tries, ripe, retryChan, held, lifeVars>>

ReadCancelled ==
  /\ pc = "read" /\ ctxDone
  /\ pc' = "select"
  /\ UNCHANGED <<kafkaVars, committed, stored, position, stage, tries, ripe,
                 retryChan, held, lifeVars>>

\* ReadMessage returns a message of another partition, not followed here.
ReadOther ==
  /\ pc = "read"
  /\ pc' = "select"
  /\ UNCHANGED <<kafkaVars, committed, stored, position, stage, tries, ripe,
                 retryChan, held, lifeVars>>
-----------------------------------------------------------------------------
(***************************************************************************)
(* The goroutine of message m.                                             *)
(***************************************************************************)
\* ProcessOrder (SaveOrder) succeeds: orders have a primary key, so only for
\* an order that is not stored yet.
ProcessOk(m) ==
  /\ stage[m] = "work" /\ m \notin stored
  /\ stored' = stored \cup {m}
  /\ Becomes(m, "saved")
  /\ UNCHANGED <<kafkaVars, committed, position, tries, ripe, retryChan, held, pc, lifeVars>>

\* SaveOrder returns nil although its Commit failed and nothing is stored.
ProcessCommitLost(m) ==
  /\ stage[m] = "work" /\ m \notin stored
  /\ Becomes(m, "saved")
  /\ UNCHANGED <<kafkaVars, committed, stored, position, tries, ripe, retryChan,
                 held, pc, lifeVars>>

ProcessFails(m) ==
  /\ stage[m] = "work"
  /\ Becomes(m, "failed")
  /\ UNCHANGED <<kafkaVars, committed, stored, position, tries, ripe, retryChan,
                 held, pc, lifeVars>>

\* Mutant: the offset after the message is committed, which is how Kafka
\* itself counts.
OnSuccessNext(m) ==
  /\ stage[m] = "saved"
  /\ committed' \in {m + 1, committed}
  /\ Becomes(m, "done")
  /\ UNCHANGED <<kafkaVars, stored, position, tries, ripe, retryChan, held, pc, lifeVars>>

\* OnSuccess commits the message; an error is logged and nothing else.
OnSuccess(m) ==
  /\ stage[m] = "saved"
  /\ committed' \in {m, committed}
  /\ Becomes(m, "done")
  /\ UNCHANGED <<kafkaVars, stored, position, tries, ripe, retryChan, held, pc, lifeVars>>

\* OnFail, sendToRetries: no try left.
RetriesExhausted(m) ==
  /\ stage[m] = "failed" /\ tries[m] + 1 > MaxRetries
  /\ Becomes(m, "dlq")
  /\ UNCHANGED <<kafkaVars, committed, stored, position, tries, ripe, retryChan,
                 held, pc, lifeVars>>

\* Mutant: the tries so far are compared, without the one that failed.
SendToRetriesOnceMore(m) ==
  /\ stage[m] = "failed" /\ tries[m] <= MaxRetries
  /\ Len(retryChan) < RetryCap
  /\ retryChan' = Append(retryChan, m)
  /\ tries' = [tries EXCEPT ![m] = @ + 1]
  /\ Becomes(m, "retry")
  /\ UNCHANGED <<kafkaVars, committed, stored, position, ripe, held, pc, lifeVars>>

\* sendToRetries: a new KafkaMessage with one more try and a new RetryAfter.
SendToRetries(m) ==
  /\ stage[m] = "failed" /\ tries[m] + 1 <= MaxRetries
  /\ Len(retryChan) < RetryCap
  /\ retryChan' = Append(retryChan, m)
  /\ tries' = [tries EXCEPT ![m] = @ + 1]
  /\ Becomes(m, "retry")
  /\ UNCHANGED <<kafkaVars, committed, stored, position, ripe, held, pc, lifeVars>>

\* sendToRetries: the channel is full.
RetryOverflow(m) ==
  /\ stage[m] = "failed" /\ tries[m] + 1 <= MaxRetries
  /\ Len(retryChan) >= RetryCap
  /\ Becomes(m, "dlq")
  /\ UNCHANGED <<kafkaVars, committed, stored, position, tries, ripe, retryChan,
                 held, pc, lifeVars>>

\* Time passes RetryAfter.
BackoffOver(m) ==
  /\ stage[m] \in {"retry", "held"} /\ m \notin ripe
  /\ ripe' = ripe \cup {m}
  /\ UNCHANGED <<kafkaVars, committed, stored, position, stage, tries, retryChan,
                 held, pc, lifeVars>>
-----------------------------------------------------------------------------
(***************************************************************************)
(* The environment and the life of the process.                            *)
(***************************************************************************)
Produce ==
  /\ produced < MaxMsg
  /\ produced' = produced + 1
  /\ UNCHANGED <<kind, committed, stored, position, stage, tries, ripe, retryChan,
                 held, pc, lifeVars>>

\* os.Interrupt cancels the context of main and of everything it started.
Interrupt ==
  /\ ~ctxDone
  /\ ctx' = "done"
  /\ UNCHANGED <<kafkaVars, committed, stored, position, stage, tries, ripe,
                 retryChan, held, pc, stop, crashes>>

\* main, past <-ctx.Done(): StopReceivingOrders sends on done.
StopReceivingOrders ==
  /\ ctxDone /\ stop = "idle"
  /\ stop' = "sending"
  /\ UNCHANGED <<kafkaVars, committed, stored, position, stage, tries, ripe,
                 retryChan, held, pc, ctx, crashes>>

\* The process is killed (any signal but os.Interrupt does it) and started
\* again: what was in memory is gone, and the reader continues behind the
\* committed offset.
Crash ==
  /\ crashes < MaxCrashes
  /\ crashes' = crashes + 1
  /\ position' = committed
  /\ stage' = [m \in Msg |-> IF m > committed THEN "topic"
                             ELSE IF stage[m] \in InMemory THEN "lost" ELSE stage[m]]
  /\ tries' = [m \in Msg |-> IF m > committed THEN 0 ELSE tries[m]]
  /\ ripe' = {} /\ retryChan' = <<>> /\ held' = NoMsg
  /\ pc' = "select" /\ ctx' = "live" /\ stop' = "idle"
  /\ UNCHANGED <<kafkaVars, committed, stored>>
-----------------------------------------------------------------------------
Loop == \/ SelectCtxDone \/ SelectDone \/ SelectDefault
        \/ ConsumeNoRetry \/ ConsumeRetry \/ ConsumeTooEarly \/ Requeue
        \/ ReadMessage \/ ReadCommitFails \/ ReadCancelled

Process(m) == \/ ProcessOk(m) \/ ProcessCommitLost(m) \/ ProcessFails(m)
              \/ OnSuccess(m) \/ RetriesExhausted(m) \/ SendToRetries(m) \/ RetryOverflow(m)

Next ==
  \/ Loop \/ ReadOther
  \/ \E m \in Msg : Process(m) \/ BackoffOver(m)
  \/ Produce \/ Interrupt \/ StopReceivingOrders \/ Crash

Spec == Init /\ [][Next]_vars

\* The scheduler runs every goroutine that can run, time passes, and main
\* gets past <-ctx.Done().  Nobody promises new messages, signals or crashes.
Fairness ==
  /\ WF_vars(Loop)
  /\ \A m \in Msg : WF_vars(Process(m)) /\ WF_vars(BackoffOver(m))
  /\ WF_vars(StopReceivingOrders)

FairSpec == Spec /\ Fairness
-----------------------------------------------------------------------------
TypeOK ==
  /\ kind \in [Msg -> Kind] /\ produced \in 0..MaxMsg
  /\ committed \in 0..MaxMsg /\ position \in 0..MaxMsg
  /\ stored \subseteq Msg /\ ripe \subseteq Msg
  /\ stage \in [Msg -> Stage] /\ tries \in [Msg -> Nat]
  /\ retryChan \in Seq(Msg) /\ held \in Msg \cup {NoMsg}
  /\ pc \in {"select", "consume", "requeue", "read", "exited"}
  /\ ctx \in {"live", "done"} /\ stop \in {"idle", "sending", "sent"}
  /\ crashes \in 0..MaxCrashes

Queued == {retryChan[i] : i \in 1..Len(retryChan)}

\* RetryQueueSound: a failed message is in one place.  The goroutines that
\* send to retryChan and the loop that takes from it and puts back never
\* duplicate or mislay a message: the channel holds each message waiting for
\* a retry once and nothing else, at most one more is in the loop's hands,
\* and no message waits after more than MaxRetries failures.
RetryQueueSound ==
  /\ Len(retryChan) <= RetryCap
  /\ \A i, j \in 1..Len(retryChan) : retryChan[i] = retryChan[j] => i = j
  /\ \A m \in Msg : m \in Queued <=> stage[m] = "retry"
  /\ \A m \in Msg : stage[m] = "held" <=> m = held
  /\ pc = "requeue" <=> held # NoMsg
  /\ \A m \in Msg : stage[m] \in {"retry", "held"} => tries[m] \in 1..MaxRetries
  /\ \A m \in ripe : stage[m] \in {"retry", "held"}

\* Accounted: the messages up to the reader's position, and no others, have
\* left the topic, also after crashes and commits that move the group's
\* offset back; the committed offset never runs ahead of the reader.
Accounted ==
  /\ committed <= position /\ position <= produced
  /\ \A m \in Msg : stage[m] = "topic" <=> m > position

\* RequeueEnds: Consume comes back from putting a message at the end of
\* retryChan.
RequeueEnds == pc = "requeue" ~> (pc # "requeue" \/ ctxDone)
=============================================================================
