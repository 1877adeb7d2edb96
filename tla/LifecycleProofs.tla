-------------------------- MODULE LifecycleProofs --------------------------
(***************************************************************************)
(* The receiver and the process around it, for any number of messages,     *)
(* requests, retries, crashes and restarts and any channel capacity: every *)
(* message that was read is accounted for; the process adds nothing to     *)
(* what the receiver does, closes nothing that is in use, and leaves       *)
(* nothing open.                                                           *)
(***************************************************************************)
EXTENDS Lifecycle, TLAPS
-----------------------------------------------------------------------------
(***************************************************************************)
(* The receiver: a failed message is in one place, and every message that  *)
(* was read is accounted for.                                              *)
(***************************************************************************)
Range(s) == {s[i] : i \in 1..Len(s)}
Distinct(s) == \A i, j \in 1..Len(s) : s[i] = s[j] => i = j

\* Sending m to a channel that does not hold it.
LEMMA AppendFacts ==
  ASSUME NEW S, NEW s \in Seq(S), Distinct(s), NEW m \in S, m \notin Range(s)
  PROVE  /\ Append(s, m) \in Seq(S) /\ Len(Append(s, m)) = Len(s) + 1
         /\ Distinct(Append(s, m))
         /\ Range(Append(s, m)) = Range(s) \cup {m}
  <1> DEFINE t == Append(s, m)
  <1>1. /\ t \in Seq(S) /\ Len(t) = Len(s) + 1 /\ t[Len(s) + 1] = m
        /\ \A i \in 1..Len(s) : t[i] = s[i]
    OBVIOUS
  <1>2. \A i \in 1..Len(s) : s[i] # m BY DEF Range
  <1> HIDE DEF t
  <1>3. \A i \in 1..Len(t) : i \in 1..Len(s) \/ i = Len(s) + 1 BY <1>1
  <1>4. Distinct(t) BY <1>1, <1>2, <1>3 DEF Distinct
  <1>5. \A i \in 1..Len(t) : t[i] \in Range(s) \cup {m} BY <1>1, <1>3 DEF Range
  <1>6. m \in Range(t)
    <2>1. Len(s) + 1 \in 1..Len(t) BY <1>1
    <2> QED BY <1>1, <2>1 DEF Range
  <1>7. \A i \in 1..Len(s) : s[i] \in Range(t)
    <2> SUFFICES ASSUME NEW i \in 1..Len(s) PROVE s[i] \in Range(t)
      OBVIOUS
    <2>1. i \in 1..Len(t) /\ t[i] = s[i] BY <1>1
    <2> QED BY <2>1 DEF Range
  <1>8. Range(t) = Range(s) \cup {m} BY <1>5, <1>6, <1>7 DEF Range
  <1> QED BY <1>1, <1>4, <1>8 DEF t

\* Receiving from a channel that is not empty.
LEMMA TailFacts ==
  ASSUME NEW S, NEW s \in Seq(S), Distinct(s), s # <<>>
  PROVE  /\ Head(s) \in S /\ Head(s) \in Range(s)
         /\ Tail(s) \in Seq(S) /\ Len(Tail(s)) = Len(s) - 1
         /\ Distinct(Tail(s))
         /\ Range(Tail(s)) = Range(s) \ {Head(s)}
  <1> DEFINE t == Tail(s)
  <1>1. /\ Len(s) \in Nat /\ Len(s) > 0
        /\ t \in Seq(S) /\ Len(t) = Len(s) - 1 /\ Head(s) = s[1] /\ s[1] \in S
        /\ \A i \in 1..Len(t) : t[i] = s[i + 1]
    OBVIOUS
  <1> HIDE DEF t
  <1>2. \A i \in 1..Len(t) : i + 1 \in 1..Len(s) /\ i + 1 # 1 BY <1>1
  <1>3. 1 \in 1..Len(s) BY <1>1
  <1>4. Distinct(t)
    <2> SUFFICES ASSUME NEW i \in 1..Len(t), NEW j \in 1..Len(t), t[i] = t[j] PROVE i = j
      BY DEF Distinct
    <2>1. i + 1 = j + 1 BY <1>1, <1>2 DEF Distinct
    <2> QED BY <2>1
  <1>5. \A i \in 1..Len(t) : t[i] \in Range(s) /\ t[i] # s[1]
    <2> SUFFICES ASSUME NEW i \in 1..Len(t) PROVE t[i] \in Range(s) /\ t[i] # s[1]
      OBVIOUS
    <2>1. i + 1 \in 1..Len(s) /\ i + 1 # 1 /\ t[i] = s[i + 1] BY <1>1, <1>2
    <2>2. s[i + 1] # s[1] BY <1>3, <2>1 DEF Distinct
    <2> QED BY <2>1, <2>2 DEF Range
  <1>6. \A j \in 1..Len(s) : s[j] # s[1] => s[j] \in Range(t)
    <2> SUFFICES ASSUME NEW j \in 1..Len(s), s[j] # s[1] PROVE s[j] \in Range(t)
      OBVIOUS
    <2>1. j - 1 \in 1..Len(t) /\ t[j - 1] = s[(j - 1) + 1] BY <1>1
    <2>2. t[j - 1] = s[j] BY <2>1
    <2> QED BY <2>1, <2>2 DEF Range
  <1>7. Range(t) = Range(s) \ {s[1]} BY <1>5, <1>6 DEF Range
  <1>8. s[1] \in Range(s) BY <1>3 DEF Range
  <1> QED BY <1>1, <1>4, <1>7, <1>8 DEF t
-----------------------------------------------------------------------------
Inv == TypeOK /\ RetryQueueSound /\ Accounted

LEMMA InitInv == Init => Inv
  <1> SUFFICES ASSUME Init PROVE Inv
    OBVIOUS
  <1> USE ReceiverAssumption
  <1>1. retryChan \in Seq(Msg) /\ Len(retryChan) = 0 /\ 1..Len(retryChan) = {} BY DEF Init
  <1>2. TypeOK BY <1>1 DEF Init, TypeOK, Msg, Stage, NoMsg
  <1>3. RetryQueueSound BY <1>1 DEF Init, RetryQueueSound, Queued, Msg, NoMsg
  <1>4. Accounted BY DEF Init, Accounted, Msg
  <1> QED BY <1>2, <1>3, <1>4 DEF Inv

\* What the steps below use of the invariant.
LEMMA InvFacts ==
  ASSUME Inv
  PROVE  /\ retryChan \in Seq(Msg) /\ Distinct(retryChan) /\ Queued = Range(retryChan)
         /\ Range(retryChan) = {m \in Msg : stage[m] = "retry"}
  <1>1. retryChan \in Seq(Msg) BY DEF Inv, TypeOK
  <1>2. Distinct(retryChan) BY DEF Inv, RetryQueueSound, Distinct
  <1>3. Queued = Range(retryChan) BY DEF Queued, Range
  <1>4. Range(retryChan) \subseteq Msg BY <1>1 DEF Range
  <1> QED BY <1>1, <1>2, <1>3, <1>4 DEF Inv, RetryQueueSound

\* Steps that only move the loop, the topic or the signal.
LEMMA IdleStep ==
  ASSUME Inv,
         \/ SelectCtxDone \/ SelectDone \/ SelectDefault \/ ConsumeNoRetry
         \/ ReadCancelled \/ ReadOther \/ Produce \/ Interrupt \/ StopReceivingOrders
         \/ UNCHANGED vars
  PROVE  Inv'
  <1> USE ReceiverAssumption
  <1>1. /\ UNCHANGED <<kind, committed, stored, position, stage, tries, ripe, retryChan, held>>
        /\ produced' \in 0..MaxMsg /\ produced <= produced'
        /\ pc' \in {"select", "consume", "requeue", "read", "exited"}
        /\ (pc' = "requeue" <=> pc = "requeue")
        /\ ctx' \in {"live", "done"} /\ stop' \in {"idle", "sending", "sent"}
        /\ crashes' = crashes
    BY SMTT(30) DEF Inv, TypeOK, SelectCtxDone, SelectDone, SelectDefault, ConsumeNoRetry,
           ReadCancelled, ReadOther, Produce, Interrupt, StopReceivingOrders,
           kafkaVars, lifeVars, vars, ctxDone
  <1>2. TypeOK' BY <1>1 DEF Inv, TypeOK
  <1>3. RetryQueueSound' BY <1>1 DEF Inv, RetryQueueSound, Queued
  <1>4. Accounted' BY <1>1 DEF Inv, TypeOK, Accounted
  <1> QED BY <1>2, <1>3, <1>4 DEF Inv

\* Steps that move a message which is neither in the channel nor in the
\* loop's hands, to a stage that is neither.
LEMMA MoveStep ==
  ASSUME Inv, NEW m \in Msg, NEW s \in Stage,
         stage[m] \notin {"retry", "held"}, s \notin {"retry", "held"}, Becomes(m, s),
         UNCHANGED <<kind, produced, ripe, retryChan, held, ctx, stop, crashes>>,
         pc' = pc \/ (pc = "read" /\ pc' = "select"),
         tries' \in [Msg -> Nat], \A o \in Msg : o # m => tries'[o] = tries[o],
         stored' \subseteq Msg,
         committed' \in 0..MaxMsg, position' \in 0..MaxMsg,
         committed' <= position', position' <= produced,
         \/ s # "topic" /\ stage[m] # "topic" /\ position' = position
         \/ s # "topic" /\ m = position + 1 /\ position' = m
  PROVE  Inv'
  <1> USE ReceiverAssumption
  <1>1. TypeOK'
    BY DEF Inv, TypeOK, Becomes
  <1>2. \A o \in Msg : stage'[o] = IF o = m THEN s ELSE stage[o]
    BY DEF Inv, TypeOK, Becomes
  <1>3. \A o \in Msg : stage'[o] \in {"retry", "held"} => stage'[o] = stage[o] /\ tries'[o] = tries[o]
    BY <1>2
  <1>4. \A o \in Msg : /\ stage'[o] = "retry" <=> stage[o] = "retry"
                       /\ stage'[o] = "held" <=> stage[o] = "held"
    BY <1>2
  <1>5. RetryQueueSound'
    <2>1. Queued' = Queued BY DEF Queued
    <2>2. \A o \in Msg : stage'[o] \in {"retry", "held"} => tries'[o] \in 1..MaxRetries
      BY <1>3 DEF Inv, RetryQueueSound
    <2>3. \A o \in ripe : o \in Msg BY DEF Inv, TypeOK
    <2>4. \A o \in ripe' : stage'[o] \in {"retry", "held"}
      BY <1>4, <2>3 DEF Inv, RetryQueueSound
    <2> QED BY <1>4, <2>1, <2>2, <2>4 DEF Inv, RetryQueueSound
  <1>6. Accounted'
    <2>1. \A o \in Msg : stage'[o] = "topic" <=> o > position'
      BY <1>2, SMTT(30) DEF Inv, TypeOK, Accounted, Msg
    <2> QED BY <2>1 DEF Accounted
  <1> QED BY <1>1, <1>5, <1>6 DEF Inv

\* Reading from Kafka, processing, OnSuccess and giving up are MoveSteps.
LEMMA OutsideQueue ==
  ASSUME Inv,
         \/ ReadMessage \/ ReadCommitFails
         \/ \E m \in Msg : \/ ProcessOk(m) \/ ProcessCommitLost(m) \/ ProcessFails(m)
                           \/ OnSuccess(m) \/ RetriesExhausted(m) \/ RetryOverflow(m)
  PROVE  Inv'
  <1> USE ReceiverAssumption
  <1>0. /\ committed \in 0..MaxMsg /\ position \in 0..MaxMsg /\ produced \in 0..MaxMsg
        /\ committed <= position /\ position <= produced
        /\ tries \in [Msg -> Nat] /\ stage \in [Msg -> Stage] /\ stored \subseteq Msg
        /\ kind \in [Msg -> Kind]
        /\ \A m \in Msg : stage[m] = "topic" <=> m > position
    BY DEF Inv, TypeOK, Accounted
  <1>1. CASE ReadMessage
    <2> DEFINE m == position + 1
               s == CASE kind[m] = "valid"   -> "work"
                      [] kind[m] = "invalid" -> "dlq"
                      [] kind[m] = "garbage" -> "dropped"
    <2>1. m \in Msg /\ stage[m] = "topic" BY <1>0, <1>1 DEF ReadMessage, Msg
    <2>2. kind[m] \in Kind BY <1>0, <2>1
    <2>3. s \in {"work", "dlq", "dropped"} BY <2>2 DEF Kind
    <2>4. /\ Becomes(m, s) /\ tries' = [tries EXCEPT ![m] = 0]
          /\ position' = m /\ committed' = m /\ pc = "read" /\ pc' = "select"
          /\ UNCHANGED <<kind, produced, stored, ripe, retryChan, held, ctx, stop, crashes>>
          /\ position < produced
      BY <1>1 DEF ReadMessage, kafkaVars, lifeVars
    <2> HIDE DEF s
    <2>5. tries' \in [Msg -> Nat] /\ \A o \in Msg : o # m => tries'[o] = tries[o]
      BY <1>0, <2>1, <2>4
    <2>6. m \in 0..MaxMsg /\ m <= produced BY <1>0, <2>4
    <2>7. s \in Stage /\ s \notin {"retry", "held", "topic"} BY <2>3 DEF Stage
    <2>8. stored' \subseteq Msg BY <1>0, <2>4
    <2> HIDE DEF m
    <2>9. m = position + 1 BY DEF m
    <2> QED BY <2>1, <2>4, <2>5, <2>6, <2>7, <2>8, <2>9, MoveStep
  <1>2. CASE ReadCommitFails
    <2> DEFINE m == position + 1
    <2>1. m \in Msg /\ stage[m] = "topic" BY <1>0, <1>2 DEF ReadCommitFails, Msg
    <2>2. /\ Becomes(m, "dropped") /\ tries' = tries /\ stored' = stored
          /\ position' = m /\ committed' \in {m, committed} /\ pc = "read" /\ pc' = "select"
          /\ UNCHANGED <<kind, produced, ripe, retryChan, held, ctx, stop, crashes>>
          /\ position < produced
      BY <1>2 DEF ReadCommitFails, kafkaVars, lifeVars
    <2>3. /\ m \in 0..MaxMsg /\ m <= produced
          /\ committed' \in 0..MaxMsg /\ committed' <= m
      BY <1>0, <2>2
    <2>4. "dropped" \in Stage BY DEF Stage
    <2> HIDE DEF m
    <2>5. m = position + 1 BY DEF m
    <2> QED BY <1>0, <2>1, <2>2, <2>3, <2>4, <2>5, MoveStep
  <1>3. ASSUME NEW m \in Msg,
               \/ ProcessOk(m) \/ ProcessCommitLost(m) \/ ProcessFails(m)
               \/ OnSuccess(m) \/ RetriesExhausted(m) \/ RetryOverflow(m)
        PROVE  Inv'
    <2>1. /\ stage[m] \in {"work", "saved", "failed"}
          /\ \E s \in {"saved", "failed", "done", "dlq"} : Becomes(m, s)
          /\ UNCHANGED <<kind, produced, ripe, retryChan, held, ctx, stop, crashes, pc, tries, position>>
          /\ stored' \subseteq Msg
          /\ committed' = committed \/ committed' = m
      BY <1>0, <1>3 DEF ProcessOk, ProcessCommitLost, ProcessFails, OnSuccess,
                        RetriesExhausted, RetryOverflow, kafkaVars, lifeVars
    <2>2. PICK s \in {"saved", "failed", "done", "dlq"} : Becomes(m, s) BY <2>1
    <2>3. m <= position BY <1>0, <2>1 DEF Msg
    <2>4. committed' \in 0..MaxMsg /\ committed' <= position'
      BY <1>0, <2>1, <2>3 DEF Msg
    <2>5. s \in Stage /\ s \notin {"retry", "held", "topic"} BY DEF Stage
    <2>6. /\ stage[m] \notin {"retry", "held"} /\ stage[m] # "topic"
          /\ tries' \in [Msg -> Nat] /\ \A o \in Msg : o # m => tries'[o] = tries[o]
          /\ position' \in 0..MaxMsg /\ position' <= produced /\ pc' = pc
      BY <1>0, <2>1
    <2> QED BY <2>1, <2>2, <2>4, <2>5, <2>6, MoveStep
  <1> QED BY <1>1, <1>2, <1>3

\* A step that moves m between channel, loop and goroutine: if the channel
\* still agrees with the stages, so does the rest.
LEMMA QueueStep ==
  ASSUME Inv, NEW m \in Msg, NEW s \in {"work", "retry", "held"}, Becomes(m, s),
         stage[m] \in {"failed", "retry", "held"},
         UNCHANGED <<kind, produced, committed, stored, position, ctx, stop, crashes>>,
         pc' \in {"select", "consume", "requeue", "read", "exited"},
         retryChan' \in Seq(Msg), Distinct(retryChan'), Len(retryChan') <= RetryCap,
         Range(retryChan') = {o \in Msg : stage'[o] = "retry"},
         held' \in Msg \cup {NoMsg}, pc' = "requeue" <=> held' # NoMsg,
         \A o \in Msg : stage'[o] = "held" <=> o = held',
         tries' \in [Msg -> Nat], \A o \in Msg : o # m => tries'[o] = tries[o],
         s \in {"retry", "held"} => tries'[m] \in 1..MaxRetries,
         ripe' \subseteq ripe, s = "work" => m \notin ripe'
  PROVE  Inv'
  <1> USE ReceiverAssumption
  <1>1. /\ stage \in [Msg -> Stage] /\ ripe \subseteq Msg
        /\ \A o \in Msg : stage'[o] = IF o = m THEN s ELSE stage[o]
    BY DEF Inv, TypeOK, Becomes
  <1>2. stage' \in [Msg -> Stage] BY <1>1 DEF Becomes, Stage
  <1>3. TypeOK' BY <1>1, <1>2 DEF Inv, TypeOK
  <1>4. RetryQueueSound'
    <2>1. Queued' = Range(retryChan') BY DEF Queued, Range
    <2>2. \A o \in Msg : o \in Queued' <=> stage'[o] = "retry" BY <2>1
    <2>3. \A o \in Msg : stage'[o] \in {"retry", "held"} => tries'[o] \in 1..MaxRetries
      BY <1>1 DEF Inv, RetryQueueSound
    <2>4. \A o \in ripe' : stage'[o] \in {"retry", "held"}
      BY <1>1 DEF Inv, RetryQueueSound
    <2>5. \A i, j \in 1..Len(retryChan') : retryChan'[i] = retryChan'[j] => i = j
      BY DEF Distinct
    <2> QED BY <2>2, <2>3, <2>4, <2>5 DEF RetryQueueSound
  <1>5. Accounted' BY <1>1 DEF Inv, Accounted
  <1> QED BY <1>3, <1>4, <1>5 DEF Inv

\* Consume takes the first message of the channel, ripe or not.
LEMMA TakeStep ==
  ASSUME Inv, ConsumeRetry \/ ConsumeTooEarly
  PROVE  Inv'
  <1> USE ReceiverAssumption
  <1> DEFINE m == Head(retryChan)
             s == IF m \in ripe THEN "work" ELSE "held"
  <1>1. /\ retryChan \in Seq(Msg) /\ Distinct(retryChan)
        /\ Range(retryChan) = {o \in Msg : stage[o] = "retry"}
    BY InvFacts
  <1>2. /\ retryChan # <<>> /\ retryChan' = Tail(retryChan) /\ pc = "consume"
        /\ UNCHANGED <<kind, produced, committed, stored, position, tries, ctx, stop, crashes>>
    BY DEF ConsumeRetry, ConsumeTooEarly, kafkaVars, lifeVars
  <1>3. /\ m \in Msg /\ m \in Range(retryChan)
        /\ retryChan' \in Seq(Msg) /\ Len(retryChan') = Len(retryChan) - 1
        /\ Distinct(retryChan') /\ Range(retryChan') = Range(retryChan) \ {m}
    BY <1>1, <1>2, TailFacts
  <1>4. Len(retryChan) \in Nat /\ Len(retryChan) <= RetryCap /\ held \in Msg \cup {NoMsg}
    BY <1>1 DEF Inv, TypeOK, RetryQueueSound
  <1>5. Len(retryChan') <= RetryCap BY <1>3, <1>4
  <1>6. held = NoMsg /\ \A o \in Msg : stage[o] # "held"
    <2>1. held = NoMsg BY <1>2 DEF Inv, RetryQueueSound
    <2> QED BY <2>1 DEF Inv, RetryQueueSound, Msg, NoMsg
  <1>7. /\ Becomes(m, s)
        /\ pc' = (IF s = "held" THEN "requeue" ELSE "select")
        /\ held' = (IF s = "held" THEN m ELSE NoMsg)
        /\ ripe' = ripe \ {m}
    <2>1. CASE ConsumeRetry BY <2>1, <1>6 DEF ConsumeRetry
    <2>2. CASE ConsumeTooEarly BY <2>2 DEF ConsumeTooEarly
    <2> QED BY <2>1, <2>2
  <1>8. s \in {"work", "held"} OBVIOUS
  <1> HIDE DEF m, s
  <1>9. stage \in [Msg -> Stage] /\ stage[m] = "retry" /\ tries \in [Msg -> Nat]
    BY <1>1, <1>3 DEF Inv, TypeOK
  <1>10. \A o \in Msg : stage'[o] = IF o = m THEN s ELSE stage[o]
    BY <1>7, <1>9 DEF Becomes
  <1>11. Range(retryChan') = {o \in Msg : stage'[o] = "retry"}
    BY <1>1, <1>3, <1>8, <1>10
  <1>12. tries'[m] \in 1..MaxRetries BY <1>2, <1>3, <1>9 DEF Inv, RetryQueueSound
  <1>13. m # NoMsg BY <1>3 DEF Msg, NoMsg
  <1>14. \A o \in Msg : stage'[o] = "held" <=> o = held'
    <2>1. \A o \in Msg : o # NoMsg BY DEF Msg, NoMsg
    <2> QED BY <1>6, <1>7, <1>8, <1>10, <2>1
  <1>15. /\ held' \in Msg \cup {NoMsg} /\ (pc' = "requeue" <=> held' # NoMsg)
         /\ pc' \in {"select", "consume", "requeue", "read", "exited"}
    BY <1>3, <1>7, <1>8, <1>13
  <1>16. /\ ripe' \subseteq ripe /\ m \notin ripe' /\ tries' \in [Msg -> Nat]
         /\ s \in {"work", "retry", "held"} /\ stage[m] \in {"failed", "retry", "held"}
         /\ \A o \in Msg : o # m => tries'[o] = tries[o]
    BY <1>2, <1>7, <1>8, <1>9
  <1> QED BY <1>2, <1>3, <1>5, <1>7, <1>11, <1>12, <1>14, <1>15, <1>16, QueueStep, ZenonT(60)

\* Consume puts the message back, or a goroutine sends a failed one.
LEMMA SendStep ==
  ASSUME Inv, Requeue \/ \E o \in Msg : SendToRetries(o)
  PROVE  Inv'
  <1> USE ReceiverAssumption
  <1>1. /\ retryChan \in Seq(Msg) /\ Distinct(retryChan)
        /\ Range(retryChan) = {o \in Msg : stage[o] = "retry"}
        /\ stage \in [Msg -> Stage] /\ tries \in [Msg -> Nat]
    BY InvFacts DEF Inv, TypeOK
  <1>2. ASSUME NEW m \in Msg, stage[m] # "retry", Len(retryChan) < RetryCap,
               retryChan' = Append(retryChan, m), Becomes(m, "retry")
        PROVE  /\ retryChan' \in Seq(Msg) /\ Distinct(retryChan')
               /\ Len(retryChan') <= RetryCap
               /\ Range(retryChan') = {o \in Msg : stage'[o] = "retry"}
               /\ \A o \in Msg : stage'[o] = IF o = m THEN "retry" ELSE stage[o]
    <2>1. m \notin Range(retryChan) BY <1>1, <1>2
    <2>2. /\ retryChan' \in Seq(Msg) /\ Distinct(retryChan')
          /\ Len(retryChan') = Len(retryChan) + 1
          /\ Range(retryChan') = Range(retryChan) \cup {m}
      BY <1>1, <1>2, <2>1, AppendFacts
    <2>3. \A o \in Msg : stage'[o] = IF o = m THEN "retry" ELSE stage[o]
      BY <1>1, <1>2 DEF Becomes
    <2>4. Len(retryChan) \in Nat BY <1>1
    <2>5. Len(retryChan') <= RetryCap BY <1>2, <2>2, <2>4
    <2>6. Range(retryChan') = {o \in Msg : stage'[o] = "retry"} BY <1>1, <2>2, <2>3
    <2> QED BY <2>2, <2>3, <2>5, <2>6
  <1>3. CASE Requeue
    <2>1. /\ pc = "requeue" /\ Len(retryChan) < RetryCap
          /\ retryChan' = Append(retryChan, held) /\ Becomes(held, "retry")
          /\ held' = NoMsg /\ pc' = "read"
          /\ UNCHANGED <<kind, produced, committed, stored, position, tries, ripe, ctx, stop, crashes>>
      BY <1>3 DEF Requeue, kafkaVars, lifeVars
    <2>2. held \in Msg BY <2>1 DEF Inv, TypeOK, RetryQueueSound
    <2>3. stage[held] = "held" BY <2>2 DEF Inv, RetryQueueSound
    <2>4. /\ retryChan' \in Seq(Msg) /\ Distinct(retryChan') /\ Len(retryChan') <= RetryCap
          /\ Range(retryChan') = {o \in Msg : stage'[o] = "retry"}
          /\ \A o \in Msg : stage'[o] = IF o = held THEN "retry" ELSE stage[o]
      BY <1>2, <2>1, <2>2, <2>3
    <2>5. \A o \in Msg : o # NoMsg BY DEF Msg, NoMsg
    <2>6. \A o \in Msg : stage'[o] = "held" <=> o = held'
      BY <2>1, <2>4, <2>5 DEF Inv, RetryQueueSound
    <2>7. tries'[held] \in 1..MaxRetries BY <2>1, <2>2, <2>3 DEF Inv, RetryQueueSound
    <2>8. /\ pc' \in {"select", "consume", "requeue", "read", "exited"}
          /\ held' \in Msg \cup {NoMsg} /\ (pc' = "requeue" <=> held' # NoMsg)
          /\ stage[held] \in {"failed", "retry", "held"} /\ "retry" \in {"work", "retry", "held"}
          /\ tries' \in [Msg -> Nat] /\ \A o \in Msg : o # held => tries'[o] = tries[o]
          /\ ripe' \subseteq ripe
      BY <1>1, <2>1, <2>3
    <2> QED BY <2>1, <2>2, <2>4, <2>6, <2>7, <2>8, QueueStep
  <1>4. ASSUME NEW m \in Msg, SendToRetries(m) PROVE Inv'
    <2>1. /\ stage[m] = "failed" /\ tries[m] + 1 <= MaxRetries /\ Len(retryChan) < RetryCap
          /\ retryChan' = Append(retryChan, m) /\ Becomes(m, "retry")
          /\ tries' = [tries EXCEPT ![m] = @ + 1]
          /\ UNCHANGED <<kind, produced, committed, stored, position, ripe, held, pc, ctx, stop, crashes>>
      BY <1>4 DEF SendToRetries, kafkaVars, lifeVars
    <2>2. /\ retryChan' \in Seq(Msg) /\ Distinct(retryChan') /\ Len(retryChan') <= RetryCap
          /\ Range(retryChan') = {o \in Msg : stage'[o] = "retry"}
          /\ \A o \in Msg : stage'[o] = IF o = m THEN "retry" ELSE stage[o]
      BY <1>2, <2>1
    <2>3. \A o \in Msg : stage'[o] = "held" <=> o = held'
      BY <2>1, <2>2 DEF Inv, RetryQueueSound
    <2>4. /\ tries' \in [Msg -> Nat] /\ tries'[m] \in 1..MaxRetries
          /\ \A o \in Msg : o # m => tries'[o] = tries[o]
      BY <1>1, <2>1
    <2>5. /\ pc' \in {"select", "consume", "requeue", "read", "exited"}
          /\ held' \in Msg \cup {NoMsg} /\ (pc' = "requeue" <=> held' # NoMsg)
          /\ stage[m] \in {"failed", "retry", "held"} /\ "retry" \in {"work", "retry", "held"}
          /\ ripe' \subseteq ripe
      BY <2>1 DEF Inv, TypeOK, RetryQueueSound
    <2> QED BY <2>1, <2>2, <2>3, <2>4, <2>5, QueueStep
  <1> QED BY <1>3, <1>4

LEMMA BackoffStep ==
  ASSUME Inv, NEW m \in Msg, BackoffOver(m)
  PROVE  Inv'
  <1>1. /\ stage[m] \in {"retry", "held"} /\ ripe' = ripe \cup {m}
        /\ UNCHANGED <<kind, produced, committed, stored, position, stage, tries,
                       retryChan, held, pc, ctx, stop, crashes>>
    BY DEF BackoffOver, kafkaVars, lifeVars
  <1>2. TypeOK' BY <1>1 DEF Inv, TypeOK
  <1>3. RetryQueueSound' BY <1>1 DEF Inv, RetryQueueSound, Queued
  <1>4. Accounted' BY <1>1 DEF Inv, Accounted
  <1> QED BY <1>2, <1>3, <1>4 DEF Inv

LEMMA CrashStep ==
  ASSUME Inv, Crash
  PROVE  Inv'
  <1> USE ReceiverAssumption
  <1>1. /\ committed \in 0..MaxMsg /\ position \in 0..MaxMsg /\ produced \in 0..MaxMsg
        /\ committed <= position /\ position <= produced /\ crashes \in 0..MaxCrashes
        /\ stage \in [Msg -> Stage] /\ tries \in [Msg -> Nat]
        /\ \A m \in Msg : stage[m] = "topic" <=> m > position
    BY DEF Inv, TypeOK, Accounted
  <1>2. /\ position' = committed /\ committed' = committed /\ produced' = produced
        /\ kind' = kind /\ stored' = stored /\ crashes' = crashes + 1 /\ crashes < MaxCrashes
        /\ ripe' = {} /\ retryChan' = <<>> /\ held' = NoMsg /\ pc' = "select"
        /\ ctx' = "live" /\ stop' = "idle"
    BY DEF Crash, kafkaVars
  <1>3. \A m \in Msg : stage'[m] = IF m > committed THEN "topic"
                          ELSE IF stage[m] \in InMemory THEN "lost" ELSE stage[m]
    BY DEF Crash
  <1>4. stage' \in [Msg -> Stage] BY <1>1 DEF Crash, Stage
  <1>5. tries' \in [Msg -> Nat] BY <1>1 DEF Crash
  <1>6. retryChan' \in Seq(Msg) /\ Len(retryChan') = 0 /\ 1..Len(retryChan') = {}
    BY <1>2
  <1>7. TypeOK' BY <1>1, <1>2, <1>4, <1>5, <1>6 DEF Inv, TypeOK
  <1>8. \A m \in Msg : stage'[m] \notin {"retry", "held"} BY <1>3 DEF InMemory
  <1>9. \A m \in Msg : m # NoMsg BY DEF Msg, NoMsg
  <1>10. Queued' = {} BY <1>6 DEF Queued
  <1>11. RetryQueueSound' BY <1>2, <1>6, <1>8, <1>9, <1>10 DEF RetryQueueSound
  <1>12. \A m \in Msg : stage'[m] = "topic" <=> m > committed
    BY <1>1, <1>3 DEF Msg, InMemory
  <1>13. Accounted' BY <1>1, <1>2, <1>12 DEF Accounted
  <1> QED BY <1>7, <1>11, <1>13 DEF Inv

LEMMA StepInv ==
  ASSUME Inv, [Next]_vars
  PROVE  Inv'
  BY IdleStep, OutsideQueue, TakeStep, SendStep, BackoffStep, CrashStep
     DEF Next, Loop, Process

\* Whatever the loop, the goroutines, the backoff timers, crashes and failing
\* commits do (order_receiver_service.go, kafka.go), a message that failed is
\* in the retry channel once, or in the loop's hands, or with its goroutine;
\* it never waits after its last retry; and the channel never exceeds its
\* capacity.
THEOREM RetryQueueIsSound == Spec => []RetryQueueSound
  <1>1. Inv /\ [Next]_vars => Inv' BY StepInv
  <1>2. Inv => RetryQueueSound BY DEF Inv
  <1> QED BY InitInv, <1>1, <1>2, PTL DEF Spec

\* Every message up to the reader's position, and no other, has left the
\* topic, and the committed offset stays within what was read, even when
\* OnSuccess commits out of order and the process restarts.
THEOREM MessagesAccounted == Spec => [](TypeOK /\ Accounted)
  <1>1. Inv /\ [Next]_vars => Inv' BY StepInv
  <1>2. Inv => TypeOK /\ Accounted BY DEF Inv
  <1> QED BY InitInv, <1>1, <1>2, PTL DEF Spec
-----------------------------------------------------------------------------
(***************************************************************************)
(* The process around it.                                                  *)
(***************************************************************************)
\* The steps in which the receiver's variables do not change.
AroundReceiver ==
  \/ Main \/ ListenAndServe
  \/ HttpShutdown \/ HttpStopped \/ HttpTimesOut \/ PoolClose \/ PoolClosed \/ CloseReader
  \/ \E r \in Request : Accept(r) \/ Serve(r)
  \/ \E m \in Msg : BeginTx(m)

\* The steps that are the receiver's and leave the process as it is, but for
\* a transaction that ends.
OfReceiver ==
  \/ LoopRuns \/ OtherReads \/ StopReceiver
  \/ \E m \in Msg : EndSave(m) \/ AfterSave(m) \/ TimePasses(m)
  \/ Produce /\ UNCHANGED bootVars
  \/ Alive /\ Interrupt /\ UNCHANGED bootVars

LEMMA Steps == LifeNext => AroundReceiver \/ OfReceiver \/ Restart
  BY DEF LifeNext, Shutdown, Worker, AroundReceiver, OfReceiver

LEMMA AroundKeeps == AroundReceiver => UNCHANGED vars
  BY DEF AroundReceiver, Main, Boot, ReadConfig, ConnectPostgres, ConnectKafka, WarmUp,
         StartServing, BootFails, BeginShutdown, Exit, ListenAndServe, HttpShutdown,
         HttpStopped, HttpTimesOut, PoolClose, PoolClosed, CloseReader, Accept, Serve,
         Query, AnswerAtOnce, Answer, BeginTx

LEMMA OfReceiverIsStep == OfReceiver => Next
  BY DEF OfReceiver, LoopRuns, OtherReads, StopReceiver, EndSave, AfterSave, TimePasses,
         Next, Process

\* A process with its start, its HTTP server, its pool and its shutdown is a
\* receiver: main (cmd/main.go) takes steps of OrderReceiver or none of them.
THEOREM ProcessIsReceiver == LifeSpec => Spec
  <1>1. LifeInit => Init BY DEF LifeInit
  <1>2. [LifeNext]_allVars => [Next]_vars
    <2>1. CASE UNCHANGED allVars BY <2>1 DEF allVars, vars
    <2>2. CASE AroundReceiver BY <2>2, AroundKeeps
    <2>3. CASE OfReceiver BY <2>3, OfReceiverIsStep
    <2>4. CASE Restart BY <2>4 DEF Restart, Next
    <2> QED BY <2>1, <2>2, <2>3, <2>4, Steps
  <1> QED BY <1>1, <1>2, PTL DEF LifeSpec, Spec

\* So nothing of what main does around it (cmd/main.go) lets the retry
\* channel lose or double a message.
THEOREM ProcessQueueIsSound == LifeSpec => []RetryQueueSound
  BY ProcessIsReceiver, RetryQueueIsSound, PTL

\* ... nor an offset run ahead of the reader, in any number of lives.
THEOREM ProcessAccounts == LifeSpec => []Accounted
  BY ProcessIsReceiver, MessagesAccounted, PTL
-----------------------------------------------------------------------------
\* Why the reader outlives the loop: it is closed after StopReceivingOrders
\* has returned, and that returns to a loop which ends.
StoppedInv ==
  /\ reader = "closed" => stop = "sent"
  /\ stop = "sent" => pc = "exited"

LEMMA StoppedStep ==
  ASSUME StoppedInv, [LifeNext]_allVars
  PROVE  StoppedInv'
  <1>1. CASE UNCHANGED allVars BY <1>1 DEF StoppedInv, allVars, vars, bootVars
  <1>2. CASE AroundReceiver
    <2>1. stop' = stop /\ pc' = pc BY <1>2, AroundKeeps DEF vars
    <2>2. reader' = "closed" => reader = "closed" \/ stop = "sent"
      BY <1>2 DEF AroundReceiver, Main, Boot, ReadConfig, ConnectPostgres, ConnectKafka,
         WarmUp, StartServing, BootFails, BeginShutdown, Exit, ListenAndServe, HttpShutdown,
         HttpStopped, HttpTimesOut, PoolClose, PoolClosed, CloseReader, Accept, Serve,
         Query, AnswerAtOnce, Answer, BeginTx
    <2> QED BY <2>1, <2>2 DEF StoppedInv
  <1>3. CASE OfReceiver
    <2>1. reader' = reader
      BY <1>3 DEF OfReceiver, LoopRuns, OtherReads, StopReceiver, EndSave, AfterSave,
                  TimePasses, bootVars
    <2>2. stop = "sent" => stop' = "sent"
      <3>1. Loop => (stop = "sent" => stop' = "sent")
        BY DEF Loop, SelectCtxDone, SelectDone, SelectDefault, ConsumeNoRetry, ConsumeRetry,
               ConsumeTooEarly, Requeue, ReadMessage, ReadCommitFails, ReadCancelled, lifeVars
      <3>2. \A m \in Msg : Process(m) \/ BackoffOver(m) => stop' = stop
        BY DEF Process, ProcessOk, ProcessCommitLost, ProcessFails, OnSuccess,
               RetriesExhausted, SendToRetries, RetryOverflow, BackoffOver, lifeVars
      <3>3. ReadOther \/ Produce \/ Interrupt => stop' = stop
        BY DEF ReadOther, Produce, Interrupt, lifeVars
      <3> QED BY <1>3, <3>1, <3>2, <3>3
          DEF OfReceiver, LoopRuns, OtherReads, StopReceiver, StopReceivingOrders, EndSave,
              AfterSave, TimePasses, Process
    <2>3. stop' = "sent" => pc' = "exited"
      <3>1. Loop => (stop' = "sent" => pc' = "exited")
        BY DEF StoppedInv, Loop, SelectCtxDone, SelectDone, SelectDefault, ConsumeNoRetry,
               ConsumeRetry, ConsumeTooEarly, Requeue, ReadMessage, ReadCommitFails,
               ReadCancelled, lifeVars
      <3>2. \A m \in Msg : Process(m) \/ BackoffOver(m) => stop' = stop /\ pc' = pc
        BY DEF Process, ProcessOk, ProcessCommitLost, ProcessFails, OnSuccess,
               RetriesExhausted, SendToRetries, RetryOverflow, BackoffOver, lifeVars
      <3>3. ReadOther => stop # "sent" /\ stop' = stop
        BY DEF StoppedInv, ReadOther, lifeVars
      <3>4. Produce \/ Interrupt => stop' = stop /\ pc' = pc
        BY DEF Produce, Interrupt, lifeVars
      <3>5. StopReceivingOrders => stop' # "sent" BY DEF StopReceivingOrders
      <3> QED BY <1>3, <3>1, <3>2, <3>3, <3>4, <3>5
          DEF StoppedInv, OfReceiver, LoopRuns, OtherReads, StopReceiver, EndSave, AfterSave,
              TimePasses, Process
    <2> QED BY <2>1, <2>2, <2>3 DEF StoppedInv
  <1>4. CASE Restart BY <1>4 DEF Restart, Crash, StoppedInv
  <1> QED BY <1>1, <1>2, <1>3, <1>4, Steps

\* kafkaConsumer.Close (cmd/main.go) never runs under a loop that reads.
THEOREM ReaderIsFreeWhenClosed == LifeSpec => []ReaderOutlivesLoop
  <1>1. LifeInit => StoppedInv BY DEF LifeInit, Init, Starts, StoppedInv
  <1>2. StoppedInv /\ [LifeNext]_allVars => StoppedInv' BY StoppedStep
  <1>3. StoppedInv => ReaderOutlivesLoop BY DEF StoppedInv, ReaderOutlivesLoop
  <1> QED BY <1>1, <1>2, <1>3, PTL DEF LifeSpec
-----------------------------------------------------------------------------
\* Why nothing is left open: main waits for the pool and the server, and a
\* closed pool or a stopped server takes no work again.
ClosedInv ==
  /\ req \in [Request -> {"none", "accepted", "querying"}]
  /\ pool = "closed" => tx = {} /\ \A r \in Request : req[r] # "querying"
  /\ http = "stopped" => \A r \in Request : req[r] = "none"
  /\ main = "exited" => pool = "closed" /\ http \in {"stopped", "timedout"}

LEMMA RequestStep ==
  ASSUME ClosedInv, NEW r \in Request, Accept(r) \/ Serve(r)
  PROVE  ClosedInv'
  <1>1. UNCHANGED <<main, http, pool, tx>>
    BY DEF Accept, Serve, Query, AnswerAtOnce, Answer
  <1>2. PICK to \in {"none", "accepted", "querying"} : req' = [req EXCEPT ![r] = to]
    BY DEF Accept, Serve, Query, AnswerAtOnce, Answer, Goes
  <1>3. req' \in [Request -> {"none", "accepted", "querying"}] BY <1>2 DEF ClosedInv
  <1>4. pool = "closed" => req'[r] # "querying"
    BY DEF ClosedInv, Accept, Serve, Query, AnswerAtOnce, Answer, Goes
  <1>5. http = "stopped" => req'[r] = "none"
    BY DEF ClosedInv, Accept, Serve, Query, AnswerAtOnce, Answer, Goes
  <1>6. \A q \in Request : q # r => req'[q] = req[q] BY <1>2 DEF ClosedInv
  <1> QED BY <1>1, <1>3, <1>4, <1>5, <1>6 DEF ClosedInv

LEMMA ClosedStep ==
  ASSUME ClosedInv, [LifeNext]_allVars
  PROVE  ClosedInv'
  <1>1. CASE UNCHANGED allVars BY <1>1 DEF ClosedInv, allVars, bootVars
  <1>2. CASE Main
    BY <1>2 DEF ClosedInv, Main, Boot, ReadConfig, ConnectPostgres, ConnectKafka, WarmUp,
                StartServing, BootFails, BeginShutdown, Exit, MainGoes
  <1>3. CASE ListenAndServe BY <1>3 DEF ClosedInv, ListenAndServe, Alive
  <1>4. CASE HttpShutdown \/ HttpStopped \/ HttpTimesOut
    BY <1>4 DEF ClosedInv, HttpShutdown, HttpStopped, HttpTimesOut, Busy
  <1>5. CASE PoolClose \/ PoolClosed \/ CloseReader
    BY <1>5 DEF ClosedInv, PoolClose, PoolClosed, CloseReader
  <1>6. CASE \E r \in Request : Accept(r) \/ Serve(r) BY <1>6, RequestStep
  <1>7. CASE \E m \in Msg : BeginTx(m) BY <1>7 DEF ClosedInv, BeginTx
  <1>8. CASE OfReceiver
    <2>1. UNCHANGED <<main, http, pool, req>>
      BY <1>8 DEF OfReceiver, LoopRuns, OtherReads, StopReceiver, EndSave, AfterSave,
                  TimePasses, bootVars
    <2>2. tx' \subseteq tx
      BY <1>8 DEF OfReceiver, LoopRuns, OtherReads, StopReceiver, EndSave, AfterSave,
                  TimePasses, bootVars
    <2> QED BY <2>1, <2>2 DEF ClosedInv
  <1>9. CASE Restart BY <1>9 DEF ClosedInv, Restart
  <1> QED BY <1>1, <1>2, <1>3, <1>4, <1>5, <1>6, <1>7, <1>8, <1>9, Steps DEF AroundReceiver

\* When main returns (cmd/main.go, shutdownWg.Wait) no transaction is open, no
\* query runs, and no request is unanswered unless ShutdownHTTP timed out.
THEOREM ExitIsClean == LifeSpec => []CleanExit
  <1>1. LifeInit => ClosedInv BY DEF LifeInit, Starts, ClosedInv
  <1>2. ClosedInv /\ [LifeNext]_allVars => ClosedInv' BY ClosedStep
  <1>3. ClosedInv => CleanExit BY DEF ClosedInv, CleanExit, Busy
  <1> QED BY <1>1, <1>2, <1>3, PTL DEF LifeSpec
-----------------------------------------------------------------------------
\* The states of main, the HTTP server, the pool and the reader, and the
\* messages that may hold a transaction.
BootTypes ==
  /\ main \in {"config", "postgres", "topic", "warm", "server", "running",
               "stopping", "exited", "fatal"}
  /\ http \in {"off", "starting", "listening", "failed", "shutting", "stopped", "timedout"}
  /\ pool \in {"none", "open", "closing", "closed"}
  /\ reader \in {"none", "open", "closed"}
  /\ tx \subseteq Msg

\* Every step of the process (cmd/main.go) keeps those states.
LEMMA BootTypesStep ==
  ASSUME BootTypes, [LifeNext]_allVars
  PROVE  BootTypes'
  <1>1. CASE UNCHANGED allVars BY <1>1 DEF BootTypes, allVars, bootVars
  <1>2. CASE Main
    BY <1>2 DEF BootTypes, Main, Boot, ReadConfig, ConnectPostgres, ConnectKafka, WarmUp,
                StartServing, BootFails, BeginShutdown, Exit, MainGoes
  <1>3. CASE ListenAndServe BY <1>3 DEF BootTypes, ListenAndServe
  <1>4. CASE HttpShutdown \/ HttpStopped \/ HttpTimesOut
    BY <1>4 DEF BootTypes, HttpShutdown, HttpStopped, HttpTimesOut
  <1>5. CASE PoolClose \/ PoolClosed \/ CloseReader
    BY <1>5 DEF BootTypes, PoolClose, PoolClosed, CloseReader
  <1>6. CASE \E r \in Request : Accept(r) \/ Serve(r)
    BY <1>6 DEF BootTypes, Accept, Serve, Query, AnswerAtOnce, Answer
  <1>7. CASE \E m \in Msg : BeginTx(m) BY <1>7 DEF BootTypes, BeginTx
  <1>8. CASE OfReceiver
    BY <1>8 DEF BootTypes, OfReceiver, LoopRuns, OtherReads, StopReceiver, EndSave, AfterSave,
                TimePasses, bootVars
  <1>9. CASE Restart BY <1>9 DEF BootTypes, Restart
  <1> QED BY <1>1, <1>2, <1>3, <1>4, <1>5, <1>6, <1>7, <1>8, <1>9, Steps DEF AroundReceiver

\* The process, the receiver in it and its requests stay within the states
\* the code has (cmd/main.go, internal/runner), in every life of it.
THEOREM ProcessTyped == LifeSpec => []LifeTypeOK
  <1>1. LifeInit => BootTypes /\ ClosedInv BY DEF LifeInit, Starts, BootTypes, ClosedInv
  <1>2. BootTypes /\ [LifeNext]_allVars => BootTypes' BY BootTypesStep
  <1>3. ClosedInv /\ [LifeNext]_allVars => ClosedInv' BY ClosedStep
  <1>4. TypeOK /\ Accounted /\ BootTypes /\ ClosedInv => LifeTypeOK
    BY DEF BootTypes, ClosedInv, LifeTypeOK
  <1> QED BY <1>1, <1>2, <1>3, <1>4, ProcessIsReceiver, MessagesAccounted, PTL DEF LifeSpec
=============================================================================
