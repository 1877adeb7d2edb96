------------------------------- MODULE SeqList -------------------------------
(***************************************************************************)
(* What list.go promises: a list is a finite sequence of values, indices   *)
(* run from 0, and every method returns either its result or one of the    *)
(* two errors and then leaves the sequence alone.  LinkedList implements   *)
(* this specification with nodes and pointers.                             *)
(***************************************************************************)
EXTENDS Integers, SequencesExt

CONSTANTS Value,    \* the values a list may hold
          NoValue,  \* the zero value returned with an error
          MaxLen    \* bound: a longer list is never built

VARIABLES seq,      \* the list as a sequence
          ret       \* what the last call returned

vars == <<seq, ret>>

Index == -1..(MaxLen + 1)

InRange(i) == i >= 0 /\ i < Len(seq)

\* The error a call with a bad index returns; a list of length 0 has its own.
IndexError == IF seq = <<>> THEN "ErrEmptyList" ELSE "ErrInvalidIndex"

Fail(e)  == ret' = [value |-> NoValue, index |-> 0, err |-> e] /\ UNCHANGED seq
Become(s) == seq' = s /\ ret' = [value |-> NoValue, index |-> 0, err |-> "ok"]
Answer(v) == ret' = [value |-> v, index |-> 0, err |-> "ok"] /\ UNCHANGED seq

Init == seq = <<>> /\ ret = [value |-> NoValue, index |-> 0, err |-> "ok"]

\* Insert has a place for its value in an empty list, too: a bad index is
\* ErrInvalidIndex whatever the length.
Insert(v, i) ==
  /\ Len(seq) < MaxLen
  /\ IF i \in 0..Len(seq) THEN Become(InsertAt(seq, i + 1, v))
     ELSE Fail("ErrInvalidIndex")

Delete(i) ==
  IF InRange(i) THEN Become(RemoveAt(seq, i + 1)) ELSE Fail(IndexError)

Get(i) ==
  IF InRange(i) THEN Answer(seq[i + 1]) ELSE Fail(IndexError)

\* An exception to the comment of list.go:26 ("If length is 0 then use
\* ErrEmptyList"): MoveToFirst does not look whether the list is empty and
\* answers ErrInvalidIndex then, too.
MoveToFirst(i) ==
  IF InRange(i) THEN Become(<<seq[i + 1]>> \o RemoveAt(seq, i + 1))
  ELSE Fail("ErrInvalidIndex")

GetIndex(v) ==
  /\ UNCHANGED seq
  /\ ret' = [value |-> NoValue,
             index |-> IF Contains(seq, v)
                       THEN SelectInSeq(seq, LAMBDA x : x = v) - 1 ELSE -1,
             err |-> IF seq = <<>> THEN "ErrEmptyList" ELSE "ok"]

\* RemoveFirst, RemoveLast, GetFirst, GetLast and InsertLast are Delete, Get
\* and Insert at the ends of the sequence; on an empty list they fail.
Next ==
  \/ \E v \in Value, i \in Index : Insert(v, i)
  \/ \E i \in Index : Delete(i) \/ Get(i) \/ MoveToFirst(i)
  \/ \E v \in Value : GetIndex(v)

Spec == Init /\ [][Next]_vars
=============================================================================
