----------------------------- MODULE LinkedList -----------------------------
(***************************************************************************)
(* A caller of list.go: each action is one method called with any          *)
(* argument, boundary and out-of-range indices included.  The methods hold *)
(* l.mu or are called by one goroutine here; what happens when the         *)
(* unlocked ones run beside MoveToFirst is the subject of LruCache.        *)
(***************************************************************************)
EXTENDS LinkedListOps, Sequences

CONSTANTS Value,   \* the values a list may hold
          MaxLen   \* bound: a longer list is never built

ASSUME NodeAssumption ==
  MaxLen \in Nat /\ IsFiniteSet(Node) /\ Cardinality(Node) > MaxLen

VARIABLES list,    \* the list record of LinkedListOps
          ret      \* what the last call returned

vars == <<list, ret>>

Index == -1..(MaxLen + 1)

Nothing(e) == [value |-> NoValue, index |-> 0, err |-> e]

Init == list = NewLinkedList /\ ret = Nothing(Ok)

\* A method that changes the list returns its error only.
Write(r) == list' = Collect(r.list) /\ ret' = Nothing(r.err)

\* A method that reads a value returns it with the error.
Read(r) == ret' = [value |-> r.value, index |-> 0, err |-> r.err] /\ UNCHANGED list

CallInsert(v, i)   == list.length < MaxLen /\ Write(Insert(list, v, i))
CallInsertLast(v)  == list.length < MaxLen /\ Write(InsertLast(list, v))
CallRemoveAt(i)    == Write(RemoveNodeAt(list, i))
CallRemoveFirst    == Write(RemoveFirstNode(list))
CallRemoveLast     == Write(RemoveLast(list))
CallGetAt(i)       == Read(GetAt(list, i))
CallGetFirst       == Read(GetFirst(list))
CallGetLast        == Read(GetLast(list))
CallMoveToFirst(i) == Write(MoveToFirst(list, i))
CallGetIndex(v)    ==
  LET r == GetIndex(list, v)
  IN  ret' = [value |-> NoValue, index |-> r.index, err |-> r.err] /\ UNCHANGED list

Next ==
  \/ \E v \in Value, i \in Index : CallInsert(v, i)
  \/ \E v \in Value : CallInsertLast(v) \/ CallGetIndex(v)
  \/ \E i \in Index : CallRemoveAt(i) \/ CallGetAt(i) \/ CallMoveToFirst(i)
  \/ CallRemoveFirst \/ CallRemoveLast \/ CallGetFirst \/ CallGetLast

Spec == Init /\ [][Next]_vars
-----------------------------------------------------------------------------
\* TypeOK: the fields of the list hold addresses, the length is bounded.
TypeOK ==
  /\ list.head \in Node \cup {Nil} /\ list.tail \in Node \cup {Nil}
  /\ list.length \in 0..MaxLen
  /\ list.next \in [Node -> Node \cup {Nil}]
  /\ list.value \in [Node -> Value \cup {NoValue}]

\* WellFormed: after every call length nodes are linked, without a cycle,
\* the chain ends in nil, and tail is the node at its end (list.go keeps
\* tail and length by hand in Insert, removeNodeAt, removeFirstNode and
\* MoveToFirst).
WellFormed ==
  /\ Cardinality(Linked(list)) = list.length /\ Nil \notin Linked(list)
  /\ IF list.length = 0 THEN list.head = Nil /\ list.tail = Nil
     ELSE /\ list.tail = NodeAt(list, list.length - 1)
          /\ list.next[list.tail] = Nil

\* ImplementsSeqList: read through GetAll, the pointer operations are the
\* sequence operations of SeqList, results and errors included: what a call
\* that fails returns, and that it leaves the list alone.  Where the code does
\* not keep to its comment on ErrEmptyList (MoveToFirst), SeqList has the code.
Abstract == INSTANCE SeqList WITH seq <- GetAll(list)
ImplementsSeqList == Abstract!Spec
=============================================================================
