---------------------------- MODULE LinkedListOps ----------------------------
(***************************************************************************)
(* The singly linked list of order_service/pkg/linkedlist/list.go at the   *)
(* level of its pointers.  A list is a record                              *)
(*   head, tail : addresses of nodes (Nil for Go's nil),                   *)
(*   length     : the cached length field,                                 *)
(*   value, next: the fields of every node, indexed by its address.        *)
(* Every operation is an operator from the list before the call to the     *)
(* list after it and the values the Go method returns.                     *)
(***************************************************************************)
EXTENDS Integers, FiniteSets

CONSTANTS Node,     \* addresses a node may have
          Nil,      \* the nil pointer
          NoValue   \* the zero value of ValueType, *new(ValueType)

ASSUME NilAssumption == Nil \notin Node

Ok              == "ok"
ErrInvalidIndex == "ErrInvalidIndex"
ErrEmptyList    == "ErrEmptyList"

\* NewLinkedList: no nodes are linked.
NewLinkedList ==
  [head |-> Nil, tail |-> Nil, length |-> 0,
   value |-> [n \in Node |-> NoValue], next |-> [n \in Node |-> Nil]]

\* The node reached from the head by following i links.
NodeAt(l, i) ==
  LET walk[j \in 0..i] == IF j = 0 THEN l.head ELSE l.next[walk[j - 1]]
  IN  walk[i]

\* The nodes a program can still reach through the list.
Linked(l) == {NodeAt(l, i) : i \in 0..(l.length - 1)}

\* The address &Node{} yields: any node that is not linked.  The garbage
\* collector guarantees that it is not in use; no caller keeps a node.
Fresh(l) == CHOOSE n \in Node : n \notin Linked(l)

\* What the garbage collector leaves: the fields of unreachable nodes are
\* forgotten, so that equal lists are equal states.
Collect(l) ==
  [l EXCEPT !.value = [n \in Node |-> IF n \in Linked(l) THEN @[n] ELSE NoValue],
            !.next  = [n \in Node |-> IF n \in Linked(l) THEN @[n] ELSE Nil]]

Return(l, e) == [list |-> l, err |-> e]

\* recalculateTail and setTail: length - 1 links from the head, the head
\* itself (possibly nil) when the list has at most one node.
RecalculateTail(l) ==
  [l EXCEPT !.tail = IF l.length <= 1 THEN l.head ELSE NodeAt(l, l.length - 1)]
-----------------------------------------------------------------------------
\* Insert(data, index): the new node is linked, the length grows, and the
\* tail moves only when the node was put at the end.
Insert(l, data, index) ==
  LET n   == Fresh(l)
      new == [l EXCEPT !.value[n] = data, !.length = @ + 1,
                       !.tail = IF index = l.length THEN n ELSE @]
      prev == NodeAt(l, index - 1)
  IN  CASE index > l.length \/ index < 0 -> Return(l, ErrInvalidIndex)
        [] index = 0 ->
             Return([new EXCEPT !.next[n] = l.head, !.head = n], Ok)
        [] index > 0 /\ index < l.length ->
             Return([new EXCEPT !.next[n] = l.next[prev], !.next[prev] = n], Ok)
        [] index > 0 /\ index = l.length ->
             Return([new EXCEPT !.next[n] = Nil, !.next[l.tail] = n], Ok)

InsertLast(l, data) == Insert(l, data, l.length)

\* Mutant: no recalculateTail after the head is dropped.
RemoveFirstNodeKeepsTail(l) ==
  IF l.length = 0 THEN Return(l, ErrEmptyList)
  ELSE Return([l EXCEPT !.head = l.next[l.head], !.length = @ - 1], Ok)

\* removeFirstNode, the body of RemoveFirst.
RemoveFirstNode(l) ==
  IF l.length = 0 THEN Return(l, ErrEmptyList)
  ELSE Return(RecalculateTail([l EXCEPT !.head = l.next[l.head],
                                        !.length = @ - 1]), Ok)

\* Mutant: the length is counted down for index 0 too, where removeFirstNode
\* has done it.
RemoveNodeAtCountsTwice(l, index) ==
  LET prev == NodeAt(l, index - 1)
      first == RemoveFirstNode(l).list
  IN  CASE l.length = 0 -> Return(l, ErrEmptyList)
        [] l.length > 0 /\ index = 0 -> Return([first EXCEPT !.length = @ - 1], Ok)
        [] l.length > 0 /\ (index < 0 \/ index >= l.length) -> Return(l, ErrInvalidIndex)
        [] l.length > 0 /\ index > 0 /\ index < l.length ->
             Return([l EXCEPT !.next[prev] = l.next[l.next[prev]],
                              !.tail = IF index = l.length - 1 THEN prev ELSE @,
                              !.length = @ - 1], Ok)

\* removeNodeAt, the body of RemoveAt; the tail moves back to the
\* predecessor only when the last node was removed.
RemoveNodeAt(l, index) ==
  LET prev == NodeAt(l, index - 1)
  IN  CASE l.length = 0 -> Return(l, ErrEmptyList)
        [] l.length > 0 /\ index = 0 -> RemoveFirstNode(l)
        [] l.length > 0 /\ (index < 0 \/ index >= l.length) ->
             Return(l, ErrInvalidIndex)
        [] l.length > 0 /\ index > 0 /\ index < l.length ->
             Return([l EXCEPT !.next[prev] = l.next[l.next[prev]],
                              !.tail = IF index = l.length - 1 THEN prev ELSE @,
                              !.length = @ - 1], Ok)

RemoveLast(l) == RemoveNodeAt(l, l.length - 1)

\* getNodeAt: the last node is taken from the tail, any other one by walking.
GetNodeAt(l, index) ==
  CASE l.length = 0 -> [node |-> Nil, err |-> ErrEmptyList]
    [] l.length > 0 /\ index # 0 /\ (index < 0 \/ index >= l.length) ->
         [node |-> Nil, err |-> ErrInvalidIndex]
    [] l.length > 0 /\ index > 0 /\ index = l.length - 1 ->
         [node |-> l.tail, err |-> Ok]
    [] OTHER -> [node |-> NodeAt(l, index), err |-> Ok]

\* The value a getter returns for what getNodeAt found.
ValueOf(l, found) ==
  CASE found.err # Ok                      -> [value |-> NoValue, err |-> found.err]
    [] found.err = Ok /\ found.node = Nil  -> [value |-> NoValue, err |-> ErrEmptyList]
    [] found.err = Ok /\ found.node # Nil  -> [value |-> l.value[found.node], err |-> Ok]

GetAt(l, index) == ValueOf(l, GetNodeAt(l, index))

\* GetFirst reads the head, guarded by the length.
GetFirst(l) ==
  ValueOf(l, [node |-> l.head, err |-> IF l.length = 0 THEN ErrEmptyList ELSE Ok])

\* GetLast reads the tail and, unlike GetFirst, has no check for nil: a nil
\* tail of a list with a length would be a panic (here, a TLC error).
GetLast(l) ==
  IF l.length = 0 THEN [value |-> NoValue, err |-> ErrEmptyList]
  ELSE [value |-> l.value[l.tail], err |-> Ok]

\* MoveToFirst(from): three pointer writes and a new tail.
MoveToFirst(l, from) ==
  LET prev == GetNodeAt(l, from - 1).node
      node == l.next[prev]
  IN  CASE from < 0 \/ from >= l.length -> Return(l, ErrInvalidIndex)
        [] from = 0 /\ from < l.length  -> Return(l, Ok)
        [] from > 0 /\ from < l.length  ->
             Return(RecalculateTail([l EXCEPT !.head = node,
                                              !.next[node] = l.head,
                                              !.next[prev] = l.next[node]]), Ok)

\* Mutant: the search goes on after a hit and returns the last entry.
GetIndexLast(l, item) ==
  LET hits == {i \in 0..(l.length - 1) : l.value[NodeAt(l, i)] = item}
  IN  IF l.length = 0 THEN [index |-> -1, err |-> ErrEmptyList]
      ELSE IF hits = {} THEN [index |-> -1, err |-> Ok]
      ELSE [index |-> CHOOSE i \in hits : \A j \in hits : i >= j, err |-> Ok]

\* GetIndex: the first position holding item, -1 when there is none.
GetIndex(l, item) ==
  LET hits == {i \in 0..(l.length - 1) : l.value[NodeAt(l, i)] = item}
  IN  IF l.length = 0 THEN [index |-> -1, err |-> ErrEmptyList]
      ELSE IF hits = {} THEN [index |-> -1, err |-> Ok]
      ELSE [index |-> CHOOSE i \in hits : \A j \in hits : i <= j, err |-> Ok]

\* GetAll: the values in list order.
GetAll(l) == [i \in 1..l.length |-> l.value[NodeAt(l, i - 1)]]
=============================================================================
