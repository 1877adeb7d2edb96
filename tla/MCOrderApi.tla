----------------------------- MODULE MCOrderApi -----------------------------
(***************************************************************************)
(* Every order that departs from a plain one in a single field; every id   *)
(* of the length allowed and one that is too long; every way to write such *)
(* an id into a path.                                                      *)
(***************************************************************************)
EXTENDS OrderApi

Strings(S) == UNION {[1..n -> S] : n \in 0..UidMax}
TooLong == [n \in 1..(UidMax + 1) |-> "a"]

MCIds    == Strings({"a", "/", "%"}) \cup {TooLong}
MCOrders == Candidates(<<"a">>) \cup {Plain(u, 2) : u \in MCIds \cup {<<"'">>, <<"'", "'">>}}

Paths(prefix, S) == [prefix : {prefix}, rest : S]
MCOthers ==
  [method : {"GET"}, wire : Paths("/order/", Strings({"a", "/", "%2F", "%25", "%61"})
                                             \cup {TooLong})]
    \cup [method : {"GET", "POST", "OPTIONS"},
          wire : Paths("/order/", {<<"a">>, <<"/">>}) \cup Paths("/orders/", {<<"a">>})]
=============================================================================
