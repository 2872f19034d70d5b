------------------------------- MODULE LruCache -------------------------------
(***************************************************************************)
(* What a cache of bounded size promises: its entries are those put last,   *)
(* without the ones dropped by name, and a lookup counts as a use.          *)
(***************************************************************************)
EXTENDS Containers

CONSTANTS Keys, Results, Bounds
VARIABLES
    recent,     \* entries [key, result], the last used first
    bound,
    told        \* what the last call returned

lvars == <<recent, bound, told>>
Miss == [found |-> FALSE]
Without(s, ks) == At(s, {i \in DOMAIN s : s[i].key \notin ks})
Truncated(s, n) == IF Len(s) > n THEN SubSeq(s, 1, n) ELSE s

LInit == recent = <<>> /\ bound \in Bounds /\ told = Miss

Lookup(k) ==
    /\ \/ \E e \in {recent[i] : i \in DOMAIN recent} :
              /\ e.key = k
              /\ told' = [found |-> TRUE, result |-> e.result]
              /\ recent' = <<e>> \o Without(recent, {k})
       \/ /\ \A i \in DOMAIN recent : recent[i].key # k
          /\ told' = Miss /\ UNCHANGED recent
    /\ UNCHANGED bound
Insert(k, r) ==
    /\ recent' = Truncated(<<[key |-> k, result |-> r]>> \o Without(recent, {k}), bound)
    /\ told' = Miss /\ UNCHANGED bound
Drop(ks) == recent' = Without(recent, ks) /\ told' = Miss /\ UNCHANGED bound
Rebound(n) == bound' = n /\ recent' = Truncated(recent, n) /\ told' = Miss
Count == told' = [found |-> TRUE, result |-> Len(recent)] /\ UNCHANGED <<recent, bound>>

LNext ==
    \/ \E k \in Keys : Lookup(k) \/ \E r \in Results : Insert(k, r)
    \/ \E ks \in SUBSET Keys : Drop(ks)
    \/ \E n \in Bounds : Rebound(n)
    \/ Count
LSpec == LInit /\ [][LNext]_lvars
===============================================================================
