------------------------------- MODULE EvalCache ------------------------------
(***************************************************************************)
(* The cache of evaluations of platform/incremental.cpp: a map from the     *)
(* hash of a program and a fingerprint of its box to a result, and a list   *)
(* of the keys by their last use.  Every call holds the mutex of the cache  *)
(* from its first line to its last.                                         *)
(***************************************************************************)
EXTENDS Containers

CONSTANTS
    Progs,      \* hashes of programs
    Boxes,      \* functions from symbols to the ends of their ranges
    Results,    \* results and certificates
    Limits,     \* limits that are set
    Grain       \* ends this close have the same twelve digits

ASSUME GrainAssumption == Grain \in Nat \ {0} /\ Limits \subseteq Nat

VARIABLES
    cache,      \* cache_: key to slot
    lru,        \* lru_: keys, the last used first
    limit,
    told        \* what the last call returned

ecvars == <<cache, lru, limit, told>>
Miss == [found |-> FALSE]

(* box_fingerprint: the names, and twelve digits of each end. *)
Fingerprint(box) == [s \in DOMAIN box |-> box[s] \div Grain]
KeyOf(ph, box) == <<ph, Fingerprint(box)>>

(* list::remove takes out every equal key; the map loses keys one by one.   *)
Removed(keys, s) == At(s, {i \in DOMAIN s : s[i] \notin keys})
Erased(keys, c) == [k \in DOMAIN c \ keys |-> c[k]]
Evict(c, s, n) ==
    LET over == IF Cardinality(DOMAIN c) > n THEN Cardinality(DOMAIN c) - n ELSE 0
        victims == ToSet(SubSeq(s, Len(s) - over + 1, Len(s)))
    IN  /\ cache' = Erased(victims, c)
        /\ lru' = SubSeq(s, 1, Len(s) - over)

CInit == cache = <<>> /\ lru = <<>> /\ limit \in Limits /\ told = Miss

Get(ph, box) ==
    LET k == KeyOf(ph, box) IN
    /\ IF k \in DOMAIN cache
       THEN told' = [found |-> TRUE, result |-> cache[k].result] /\ lru' = <<k>> \o Removed({k}, lru)
       ELSE told' = Miss /\ UNCHANGED lru
    /\ UNCHANGED <<cache, limit>>

(* Mutant: a key that is there already is put into the list again. *)
Refreshed_Twice(k) == <<k>> \o lru

Refreshed(k) == IF k \in DOMAIN cache THEN <<k>> \o Removed({k}, lru) ELSE <<k>> \o lru
Put(ph, box, r) ==
    LET k == KeyOf(ph, box)
        slot == [result |-> r, prog |-> ph, syms |-> DOMAIN box]
    IN  Evict(Assoc(cache, k, slot), Refreshed(k), limit) /\ told' = Miss /\ UNCHANGED limit

Forget(keys) ==
    /\ cache' = Erased(keys, cache) /\ lru' = Removed(keys, lru)
    /\ told' = Miss /\ UNCHANGED limit
Invalidate(ph) == Forget({k \in DOMAIN cache : cache[k].prog = ph})
InvalidateBySymbol(sym) == Forget({k \in DOMAIN cache : sym \in cache[k].syms})
Size ==
    told' = [found |-> TRUE, result |-> Cardinality(DOMAIN cache)] /\ UNCHANGED <<cache, lru, limit>>
SetLimit(n) == limit' = n /\ Evict(cache, lru, n) /\ told' = Miss

Symbols == UNION {DOMAIN b : b \in Boxes}
CNext ==
    \/ \E ph \in Progs, box \in Boxes : Get(ph, box) \/ \E r \in Results : Put(ph, box, r)
    \/ \E ph \in Progs : Invalidate(ph)
    \/ \E sym \in Symbols : InvalidateBySymbol(sym)
    \/ \E n \in Limits : SetLimit(n)
    \/ Size
CSpec == CInit /\ [][CNext]_ecvars

-------------------------------------------------------------------------------
(* The map and the list together are a cache of bounded size that forgets   *)
(* what was used longest ago: they hold the same keys, each once, whatever  *)
(* the order of lookups, insertions, changes of the limit and invalidations *)
(* (incremental.cpp:23-79).                                                 *)
Promise == INSTANCE LruCache WITH
    Keys <- {KeyOf(ph, box) : ph \in Progs, box \in Boxes},
    Bounds <- Limits,
    recent <- [i \in DOMAIN lru |-> [key |-> lru[i], result |-> cache[lru[i]].result]],
    bound <- limit
ImplementsLruCache == Promise!LSpec

===============================================================================
