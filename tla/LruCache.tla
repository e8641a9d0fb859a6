------------------------------ MODULE LruCache ------------------------------
(***************************************************************************)
(* What a cache that forgets the least recently used promises its users:   *)
(* one call at a time; an entry stays as it was added until it is asked    *)
(* for and discarded, or evicted; what exceeds the limit, and no more, is  *)
(* evicted before the next call, and that by giving up the entry that has  *)
(* not been used for longest.                                              *)
(***************************************************************************)
EXTENDS Integers, FiniteSets

CONSTANTS Keys, Limits, None

VARIABLES
    entries,    \* cached key -> its entry, a record with a file_size
    newer,      \* <<x, y>>: both are cached, and x was used after y
    asked,      \* the key that a call is to find, or None
    limit

vars == <<entries, newer, asked, limit>>

Cached == DOMAIN entries
Bytes  == UNION {{k} \X (1 .. entries[k].file_size) : k \in Cached}
Fits   == Cardinality(Bytes) <= limit

Others(k) == {p \in newer : p[1] # k /\ p[2] # k}
Latest(k) == Others(k) \cup {k} \X (Cached \ {k})

Init == entries = [k \in {} |-> {}] /\ newer = {} /\ asked = None /\ limit \in Limits

Ask(k) ==
    /\ asked = None /\ Fits
    /\ asked' = k
    /\ UNCHANGED <<entries, newer, limit>>

(* The entry is served, ...                                                *)
Use(k) ==
    /\ asked = k /\ k \in Cached
    /\ newer' = Latest(k)
    /\ asked' = None
    /\ UNCHANGED <<entries, limit>>

Remove(k) ==
    /\ k \in Cached
    /\ entries' = [j \in Cached \ {k} |-> entries[j]]
    /\ newer' = Others(k)
    /\ UNCHANGED <<asked, limit>>

(* ... or out of date; one is added, ...                                   *)
Discard(k) == asked = k /\ Remove(k)

Add(k) ==
    /\ asked = k /\ k \notin Cached
    /\ DOMAIN entries' = Cached \cup {k}
    /\ \A j \in Cached : entries'[j] = entries[j]
    /\ newer' = Latest(k)
    /\ asked' = None
    /\ UNCHANGED limit

(* ... or there is none to add.                                            *)
Fail(k) ==
    /\ asked = k /\ k \notin Cached
    /\ asked' = None
    /\ UNCHANGED <<entries, newer, limit>>

Evict(k) ==
    /\ asked = None /\ ~Fits
    /\ \A j \in Cached \ {k} : <<j, k>> \in newer
    /\ Remove(k)

Resize(l) ==
    /\ asked = None /\ Fits
    /\ limit' = l
    /\ UNCHANGED <<entries, newer, asked>>

Next ==
    \/ \E k \in Keys : Ask(k) \/ Use(k) \/ Discard(k) \/ Add(k) \/ Fail(k) \/ Evict(k)
    \/ \E l \in Limits : Resize(l)

Spec == Init /\ [][Next]_vars
=============================================================================
