----------------------------- MODULE CacheList -----------------------------
(***************************************************************************)
(* The object cache of the proxy (src/Proxy/proxylab-handout/cache.c): a    *)
(* doubly linked list behind a dummy head, newest item first.  A cache is a *)
(* record; an operation, or one store of an operation that does not exclude *)
(* other threads, is an operator that returns the changed record.           *)
(***************************************************************************)
EXTENDS Integers, Sequences, FiniteSets, FiniteSetsExt

CONSTANTS Nodes,            \* addresses malloc may return for a CacheItem
          Dummy,            \* the dummy head node
          NULL,             \* the null pointer
          Urls,             \* cache keys
          MAX_CACHE_SIZE,
          MAX_OBJECT_SIZE

ASSUME CacheAssumption ==
    /\ IsFiniteSet(Nodes)
    /\ Dummy \notin Nodes /\ NULL \notin Nodes /\ Dummy # NULL
    /\ NULL \notin Urls
    /\ MAX_CACHE_SIZE \in Nat /\ MAX_OBJECT_SIZE \in 0 .. MAX_CACHE_SIZE

Cells == Nodes \cup {Dummy}
Pointers == Cells \cup {NULL}

(* used: the items malloc has given and free has not taken back.            *)
Cache == [next : [Cells -> Pointers], prev : [Cells -> Pointers],
          url : [Nodes -> Urls \cup {NULL}], size : [Nodes -> Nat],
          used : SUBSET Nodes,
          tail : Pointers, totalSize : Int]

initCache ==
    [next |-> [x \in Cells |-> NULL], prev |-> [x \in Cells |-> NULL],
     url |-> [n \in Nodes |-> NULL], size |-> [n \in Nodes |-> 0],
     used |-> {}, tail |-> Dummy, totalSize |-> 0]

Linked(c) == c.used \cup {Dummy}

-----------------------------------------------------------------------------
(* The stores of moveToFront.                                               *)

setNext(c, x, p) == [c EXCEPT !.next[x] = p]
setPrev(c, x, p) == [c EXCEPT !.prev[x] = p]
setTail(c, p) == [c EXCEPT !.tail = p]

(* free(n) leaves the cell as it was.                                       *)
free(c, n) == [c EXCEPT !.used = @ \ {n}]

(* Mutant: the tail keeps its pointer to the freed item.                    *)
removeLeavingTail(c) ==
    IF c.tail = Dummy THEN c
    ELSE LET oldest == c.tail IN
         free([c EXCEPT !.next[c.prev[oldest]] = NULL,
                        !.totalSize = @ - c.size[oldest]], oldest)

(* Mutant: the new last item keeps its pointer to the freed one.            *)
removeLeavingNext(c) ==
    IF c.tail = Dummy THEN c
    ELSE LET oldest == c.tail IN
         free([c EXCEPT !.tail = c.prev[oldest],
                        !.totalSize = @ - c.size[oldest]], oldest)

removeOldestCacheItem(c) ==
    IF c.tail = Dummy THEN c
    ELSE LET oldest == c.tail IN
         free([c EXCEPT !.tail = c.prev[oldest],
                        !.next[c.prev[oldest]] = NULL,
                        !.totalSize = @ - c.size[oldest]], oldest)

(* The end of addCacheItem: a new item n in front of the others.            *)
insertItem(c, n, url, size) ==
    LET old == c.next[Dummy]
        filled == [c EXCEPT !.used = @ \cup {n}, !.url[n] = url, !.size[n] = size,
                            !.prev[n] = Dummy, !.next[n] = old, !.next[Dummy] = n,
                            !.totalSize = @ + size]
    IN IF old = NULL THEN [filled EXCEPT !.tail = n]
       ELSE [filled EXCEPT !.prev[old] = n]

-----------------------------------------------------------------------------
(* Reading the list.                                                        *)

(* The items from the head on; one more than there are cells if they form a *)
(* cycle.                                                                   *)
Chain(c) ==
    LET hop[k \in 0 .. Cardinality(Nodes)] ==
            IF k = 0 THEN c.next[Dummy]
            ELSE IF hop[k - 1] = NULL THEN NULL ELSE c.next[hop[k - 1]]
    IN [i \in 1 .. Cardinality({k \in DOMAIN hop : hop[k] # NULL}) |-> hop[i - 1]]

(* Nothing in the list points outside it.                                   *)
Closed(c) ==
    /\ c.tail \in Linked(c)
    /\ \A x \in Linked(c) : c.next[x] \in c.used \cup {NULL}
    /\ \A n \in c.used : c.prev[n] \in Linked(c)

(* Neighbours agree, and only the last cell has no successor.               *)
DoublyLinked(c) ==
    /\ Closed(c)
    /\ \A x \in Linked(c) : /\ c.next[x] # NULL => c.prev[c.next[x]] = x
                            /\ c.next[x] = NULL <=> x = c.tail
    /\ \A n \in c.used : c.next[c.prev[n]] = n

TotalOf(c) == MapThenSumSet(LAMBDA n : c.size[n], c.used)

WellFormed(c) ==
    /\ DoublyLinked(c)
    /\ LET s == Chain(c) IN
       /\ {s[i] : i \in DOMAIN s} = c.used
       /\ Len(s) = Cardinality(c.used)
    /\ c.totalSize = TotalOf(c)
    /\ c.totalSize <= MAX_CACHE_SIZE
=============================================================================
