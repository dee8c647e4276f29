---------------------------- MODULE ProxyProofs ----------------------------
(***************************************************************************)
(* No thread of the proxy uses an item that has been freed: the inductive   *)
(* invariant Inv of Proxy.  An action that leaves the list alone is settled *)
(* by ThreadStep; MoveToFront, Evict and Insert change it.  LeaksInv adds   *)
(* what each thread holds on its way, SoundInv that the list is whole but   *)
(* for the moves of threads that have hit, and SerialInv, for connections   *)
(* served one at a time, which item moves and what a walk has passed.       *)
(***************************************************************************)
EXTENDS Proxy, NatProofs, SequenceTheorems, TLAPS

-----------------------------------------------------------------------------
(* The cache list: what its operations preserve.                           *)

(* A list operation keeps to the type and to the items there are.           *)
Keeps(c, d) == d \in Cache /\ Closed(d) /\ d.used = c.used /\ d.url = c.url

(* The empty cache has its type, and its dummy head agrees with itself.     *)
LEMMA InitCache == initCache \in Cache /\ DoublyLinked(initCache)
BY CacheAssumption DEF initCache, Cache, Cells, Pointers, DoublyLinked, Closed, Linked

(* The components of a cache, for the steps below.                          *)
LEMMA CacheFields ==
    ASSUME NEW c \in Cache
    PROVE  /\ c.next \in [Cells -> Pointers] /\ c.prev \in [Cells -> Pointers]
           /\ c.url \in [Nodes -> Urls \cup {NULL}] /\ c.size \in [Nodes -> Nat]
           /\ c.used \subseteq Nodes
           /\ c.tail \in Pointers /\ c.totalSize \in Int
           /\ Linked(c) \subseteq Cells
BY DEF Cache, Linked, Cells

(* No store of moveToFront leaves a pointer to something else than an item, *)
(* the dummy head or NULL, in whatever order threads execute them.          *)
LEMMA StoresKeep ==
    ASSUME NEW c \in Cache, Closed(c)
    PROVE  /\ \A x \in Linked(c), p \in c.used \cup {NULL} : Keeps(c, setNext(c, x, p))
           /\ \A x \in c.used, p \in Linked(c) : Keeps(c, setPrev(c, x, p))
           /\ \A p \in Linked(c) : Keeps(c, setTail(c, p))
<1>0. /\ c.next \in [Cells -> Pointers] /\ c.prev \in [Cells -> Pointers]
      /\ c.used \subseteq Nodes /\ c.used \subseteq Cells /\ Linked(c) \subseteq Cells
  BY CacheFields DEF Linked, Cells
<1>1. ASSUME NEW x \in Linked(c), NEW p \in c.used \cup {NULL}
      PROVE  Keeps(c, setNext(c, x, p))
  BY <1>0 DEF Keeps, setNext, Cache, Closed, Linked, Pointers, Cells
<1>2. ASSUME NEW x \in c.used, NEW p \in Linked(c)
      PROVE  Keeps(c, setPrev(c, x, p))
  BY <1>0 DEF Keeps, setPrev, Cache, Closed, Linked, Pointers, Cells
<1>3. ASSUME NEW p \in Linked(c)
      PROVE  Keeps(c, setTail(c, p))
  BY <1>0 DEF Keeps, setTail, Cache, Closed, Linked, Pointers, Cells
<1>4. QED
  BY <1>1, <1>2, <1>3

(* Removing the last item of a sound list leaves a sound list: nothing in   *)
(* it still points to the freed item.                                       *)
THEOREM RemoveOldestEffect ==
    ASSUME NEW c \in Cache, DoublyLinked(c)
    PROVE  LET d == removeOldestCacheItem(c)
           IN /\ d \in Cache /\ DoublyLinked(d)
              /\ d.used = c.used \ {c.tail}
              /\ d.url = c.url
<1> DEFINE d == removeOldestCacheItem(c)
           o == c.tail
           p == c.prev[o]
<1>0. /\ c.next \in [Cells -> Pointers] /\ c.prev \in [Cells -> Pointers]
      /\ c.size \in [Nodes -> Nat] /\ c.totalSize \in Int
      /\ c.used \subseteq Nodes /\ c.used \subseteq Cells /\ Linked(c) \subseteq Cells
      /\ Dummy \notin c.used /\ NULL \notin Cells
  BY CacheFields, CacheAssumption DEF Linked, Cells
<1>1. CASE o = Dummy
  BY <1>0, <1>1 DEF removeOldestCacheItem
<1>2. CASE o # Dummy
  <2>1. /\ o \in c.used /\ p \in Linked(c) /\ c.next[p] = o /\ c.next[o] = NULL /\ p # o
    BY <1>0, <1>2 DEF DoublyLinked, Closed, Linked
  <2>2. d = [c EXCEPT !.tail = p, !.next = [c.next EXCEPT ![p] = NULL],
                      !.totalSize = c.totalSize - c.size[o], !.used = c.used \ {o}]
    BY <1>2 DEF removeOldestCacheItem, free, Cache
  <2>3. /\ d.tail = p /\ d.next = [c.next EXCEPT ![p] = NULL] /\ d.prev = c.prev
        /\ d.used = c.used \ {o} /\ d.url = c.url
    BY <2>2 DEF Cache
  <2>4. d \in Cache
    <3>1. /\ [c.next EXCEPT ![p] = NULL] \in [Cells -> Pointers]
          /\ c.totalSize - c.size[o] \in Int /\ p \in Pointers
      BY <1>0, <2>1 DEF Pointers
    <3>2. QED
      BY <1>0, <2>2, <3>1 DEF Cache
  <2>5. Linked(d) = Linked(c) \ {o}
    BY <1>2, <2>3 DEF Linked
  <2>6. Closed(d)
    <3>1. d.tail \in Linked(d)
      BY <2>1, <2>3, <2>5
    <3>2. ASSUME NEW x \in Linked(d)
          PROVE  d.next[x] \in d.used \cup {NULL}
      BY <1>0, <2>1, <2>3, <2>5 DEF DoublyLinked, Closed, Linked
    <3>3. ASSUME NEW n \in d.used
          PROVE  d.prev[n] \in Linked(d)
      BY <1>0, <2>1, <2>3, <2>5 DEF DoublyLinked, Closed, Linked
    <3>4. QED
      BY <3>1, <3>2, <3>3 DEF Closed
  <2>7. ASSUME NEW x \in Linked(d)
        PROVE  /\ d.next[x] # NULL => d.prev[d.next[x]] = x
               /\ d.next[x] = NULL <=> x = d.tail
    BY <1>0, <2>1, <2>3, <2>5 DEF DoublyLinked, Closed, Linked
  <2>8. ASSUME NEW n \in d.used
        PROVE  d.next[d.prev[n]] = n
    BY <1>0, <2>1, <2>3, <2>5 DEF DoublyLinked, Closed, Linked
  <2>9. QED
    BY <2>3, <2>4, <2>6, <2>7, <2>8 DEF DoublyLinked
<1>3. QED
  BY <1>1, <1>2

(* A new item goes in front of a sound list, which stays sound.             *)
THEOREM InsertEffect ==
    ASSUME NEW c \in Cache, DoublyLinked(c), NEW n \in Nodes \ c.used,
           NEW u \in Urls \cup {NULL}, NEW s \in Nat
    PROVE  LET d == insertItem(c, n, u, s)
           IN d \in Cache /\ DoublyLinked(d)
<1> DEFINE d == insertItem(c, n, u, s)
           old == c.next[Dummy]
           next == [[c.next EXCEPT ![n] = old] EXCEPT ![Dummy] = n]
           prev == [c.prev EXCEPT ![n] = Dummy]
<1>0. /\ c.next \in [Cells -> Pointers] /\ c.prev \in [Cells -> Pointers]
      /\ c.url \in [Nodes -> Urls \cup {NULL}] /\ c.size \in [Nodes -> Nat]
      /\ c.totalSize \in Int
      /\ c.used \subseteq Nodes /\ c.used \subseteq Cells /\ Linked(c) \subseteq Cells
      /\ Dummy \notin c.used /\ NULL \notin Cells /\ Dummy # n /\ n \in Cells
      /\ Dummy \in Linked(c) /\ Dummy \in Cells
      /\ old \in c.used \cup {NULL}
  BY CacheFields, CacheAssumption DEF Linked, Cells, DoublyLinked, Closed
<1>1. d = [next |-> next, prev |-> IF old = NULL THEN prev ELSE [prev EXCEPT ![old] = n],
           url |-> [c.url EXCEPT ![n] = u], size |-> [c.size EXCEPT ![n] = s],
           used |-> c.used \cup {n},
           tail |-> IF old = NULL THEN n ELSE c.tail, totalSize |-> c.totalSize + s]
  <2>1. CASE old = NULL
    BY <2>1 DEF insertItem, Cache
  <2>2. CASE old # NULL
    BY <2>2 DEF insertItem, Cache
  <2>3. QED
    BY <2>1, <2>2
<1>2. /\ d.used = c.used \cup {n} /\ d.next = next
      /\ d.prev = IF old = NULL THEN prev ELSE [prev EXCEPT ![old] = n]
      /\ d.tail = IF old = NULL THEN n ELSE c.tail
  BY <1>1 DEF Cache
<1>3. d \in Cache
  <2>1. /\ next \in [Cells -> Pointers] /\ prev \in [Cells -> Pointers]
        /\ (IF old = NULL THEN prev ELSE [prev EXCEPT ![old] = n]) \in [Cells -> Pointers]
        /\ (IF old = NULL THEN n ELSE c.tail) \in Pointers
        /\ [c.url EXCEPT ![n] = u] \in [Nodes -> Urls \cup {NULL}]
        /\ [c.size EXCEPT ![n] = s] \in [Nodes -> Nat]
        /\ c.totalSize + s \in Int
    BY <1>0 DEF Pointers, Cache
  <2>2. c.used \cup {n} \subseteq Nodes
    BY <1>0
  <2> HIDE DEF next, prev, old, d
  <2>3. QED
    BY <1>1, <2>1, <2>2 DEF Cache
<1>4. Linked(d) = Linked(c) \cup {n}
  BY <1>2 DEF Linked
<1>5. Closed(d)
  BY <1>0, <1>2, <1>4 DEF DoublyLinked, Closed, Linked
<1>6. ASSUME NEW x \in Linked(d)
      PROVE  /\ d.next[x] # NULL => d.prev[d.next[x]] = x
             /\ d.next[x] = NULL <=> x = d.tail
  BY <1>0, <1>2, <1>4 DEF DoublyLinked, Closed, Linked
<1>7. ASSUME NEW m \in d.used
      PROVE  d.next[d.prev[m]] = m
  BY <1>0, <1>2, <1>4 DEF DoublyLinked, Closed, Linked
<1>8. QED
  BY <1>3, <1>5, <1>6, <1>7 DEF DoublyLinked

(* The empty list, no lock and no thread under way.                         *)
LEMMA Initially == Init => Inv
<1> SUFFICES ASSUME Init PROVE Inv
  OBVIOUS
<1>1. initCache \in Cache /\ DoublyLinked(initCache)
  BY InitCache
<1>2. TypeOK
  BY <1>1 DEF Init, TypeOK, PCs, Pointers, Unloaded
<1>3. LockOK /\ ItemStillThere /\ LoadsOK
  BY DEF Init, LockOK, ItemStillThere, LoadsOK, ReaderPCs, WriterPCs, MovePCs
<1>4. ListOK
  BY <1>1 DEF Init, ListOK, DoublyLinked
<1>5. QED
  BY <1>2, <1>3, <1>4 DEF Inv

(* The typing of one thread's move from one place to another.               *)
LEMMA GotoType ==
    ASSUME TypeOK, NEW t \in Threads, NEW there \in PCs, Goto(t, there)
    PROVE  /\ pc' \in [Threads -> PCs]
           /\ pc'[t] = there
           /\ \A s \in Threads \ {t} : pc'[s] = pc[s]
BY DEF TypeOK, Goto

(* What is left to show of a step that leaves the list alone.               *)
LEMMA ThreadStep ==
    ASSUME Inv, NEW t \in Threads, NEW there \in PCs, Goto(t, there),
           TypeOK', LockOK', cache' = cache, reg' = reg, there \notin MovePCs \ {"front"},
           \A s \in Threads \ {t} : at'[s] = at[s] /\ key'[s] = key[s],
           there = "walk" => at'[t] \in cache.used \cup {NULL},
           there \in MovePCs \cup {"write"} =>
               at'[t] \in cache.used /\ cache.url[at'[t]] = key'[t],
           readers \subseteq readers' \cup {t},
           t \in readers => pc[t] = "walk" \/ (there # "walk" /\ t \in readers')
    PROVE  Inv'
<1>1. /\ pc'[t] = there
      /\ \A s \in Threads \ {t} : pc'[s] = pc[s]
  BY GotoType DEF Inv
<1>2. ListOK'
  <2>1. ASSUME \A s \in readers' : pc'[s] = "walk"
        PROVE  \A s \in readers : pc[s] = "walk"
    BY <1>1, <2>1 DEF Inv, TypeOK
  <2>2. Closed(cache') /\ (DoublyLinked(cache) => DoublyLinked(cache'))
    BY DEF Inv, ListOK
  <2>3. QED
    BY <2>1, <2>2 DEF Inv, ListOK
<1>3. ItemStillThere'
  <2>1. ASSUME NEW s \in Threads
        PROVE  /\ pc'[s] = "walk" => at'[s] \in cache.used \cup {NULL}
               /\ pc'[s] \in MovePCs \cup {"write"} =>
                      at'[s] \in cache.used /\ cache.url[at'[s]] = key'[s]
    BY <1>1 DEF Inv, ItemStillThere
  <2>2. MovePCs' = MovePCs
    BY DEF MovePCs
  <2>3. QED
    BY <2>1, <2>2 DEF ItemStillThere
<1>4. LoadsOK'
  BY <1>1 DEF Inv, LoadsOK, Linked, MovePCs
<1>5. QED
  BY <1>2, <1>3, <1>4 DEF Inv

(* The places outside findCacheItem and addCacheItem: moving to one of them *)
(* needs no lock.                                                           *)
LEMMA OutsideLock ==
    ASSUME Inv, NEW t \in Threads, NEW there \in PCs \ (ReaderPCs \cup WriterPCs),
           Goto(t, there), writer' = writer, readers' \in {readers, readers \ {t}},
           t \in readers' => there = "ended"
    PROVE  LockOK'
<1>1. /\ pc'[t] = there
      /\ \A s \in Threads \ {t} : pc'[s] = pc[s]
  BY GotoType DEF Inv
<1>2. QED
  BY <1>1 DEF Inv, LockOK, ReaderPCs, WriterPCs, MovePCs

(* The steps of a thread that needs no lock, before and after.              *)
LEMMA RequestSteps ==
    ASSUME Inv, NEW t \in Threads,
           \/ Accept(t) \/ RefuseRequest(t) \/ GetRequest(t)
           \/ WriteCached(t) \/ Connect(t) \/ Relay(t) \/ RelayOnly(t)
           \/ RefuseItem(t) \/ Close(t)
    PROVE  Inv'
<1>1. PICK there \in {"request", "ended", "rdlock", "relay", "wrlock", "close"} :
          Goto(t, there)
  BY DEF Accept, RefuseRequest, GetRequest, WriteCached, Connect, Relay, RelayOnly,
         RefuseItem, Close
<1>2. there \in PCs \ (ReaderPCs \cup WriterPCs)
  BY DEF PCs, ReaderPCs, WriterPCs, MovePCs
<1>3. /\ UNCHANGED <<cache, readers, writer, at, reg, status>>
      /\ \A s \in Threads \ {t} : key'[s] = key[s]
      /\ pc[t] # "walk"
  BY DEF Accept, RefuseRequest, GetRequest, WriteCached, Connect, Relay, RelayOnly,
         RefuseItem, Close, At, lock, Inv, TypeOK
<1>4. LockOK'
  <2>1. pc[t] \notin ReaderPCs \cup {"ended"} \/ there = "ended"
    <3>1. pc \in [Threads -> PCs]
      BY DEF Inv, TypeOK
    <3>2. \/ Goto(t, "ended")
          \/ pc[t] \in {"new", "request", "connect", "relay", "add"}
      BY DEF Accept, RefuseRequest, GetRequest, WriteCached, Connect,
         Relay, RelayOnly, RefuseItem, Close, At
    <3>3. CASE Goto(t, "ended")
      BY <1>1, <3>1, <3>3 DEF Goto
    <3>4. CASE pc[t] \in {"new", "request", "connect", "relay", "add"}
      BY <3>4 DEF ReaderPCs, MovePCs
    <3>5. QED
      BY <3>2, <3>3, <3>4
  <2>2. t \in readers' => there = "ended"
    BY <1>3, <2>1 DEF Inv, LockOK
  <2>3. QED
    BY <1>1, <1>2, <1>3, <2>2, OutsideLock
<1>5. TypeOK'
  <2>1. key' \in [Threads -> Urls \cup {NULL}]
    BY ProxyAssumption DEF Accept, RefuseRequest, GetRequest, WriteCached, Connect, Relay,
       RelayOnly, RefuseItem, Close, Inv, TypeOK
  <2>2. held' \in [Threads -> SUBSET Resources]
    BY DEF Accept, RefuseRequest, GetRequest, WriteCached, Connect, Relay,
       RelayOnly, RefuseItem, Close, Inv, TypeOK, Resources
  <2>3. response' \in [Threads -> Nat]
    BY ProxyAssumption DEF Accept, RefuseRequest, GetRequest, WriteCached, Connect, Relay,
       RelayOnly, RefuseItem, Close, Inv, TypeOK
  <2>4. QED
    BY <1>1, <1>2, <1>3, <2>1, <2>2, <2>3, GotoType DEF Inv, TypeOK
<1>6. there \notin MovePCs \cup {"write", "walk"}
  BY DEF MovePCs
<1>7. QED
  BY <1>1, <1>2, <1>3, <1>4, <1>5, <1>6, ThreadStep

(* The process ends: only status changes.                                   *)
LEMMA EndSteps ==
    ASSUME Inv, NEW t \in Threads,
           AcceptFails(t) \/ NetworkError(t) \/ NullAccess(t) \/ Overlong(t)
    PROVE  Inv'
<1>1. /\ UNCHANGED <<cache, readers, writer, pc, key, at, reg, response, held>>
      /\ status' \in {"exited", "segfault"}
  BY DEF AcceptFails, NetworkError, NullAccess, Overlong, lock
<1>2. QED
  BY <1>1 DEF Inv, TypeOK, LockOK, ListOK, ItemStillThere, LoadsOK, DoublyLinked, Closed, Linked

(* A thread takes the read lock, walks, and gives it back after a miss; one *)
(* takes the write lock.                                                    *)
LEMMA LockSteps ==
    ASSUME Inv, NEW t \in Threads,
           ReadLock(t) \/ Walk(t) \/ NotFound(t) \/ WriteLock(t)
    PROVE  Inv'
<1>0. /\ Closed(cache) /\ cache \in Cache /\ cache.used \subseteq Nodes
      /\ readers \subseteq Threads /\ at \in [Threads -> Pointers]
      /\ {"walk", "front", "connect", "add"} \subseteq PCs
  BY CacheFields DEF Inv, ListOK, TypeOK, PCs, ReaderPCs, WriterPCs, MovePCs
<1>1. CASE ReadLock(t)
  <2>1. /\ Goto(t, "walk") /\ cache' = cache /\ key' = key /\ writer = NULL
        /\ writer' = writer /\ readers' = readers \cup {t} /\ pc[t] = "rdlock"
        /\ response' = response /\ held' = held /\ status' = status /\ reg' = reg
        /\ at' = [at EXCEPT ![t] = cache.next[Dummy]]
    BY <1>1 DEF ReadLock, At
  <2>2. cache.next[Dummy] \in cache.used \cup {NULL}
    BY <1>0 DEF Closed, Linked
  <2>3. cache.next[Dummy] \in Pointers
    BY <1>0, <2>2 DEF Pointers, Cells
  <2>4. TypeOK'
    BY <1>0, <2>1, <2>3, GotoType DEF Inv, TypeOK
  <2>5. LockOK'
    <3>1. /\ pc'[t] = "walk"
          /\ \A s \in Threads \ {t} : pc'[s] = pc[s]
      BY <1>0, <2>1, GotoType DEF Inv
    <3>2. QED
      BY <2>1, <3>1 DEF Inv, LockOK, ReaderPCs, WriterPCs
  <2>6. /\ at'[t] = cache.next[Dummy] /\ \A s \in Threads \ {t} : at'[s] = at[s]
        /\ pc[t] = "rdlock"
    BY <1>0, <2>1
  <2>7. "walk" \notin MovePCs \cup {"write"}
    BY DEF MovePCs
  <2>8. t \notin readers
    BY <2>1 DEF Inv, LockOK, ReaderPCs, MovePCs
  <2>9. readers \subseteq readers' \cup {t} /\ "walk" \in PCs
    BY <1>0, <2>1
  <2>10. QED
    BY <2>1, <2>2, <2>4, <2>5, <2>6, <2>7, <2>8, <2>9, ThreadStep
<1>2. CASE Walk(t)
  <2>1. PICK there \in {"walk", "front"} : Goto(t, there)
    BY <1>2 DEF Walk
  <2>2. /\ UNCHANGED <<cache, readers, writer, key, reg, response, held, status>>
        /\ at[t] # NULL /\ pc[t] = "walk"
    BY <1>2 DEF Walk, At, lock
  <2>3. at[t] \in cache.used
    BY <2>2 DEF Inv, ItemStillThere
  <2>4. cache.next[at[t]] \in cache.used \cup {NULL}
    BY <1>0, <2>3 DEF Closed, Linked
  <2>5. /\ at' \in [Threads -> Pointers]
        /\ \A s \in Threads \ {t} : at'[s] = at[s]
        /\ there = "walk" => at'[t] \in cache.used \cup {NULL}
        /\ there = "front" => at'[t] \in cache.used /\ cache.url[at'[t]] = key[t]
    <3>1. cache.next[at[t]] \in Pointers
      BY <1>0, <2>4 DEF Pointers, Cells
    <3>2. pc'[t] = there
      BY <1>0, <2>1, GotoType DEF Inv
    <3>3. CASE cache.url[at[t]] = key[t]
      <4>1. pc'[t] = "front" /\ at' = at
        BY <1>0, <1>2, <3>3, GotoType DEF Walk, Inv
      <4>2. QED
        BY <1>0, <2>3, <3>2, <3>3, <4>1
    <3>4. CASE cache.url[at[t]] # key[t]
      <4>1. pc'[t] = "walk" /\ at' = [at EXCEPT ![t] = cache.next[at[t]]]
        BY <1>0, <1>2, <3>4, GotoType DEF Walk, Inv
      <4>2. QED
        BY <1>0, <2>4, <3>1, <3>2, <4>1
    <3>5. QED
      BY <3>3, <3>4
  <2>6. TypeOK'
    BY <1>0, <2>1, <2>2, <2>5, GotoType DEF Inv, TypeOK
  <2>7. LockOK'
    BY <1>0, <2>1, <2>2, GotoType DEF Inv, LockOK, ReaderPCs, WriterPCs, MovePCs
  <2>8. there \in PCs /\ there # "write"
    BY <1>0, <2>1
  <2>9. there \in MovePCs => there = "front"
    BY <2>1 DEF MovePCs
  <2>10. QED
    BY <2>1, <2>2, <2>5, <2>6, <2>7, <2>8, <2>9, ThreadStep
<1>3. CASE NotFound(t)
  <2>1. /\ Goto(t, "connect") /\ readers' = readers \ {t} /\ pc[t] = "walk"
        /\ UNCHANGED <<cache, writer, key, at, reg, response, held, status>>
    BY <1>3 DEF NotFound, At
  <2>2. "connect" \in PCs \ (ReaderPCs \cup WriterPCs)
    BY DEF PCs, ReaderPCs, WriterPCs, MovePCs
  <2>3. TypeOK'
    BY <1>0, <2>1, GotoType DEF Inv, TypeOK
  <2>4. LockOK'
    BY <2>1, <2>2, OutsideLock
  <2>5. "connect" \notin MovePCs \cup {"write", "walk"}
    BY DEF MovePCs
  <2>6. readers \subseteq readers' \cup {t} /\ "connect" \in PCs
    BY <1>0, <2>1
  <2>7. QED
    BY <2>1, <2>3, <2>4, <2>5, <2>6, ThreadStep
<1>4. CASE WriteLock(t)
  <2>1. /\ Goto(t, "add") /\ readers = {} /\ readers' = readers /\ writer' = t
        /\ UNCHANGED <<cache, key, at, reg, response, held, status>>
        /\ writer = NULL
    BY <1>4 DEF WriteLock
  <2>2. TypeOK'
    BY <1>0, <2>1, GotoType DEF Inv, TypeOK
  <2>3. LockOK'
    <3>1. t # NULL /\ "add" \in PCs
      BY <1>0, ProxyAssumption
    <3>2. pc'[t] = "add" /\ \A s \in Threads \ {t} : pc'[s] = pc[s]
      BY <2>1, <3>1, GotoType DEF Inv
    <3>3. \A s \in Threads : pc[s] \notin ReaderPCs /\ pc[s] \notin WriterPCs
      BY <2>1, ProxyAssumption DEF Inv, LockOK
    <3>4. "add" \notin ReaderPCs
      BY DEF ReaderPCs, MovePCs
    <3>5. \A s \in Threads : pc'[s] \notin ReaderPCs /\ (pc'[s] \in WriterPCs => s = t)
      BY <3>2, <3>3, <3>4
    <3>6. ReaderPCs' = ReaderPCs /\ WriterPCs' = WriterPCs
      BY DEF ReaderPCs, WriterPCs, MovePCs
    <3> QED BY <2>1, <3>5, <3>6 DEF LockOK
  <2>4. "add" \notin MovePCs \cup {"write", "walk"}
    BY DEF MovePCs
  <2>5. "add" \in PCs
    BY <1>0
  <2>6. QED
    BY <2>1, <2>2, <2>3, <2>4, <2>5, ThreadStep
<1>5. QED
  BY <1>1, <1>2, <1>3, <1>4

(* What every step of moveToFront leaves alone, and where it leads.         *)
LEMMA MoveFrame ==
    ASSUME NEW t \in Threads, MoveToFront(t)
    PROVE  /\ \E there \in (MovePCs \cup {"write"}) \ {"front"} : Goto(t, there)
           /\ UNCHANGED <<readers, writer, key, at, response, held, status>>
           /\ pc[t] \in MovePCs
<1>1. CASE Test(t, "front", at[t] = cache.next[Dummy], "write", "get prev")
  BY <1>1 DEF Test, lock, MoveToFront, MovePCs
<1>2. CASE Detach(t, at[t])
  BY <1>2 DEF Detach, Test, Load, Store, lock, MoveToFront, MovePCs
<1>3. CASE LeaveTail(t, at[t])
  BY <1>3 DEF LeaveTail, Test, Load, Store, lock, MoveToFront, MovePCs
<1>4. CASE Attach(t, at[t])
  BY <1>4 DEF Attach, Test, Load, Store, lock, MoveToFront, MovePCs
<1>5. CASE TakeTail(t, at[t])
  BY <1>5 DEF TakeTail, Test, Load, Store, lock, MoveToFront, MovePCs
<1> QED BY <1>1, <1>2, <1>3, <1>4, <1>5 DEF MoveToFront

(* What it loads points into the list, and so does what it stores.          *)
LEMMA MoveEffect ==
    ASSUME Inv, NEW t \in Threads, MoveToFront(t)
    PROVE  /\ cache' = cache \/ Keeps(cache, cache')
           /\ reg' \in [Threads -> [cell : Pointers, value : Pointers]]
           /\ \A s \in Threads \ {t} : reg'[s] = reg[s]
           /\ pc'[t] \in {"get next", "detach next"} => reg'[t].cell \in Linked(cache)
           /\ pc'[t] \in {"get before", "detach prev", "link old"} =>
                  reg'[t].cell \in cache.used \cup {NULL}
           /\ pc'[t] \in {"detach next", "link next"} =>
                  reg'[t].value \in cache.used \cup {NULL}
           /\ pc'[t] \in {"detach prev", "leave tail"} => reg'[t].value \in Linked(cache)
<1> DEFINE item == at[t]
           Goal == /\ cache' = cache \/ Keeps(cache, cache')
                   /\ reg' \in [Threads -> [cell : Pointers, value : Pointers]]
                   /\ \A s \in Threads \ {t} : reg'[s] = reg[s]
                   /\ pc'[t] \in {"get next", "detach next"} => reg'[t].cell \in Linked(cache)
                   /\ pc'[t] \in {"get before", "detach prev", "link old"} =>
                          reg'[t].cell \in cache.used \cup {NULL}
                   /\ pc'[t] \in {"detach next", "link next"} =>
                          reg'[t].value \in cache.used \cup {NULL}
                   /\ pc'[t] \in {"detach prev", "leave tail"} =>
                          reg'[t].value \in Linked(cache)
<1>0. /\ cache \in Cache /\ Closed(cache) /\ item \in cache.used
      /\ pc \in [Threads -> PCs]
      /\ reg \in [Threads -> [cell : Pointers, value : Pointers]]
      /\ cache.next[item] \in cache.used \cup {NULL}
      /\ cache.next[Dummy] \in cache.used \cup {NULL}
      /\ cache.prev[item] \in Linked(cache) /\ NULL \notin Linked(cache)
      /\ item \in Linked(cache) /\ Dummy \in Linked(cache)
      /\ Linked(cache) \subseteq Pointers /\ cache.used \cup {NULL} \subseteq Pointers
  BY CacheFields, CacheAssumption
  DEF Inv, TypeOK, ListOK, ItemStillThere, MoveToFront, Closed, Linked, Pointers, Cells
<1>1. LoadsOK
  BY DEF Inv
<1>2. ASSUME NEW here, NEW yes, NEW then, NEW else, Test(t, here, yes, then, else),
             {then, else} \subseteq {"write", "get prev", "get second", "test tail", "get last",
                                    "get first", "get old", "link head", "take tail"}
      PROVE  Goal
  <2>1. cache' = cache /\ reg' = reg /\ pc'[t] \in {then, else}
    BY <1>0, <1>2 DEF Test, Goto
  <2> QED BY <1>0, <1>2, <2>1
<1>3. ASSUME NEW here, NEW loaded \in [cell : Pointers, value : Pointers], NEW next,
             Load(t, here, loaded, next)
      PROVE  /\ cache' = cache /\ pc'[t] = next
             /\ reg' \in [Threads -> [cell : Pointers, value : Pointers]] /\ reg'[t] = loaded
             /\ \A s \in Threads \ {t} : reg'[s] = reg[s]
  BY <1>0, <1>3 DEF Load, Goto
<1>4. ASSUME NEW here, NEW changed, NEW next, Store(t, here, changed, next),
             Keeps(cache, changed),
             next \in {"test next", "test tail", "get first", "link prev", "test head",
                       "link head", "test empty", "write"}
      PROVE  Goal
  <2>1. /\ cache' = changed /\ pc'[t] = next
        /\ reg' = [reg EXCEPT ![t] = Unloaded]
    BY <1>0, <1>4 DEF Store, Goto
  <2>2. Unloaded \in [cell : Pointers, value : Pointers]
    BY DEF Unloaded, Pointers
  <2> QED BY <1>0, <1>4, <2>1, <2>2
<1>5. \A p \in Pointers : /\ Cell(p) \in [cell : Pointers, value : Pointers] /\ Cell(p).cell = p
                         /\ Value(t, p) \in [cell : Pointers, value : Pointers]
                         /\ Value(t, p).value = p /\ Value(t, p).cell = reg[t].cell
  <2>1. NULL \in Pointers /\ reg[t] \in [cell : Pointers, value : Pointers]
    BY <1>0 DEF Pointers
  <2> QED BY <2>1 DEF Cell, Value
<1>12. ASSUME NEW here, NEW p \in Pointers, NEW next, Load(t, here, Cell(p), next)
       PROVE  /\ cache' = cache /\ pc'[t] = next /\ reg'[t].cell = p
              /\ reg' \in [Threads -> [cell : Pointers, value : Pointers]]
              /\ \A s \in Threads \ {t} : reg'[s] = reg[s]
  <2>1. Cell(p) \in [cell : Pointers, value : Pointers] /\ Cell(p).cell = p
    BY <1>5
  <2> QED BY <1>3, <1>12, <2>1
<1>13. ASSUME NEW here, NEW p \in Pointers, NEW next, Load(t, here, Value(t, p), next)
       PROVE  /\ cache' = cache /\ pc'[t] = next
              /\ reg'[t].value = p /\ reg'[t].cell = reg[t].cell
              /\ reg' \in [Threads -> [cell : Pointers, value : Pointers]]
              /\ \A s \in Threads \ {t} : reg'[s] = reg[s]
  <2>1. /\ Value(t, p) \in [cell : Pointers, value : Pointers]
        /\ Value(t, p).value = p /\ Value(t, p).cell = reg[t].cell
    BY <1>5
  <2> QED BY <1>3, <1>13, <2>1
<1>14. {cache.prev[item], cache.next[item], cache.next[Dummy]} \subseteq Pointers
  BY <1>0
<1>6. /\ \A x \in Linked(cache), p \in cache.used \cup {NULL} : Keeps(cache, setNext(cache, x, p))
      /\ \A x \in cache.used, p \in Linked(cache) : Keeps(cache, setPrev(cache, x, p))
      /\ \A p \in Linked(cache) : Keeps(cache, setTail(cache, p))
  BY <1>0, StoresKeep
<1> HIDE DEF item
<1>7. CASE Detach(t, item)
  <2>1. CASE Load(t, "get prev", Cell(cache.prev[item]),
                  IF cache.prev[item] # NULL THEN "get next" ELSE "test next")
    <3>1. /\ cache' = cache /\ pc'[t] = "get next" /\ reg'[t].cell \in Linked(cache)
          /\ reg' \in [Threads -> [cell : Pointers, value : Pointers]]
          /\ \A s \in Threads \ {t} : reg'[s] = reg[s]
      BY <1>0, <1>12, <1>13, <1>14, <2>1
    <3> QED BY <3>1
  <2>2. CASE Load(t, "get next", Value(t, cache.next[item]), "detach next")
    <3>1. reg[t].cell \in Linked(cache)
      BY <1>1, <2>2 DEF LoadsOK, Load, At
    <3>2. /\ cache' = cache /\ pc'[t] = "detach next" /\ reg'[t].cell \in Linked(cache)
          /\ reg'[t].value \in cache.used \cup {NULL}
          /\ reg' \in [Threads -> [cell : Pointers, value : Pointers]]
          /\ \A s \in Threads \ {t} : reg'[s] = reg[s]
      BY <1>0, <1>12, <1>13, <1>14, <2>2, <3>1
    <3> QED BY <3>2
  <2>3. CASE Store(t, "detach next", setNext(cache, reg[t].cell, reg[t].value), "test next")
    <3>1. reg[t].cell \in Linked(cache) /\ reg[t].value \in cache.used \cup {NULL}
      BY <1>1, <2>3 DEF LoadsOK, Store, At
    <3> QED BY <1>4, <1>6, <2>3, <3>1
  <2>4. CASE Test(t, "test next", cache.next[item] # NULL, "get second", "test tail")
    BY <1>2, <2>4
  <2>5. CASE Load(t, "get second", Cell(cache.next[item]), "get before")
    <3>1. /\ cache' = cache /\ pc'[t] = "get before" /\ reg'[t].cell \in cache.used \cup {NULL}
          /\ reg' \in [Threads -> [cell : Pointers, value : Pointers]]
          /\ \A s \in Threads \ {t} : reg'[s] = reg[s]
      BY <1>0, <1>12, <1>13, <1>14, <2>5
    <3> QED BY <3>1
  <2>6. CASE Load(t, "get before", Value(t, cache.prev[item]), "detach prev")
    <3>1. reg[t].cell \in cache.used \cup {NULL}
      BY <1>1, <2>6 DEF LoadsOK, Load, At
    <3>2. /\ cache' = cache /\ pc'[t] = "detach prev" /\ reg'[t].value \in Linked(cache)
          /\ reg'[t].cell \in cache.used \cup {NULL}
          /\ reg' \in [Threads -> [cell : Pointers, value : Pointers]]
          /\ \A s \in Threads \ {t} : reg'[s] = reg[s]
      BY <1>0, <1>12, <1>13, <1>14, <2>6, <3>1
    <3> QED BY <3>2
  <2>7. CASE reg[t].cell # NULL
             /\ Store(t, "detach prev", setPrev(cache, reg[t].cell, reg[t].value), "test tail")
    <3>1. reg[t].cell \in cache.used /\ reg[t].value \in Linked(cache)
      BY <1>1, <2>7 DEF LoadsOK, Store, At
    <3> QED BY <1>4, <1>6, <2>7, <3>1
  <2> QED BY <1>7, <2>1, <2>2, <2>3, <2>4, <2>5, <2>6, <2>7 DEF Detach
<1>8. CASE LeaveTail(t, item)
  <2>1. CASE Test(t, "test tail", item = cache.tail, "get last", "get first")
    BY <1>2, <2>1
  <2>2. CASE Load(t, "get last", Value(t, cache.prev[item]), "leave tail")
    <3>1. /\ cache' = cache /\ pc'[t] = "leave tail" /\ reg'[t].value \in Linked(cache)
          /\ reg' \in [Threads -> [cell : Pointers, value : Pointers]]
          /\ \A s \in Threads \ {t} : reg'[s] = reg[s]
      BY <1>0, <1>12, <1>13, <1>14, <2>2
    <3> QED BY <3>1
  <2>3. CASE Store(t, "leave tail", setTail(cache, reg[t].value), "get first")
    <3>1. reg[t].value \in Linked(cache)
      BY <1>1, <2>3 DEF LoadsOK, Store, At
    <3> QED BY <1>4, <1>6, <2>3, <3>1
  <2> QED BY <1>8, <2>1, <2>2, <2>3 DEF LeaveTail
<1>9. CASE Attach(t, item)
  <2>1. CASE Load(t, "get first", Value(t, cache.next[Dummy]), "link next")
    <3>1. /\ cache' = cache /\ pc'[t] = "link next" /\ reg'[t].value \in cache.used \cup {NULL}
          /\ reg' \in [Threads -> [cell : Pointers, value : Pointers]]
          /\ \A s \in Threads \ {t} : reg'[s] = reg[s]
      BY <1>0, <1>12, <1>13, <1>14, <2>1
    <3> QED BY <3>1
  <2>2. CASE Store(t, "link next", setNext(cache, item, reg[t].value), "link prev")
    <3>1. reg[t].value \in cache.used \cup {NULL}
      BY <1>1, <2>2 DEF LoadsOK, Store, At
    <3> QED BY <1>0, <1>4, <1>6, <2>2, <3>1
  <2>3. CASE Store(t, "link prev", setPrev(cache, item, Dummy), "test head")
    BY <1>0, <1>4, <1>6, <2>3
  <2>4. CASE Test(t, "test head", cache.next[Dummy] # NULL, "get old", "link head")
    BY <1>2, <2>4
  <2>5. CASE Load(t, "get old", Cell(cache.next[Dummy]), "link old")
    <3>1. /\ cache' = cache /\ pc'[t] = "link old" /\ reg'[t].cell \in cache.used \cup {NULL}
          /\ reg' \in [Threads -> [cell : Pointers, value : Pointers]]
          /\ \A s \in Threads \ {t} : reg'[s] = reg[s]
      BY <1>0, <1>12, <1>13, <1>14, <2>5
    <3> QED BY <3>1
  <2>6. CASE reg[t].cell # NULL
             /\ Store(t, "link old", setPrev(cache, reg[t].cell, item), "link head")
    <3>1. reg[t].cell \in cache.used
      BY <1>1, <2>6 DEF LoadsOK, Store, At
    <3> QED BY <1>0, <1>4, <1>6, <2>6, <3>1
  <2>7. CASE Store(t, "link head", setNext(cache, Dummy, item), "test empty")
    BY <1>0, <1>4, <1>6, <2>7
  <2> QED BY <1>9, <2>1, <2>2, <2>3, <2>4, <2>5, <2>6, <2>7 DEF Attach
<1>10. CASE TakeTail(t, item)
  <2>1. CASE Test(t, "test empty", cache.tail = Dummy, "take tail", "write")
    BY <1>2, <2>1
  <2>2. CASE Store(t, "take tail", setTail(cache, item), "write")
    BY <1>0, <1>4, <1>6, <2>2
  <2> QED BY <1>10, <2>1, <2>2 DEF TakeTail
<1>11. CASE Test(t, "front", item = cache.next[Dummy], "write", "get prev")
  BY <1>2, <1>11
<1> QED BY <1>7, <1>8, <1>9, <1>10, <1>11 DEF MoveToFront, item

(* moveToFront: a step of it keeps every item, and the thread that makes it *)
(* is a reader that has hit, so that nothing is claimed of neighbours.      *)
LEMMA MoveStep ==
    ASSUME Inv, NEW t \in Threads, MoveToFront(t)
    PROVE  Inv'
<1> DEFINE item == at[t]
<1>0. /\ cache \in Cache /\ Closed(cache) /\ item \in cache.used
      /\ pc[t] \in MovePCs
  BY DEF Inv, TypeOK, ListOK, ItemStillThere, MoveToFront
<1>1. PICK there \in (MovePCs \cup {"write"}) \ {"front"} : Goto(t, there)
  BY MoveFrame
<1>2. /\ there \in PCs /\ there # "walk" /\ there \in ReaderPCs
      /\ pc[t] \in ReaderPCs /\ t \in readers
  BY <1>0 DEF PCs, ReaderPCs, MovePCs, Inv, LockOK
<1>3. UNCHANGED <<readers, writer, key, at, response, held, status>>
  BY MoveFrame
<1>4. cache' \in Cache /\ Closed(cache') /\ cache'.used = cache.used
      /\ cache'.url = cache.url
  <2>1. CASE cache' = cache
    BY <1>0, <2>1
  <2>2. CASE Keeps(cache, cache')
    BY <2>2 DEF Keeps
  <2>3. QED
    BY <2>1, <2>2, MoveEffect
<1>5. /\ pc'[t] = there
      /\ \A s \in Threads \ {t} : pc'[s] = pc[s]
      /\ pc' \in [Threads -> PCs]
  BY <1>1, <1>2, GotoType DEF Inv
<1>6. TypeOK'
  <2>1. reg' \in [Threads -> [cell : Pointers, value : Pointers]]
    BY MoveEffect
  <2> QED BY <1>3, <1>4, <1>5, <2>1 DEF Inv, TypeOK
<1>7. LockOK'
  BY <1>2, <1>3, <1>5 DEF Inv, LockOK, ReaderPCs, WriterPCs, MovePCs
<1>8. ListOK'
  BY <1>2, <1>3, <1>4, <1>5 DEF ListOK
<1>9. ItemStillThere'
  <2>1. at'[t] \in cache.used /\ cache.url[at'[t]] = key'[t]
    BY <1>0, <1>3 DEF Inv, ItemStillThere
  <2>2. ASSUME NEW s \in Threads
        PROVE  /\ pc'[s] = "walk" => at'[s] \in cache'.used \cup {NULL}
               /\ pc'[s] \in MovePCs \cup {"write"} =>
                      at'[s] \in cache'.used /\ cache'.url[at'[s]] = key'[s]
    BY <1>2, <1>3, <1>4, <1>5, <2>1 DEF Inv, ItemStillThere
  <2>3. MovePCs' = MovePCs
    BY DEF MovePCs
  <2>4. QED
    BY <2>2, <2>3 DEF ItemStillThere
<1>10. LoadsOK'
  <2>1. Linked(cache') = Linked(cache) /\ cache'.used = cache.used
    BY <1>4 DEF Linked
  <2>2. Linked(cache)' = Linked(cache')
    BY DEF Linked
  <2>3. \A s \in Threads \ {t} : pc'[s] = pc[s] /\ reg'[s] = reg[s]
    BY <1>5, MoveEffect
  <2>4. LoadsOK
    BY DEF Inv
  <2> QED BY <2>1, <2>2, <2>3, <2>4, MoveEffect DEF LoadsOK
<1>11. QED
  BY <1>6, <1>7, <1>8, <1>9, <1>10 DEF Inv

(* A writer is alone, so that no hit is under way and neighbours agree.     *)
LEMMA WriterSteps ==
    ASSUME Inv, NEW t \in Threads, Evict(t) \/ Insert(t)
    PROVE  Inv'
<1>1. /\ writer = t /\ readers = {} /\ readers' = readers
      /\ UNCHANGED <<key, at, reg, response, held, status>>
      /\ pc[t] = "add"
  BY ProxyAssumption DEF Evict, Insert, At, Inv, LockOK, WriterPCs, lock
<1>2. cache \in Cache /\ DoublyLinked(cache)
  BY <1>1 DEF Inv, TypeOK, ListOK
<1>3. cache' \in Cache /\ DoublyLinked(cache')
  <2>1. CASE Evict(t)
    BY <1>2, <2>1, RemoveOldestEffect DEF Evict
  <2>2. CASE Insert(t)
    <3>1. PICK n \in Nodes \ cache.used, u \in {key[t]} \cup {w \in {NULL} : MallocFails} :
              cache' = insertItem(cache, n, u, response[t])
      BY <2>2 DEF Insert
    <3>2. u \in Urls \cup {NULL} /\ response[t] \in Nat
      BY <3>1 DEF Inv, TypeOK
    <3>3. QED
      BY <1>2, <3>1, <3>2, InsertEffect
  <2>3. QED
    BY <2>1, <2>2
<1>4. /\ pc' \in [Threads -> PCs] /\ pc'[t] \in {"add", "close"}
      /\ \A s \in Threads \ {t} : pc'[s] = pc[s]
      /\ writer' \in {t, NULL} /\ (pc'[t] = "add" => writer' = t)
  <2>1. CASE Evict(t)
    BY <1>1, <2>1 DEF Evict, lock, Inv, TypeOK
  <2>2. CASE Insert(t)
    BY <2>2, GotoType DEF Insert, Inv, PCs
  <2>3. QED
    BY <2>1, <2>2
<1>5. TypeOK'
  BY <1>1, <1>3, <1>4 DEF Inv, TypeOK
<1>6. \A s \in Threads : pc'[s] \notin ReaderPCs
  BY <1>1, <1>4 DEF Inv, LockOK, ReaderPCs, MovePCs
<1>7. LockOK'
  BY <1>1, <1>4, <1>6, ProxyAssumption DEF Inv, LockOK, WriterPCs, ReaderPCs, MovePCs
<1>8. ListOK'
  BY <1>3 DEF ListOK, DoublyLinked
<1>9. ItemStillThere' /\ LoadsOK'
  BY <1>6 DEF ItemStillThere, LoadsOK, ReaderPCs, MovePCs
<1>10. QED
  BY <1>5, <1>7, <1>8, <1>9 DEF Inv

(* Every step keeps the invariant.                                          *)
LEMMA InvariantStep == Inv /\ [Next]_vars => Inv'
<1> SUFFICES ASSUME Inv, [Next]_vars PROVE Inv'
  OBVIOUS
<1>1. ASSUME NEW t \in Threads, Accept(t) \/ AcceptFails(t) \/ Step(t) \/ NetworkError(t) \/ Overlong(t)
      PROVE  Inv'
  BY <1>1, RequestSteps, EndSteps, LockSteps, MoveStep, WriterSteps DEF Step
<1>2. CASE UNCHANGED vars
  BY <1>2 DEF vars, lock, Inv, TypeOK, LockOK, ListOK, ItemStillThere, LoadsOK, Closed, DoublyLinked, Linked
<1>3. QED
  BY <1>1, <1>2 DEF Next

(* The inductive invariant of the proxy's threads, cache and lock.          *)
THEOREM Invariance == Spec => []Inv
BY Initially, InvariantStep, PTL DEF Spec

(* Every variable of the proxy keeps to its values.                         *)
THEOREM TypeCorrect == Spec => []TypeOK
<1>1. Inv => TypeOK
  BY DEF Inv
<1>2. QED
  BY <1>1, Invariance, PTL

(* No thread walks into, moves or sends an item that has been freed, and    *)
(* what it sends has the key that was asked for, whatever the number of     *)
(* threads and items and although hits race with each other.                *)
THEOREM NoUseAfterFree == Spec => []ItemStillThere
<1>1. Inv => ItemStillThere
  BY DEF Inv
<1>2. QED
  BY <1>1, Invariance, PTL

-----------------------------------------------------------------------------
(* What a thread keeps when it ends depends on the way it came: before it   *)
(* has a key it holds the descriptor alone, and up to the write of a cached *)
(* item the parsed URI besides.                                             *)
Holding(t) ==
    /\ pc[t] \in {"new", "request"} <=> (key[t] = NULL /\ pc[t] # "ended")
    /\ pc[t] = "request" => held[t] = {"thread", "connfd"}
    /\ pc[t] \in {"rdlock", "walk", "write"} \cup MovePCs =>
           held[t] = {"thread", "connfd", "uri_data"}
    /\ pc[t] = "ended" => held[t] = {"thread"} \cup CASE t \in readers -> {"uri_data"}
                                                     [] key[t] = NULL -> {"connfd"}
                                                     [] OTHER         -> {}
    /\ t \in readers => key[t] # NULL

LeaksInv == Inv /\ \A t \in Threads : Holding(t)

(* A thread that has not begun holds nothing.                               *)
LEMMA LeaksInit == Init => LeaksInv
<1> SUFFICES ASSUME Init PROVE LeaksInv
  OBVIOUS
<1>1. \A t \in Threads : pc[t] = "new" /\ key[t] = NULL /\ t \notin readers
  BY DEF Init
<1>2. \A t \in Threads : Holding(t)
  BY <1>1 DEF Holding, MovePCs
<1>3. QED
  BY <1>2, Initially DEF LeaksInv

(* A thread's step changes nothing that another thread holds.               *)
LEMMA OthersKeep ==
    ASSUME LeaksInv, NEW t \in Threads, NEW s \in Threads \ {t},
           pc'[s] = pc[s], key'[s] = key[s], held'[s] = held[s],
           s \in readers' <=> s \in readers
    PROVE  Holding(s)'
BY DEF LeaksInv, Holding, MovePCs

(* What one step of a thread does to what it holds itself.                  *)
LEMMA OwnHolding ==
    ASSUME LeaksInv, NEW t \in Threads, Accept(t) \/ Step(t)
    PROVE  Holding(t)' /\ \A s \in Threads \ {t} :
               /\ pc'[s] = pc[s] /\ key'[s] = key[s] /\ held'[s] = held[s]
               /\ s \in readers' <=> s \in readers
<1> DEFINE Alone == \A s \in Threads \ {t} :
               /\ pc'[s] = pc[s] /\ key'[s] = key[s] /\ held'[s] = held[s]
               /\ s \in readers' <=> s \in readers
           Whole == {"connfd", "uri_data"}
<1>1. /\ Holding(t) /\ NULL \notin Urls /\ Asks[t] \subseteq Urls
      /\ pc \in [Threads -> PCs] /\ key \in [Threads -> Urls \cup {NULL}]
      /\ held \in [Threads -> SUBSET Resources] /\ readers \subseteq Threads
      /\ t \in readers => pc[t] \in ReaderPCs \cup {"ended"}
      /\ pc[t] \in ReaderPCs => t \in readers
  BY CacheAssumption, ProxyAssumption DEF LeaksInv, Inv, TypeOK, LockOK
<1>2. CASE Accept(t)
  <2>1. /\ pc[t] = "new" /\ pc'[t] = "request" /\ key' = key /\ held'[t] = {"thread", "connfd"}
        /\ readers' = readers /\ Alone
    BY <1>1, <1>2 DEF Accept, At, Goto, lock
  <2>2. QED
    BY <1>1, <2>1 DEF Holding, MovePCs, ReaderPCs
<1>3. CASE RefuseRequest(t)
  <2>1. /\ pc[t] = "request" /\ pc'[t] = "ended" /\ UNCHANGED <<key, held, readers>> /\ Alone
    BY <1>1, <1>3 DEF RefuseRequest, At, Goto, lock
  <2>2. QED
    BY <1>1, <2>1 DEF Holding, MovePCs, ReaderPCs
<1>4. CASE GetRequest(t)
  <2>1. /\ pc[t] = "request" /\ pc'[t] = "rdlock" /\ key'[t] \in Urls
        /\ held'[t] = held[t] \cup {"uri_data"} /\ readers' = readers /\ Alone
    BY <1>1, <1>4 DEF GetRequest, At, Goto, lock
  <2>2. QED
    BY <1>1, <2>1 DEF Holding, MovePCs, ReaderPCs
<1>5. CASE ReadLock(t)
  <2>1. /\ pc[t] = "rdlock" /\ pc'[t] = "walk" /\ UNCHANGED <<key, held>> /\ Alone
    BY <1>1, <1>5 DEF ReadLock, At, Goto
  <2>2. QED
    BY <1>1, <2>1 DEF Holding, MovePCs
<1>6. CASE Walk(t) \/ MoveToFront(t)
  <2>1. /\ pc[t] \in {"walk"} \cup MovePCs /\ pc'[t] \in {"walk", "write"} \cup MovePCs
        /\ UNCHANGED <<key, held, readers>> /\ Alone
    <3>1. CASE Walk(t)
      BY <1>1, <3>1 DEF Walk, At, Goto, lock, MovePCs
    <3>2. CASE MoveToFront(t)
      <4>1. PICK there \in (MovePCs \cup {"write"}) \ {"front"} : Goto(t, there)
        BY <3>2, MoveFrame
      <4>2. pc[t] \in MovePCs /\ UNCHANGED <<key, held, readers>>
        BY <3>2, MoveFrame
      <4>3. QED
        BY <1>1, <4>1, <4>2 DEF Goto
    <3>3. QED
      BY <1>6, <3>1, <3>2
  <2>2. QED
    BY <1>1, <2>1 DEF Holding, MovePCs
<1>7. CASE WriteCached(t)
  <2>1. /\ pc[t] = "write" /\ pc'[t] = "ended" /\ held'[t] = held[t] \ {"connfd"}
        /\ UNCHANGED <<key, readers>> /\ Alone /\ t \in readers
    BY <1>1, <1>7 DEF WriteCached, At, Goto, lock, ReaderPCs
  <2>2. QED
    BY <1>1, <2>1 DEF Holding, MovePCs
<1>8. CASE NotFound(t)
  <2>1. /\ pc[t] = "walk" /\ pc'[t] = "connect" /\ UNCHANGED <<key, held>> /\ t \notin readers'
        /\ Alone
    BY <1>1, <1>8 DEF NotFound, At, Goto
  <2>2. QED
    BY <1>1, <2>1 DEF Holding, MovePCs
<1>9. CASE Connect(t) \/ Relay(t) \/ RelayOnly(t) \/ WriteLock(t) \/ RefuseItem(t) \/ Evict(t) \/ Insert(t)
  <2>1. /\ pc[t] \in {"connect", "relay", "wrlock", "add"}
        /\ pc'[t] \in {"relay", "wrlock", "add", "close"} /\ UNCHANGED <<key, readers>> /\ Alone
    <3>1. CASE Connect(t) \/ Relay(t) \/ RelayOnly(t)
      BY <1>1, <3>1 DEF Connect, Relay, RelayOnly, At, Goto, lock
    <3>2. CASE WriteLock(t) \/ RefuseItem(t)
      BY <1>1, <3>2 DEF WriteLock, RefuseItem, At, Goto, lock
    <3>3. CASE Evict(t) \/ Insert(t)
      BY <1>1, <3>3 DEF Evict, Insert, At, Goto, lock
    <3>4. QED
      BY <1>9, <3>1, <3>2, <3>3
  <2>2. t \notin readers
    BY <1>1, <2>1 DEF ReaderPCs, MovePCs
  <2>3. QED
    BY <1>1, <2>1, <2>2 DEF Holding, MovePCs
<1>10. CASE Close(t)
  <2>1. /\ pc[t] = "close" /\ pc'[t] = "ended" /\ held'[t] = {"thread"}
        /\ UNCHANGED <<key, readers>> /\ Alone
    BY <1>1, <1>10 DEF Close, At, Goto, lock
  <2>2. t \notin readers
    BY <1>1, <2>1 DEF ReaderPCs, MovePCs
  <2>3. key[t] # NULL
    BY <1>1, <2>1 DEF Holding
  <2>4. QED
    BY <2>1, <2>2, <2>3 DEF Holding, MovePCs
<1>11. CASE NullAccess(t)
  <2>1. UNCHANGED <<pc, key, held, readers>>
    BY <1>11 DEF NullAccess, lock
  <2>2. QED
    BY <1>1, <2>1 DEF Holding, MovePCs
<1>12. QED
  BY <1>2, <1>3, <1>4, <1>5, <1>6, <1>7, <1>8, <1>9, <1>10, <1>11 DEF Step

(* No step makes a thread keep more than its way through says.              *)
LEMMA LeaksStep == LeaksInv /\ [Next]_vars => LeaksInv'
<1> SUFFICES ASSUME LeaksInv, [Next]_vars PROVE LeaksInv'
  OBVIOUS
<1>1. Inv'
  BY InvariantStep DEF LeaksInv
<1>2. ASSUME UNCHANGED <<pc, key, held, readers>>
      PROVE  \A t \in Threads : Holding(t)'
  BY <1>2 DEF LeaksInv, Holding, MovePCs
<1>3. ASSUME NEW t \in Threads, Accept(t) \/ Step(t)
      PROVE  \A s \in Threads : Holding(s)'
  BY <1>3, OwnHolding, OthersKeep
<1>4. CASE \E t \in Threads : AcceptFails(t) \/ NetworkError(t) \/ Overlong(t)
  <2>1. UNCHANGED <<pc, key, held, readers>>
    BY <1>4 DEF AcceptFails, NetworkError, Overlong, lock
  <2>2. QED
    BY <1>1, <1>2, <2>1 DEF LeaksInv
<1>5. CASE UNCHANGED vars
  <2>1. UNCHANGED <<pc, key, held, readers>>
    BY <1>5 DEF vars, lock
  <2>2. QED
    BY <1>1, <1>2, <2>1 DEF LeaksInv
<1>6. QED
  BY <1>1, <1>3, <1>4, <1>5 DEF Next, LeaksInv

(* Every ended thread keeps its stack; besides, handleRequest's early       *)
(* return forgets the client's descriptor, its hit path the parsed URI, and *)
(* no other way through it forgets anything, whatever other threads do and  *)
(* whatever malloc and the network refuse.                                  *)
THEOREM LeaksKnown == Spec => []KnownLeaks
<1>1. LeaksInv => KnownLeaks
  BY DEF LeaksInv, Holding, KnownLeaks
<1>2. QED
  BY <1>1, LeaksInit, LeaksStep, PTL DEF Spec

-----------------------------------------------------------------------------
(* The list as a row of cells: the dummy head, then the items, each the     *)
(* next of the one before it, and the tail at the end.                      *)
Row(c, m, q) ==
    /\ m \in Nat /\ q \in [0 .. m -> Linked(c)] /\ q[0] = Dummy
    /\ \A x \in Linked(c) : \E i \in 0 .. m : x = q[i]
    /\ \A i, j \in 0 .. m : q[i] = q[j] => i = j
    /\ \A i \in 0 .. m - 1 : c.next[q[i]] = q[i + 1] /\ c.prev[q[i + 1]] = q[i]
    /\ c.next[q[m]] = NULL /\ c.tail = q[m]

Sound(c) ==
    /\ \E m, q : Row(c, m, q)
    /\ c.totalSize = TotalOf(c)
    /\ c.totalSize <= MAX_CACHE_SIZE

(* A row is a list whose neighbours agree, and the chain that is followed   *)
(* from its head is the row itself.                                         *)
LEMMA RowLinked ==
    ASSUME NEW c \in Cache, NEW m, NEW q, Row(c, m, q)
    PROVE  DoublyLinked(c)
<1>0. /\ m \in Nat /\ q \in [0 .. m -> Linked(c)] /\ q[0] = Dummy
      /\ NULL \notin Linked(c) /\ Dummy \notin c.used /\ Linked(c) = c.used \cup {Dummy}
  BY CacheFields, CacheAssumption DEF Row, Linked, Cells
<1>1. ASSUME NEW x \in Linked(c)
      PROVE  /\ c.next[x] \in c.used \cup {NULL}
             /\ c.next[x] # NULL => c.prev[c.next[x]] = x
             /\ c.next[x] = NULL <=> x = c.tail
  <2>1. PICK i \in 0 .. m : x = q[i]
    BY DEF Row
  <2>2. CASE i = m
    BY <1>0, <2>1, <2>2 DEF Row
  <2>3. CASE i # m
    <3>1. i \in 0 .. m - 1 /\ i + 1 \in 0 .. m /\ i + 1 # 0 /\ m \in 0 .. m
      BY <1>0, <2>3
    <3>2. c.next[x] = q[i + 1] /\ c.prev[q[i + 1]] = q[i] /\ q[i + 1] # q[0] /\ q[i] # q[m]
      BY <1>0, <2>1, <2>3, <3>1 DEF Row
    <3>3. q[i + 1] \in c.used
      BY <1>0, <3>1, <3>2
    <3> QED BY <1>0, <2>1, <3>2, <3>3 DEF Row
  <2> QED BY <2>2, <2>3
<1>2. ASSUME NEW n \in c.used
      PROVE  c.prev[n] \in Linked(c) /\ c.next[c.prev[n]] = n
  <2>1. PICK i \in 0 .. m : n = q[i]
    BY <1>0 DEF Row
  <2>2. i # 0
    BY <1>0, <2>1
  <2>3. i - 1 \in 0 .. m - 1 /\ i - 1 \in 0 .. m /\ (i - 1) + 1 = i
    BY <1>0, <2>2
  <2>4. c.next[q[i - 1]] = n /\ c.prev[n] = q[i - 1] /\ q[i - 1] \in Linked(c)
    BY <1>0, <2>1, <2>3 DEF Row
  <2> QED BY <2>4
<1>3. c.tail \in Linked(c)
  BY <1>0 DEF Row
<1> QED BY <1>1, <1>2, <1>3 DEF DoublyLinked, Closed

(* Where in a row an item is.                                               *)
LEMMA RowPlace ==
    ASSUME NEW c \in Cache, NEW m, NEW q, Row(c, m, q)
    PROVE  /\ \A n \in c.used : \E k \in 1 .. m : n = q[k]
           /\ \A k \in 1 .. m : q[k] \in c.used
<1>0. /\ m \in Nat /\ q \in [0 .. m -> Linked(c)] /\ q[0] = Dummy
      /\ Dummy \notin c.used /\ Linked(c) = c.used \cup {Dummy}
  BY CacheFields, CacheAssumption DEF Row, Linked, Cells
<1>1. ASSUME NEW n \in c.used PROVE \E k \in 1 .. m : n = q[k]
  <2>1. PICK k \in 0 .. m : n = q[k]
    BY <1>0 DEF Row
  <2>2. k \in 1 .. m
    BY <1>0, <2>1
  <2> QED BY <2>1, <2>2
<1>2. ASSUME NEW k \in 1 .. m PROVE q[k] \in c.used
  <2>1. k \in 0 .. m /\ 0 \in 0 .. m /\ k # 0
    BY <1>0
  <2>2. q[k] # q[0]
    BY <2>1 DEF Row
  <2> QED BY <1>0, <2>1, <2>2
<1> QED BY <1>1, <1>2

(* A row has as many items as malloc has given.                             *)
LEMMA RowLength ==
    ASSUME NEW c \in Cache, NEW m, NEW q, Row(c, m, q)
    PROVE  /\ Cardinality(c.used) = m /\ m <= Cardinality(Nodes) /\ Cardinality(Nodes) \in Nat
           /\ {q[i] : i \in 1 .. m} = c.used
<1>0. /\ m \in Nat /\ q \in [0 .. m -> Linked(c)] /\ q[0] = Dummy
      /\ NULL \notin Linked(c) /\ Dummy \notin c.used /\ Linked(c) = c.used \cup {Dummy}
  BY CacheFields, CacheAssumption DEF Row, Linked, Cells
<1> DEFINE f == [i \in 1 .. m |-> q[i]]
<1>1. \A i \in 1 .. m : i \in 0 .. m /\ q[i] \in c.used
  <2> SUFFICES ASSUME NEW i \in 1 .. m PROVE i \in 0 .. m /\ q[i] \in c.used
    OBVIOUS
  <2>1. i \in 0 .. m /\ i # 0 /\ 0 \in 0 .. m
    BY <1>0
  <2>2. q[i] # q[0]
    BY <2>1 DEF Row
  <2> QED BY <1>0, <2>1, <2>2
<1>2. \A n \in c.used : \E i \in 1 .. m : n = q[i]
  <2> SUFFICES ASSUME NEW n \in c.used PROVE \E i \in 1 .. m : n = q[i]
    OBVIOUS
  <2>1. PICK i \in 0 .. m : n = q[i]
    BY <1>0 DEF Row
  <2>2. i # 0
    BY <1>0, <2>1
  <2> QED BY <1>0, <2>1, <2>2
<1>3. f \in Bijection(1 .. m, c.used)
  <2>1. f \in [1 .. m -> c.used]
    BY <1>1
  <2>2. \A i, j \in 1 .. m : f[i] = f[j] => i = j
    BY <1>1 DEF Row
  <2>3. \A n \in c.used : \E i \in 1 .. m : f[i] = n
    BY <1>2
  <2> HIDE DEF f
  <2> QED BY <2>1, <2>2, <2>3 DEF Bijection, Injection, Surjection, IsInjective
<1>4. Cardinality(c.used) = m
  <2>1. ExistsBijection(1 .. m, c.used)
    BY <1>3 DEF ExistsBijection
  <2> QED BY <1>0, <2>1, FS_CountingElements
<1>5. Cardinality(c.used) <= Cardinality(Nodes) /\ Cardinality(Nodes) \in Nat
  BY CacheAssumption, CacheFields, FS_Subset, FS_CardinalityType
<1>6. {q[i] : i \in 1 .. m} = c.used
  BY <1>1, <1>2
<1> QED BY <1>4, <1>5, <1>6

(* The chain that is followed from the head is what the next pointers       *)
(* string together.                                                         *)
Strung(next, m, q) ==
    /\ m \in Nat /\ q \in [0 .. m -> Cells] /\ q[0] = Dummy
    /\ \A i \in 0 .. m - 1 : next[q[i]] = q[i + 1]
    /\ next[q[m]] = NULL

LEMMA StrungChain ==
    ASSUME NEW c, NEW m, NEW q, Strung(c.next, m, q), m <= Cardinality(Nodes)
    PROVE  Chain(c) = [i \in 1 .. m |-> q[i]]
<1> DEFINE N == Cardinality(Nodes)
           Hops(h) == h = [k \in 0 .. N |->
                              IF k = 0 THEN c.next[Dummy]
                              ELSE IF h[k - 1] = NULL THEN NULL ELSE c.next[h[k - 1]]]
           hop == CHOOSE h : Hops(h)
           g == [k \in 0 .. N |-> IF k < m THEN q[k + 1] ELSE NULL]
<1>0. /\ m \in Nat /\ N \in Nat /\ m <= N /\ q \in [0 .. m -> Cells] /\ q[0] = Dummy
      /\ NULL \notin Cells
  BY FS_CardinalityType, CacheAssumption DEF Strung, Cells
<1>1. Chain(c) = [i \in 1 .. Cardinality({k \in DOMAIN hop : hop[k] # NULL}) |-> hop[i - 1]]
  BY Zenon DEF Chain
<1>2. ASSUME NEW k \in 0 .. N, k # 0
      PROVE  g[k] = IF g[k - 1] = NULL THEN NULL ELSE c.next[g[k - 1]]
  <2>1. k - 1 \in 0 .. N /\ (k - 1) + 1 = k
    BY <1>0, <1>2
  <2>2. CASE k - 1 < m
    <3>1. g[k - 1] = q[k] /\ k \in 0 .. m
      BY <1>0, <2>1, <2>2
    <3>2. q[k] # NULL
      BY <1>0, <3>1
    <3>3. CASE k = m
      <4>1. g[k] = NULL /\ c.next[q[k]] = NULL
        BY <1>0, <3>3 DEF Strung
      <4> QED BY <3>1, <3>2, <4>1
    <3>4. CASE k # m
      <4>1. k \in 0 .. m - 1 /\ k < m
        BY <1>0, <3>1, <3>4
      <4>2. g[k] = q[k + 1] /\ c.next[q[k]] = q[k + 1]
        BY <4>1 DEF Strung
      <4> QED BY <3>1, <3>2, <4>2
    <3> QED BY <3>3, <3>4
  <2>3. CASE ~(k - 1 < m)
    <3>1. g[k - 1] = NULL /\ g[k] = NULL
      BY <1>0, <2>1, <2>3
    <3> QED BY <3>1
  <2> QED BY <2>2, <2>3
<1>3. g[0] = c.next[Dummy]
  <2>1. CASE m = 0
    BY <1>0, <2>1 DEF Strung
  <2>2. CASE m # 0
    <3>1. 0 \in 0 .. m - 1 /\ 0 < m /\ 0 + 1 = 1
      BY <1>0, <2>2
    <3>2. g[0] = q[1] /\ c.next[q[0]] = q[0 + 1]
      BY <1>0, <3>1 DEF Strung
    <3> QED BY <1>0, <3>1, <3>2
  <2> QED BY <2>1, <2>2
<1>4. Hops(g)
  <2> DEFINE r == [k \in 0 .. N |->
                      IF k = 0 THEN c.next[Dummy]
                      ELSE IF g[k - 1] = NULL THEN NULL ELSE c.next[g[k - 1]]]
  <2>1. DOMAIN g = 0 .. N /\ DOMAIN r = 0 .. N
    OBVIOUS
  <2>2. g = [k \in 0 .. N |-> g[k]]
    OBVIOUS
  <2> HIDE DEF g
  <2>3. \A k \in 0 .. N : g[k] = r[k]
    BY <1>2, <1>3
  <2>4. g = r
    BY <2>2, <2>3
  <2> QED BY <2>4
<1>5. Hops(hop)
  <2> HIDE DEF Hops, g
  <2> QED BY <1>4
<1> HIDE DEF hop
<1>6. /\ DOMAIN hop = 0 .. N /\ hop[0] = c.next[Dummy]
      /\ \A k \in 0 .. N : k # 0 => hop[k] = IF hop[k - 1] = NULL THEN NULL ELSE c.next[hop[k - 1]]
  <2>1. 0 \in 0 .. N
    BY <1>0
  <2> HIDE DEF N
  <2>2. hop[0] = c.next[Dummy]
    BY <1>5, <2>1, Zenon
  <2>3. DOMAIN hop = 0 .. N
    BY <1>5
  <2>4. \A k \in 0 .. N : k # 0 => hop[k] = IF hop[k - 1] = NULL THEN NULL ELSE c.next[hop[k - 1]]
    BY <1>5, Zenon
  <2> QED BY <2>2, <2>3, <2>4
<1>7. \A k \in 0 .. N : hop[k] = g[k]
  <2> DEFINE T == {k \in 0 .. N : hop[k] = g[k]}
  <2> HIDE DEF g
  <2>1. 0 \in T
    BY <1>0, <1>3, <1>6
  <2>2. \A k \in 0 .. N : k \in T /\ k < N => k + 1 \in T
    <3> SUFFICES ASSUME NEW k \in 0 .. N, hop[k] = g[k], k < N PROVE hop[k + 1] = g[k + 1] /\ k + 1 \in 0 .. N
      OBVIOUS
    <3>1. k + 1 \in 0 .. N /\ k + 1 # 0 /\ (k + 1) - 1 = k
      BY <1>0
    <3> QED BY <1>2, <1>6, <3>1
  <2> HIDE DEF T
  <2>3. 0 .. N \subseteq T
    BY <1>0, <2>1, <2>2, BoundedInduct
  <2> QED BY <2>3 DEF T
<1>8. {k \in DOMAIN hop : hop[k] # NULL} = 0 .. m - 1
  <2>1. \A k \in 0 .. N : hop[k] # NULL <=> k < m
    <3> SUFFICES ASSUME NEW k \in 0 .. N PROVE hop[k] # NULL <=> k < m
      OBVIOUS
    <3>1. k < m => k + 1 \in 0 .. m
      BY <1>0
    <3>2. k < m => q[k + 1] # NULL
      BY <1>0, <3>1
    <3> QED BY <1>7, <3>2
  <2>2. \A k : k \in 0 .. m - 1 <=> k \in 0 .. N /\ k < m
    BY <1>0
  <2> QED BY <1>6, <2>1, <2>2
<1>9. Cardinality(0 .. m - 1) = m
  <2>1. Cardinality(0 .. m - 1) = IF 0 > m - 1 THEN 0 ELSE (m - 1) - 0 + 1
    BY <1>0, FS_Interval
  <2> QED BY <1>0, <2>1
<1>10. \A i \in 1 .. m : hop[i - 1] = q[i]
  <2> SUFFICES ASSUME NEW i \in 1 .. m PROVE hop[i - 1] = q[i]
    OBVIOUS
  <2>1. i - 1 \in 0 .. N /\ i - 1 < m /\ (i - 1) + 1 = i
    BY <1>0
  <2> QED BY <1>7, <2>1
<1>11. Chain(c) = [i \in 1 .. m |-> hop[i - 1]]
  BY <1>1, <1>8, <1>9
<1> QED BY <1>10, <1>11

(* The chain of a list that is a row.                                       *)
LEMMA RowChain ==
    ASSUME NEW c \in Cache, NEW m, NEW q, Row(c, m, q)
    PROVE  Chain(c) = [i \in 1 .. m |-> q[i]]
<1>1. Strung(c.next, m, q)
  BY CacheFields DEF Row, Strung
<1> QED BY <1>1, StrungChain, RowLength

(* A sound list is as SoundUnlessHitsRace wants it.                         *)
LEMMA SoundWellFormed ==
    ASSUME NEW c \in Cache, Sound(c)
    PROVE  WellFormed(c)
<1>1. PICK m, q : Row(c, m, q)
  BY DEF Sound
<1>2. m \in Nat
  BY <1>1 DEF Row
<1>3. /\ DoublyLinked(c) /\ Chain(c) = [i \in 1 .. m |-> q[i]]
      /\ Cardinality(c.used) = m /\ {q[i] : i \in 1 .. m} = c.used
  BY <1>1, RowLinked, RowChain, RowLength
<1> DEFINE s == Chain(c)
<1>4. DOMAIN s = 1 .. m /\ \A i \in 1 .. m : s[i] = q[i]
  BY <1>3
<1>5. Len(s) = m
  BY <1>2, <1>3, <1>4
<1>6. {s[i] : i \in DOMAIN s} = c.used
  BY <1>3, <1>4
<1> HIDE DEF s
<1>7. {s[i] : i \in DOMAIN s} = c.used /\ Len(s) = Cardinality(c.used)
  BY <1>3, <1>5, <1>6
<1> QED BY <1>3, <1>7 DEF WellFormed, Sound, s

-----------------------------------------------------------------------------
(* What the operations do to a sound list.                                  *)

(* The model's total is a sum over the items.                               *)
LEMMA SumOfSizes == \A c : TotalOf(c) = SumOf(c.size, c.used)
BY Zenon DEF TotalOf, SumOf

(* The sum of the sizes that a list holds, item by item.                    *)
LEMMA TotalTake ==
    ASSUME NEW c \in Cache, NEW n \in c.used, NEW d \in Cache,
           d.size = c.size, d.used = c.used \ {n}
    PROVE  TotalOf(c) = c.size[n] + TotalOf(d) /\ TotalOf(d) \in Nat
<1>1. IsFiniteSet(c.used) /\ IsFiniteSet(d.used) /\ \A x \in c.used : c.size[x] \in Nat
  BY CacheFields, CacheAssumption, FS_Subset
<1>2. SumOf(c.size, c.used) = c.size[n] + SumOf(c.size, c.used \ {n})
  BY <1>1, SumAdd
<1>3. SumOf(c.size, c.used \ {n}) \in Nat
  <2>1. IsFiniteSet(c.used \ {n}) /\ \A x \in c.used \ {n} : c.size[x] \in Nat
    BY <1>1
  <2> QED BY <2>1, SumType
<1> QED BY <1>2, <1>3, SumOfSizes

(* The empty list is a row of the dummy head alone.                         *)
LEMMA InitSound == Sound(initCache)
<1> DEFINE q == [i \in 0 .. 0 |-> Dummy]
<1>1. /\ initCache.used = {} /\ initCache.tail = Dummy /\ initCache.totalSize = 0
      /\ initCache.next[Dummy] = NULL
  BY DEF initCache, Cells
<1>2. Linked(initCache) = {Dummy}
  BY <1>1 DEF Linked
<1>3. Row(initCache, 0, q)
  BY <1>1, <1>2 DEF Row
<1>4. TotalOf(initCache) = 0
  BY <1>1, SumOfSizes, SumEmpty
<1> QED BY <1>1, <1>3, <1>4, CacheAssumption DEF Sound

(* Eviction takes the last cell off the row.                                *)
LEMMA RemoveRow ==
    ASSUME NEW c \in Cache, NEW m, NEW q, Row(c, m, q), m # 0
    PROVE  LET d == removeOldestCacheItem(c) IN
           /\ d \in Cache /\ Row(d, m - 1, [i \in 0 .. m - 1 |-> q[i]])
           /\ d.used = c.used \ {c.tail} /\ d.size = c.size /\ d.url = c.url
           /\ d.totalSize = c.totalSize - c.size[c.tail] /\ c.tail \in c.used
<1> DEFINE d == removeOldestCacheItem(c)
           o == c.tail
           p == c.prev[o]
<1>0. /\ c.next \in [Cells -> Pointers] /\ c.prev \in [Cells -> Pointers]
      /\ c.size \in [Nodes -> Nat] /\ c.totalSize \in Int
      /\ c.used \subseteq Nodes /\ c.used \subseteq Cells /\ Linked(c) \subseteq Cells
      /\ Dummy \notin c.used /\ NULL \notin Cells /\ Linked(c) = c.used \cup {Dummy}
      /\ m \in Nat /\ q \in [0 .. m -> Linked(c)] /\ q[0] = Dummy /\ o = q[m]
  BY CacheFields, CacheAssumption DEF Linked, Cells, Row
<1>1. o # Dummy
  <2>1. m \in 0 .. m /\ 0 \in 0 .. m
    BY <1>0
  <2> QED BY <1>0, <2>1 DEF Row
<1>2. m # 0 /\ m - 1 \in 0 .. m - 1 /\ (m - 1) + 1 = m /\ m - 1 \in 0 .. m /\ m \in 0 .. m
  BY <1>0, <1>1
<1>3. p = q[m - 1] /\ o \in c.used /\ p # o
  <2>1. c.prev[q[(m - 1) + 1]] = q[m - 1]
    BY <1>2 DEF Row
  <2>2. p = q[m - 1]
    BY <1>0, <1>2, <2>1
  <2>3. q[m] \in Linked(c)
    BY <1>0, <1>2
  <2>4. m - 1 # m
    BY <1>2
  <2>5. q[m - 1] # q[m]
    BY <1>2, <2>4 DEF Row
  <2> QED BY <1>0, <1>1, <2>2, <2>3, <2>5
<1>4. d = [c EXCEPT !.tail = p, !.next = [c.next EXCEPT ![p] = NULL],
                    !.totalSize = c.totalSize - c.size[o], !.used = c.used \ {o}]
  BY <1>1 DEF removeOldestCacheItem, free, Cache
<1>5. /\ d.tail = p /\ d.next = [c.next EXCEPT ![p] = NULL] /\ d.prev = c.prev
      /\ d.used = c.used \ {o} /\ d.size = c.size /\ d.url = c.url
      /\ d.totalSize = c.totalSize - c.size[o]
  BY <1>4 DEF Cache
<1>6. d \in Cache
  <2>1. DoublyLinked(c)
    BY RowLinked
  <2> QED BY <2>1, RemoveOldestEffect
<1> DEFINE r == [i \in 0 .. m - 1 |-> q[i]]
<1>7. Linked(d) = Linked(c) \ {o}
  BY <1>1, <1>5 DEF Linked
<1>8. r \in [0 .. m - 1 -> Linked(d)]
  <2> SUFFICES ASSUME NEW i \in 0 .. m - 1 PROVE q[i] \in Linked(d)
    OBVIOUS
  <2>1. i \in 0 .. m /\ i # m
    BY <1>0
  <2>2. q[i] # q[m]
    BY <1>2, <2>1 DEF Row
  <2> QED BY <1>0, <1>7, <2>1, <2>2
<1>9. ASSUME NEW x \in Linked(d) PROVE \E i \in 0 .. m - 1 : x = r[i]
  <2>1. PICK i \in 0 .. m : x = q[i]
    BY <1>7 DEF Row
  <2>2. i # m
    BY <1>0, <1>7, <2>1
  <2>3. i \in 0 .. m - 1
    BY <1>0, <2>2
  <2> QED BY <2>1, <2>3
<1>10. ASSUME NEW i \in 0 .. m - 1, NEW j \in 0 .. m - 1, r[i] = r[j] PROVE i = j
  <2>1. i \in 0 .. m /\ j \in 0 .. m
    BY <1>0
  <2> QED BY <1>10, <2>1 DEF Row
<1>11. ASSUME NEW i \in 0 .. (m - 1) - 1
       PROVE  d.next[r[i]] = r[i + 1] /\ d.prev[r[i + 1]] = r[i]
  <2>1. i \in 0 .. m - 1 /\ i + 1 \in 0 .. m - 1 /\ i \in 0 .. m /\ i # m - 1
    BY <1>0
  <2>2. c.next[q[i]] = q[i + 1] /\ c.prev[q[i + 1]] = q[i] /\ q[i] # q[m - 1] /\ q[i] \in Cells
    BY <1>0, <1>2, <2>1 DEF Row
  <2> QED BY <1>0, <1>3, <1>5, <2>1, <2>2
<1>12. d.next[r[m - 1]] = NULL /\ d.tail = r[m - 1] /\ r[0] = Dummy /\ m - 1 \in Nat
  <2>1. p \in Cells /\ r[m - 1] = p /\ 0 \in 0 .. m - 1
    BY <1>0, <1>2, <1>3
  <2> QED BY <1>0, <1>5, <2>1
<1> HIDE DEF r, d
<1>13. Row(d, m - 1, r)
  BY <1>8, <1>9, <1>10, <1>11, <1>12 DEF Row
<1> QED BY <1>3, <1>5, <1>6, <1>13 DEF d, r

(* Eviction takes the size of the item it removes from the total.           *)
LEMMA RemoveSound ==
    ASSUME NEW c \in Cache, Sound(c)
    PROVE  Sound(removeOldestCacheItem(c))
<1> DEFINE d == removeOldestCacheItem(c)
           o == c.tail
<1>1. PICK m, q : Row(c, m, q)
  BY DEF Sound
<1>2. CASE m = 0
  <2>1. c.tail = Dummy
    BY <1>1, <1>2 DEF Row
  <2> QED BY <2>1 DEF removeOldestCacheItem
<1>3. CASE m # 0
  <2>1. /\ d \in Cache /\ \E k, r : Row(d, k, r)
        /\ d.used = c.used \ {o} /\ d.size = c.size
        /\ d.totalSize = c.totalSize - c.size[o] /\ o \in c.used
    BY <1>1, <1>3, RemoveRow
  <2> HIDE DEF d
  <2>2. TotalOf(c) = c.size[o] + TotalOf(d) /\ TotalOf(d) \in Nat
    BY <2>1, TotalTake
  <2>3. c.size[o] \in Nat /\ c.totalSize = TotalOf(c) /\ c.totalSize <= MAX_CACHE_SIZE
    BY <2>1, CacheFields DEF Sound
  <2>4. d.totalSize = TotalOf(d) /\ d.totalSize <= MAX_CACHE_SIZE
    BY <2>1, <2>2, <2>3, CacheAssumption
  <2>5. Sound(d)
    BY <2>1, <2>4 DEF Sound
  <2> QED BY <2>5 DEF d
<1> QED BY <1>2, <1>3

(* A new item goes into the row behind the dummy head.                      *)
Pushed(m, q, n) ==
    [i \in 0 .. m + 1 |-> IF i = 0 THEN Dummy ELSE IF i = 1 THEN n ELSE q[i - 1]]

(* The list after insertItem is the row with the new item pushed.           *)
LEMMA InsertRow ==
    ASSUME NEW c \in Cache, NEW m, NEW q, Row(c, m, q), NEW n \in Nodes \ c.used,
           NEW u \in Urls \cup {NULL}, NEW s \in Nat
    PROVE  LET d == insertItem(c, n, u, s) IN
           /\ d \in Cache
           /\ Row(d, m + 1, Pushed(m, q, n))
           /\ d.used = c.used \cup {n} /\ d.size[n] = s /\ d.url[n] = u
           /\ \A x \in c.used : d.size[x] = c.size[x] /\ d.url[x] = c.url[x]
           /\ d.totalSize = c.totalSize + s
<1> DEFINE d == insertItem(c, n, u, s)
           old == c.next[Dummy]
           next == [[c.next EXCEPT ![n] = old] EXCEPT ![Dummy] = n]
           prev == [c.prev EXCEPT ![n] = Dummy]
<1>0. /\ c.next \in [Cells -> Pointers] /\ c.prev \in [Cells -> Pointers]
      /\ c.size \in [Nodes -> Nat] /\ c.totalSize \in Int
      /\ c.used \subseteq Nodes /\ c.used \subseteq Cells /\ Linked(c) \subseteq Cells
      /\ Dummy \notin c.used /\ NULL \notin Cells /\ Linked(c) = c.used \cup {Dummy}
      /\ Dummy # n /\ n \in Cells /\ Dummy \in Cells /\ n \notin Linked(c)
      /\ m \in Nat /\ q \in [0 .. m -> Linked(c)] /\ q[0] = Dummy
  BY CacheFields, CacheAssumption DEF Linked, Cells, Row
<1>2. /\ d.used = c.used \cup {n} /\ d.next = next /\ d.size = [c.size EXCEPT ![n] = s]
      /\ d.url = [c.url EXCEPT ![n] = u]
      /\ d.prev = (IF old = NULL THEN prev ELSE [prev EXCEPT ![old] = n])
      /\ d.tail = (IF old = NULL THEN n ELSE c.tail) /\ d.totalSize = c.totalSize + s
  <2>1. CASE old = NULL
    BY <2>1 DEF insertItem, Cache
  <2>2. CASE old # NULL
    BY <2>2 DEF insertItem, Cache
  <2> QED BY <2>1, <2>2
<1>3. d \in Cache
  <2>1. DoublyLinked(c)
    BY RowLinked
  <2> QED BY <2>1, InsertEffect
<1> DEFINE r == [i \in 0 .. m + 1 |-> IF i = 0 THEN Dummy ELSE IF i = 1 THEN n ELSE q[i - 1]]
<1>4. Linked(d) = Linked(c) \cup {n}
  BY <1>2 DEF Linked
<1>5. /\ r[0] = Dummy /\ r[1] = n /\ m + 1 \in Nat /\ 0 \in 0 .. m + 1 /\ 1 \in 0 .. m + 1
      /\ \A i \in 2 .. m + 1 : /\ r[i] = q[i - 1] /\ i - 1 \in 1 .. m /\ i - 1 \in 0 .. m
                               /\ q[i - 1] \in c.used /\ i \in 0 .. m + 1
  <2>1. ASSUME NEW i \in 2 .. m + 1
        PROVE  i - 1 \in 1 .. m /\ i - 1 \in 0 .. m /\ i \in 0 .. m + 1 /\ i # 0 /\ i # 1
    BY <1>0
  <2>2. ASSUME NEW i \in 2 .. m + 1 PROVE q[i - 1] \in c.used
    <3>1. i - 1 \in 0 .. m /\ i - 1 # 0 /\ 0 \in 0 .. m
      BY <1>0
    <3>2. q[i - 1] # q[0]
      BY <3>1 DEF Row
    <3> QED BY <1>0, <3>1, <3>2
  <2>3. 0 \in 0 .. m + 1 /\ 1 \in 0 .. m + 1 /\ m + 1 \in Nat
    BY <1>0
  <2> QED BY <2>1, <2>2, <2>3
<1>6. \A i \in 0 .. m + 1 : i = 0 \/ i = 1 \/ i \in 2 .. m + 1
  BY <1>0
<1>7. r \in [0 .. m + 1 -> Linked(d)]
  <2>1. \A i \in 0 .. m + 1 : r[i] \in Linked(d)
    BY <1>0, <1>4, <1>5, <1>6
  <2>2. r = [i \in 0 .. m + 1 |-> r[i]]
    OBVIOUS
  <2> HIDE DEF r
  <2> QED BY <2>1, <2>2
<1> HIDE DEF r
<1>8. ASSUME NEW x \in Linked(d) PROVE \E i \in 0 .. m + 1 : x = r[i]
  <2>1. CASE x = n
    BY <1>5, <2>1
  <2>2. CASE x # n
    <3>1. PICK i \in 0 .. m : x = q[i]
      BY <1>4, <2>2 DEF Row
    <3>2. CASE i = 0
      BY <1>0, <1>5, <3>1, <3>2
    <3>3. CASE i # 0
      <4>1. i + 1 \in 2 .. m + 1 /\ (i + 1) - 1 = i
        BY <1>0, <3>3
      <4> QED BY <1>5, <3>1, <4>1
    <3> QED BY <3>2, <3>3
  <2> QED BY <2>1, <2>2
<1>9. ASSUME NEW i \in 0 .. m + 1, NEW j \in 0 .. m + 1, r[i] = r[j] PROVE i = j
  <2>1. CASE i \in 2 .. m + 1 /\ j \in 2 .. m + 1
    <3>1. i - 1 \in 0 .. m /\ j - 1 \in 0 .. m /\ q[i - 1] = q[j - 1]
      BY <1>5, <1>9, <2>1
    <3>2. i - 1 = j - 1
      BY <3>1 DEF Row
    <3> QED BY <2>1, <3>2
  <2>2. CASE ~(i \in 2 .. m + 1 /\ j \in 2 .. m + 1)
    BY <1>0, <1>5, <1>6, <1>9, <2>2
  <2> QED BY <2>1, <2>2
<1>10. m = 0 => old = NULL /\ c.tail = Dummy
  BY <1>0 DEF Row
<1>11. m # 0 => old = q[1] /\ old # NULL /\ q[1] \in c.used
  <2> SUFFICES ASSUME m # 0 PROVE old = q[1] /\ old # NULL /\ q[1] \in c.used
    OBVIOUS
  <2>1. 0 \in 0 .. m - 1 /\ 2 \in 2 .. m + 1 /\ 0 + 1 = 1 /\ 2 - 1 = 1
    BY <1>0
  <2> QED BY <1>0, <1>5, <2>1 DEF Row
<1>12. ASSUME NEW i \in 0 .. (m + 1) - 1
       PROVE  d.next[r[i]] = r[i + 1] /\ d.prev[r[i + 1]] = r[i]
  <2>1. CASE i = 0
    BY <1>0, <1>2, <1>5, <1>10, <1>11, <2>1
  <2>2. CASE i = 1
    <3>1. m # 0 /\ 2 \in 2 .. m + 1 /\ 2 - 1 = 1
      BY <1>0, <2>2
    <3>2. r[2] = q[1]
      BY <1>5, <3>1
    <3> QED BY <1>0, <1>2, <1>5, <1>11, <2>2, <3>1, <3>2
  <2>3. CASE i # 0 /\ i # 1
    <3>1. i \in 2 .. m + 1 /\ i + 1 \in 2 .. m + 1 /\ i - 1 \in 0 .. m - 1 /\ (i - 1) + 1 = i
          /\ (i + 1) - 1 = i /\ 1 \in 0 .. m /\ i \in 0 .. m /\ m # 0
      BY <1>0, <2>3
    <3>2. r[i] = q[i - 1] /\ r[i + 1] = q[i] /\ q[i - 1] \in c.used /\ q[i] \in c.used
      BY <1>5, <3>1
    <3>3. c.next[q[i - 1]] = q[i] /\ c.prev[q[i]] = q[i - 1]
      BY <3>1 DEF Row
    <3>4. q[i] # q[1]
      BY <2>3, <3>1 DEF Row
    <3>5. /\ q[i] \in Cells /\ q[i - 1] \in Cells /\ q[i - 1] # n /\ q[i - 1] # Dummy
          /\ q[i] # n /\ q[i] # old
      BY <1>0, <1>11, <3>1, <3>2, <3>4
    <3>6. next[q[i - 1]] = c.next[q[i - 1]]
      BY <1>0, <3>5
    <3>7. prev[q[i]] = c.prev[q[i]] /\ [prev EXCEPT ![old] = n][q[i]] = prev[q[i]]
      BY <1>0, <3>5
    <3> QED BY <1>2, <3>2, <3>3, <3>6, <3>7
  <2> QED BY <2>1, <2>2, <2>3
<1>13. d.next[r[m + 1]] = NULL /\ d.tail = r[m + 1]
  <2>1. CASE m = 0
    BY <1>0, <1>2, <1>5, <1>10, <2>1
  <2>2. CASE m # 0
    <3>1. m + 1 \in 2 .. m + 1 /\ (m + 1) - 1 = m
      BY <1>0, <2>2
    <3>2. r[m + 1] = q[m] /\ q[m] \in c.used
      BY <1>5, <3>1
    <3>3. c.next[q[m]] = NULL /\ c.tail = q[m]
      BY DEF Row
    <3> QED BY <1>0, <1>2, <1>11, <2>2, <3>2, <3>3
  <2> QED BY <2>1, <2>2
<1> HIDE DEF d
<1>14. Row(d, m + 1, r)
  BY <1>5, <1>7, <1>8, <1>9, <1>12, <1>13 DEF Row
<1>15. d.size[n] = s /\ d.url[n] = u /\ \A x \in c.used : d.size[x] = c.size[x] /\ d.url[x] = c.url[x]
  <2>1. c.url \in [Nodes -> Urls \cup {NULL}]
    BY CacheFields
  <2> QED BY <1>0, <1>2, <2>1
<1>16. r = Pushed(m, q, n)
  BY DEF r, Pushed
<1> QED BY <1>2, <1>3, <1>14, <1>15, <1>16 DEF d

(* An insertion that fits adds the new size to the total.                   *)
LEMMA InsertSound ==
    ASSUME NEW c \in Cache, Sound(c), NEW n \in Nodes \ c.used,
           NEW u \in Urls \cup {NULL}, NEW s \in Nat, c.totalSize + s <= MAX_CACHE_SIZE
    PROVE  Sound(insertItem(c, n, u, s))
<1> DEFINE d == insertItem(c, n, u, s)
<1>1. PICK m, q : Row(c, m, q)
  BY DEF Sound
<1>2. /\ d \in Cache /\ Row(d, m + 1, Pushed(m, q, n))
      /\ d.used = c.used \cup {n} /\ d.size[n] = s /\ \A x \in c.used : d.size[x] = c.size[x]
      /\ d.totalSize = c.totalSize + s
  BY <1>1, InsertRow
<1> HIDE DEF d
<1>3. IsFiniteSet(d.used) /\ n \in d.used /\ d.used \ {n} = c.used /\ IsFiniteSet(c.used)
  BY <1>2, CacheFields, CacheAssumption, FS_Subset
<1>4. \A x \in d.used : d.size[x] \in Nat
  BY <1>2, CacheFields
<1>5. d.size[n] = s /\ \A x \in c.used : c.size[x] \in Nat /\ d.size[x] = c.size[x]
  BY <1>2, CacheFields
<1>6. SumOf(d.size, d.used) = s + SumOf(d.size, c.used)
  BY <1>3, <1>4, <1>5, SumAdd
<1>7. SumOf(c.size, c.used) \in Nat
  BY <1>3, <1>5, SumType
<1>8. SumOf(c.size, c.used) = SumOf(d.size, c.used)
  BY <1>3, <1>5, SumSame
<1>9. c.totalSize = SumOf(c.size, c.used) /\ TotalOf(d) = SumOf(d.size, d.used)
  BY SumOfSizes DEF Sound
<1> DEFINE k == SumOf(c.size, c.used)
<1> HIDE DEF k
<1>10. TotalOf(d) = s + k /\ d.totalSize = k + s /\ k \in Nat
  BY <1>2, <1>6, <1>7, <1>8, <1>9 DEF k
<1>11. d.totalSize = TotalOf(d) /\ d.totalSize <= MAX_CACHE_SIZE
  BY <1>2, <1>10
<1>12. Sound(d)
  BY <1>2, <1>11 DEF Sound
<1> QED BY <1>12 DEF d

-----------------------------------------------------------------------------
(* moveToFront executed by one thread alone.  Its statements that store,    *)
(* each with what it loads.                                                 *)
detachNext(c, item) == setNext(c, c.prev[item], c.next[item])
detachPrev(c, item) == setPrev(c, c.next[item], c.prev[item])
leaveTail(c, item) == IF item = c.tail THEN setTail(c, c.prev[item]) ELSE c
linkNext(c, item) == setNext(c, item, c.next[Dummy])
linkPrev(c, item) == setPrev(c, item, Dummy)
linkOld(c, item) == setPrev(c, c.next[Dummy], item)
linkHead(c, item) == setNext(c, Dummy, item)
takeTail(c, item) == IF c.tail = Dummy THEN setTail(c, item) ELSE c

(* The list after the statements up to each point, of a list c before the   *)
(* first of them.                                                           *)
Bypassed(c, item) ==
    LET d == detachNext(c, item) IN IF d.next[item] # NULL THEN detachPrev(d, item) ELSE d
Detached(c, item) == leaveTail(Bypassed(c, item), item)
Aimed(c, item) == linkPrev(linkNext(Detached(c, item), item), item)
Hooked(c, item) ==
    LET d == Aimed(c, item) IN IF d.next[Dummy] # NULL THEN linkOld(d, item) ELSE d
Moved(c, item) == takeTail(linkHead(Hooked(c, item), item), item)

(* What the statements of moveToFront have made of the next pointers when   *)
(* the item, the k-th of the row q and not the first, has been taken out of *)
(* the chain, and when it has been aimed at the first one.                  *)
NextIs(d, c, next) == d.next = next /\ d.url = c.url /\ d.size = c.size
Bypass(c, q, k) == [c.next EXCEPT ![q[k - 1]] = c.next[q[k]]]
Aim(c, q, k) == [Bypass(c, q, k) EXCEPT ![q[k]] = q[1]]

(* The pointers at each stage of the move.                                  *)
LEMMA StageFields ==
    ASSUME NEW c \in Cache, NEW m, NEW q, Row(c, m, q), NEW k \in 2 .. m
    PROVE  LET item == q[k]
               d == Moved(c, item)
               after == c.next[item]
               next == [Aim(c, q, k) EXCEPT ![Dummy] = item]
               bypass == IF after = NULL THEN c.prev ELSE [c.prev EXCEPT ![after] = q[k - 1]]
               prev == [[bypass EXCEPT ![item] = Dummy] EXCEPT ![q[1]] = item]
           IN /\ \A e \in {detachNext(c, item), Bypassed(c, item), Detached(c, item)} :
                     NextIs(e, c, Bypass(c, q, k))
              /\ \A e \in {linkNext(Detached(c, item), item), Aimed(c, item), Hooked(c, item)} :
                     NextIs(e, c, Aim(c, q, k))
              /\ NextIs(linkHead(Hooked(c, item), item), c, next) /\ NextIs(d, c, next)
              /\ d = [next |-> next, prev |-> prev, url |-> c.url, size |-> c.size,
                      used |-> c.used,
                      tail |-> IF item = c.tail THEN q[k - 1] ELSE c.tail,
                      totalSize |-> c.totalSize]
<1> DEFINE item == q[k]
           after == c.next[item]
           n1 == [c.next EXCEPT ![q[k - 1]] = after]
           n2 == [n1 EXCEPT ![item] = q[1]]
           n3 == [n2 EXCEPT ![Dummy] = item]
           p1 == IF after = NULL THEN c.prev ELSE [c.prev EXCEPT ![after] = q[k - 1]]
           p2 == [p1 EXCEPT ![item] = Dummy]
           p3 == [p2 EXCEPT ![q[1]] = item]
           tl == IF item = c.tail THEN q[k - 1] ELSE c.tail
           Of(n, p, t) == [next |-> n, prev |-> p, url |-> c.url, size |-> c.size,
                           used |-> c.used, tail |-> t, totalSize |-> c.totalSize]
<1>0. /\ c.next \in [Cells -> Pointers] /\ c.prev \in [Cells -> Pointers]
      /\ c.used \subseteq Cells /\ Linked(c) \subseteq Cells
      /\ Dummy \notin c.used /\ NULL \notin Cells /\ Linked(c) = c.used \cup {Dummy}
      /\ Dummy \in Cells
      /\ m \in Nat /\ q \in [0 .. m -> Linked(c)] /\ q[0] = Dummy /\ c.tail = q[m]
  BY CacheFields, CacheAssumption DEF Linked, Cells, Row
<1>1. /\ k \in 0 .. m /\ k - 1 \in 0 .. m /\ 0 \in 0 .. m /\ 1 \in 0 .. m /\ m \in 0 .. m
      /\ k # 0 /\ k - 1 # 0 /\ k - 1 # k /\ k # 1 /\ k - 1 \in 0 .. m - 1 /\ (k - 1) + 1 = k
      /\ 0 \in 0 .. m - 1 /\ 0 + 1 = 1
  BY <1>0
<1>2. /\ item \in Cells /\ q[k - 1] \in Cells /\ q[1] \in Cells
      /\ item # Dummy /\ q[k - 1] # Dummy /\ q[1] # Dummy /\ item # q[k - 1] /\ item # q[1]
  <2>1. item \in Linked(c) /\ q[k - 1] \in Linked(c) /\ q[1] \in Linked(c)
    BY <1>0, <1>1
  <2>2. q[k] # q[0] /\ q[k - 1] # q[0] /\ q[1] # q[0] /\ q[k] # q[k - 1] /\ q[k] # q[1]
    BY <1>1 DEF Row
  <2> QED BY <1>0, <2>1, <2>2
<1>3. c.prev[item] = q[k - 1] /\ c.next[q[k - 1]] = item
  BY <1>1 DEF Row
<1>4. c.next[Dummy] = q[1]
  BY <1>0, <1>1 DEF Row
<1>5. c = Of(c.next, c.prev, c.tail)
  BY DEF Cache
<1>6. detachNext(c, item) = Of(n1, c.prev, c.tail)
  <2>1. detachNext(c, item) = [c EXCEPT !.next = n1]
    BY <1>0, <1>2, <1>3 DEF detachNext, setNext
  <2> HIDE DEF n1
  <2> QED BY <1>5, <2>1
<1>7. n1 \in [Cells -> Pointers] /\ n1[item] = after /\ n1[Dummy] = q[1]
      /\ after \in Pointers
  BY <1>0, <1>2, <1>4
<1>8. Bypassed(c, item) = Of(n1, p1, c.tail)
  <2> DEFINE d == Of(n1, c.prev, c.tail)
  <2>1. d.next = n1 /\ d.prev = c.prev
    OBVIOUS
  <2> HIDE DEF n1
  <2>2. Bypassed(c, item) = IF after # NULL THEN detachPrev(d, item) ELSE d
    BY <1>6, <1>7, <2>1 DEF Bypassed
  <2>3. CASE after = NULL
    BY <2>2, <2>3
  <2>4. CASE after # NULL
    <3>1. detachPrev(d, item) = [d EXCEPT !.prev = [c.prev EXCEPT ![after] = q[k - 1]]]
      BY <1>3, <1>7, <2>1 DEF detachPrev, setPrev
    <3>2. p1 = [c.prev EXCEPT ![after] = q[k - 1]]
      BY <2>4
    <3> HIDE DEF p1
    <3>3. detachPrev(d, item) = [d EXCEPT !.prev = p1]
      BY <3>1, <3>2
    <3> QED BY <2>2, <2>4, <3>3
  <2> QED BY <2>3, <2>4
<1>9. p1 \in [Cells -> Pointers] /\ p1[item] = q[k - 1]
  <2>1. CASE after = NULL
    BY <1>0, <1>3, <2>1
  <2>2. CASE after # NULL
    <3>1. after # item
      <4>1. CASE k = m
        BY <2>2, <4>1 DEF Row
      <4>2. CASE k # m
        <5>1. k \in 0 .. m - 1 /\ k + 1 \in 0 .. m /\ k + 1 # k
          BY <1>0, <4>2
        <5>2. c.next[q[k]] = q[k + 1] /\ q[k + 1] # q[k]
          BY <1>1, <5>1 DEF Row
        <5> QED BY <5>2
      <4> QED BY <4>1, <4>2
    <3>2. p1 = [c.prev EXCEPT ![after] = q[k - 1]]
      BY <2>2
    <3>3. q[k - 1] \in Pointers /\ item \in Cells
      BY <1>2 DEF Pointers
    <3> HIDE DEF after, p1, item
    <3> QED BY <1>0, <1>3, <3>1, <3>2, <3>3
  <2> QED BY <2>1, <2>2
<1> HIDE DEF n1, p1
<1>10. Detached(c, item) = Of(n1, p1, tl)
  <2> DEFINE d == Of(n1, p1, c.tail)
  <2>1. d.tail = c.tail /\ d.prev = p1
    OBVIOUS
  <2>2. leaveTail(d, item) = IF item = c.tail THEN [d EXCEPT !.tail = q[k - 1]] ELSE d
    BY <1>9, <2>1 DEF leaveTail, setTail
  <2> QED BY <1>8, <2>2 DEF Detached
<1> HIDE DEF tl
<1>11. linkNext(Detached(c, item), item) = Of(n2, p1, tl)
  <2> DEFINE d == Of(n1, p1, tl)
  <2>1. d.next = n1
    OBVIOUS
  <2>2. linkNext(d, item) = [d EXCEPT !.next = n2]
    BY <1>7, <2>1 DEF linkNext, setNext
  <2> HIDE DEF n2
  <2> QED BY <1>10, <2>2
<1>12. Aimed(c, item) = Of(n2, p2, tl)
  <2> DEFINE d == Of(n2, p1, tl)
  <2>1. d.prev = p1
    OBVIOUS
  <2>2. linkPrev(d, item) = [d EXCEPT !.prev = p2]
    BY <2>1 DEF linkPrev, setPrev
  <2> HIDE DEF n2, p2
  <2> QED BY <1>11, <2>2 DEF Aimed
<1>13. n2[Dummy] = q[1] /\ q[1] # NULL
  BY <1>0, <1>2, <1>7
<1>14. Hooked(c, item) = Of(n2, p3, tl)
  <2> DEFINE d == Of(n2, p2, tl)
  <2>1. d.next = n2 /\ d.prev = p2
    OBVIOUS
  <2> HIDE DEF n2
  <2>2. Hooked(c, item) = linkOld(d, item)
    BY <1>12, <1>13, <2>1 DEF Hooked
  <2>3. linkOld(d, item) = [d EXCEPT !.prev = p3]
    BY <1>13, <2>1 DEF linkOld, setPrev
  <2> HIDE DEF p2, p3
  <2> QED BY <2>2, <2>3
<1>15. linkHead(Hooked(c, item), item) = Of(n3, p3, tl)
  <2> DEFINE d == Of(n2, p3, tl)
  <2>1. d.next = n2
    OBVIOUS
  <2>2. linkHead(d, item) = [d EXCEPT !.next = n3]
    BY <2>1 DEF linkHead, setNext
  <2> HIDE DEF n2, n3, p3
  <2> QED BY <1>14, <2>2
<1>16. tl # Dummy
  <2>1. item = c.tail \/ c.tail # Dummy
    <3>1. m # 0
      BY <1>0
    <3>2. q[m] # q[0]
      BY <1>1, <3>1 DEF Row
    <3> QED BY <1>0, <3>2
  <2> QED BY <1>2, <2>1 DEF tl
<1>17. Moved(c, item) = Of(n3, p3, tl)
  <2> DEFINE d == Of(n3, p3, tl)
  <2>1. d.tail = tl
    OBVIOUS
  <2>2. takeTail(d, item) = d
    BY <1>16, <2>1 DEF takeTail, setTail
  <2> HIDE DEF n3, p3
  <2> QED BY <1>15, <2>2 DEF Moved
<1>18. /\ NextIs(detachNext(c, item), c, n1) /\ NextIs(Bypassed(c, item), c, n1)
       /\ NextIs(Detached(c, item), c, n1)
  <2> HIDE DEF item
  <2> QED BY <1>6, <1>8, <1>10 DEF NextIs
<1>19. /\ NextIs(linkNext(Detached(c, item), item), c, n2) /\ NextIs(Aimed(c, item), c, n2)
       /\ NextIs(Hooked(c, item), c, n2)
  <2> HIDE DEF item, n2, p2, p3
  <2> QED BY <1>11, <1>12, <1>14 DEF NextIs
<1>20. NextIs(linkHead(Hooked(c, item), item), c, n3)
  <2> HIDE DEF item, n3, p3
  <2> QED BY <1>15 DEF NextIs
<1>21. n1 = Bypass(c, q, k)
  BY DEF n1, Bypass
<1>22. n2 = Aim(c, q, k) /\ n3 = [Aim(c, q, k) EXCEPT ![Dummy] = q[k]]
  BY <1>21 DEF Aim
<1>23. /\ \A d \in {detachNext(c, item), Bypassed(c, item), Detached(c, item)} :
              NextIs(d, c, Bypass(c, q, k))
       /\ \A d \in {linkNext(Detached(c, item), item), Aimed(c, item), Hooked(c, item)} :
              NextIs(d, c, Aim(c, q, k))
       /\ NextIs(linkHead(Hooked(c, item), item), c, [Aim(c, q, k) EXCEPT ![Dummy] = item])
  <2> HIDE DEF item, n2, n3
  <2> QED BY <1>18, <1>19, <1>20, <1>21, <1>22 DEF item
<1>24. Moved(c, item) = Of(n3, p3, tl)
  BY <1>17
<1>25. Of(n3, p3, tl) = Of([Aim(c, q, k) EXCEPT ![Dummy] = q[k]],
                           [[p1 EXCEPT ![item] = Dummy] EXCEPT ![q[1]] = item], tl)
  BY <1>22
<1>26. NextIs(Moved(c, item), c, [Aim(c, q, k) EXCEPT ![Dummy] = item])
  <2> HIDE DEF n3, p3
  <2>1. NextIs(Moved(c, item), c, n3)
    BY <1>17 DEF NextIs
  <2> QED BY <1>22, <2>1
<1> QED BY <1>23, <1>24, <1>25, <1>26 DEF p1, tl

(* The row afterwards.                                                      *)
Hoisted(m, q, k) ==
    [i \in 0 .. m |-> q[IF i = 0 THEN 0 ELSE IF i = 1 THEN k ELSE IF i <= k THEN i - 1 ELSE i]]

(* moveToFront as a whole makes the hoisted row and changes no item.        *)
LEMMA MovedRow ==
    ASSUME NEW c \in Cache, NEW m, NEW q, Row(c, m, q), NEW k \in 2 .. m
    PROVE  LET d == Moved(c, q[k]) IN
           /\ Row(d, m, Hoisted(m, q, k))
           /\ d.used = c.used /\ d.size = c.size /\ d.url = c.url /\ d.totalSize = c.totalSize
<1> DEFINE item == q[k]
           d == Moved(c, item)
           after == c.next[item]
<1>0. /\ c.next \in [Cells -> Pointers] /\ c.prev \in [Cells -> Pointers]
      /\ c.used \subseteq Cells /\ Linked(c) \subseteq Cells
      /\ Dummy \notin c.used /\ NULL \notin Cells /\ Linked(c) = c.used \cup {Dummy}
      /\ Dummy \in Cells
      /\ m \in Nat /\ q \in [0 .. m -> Linked(c)] /\ q[0] = Dummy /\ c.tail = q[m]
      /\ c.next[q[m]] = NULL
  BY CacheFields, CacheAssumption DEF Linked, Cells, Row
<1> DEFINE n1 == [c.next EXCEPT ![q[k - 1]] = after]
           n2 == [n1 EXCEPT ![item] = q[1]]
           n3 == [n2 EXCEPT ![Dummy] = item]
           p1 == IF after = NULL THEN c.prev ELSE [c.prev EXCEPT ![after] = q[k - 1]]
           p2 == [p1 EXCEPT ![item] = Dummy]
           p3 == [p2 EXCEPT ![q[1]] = item]
           tl == IF item = c.tail THEN q[k - 1] ELSE c.tail
<1>3. /\ d.next = n3 /\ d.prev = p3 /\ d.tail = tl /\ d.used = c.used /\ d.size = c.size
      /\ d.url = c.url /\ d.totalSize = c.totalSize
  <2>1. d = [next |-> n3, prev |-> p3, url |-> c.url, size |-> c.size, used |-> c.used,
             tail |-> tl, totalSize |-> c.totalSize]
    <3>1. n3 = [Aim(c, q, k) EXCEPT ![Dummy] = item]
      BY DEF Aim, Bypass
    <3> HIDE DEF n3
    <3>2. d = [next |-> [Aim(c, q, k) EXCEPT ![Dummy] = item], prev |-> p3, url |-> c.url,
               size |-> c.size, used |-> c.used, tail |-> tl, totalSize |-> c.totalSize]
      BY StageFields
    <3> QED BY <3>1, <3>2
  <2> HIDE DEF d, n3, p3, tl
  <2> QED BY <2>1
(* Where in q the cells of the new row come from.                           *)
<1> DEFINE from(i) == IF i = 0 THEN 0 ELSE IF i = 1 THEN k ELSE IF i <= k THEN i - 1 ELSE i
           r == [i \in 0 .. m |-> q[from(i)]]
<1>4. /\ k \in 0 .. m /\ 0 \in 0 .. m /\ 1 \in 0 .. m /\ m \in 0 .. m /\ k - 1 \in 0 .. m
      /\ \A i \in 0 .. m : from(i) \in 0 .. m
      /\ \A i, j \in 0 .. m : from(i) = from(j) => i = j
  BY <1>0
<1>5. \A j \in 0 .. m : \E i \in 0 .. m : from(i) = j
  <2> SUFFICES ASSUME NEW j \in 0 .. m PROVE \E i \in 0 .. m : from(i) = j
    OBVIOUS
  <2>1. CASE j = 0
    BY <1>4, <2>1
  <2>2. CASE j = k
    <3>1. from(1) = j
      BY <2>2
    <3> QED BY <1>4, <3>1
  <2>3. CASE j # 0 /\ j < k
    <3>1. j + 1 \in 0 .. m /\ from(j + 1) = j
      BY <1>0, <2>3
    <3> QED BY <3>1
  <2>4. CASE j > k
    <3>1. from(j) = j
      BY <2>4
    <3> QED BY <3>1
  <2> QED BY <1>0, <2>1, <2>2, <2>3, <2>4
<1>6. \A i \in 0 .. m : r[i] = q[from(i)]
  OBVIOUS
<1>7. Linked(d) = Linked(c)
  BY <1>3 DEF Linked
<1>8. r \in [0 .. m -> Linked(d)]
  BY <1>0, <1>4, <1>7
<1>9. \A i, j \in 0 .. m : q[i] = q[j] => i = j
  BY DEF Row
<1>10. ASSUME NEW x \in Linked(d) PROVE \E i \in 0 .. m : x = r[i]
  <2>1. PICK j \in 0 .. m : x = q[j]
    BY <1>7 DEF Row
  <2>2. PICK i \in 0 .. m : from(i) = j
    BY <1>5
  <2> QED BY <1>6, <2>1, <2>2
<1>11. ASSUME NEW i \in 0 .. m, NEW j \in 0 .. m, r[i] = r[j] PROVE i = j
  <2> HIDE DEF r, from
  <2> QED BY <1>4, <1>6, <1>9, <1>11
<1> HIDE DEF r
<1>12. ASSUME NEW i \in 0 .. m - 1
       PROVE  c.next[q[i]] = q[i + 1] /\ c.prev[q[i + 1]] = q[i]
              /\ i \in 0 .. m /\ i + 1 \in 0 .. m /\ q[i] \in Cells /\ q[i + 1] \in Cells
  <2>1. i \in 0 .. m /\ i + 1 \in 0 .. m
    BY <1>0
  <2> QED BY <1>0, <2>1 DEF Row
<1>13. /\ \A x \in Cells : n3[x] = IF x = Dummy THEN item ELSE IF x = item THEN q[1]
                                  ELSE IF x = q[k - 1] THEN after ELSE c.next[x]
       /\ \A x \in Cells : p3[x] = IF x = q[1] THEN item ELSE IF x = item THEN Dummy
                                  ELSE IF x = after THEN q[k - 1] ELSE c.prev[x]
  <2>1. NULL \notin Cells
    BY <1>0
  <2>2. \A x \in Cells : n3[x] = IF x = Dummy THEN item ELSE IF x = item THEN q[1]
                                ELSE IF x = q[k - 1] THEN after ELSE c.next[x]
    <3>1. DOMAIN n1 = Cells /\ \A x \in Cells : n1[x] = IF x = q[k - 1] THEN after ELSE c.next[x]
      BY <1>0
    <3> HIDE DEF n1
    <3>2. DOMAIN n2 = Cells /\ \A x \in Cells : n2[x] = IF x = item THEN q[1] ELSE n1[x]
      BY <3>1
    <3> HIDE DEF n2
    <3>3. \A x \in Cells : n3[x] = IF x = Dummy THEN item ELSE n2[x]
      BY <3>2
    <3> HIDE DEF n3
    <3> QED BY <3>1, <3>2, <3>3
  <2>3. \A x \in Cells : p1[x] = IF x = after THEN q[k - 1] ELSE c.prev[x]
    BY <1>0
  <2>4. DOMAIN p1 = Cells
    BY <1>0
  <2> HIDE DEF p1
  <2>5. \A x \in Cells : p3[x] = IF x = q[1] THEN item ELSE IF x = item THEN Dummy
                                ELSE p1[x]
    <3>1. DOMAIN p2 = Cells /\ \A x \in Cells : p2[x] = IF x = item THEN Dummy ELSE p1[x]
      BY <2>4
    <3> HIDE DEF p2
    <3>2. \A x \in Cells : p3[x] = IF x = q[1] THEN item ELSE p2[x]
      BY <3>1
    <3> HIDE DEF p3
    <3> QED BY <3>1, <3>2
  <2> HIDE DEF n3, p3
  <2> QED BY <2>2, <2>3, <2>5
<1> HIDE DEF n3, p3
<1>14. k < m => after = q[k + 1]
  <2> SUFFICES ASSUME k < m PROVE after = q[k + 1]
    OBVIOUS
  <2>1. k \in 0 .. m - 1
    BY <1>0
  <2> QED BY <1>12, <2>1
<1>15. k = m => after = NULL
  BY <1>0
<1>16. r[0] = Dummy /\ r[1] = item
  BY <1>0, <1>4, <1>6
<1>17. \A i \in 2 .. k : i \in 0 .. m /\ r[i] = q[i - 1] /\ i - 1 \in 0 .. m
  <2> SUFFICES ASSUME NEW i \in 2 .. k PROVE i \in 0 .. m /\ r[i] = q[i - 1] /\ i - 1 \in 0 .. m
    OBVIOUS
  <2>1. i \in 0 .. m /\ from(i) = i - 1 /\ i - 1 \in 0 .. m
    BY <1>0
  <2> QED BY <1>6, <2>1
<1>18. \A i \in k + 1 .. m : i \in 0 .. m /\ r[i] = q[i]
  <2> SUFFICES ASSUME NEW i \in k + 1 .. m PROVE i \in 0 .. m /\ r[i] = q[i]
    OBVIOUS
  <2>1. i \in 0 .. m /\ from(i) = i
    BY <1>0
  <2> QED BY <1>6, <2>1
<1> HIDE DEF from
<1>19. ASSUME NEW i \in 0 .. m - 1
       PROVE  d.next[r[i]] = r[i + 1] /\ d.prev[r[i + 1]] = r[i]
  <2>1. CASE i = 0
    <3>1. item \in Cells /\ item # q[1] /\ i + 1 = 1
      BY <1>0, <1>4, <1>9, <2>1
    <3> QED BY <1>0, <1>3, <1>13, <1>16, <2>1, <3>1
  <2>2. CASE i = 1
    <3>1. item \in Cells /\ item # Dummy /\ i + 1 = 2 /\ 2 \in 2 .. k /\ 2 - 1 = 1 /\ q[1] \in Cells
      BY <1>0, <1>4, <1>9, <2>2
    <3>2. r[2] = q[1]
      BY <1>17, <3>1
    <3> QED BY <1>3, <1>13, <1>16, <2>2, <3>1, <3>2
  <2>3. CASE i \in 2 .. k - 1
    <3>1. i \in 2 .. k /\ i + 1 \in 2 .. k /\ (i + 1) - 1 = i /\ i - 1 \in 0 .. m - 1 /\ (i - 1) + 1 = i
          /\ i \in 0 .. m /\ i - 1 \in 0 .. m
          /\ i # 1 /\ i # k /\ i - 1 # k - 1 /\ i - 1 # 0 /\ i - 1 # k
      BY <1>0, <2>3
    <3>2. r[i] = q[i - 1] /\ r[i + 1] = q[i]
      BY <1>17, <3>1
    <3>3. c.next[q[i - 1]] = q[i] /\ c.prev[q[i]] = q[i - 1] /\ q[i] \in Cells /\ q[i - 1] \in Cells
      BY <1>12, <3>1
    <3>4. q[i - 1] # Dummy /\ q[i - 1] # item /\ q[i - 1] # q[k - 1] /\ q[i] # q[1] /\ q[i] # item
      BY <1>0, <1>4, <1>9, <3>1
    <3>5. q[i] # after
      <4>1. CASE k < m
        <5>1. k + 1 \in 0 .. m /\ k + 1 # i
          BY <1>0, <2>3, <4>1
        <5> QED BY <1>9, <1>14, <3>1, <4>1, <5>1
      <4>2. CASE k = m
        BY <1>0, <1>15, <3>3, <4>2
      <4> QED BY <1>0, <4>1, <4>2
    <3> QED BY <1>3, <1>13, <3>2, <3>3, <3>4, <3>5
  <2>4. CASE i = k
    <3>1. k \in 2 .. k /\ k + 1 \in k + 1 .. m /\ k + 1 \in 0 .. m /\ k < m /\ k - 1 # 0 /\ k - 1 # k
          /\ k + 1 # 1 /\ k + 1 # k
      BY <1>0, <2>4
    <3>2. r[k] = q[k - 1] /\ r[k + 1] = q[k + 1] /\ after = q[k + 1]
      BY <1>14, <1>17, <1>18, <3>1
    <3>3. q[k - 1] # Dummy /\ q[k - 1] # item /\ q[k + 1] # q[1] /\ q[k + 1] # item
          /\ q[k - 1] \in Cells /\ q[k + 1] \in Cells
      BY <1>0, <1>4, <1>9, <3>1
    <3> QED BY <1>3, <1>13, <2>4, <3>2, <3>3
  <2>5. CASE i \in k + 1 .. m - 1
    <3>1. i \in k + 1 .. m /\ i + 1 \in k + 1 .. m /\ i \in 0 .. m /\ i + 1 \in 0 .. m
          /\ k + 1 \in 0 .. m /\ k < m
          /\ i # 0 /\ i # k /\ i # k - 1 /\ i + 1 # 1 /\ i + 1 # k /\ i + 1 # k + 1
      BY <1>0, <2>5
    <3>2. r[i] = q[i] /\ r[i + 1] = q[i + 1] /\ after = q[k + 1]
      BY <1>14, <1>18, <3>1
    <3>3. c.next[q[i]] = q[i + 1] /\ c.prev[q[i + 1]] = q[i] /\ q[i] \in Cells /\ q[i + 1] \in Cells
      BY <1>12
    <3>4. q[i] # Dummy /\ q[i] # item /\ q[i] # q[k - 1] /\ q[i + 1] # q[1] /\ q[i + 1] # item
          /\ q[i + 1] # q[k + 1]
      BY <1>0, <1>4, <1>9, <3>1
    <3> QED BY <1>3, <1>13, <3>2, <3>3, <3>4
  <2> QED BY <1>0, <2>1, <2>2, <2>3, <2>4, <2>5
<1>20. d.next[r[m]] = NULL /\ d.tail = r[m]
  <2>1. CASE k = m
    <3>1. m \in 2 .. k /\ m - 1 # 0 /\ m - 1 # m /\ m - 1 \in 0 .. m
      BY <1>0, <2>1
    <3>2. r[m] = q[m - 1] /\ q[m - 1] # Dummy /\ q[m - 1] # item /\ q[m - 1] \in Cells
      BY <1>0, <1>4, <1>9, <1>17, <2>1, <3>1
    <3> QED BY <1>0, <1>3, <1>13, <1>15, <2>1, <3>2
  <2>2. CASE k # m
    <3>1. m \in k + 1 .. m /\ m # 0 /\ m # k /\ m # k - 1
      BY <1>0, <2>2
    <3>2. r[m] = q[m] /\ q[m] # Dummy /\ q[m] # item /\ q[m] # q[k - 1] /\ q[m] \in Cells
      BY <1>0, <1>4, <1>9, <1>18, <3>1
    <3> QED BY <1>0, <1>3, <1>13, <3>2
  <2> QED BY <2>1, <2>2
<1> HIDE DEF d
<1>21. Row(d, m, r)
  BY <1>0, <1>8, <1>10, <1>11, <1>16, <1>19, <1>20 DEF Row
<1>22. r = Hoisted(m, q, k)
  BY DEF r, from, Hoisted
<1>23. d.used = c.used /\ d.size = c.size /\ d.url = c.url /\ d.totalSize = c.totalSize
  BY <1>3
<1> QED BY <1>21, <1>22, <1>23 DEF d

(* An item that a thread moves to the front alone leaves a sound list.      *)
LEMMA MovedSound ==
    ASSUME NEW c \in Cache, Sound(c), NEW item \in c.used, item # c.next[Dummy]
    PROVE  Sound(Moved(c, item))
<1>1. PICK m, q : Row(c, m, q)
  BY DEF Sound
<1>2. PICK k \in 1 .. m : item = q[k]
  BY <1>1, RowPlace
<1>3. k \in 2 .. m
  <2>1. k # 1
    <3> SUFFICES ASSUME k = 1 PROVE FALSE
      OBVIOUS
    <3>1. 0 \in 0 .. m - 1 /\ 0 + 1 = 1
      BY <1>1, <1>2 DEF Row
    <3> QED BY <1>1, <1>2, <3>1 DEF Row
  <2> QED BY <1>1, <1>2, <2>1 DEF Row
<1> DEFINE d == Moved(c, item)
<1>4. Row(d, m, Hoisted(m, q, k)) /\ d.used = c.used /\ d.size = c.size /\ d.totalSize = c.totalSize
  BY <1>1, <1>2, <1>3, MovedRow
<1> HIDE DEF d
<1>5. d.totalSize = TotalOf(d) /\ d.totalSize <= MAX_CACHE_SIZE
  BY <1>4, SumOfSizes DEF Sound
<1>6. Sound(d)
  BY <1>4, <1>5 DEF Sound
<1> QED BY <1>6 DEF d

-----------------------------------------------------------------------------
(* Only hits that race damage the list: with no thread that has hit, it is  *)
(* sound; with one, it is what that thread's moveToFront has made so far of *)
(* a sound list.  The read lock keeps writers away meanwhile, and a thread  *)
(* that has hit stays among the hits.                                       *)
Stages == MovePCs \ {"front"}

(* The list d and the registers r of a thread that moves the item, at each  *)
(* place of moveToFront, when the list was c before.                        *)
Course(c, item, here, r, d) ==
    /\ Sound(c) /\ item \in c.used /\ item # c.next[Dummy]
    /\ here \in {"get prev", "get next", "detach next"} => d = c
    /\ here \in {"get next", "detach next"} => r.cell = c.prev[item]
    /\ here = "detach next" => r.value = c.next[item]
    /\ here \in {"test next", "get second", "get before", "detach prev"} =>
           d = detachNext(c, item)
    /\ here \in {"get second", "get before", "detach prev"} => d.next[item] # NULL
    /\ here \in {"get before", "detach prev"} => r.cell = d.next[item]
    /\ here = "detach prev" => r.value = d.prev[item]
    /\ here \in {"test tail", "get last", "leave tail"} => d = Bypassed(c, item)
    /\ here \in {"get last", "leave tail"} => item = d.tail
    /\ here = "leave tail" => r.value = d.prev[item]
    /\ here \in {"get first", "link next"} => d = Detached(c, item)
    /\ here = "link next" => r.value = d.next[Dummy]
    /\ here = "link prev" => d = linkNext(Detached(c, item), item)
    /\ here \in {"test head", "get old", "link old"} => d = Aimed(c, item)
    /\ here \in {"get old", "link old"} => d.next[Dummy] # NULL
    /\ here = "link old" => r.cell = d.next[Dummy]
    /\ here = "link head" => d = Hooked(c, item)
    /\ here \in {"test empty", "take tail"} => d = linkHead(Hooked(c, item), item)
    /\ here = "take tail" => d.tail = Dummy

Midway(t, c) == Course(c, at[t], pc[t], reg[t], cache)

(* It depends on the thread's own place, item and registers and on the list.*)
LEMMA MidwayKept ==
    ASSUME NEW t, NEW c, cache' = cache, pc'[t] = pc[t], at'[t] = at[t], reg'[t] = reg[t],
           Midway(t, c)
    PROVE  Midway(t, c)'
BY DEF Midway

OneHit(t) ==
    /\ pc[t] \in Stages => \E c \in Cache : Midway(t, c)
    /\ pc[t] \notin Stages => Sound(cache)

SoundInv ==
    /\ Inv /\ IsFiniteSet(readers)
    /\ Hits = {} => Sound(cache)
    /\ \A t \in Threads : Hits = {t} => OneHit(t)

(* Nothing has hit yet, and the empty list is sound.                        *)
LEMMA SoundInit == Init => SoundInv
<1> SUFFICES ASSUME Init PROVE SoundInv
  OBVIOUS
<1>1. Inv /\ readers = {} /\ cache = initCache
  BY Initially DEF Init
<1>2. Hits = {} /\ IsFiniteSet(readers)
  BY <1>1, FS_EmptySet DEF Hits
<1> QED BY <1>1, <1>2, InitSound DEF SoundInv

(* A step that leaves the list alone, made by a thread that is not in the   *)
(* middle of a move.                                                        *)
LEMMA QuietStep ==
    ASSUME SoundInv, Inv', cache' = cache, reg' = reg, NEW t \in Threads, pc[t] \notin Stages,
           pc'[t] \notin Stages, t \in Hits => t \in Hits',
           readers' \subseteq readers \cup {t},
           \A s \in Threads \ {t} : /\ pc'[s] = pc[s] /\ at'[s] = at[s]
                                    /\ s \in readers' <=> s \in readers
    PROVE  SoundInv'
<1>0. /\ Inv /\ IsFiniteSet(readers) /\ readers \subseteq Threads /\ readers' \subseteq Threads
      /\ Hits = {} => Sound(cache)
      /\ \A s \in Threads : Hits = {s} => OneHit(s)
  BY DEF SoundInv, Inv, TypeOK
<1>1. IsFiniteSet(readers')
  <2>1. IsFiniteSet(readers \cup {t})
    BY <1>0, FS_AddElement
  <2> QED BY <2>1, FS_Subset
<1>2. \A s \in Threads \ {t} : s \in Hits' <=> s \in Hits
  BY DEF Hits
<1>3. Hits \subseteq Hits' /\ Hits' \subseteq Threads
  BY <1>0, <1>2 DEF Hits
<1>4. Hits' = {} => Sound(cache')
  BY <1>0, <1>3
<1>5. ASSUME NEW s \in Threads, Hits' = {s} PROVE OneHit(s)'
  <2>1. CASE s = t
    <3>1. Hits = {} \/ Hits = {t}
      BY <1>3, <1>5, <2>1
    <3>2. Sound(cache)
      BY <1>0, <3>1 DEF OneHit
    <3> QED BY <2>1, <3>2 DEF OneHit, Stages, MovePCs
  <2>2. CASE s # t
    <3>1. Hits = {s}
      BY <1>2, <1>3, <1>5, <2>2
    <3>2. OneHit(s) /\ pc'[s] = pc[s] /\ at'[s] = at[s]
      BY <1>0, <2>2, <3>1
    <3>3. \A c : Midway(s, c) => Midway(s, c)'
      BY <3>2, MidwayKept
    <3>4. Stages' = Stages /\ Cache' = Cache
      BY DEF Stages, MovePCs, Cache
    <3> QED BY <3>2, <3>3, <3>4 DEF OneHit
  <2> QED BY <2>1, <2>2
<1> QED BY <1>1, <1>4, <1>5 DEF SoundInv

(* The steps that leave the list alone.                                     *)
LEMMA QuietSteps ==
    ASSUME SoundInv, Inv', NEW t \in Threads,
           \/ Accept(t) \/ RefuseRequest(t) \/ GetRequest(t) \/ ReadLock(t) \/ Walk(t)
           \/ NotFound(t) \/ WriteCached(t) \/ Connect(t) \/ Relay(t) \/ RelayOnly(t)
           \/ WriteLock(t) \/ RefuseItem(t) \/ Close(t)
    PROVE  SoundInv'
<1>0. /\ pc \in [Threads -> PCs] /\ at \in [Threads -> Pointers] /\ readers \subseteq Threads
      /\ \A s \in readers : pc[s] \in ReaderPCs \cup {"ended"}
  BY DEF SoundInv, Inv, TypeOK, LockOK
<1>1. cache' = cache /\ reg' = reg
  BY DEF Accept, RefuseRequest, GetRequest, ReadLock, Walk, NotFound, WriteCached, Connect,
         Relay, RelayOnly, WriteLock, RefuseItem, Close
<1>2. CASE ReadLock(t) \/ Walk(t) \/ NotFound(t)
  <2>1. /\ pc[t] \in {"rdlock", "walk"} /\ pc'[t] \in {"walk", "front", "connect"}
        /\ readers' \subseteq readers \cup {t}
        /\ \A s \in Threads \ {t} : /\ pc'[s] = pc[s] /\ at'[s] = at[s]
                                    /\ s \in readers' <=> s \in readers
    <3>1. CASE ReadLock(t)
      BY <1>0, <3>1 DEF ReadLock, At, Goto
    <3>2. CASE Walk(t)
      BY <1>0, <3>2 DEF Walk, At, Goto, lock
    <3>3. CASE NotFound(t)
      BY <1>0, <3>3 DEF NotFound, At, Goto
    <3> QED BY <1>2, <3>1, <3>2, <3>3
  <2>2. t \notin Hits
    BY <1>0, <2>1 DEF Hits, ReaderPCs, MovePCs
  <2>3. pc[t] \notin Stages /\ pc'[t] \notin Stages
    BY <2>1 DEF Stages, MovePCs
  <2> QED BY <1>1, <2>1, <2>2, <2>3, QuietStep
<1>3. CASE ~(ReadLock(t) \/ Walk(t) \/ NotFound(t))
  <2>1. /\ pc[t] \in PCs \ (MovePCs \cup {"walk"}) /\ pc'[t] \notin MovePCs \cup {"walk"}
        /\ readers' = readers /\ at' = at /\ \A s \in Threads \ {t} : pc'[s] = pc[s]
    <3>1. CASE Accept(t) \/ RefuseRequest(t) \/ GetRequest(t)
      BY <1>0, <3>1 DEF Accept, RefuseRequest, GetRequest, At, Goto, lock, MovePCs
    <3>2. CASE WriteCached(t) \/ Connect(t) \/ Relay(t) \/ RelayOnly(t)
      BY <1>0, <3>2 DEF WriteCached, Connect, Relay, RelayOnly, At, Goto, lock, MovePCs
    <3>3. CASE WriteLock(t) \/ RefuseItem(t) \/ Close(t)
      BY <1>0, <3>3 DEF WriteLock, RefuseItem, Close, At, Goto, lock, MovePCs
    <3> QED BY <1>3, <3>1, <3>2, <3>3
  <2>2. t \in Hits => t \in Hits'
    BY <2>1 DEF Hits
  <2>3. pc[t] \notin Stages /\ pc'[t] \notin Stages
    BY <2>1 DEF Stages
  <2> QED BY <1>1, <2>1, <2>2, <2>3, QuietStep
<1> QED BY <1>2, <1>3

(* One step of moveToFront.                                                 *)
LEMMA MidwayStep ==
    ASSUME NEW t \in Threads, NEW c \in Cache, Midway(t, c), pc[t] \in Stages, MoveToFront(t),
           pc \in [Threads -> PCs], reg \in [Threads -> [cell : Pointers, value : Pointers]]
    PROVE  /\ pc'[t] \in Stages => Midway(t, c)'
           /\ pc'[t] \notin Stages => cache' = Moved(c, at[t])
<1> DEFINE item == at[t]
<1>0. Sound(c) /\ item \in c.used /\ item # c.next[Dummy] /\ at' = at /\ at'[t] = item
  BY MoveFrame DEF Midway, Course
<1>1. c.prev[item] # NULL
  <2>1. DoublyLinked(c)
    BY <1>0, RowLinked DEF Sound
  <2>2. c.prev[item] \in Linked(c)
    BY <1>0, <2>1 DEF DoublyLinked, Closed
  <2> QED BY <2>2, CacheFields, CacheAssumption DEF Cells
<1>2. ASSUME NEW here, NEW p, NEW next, Load(t, here, Cell(p), next)
      PROVE  pc[t] = here /\ pc'[t] = next /\ cache' = cache /\ reg'[t].cell = p
  BY <1>2 DEF Load, Cell, At, Goto
<1>3. ASSUME NEW here, NEW p, NEW next, Load(t, here, Value(t, p), next)
      PROVE  /\ pc[t] = here /\ pc'[t] = next /\ cache' = cache
             /\ reg'[t].value = p /\ reg'[t].cell = reg[t].cell
  <2>1. reg[t] \in [cell : Pointers, value : Pointers] /\ reg'[t] = [reg[t] EXCEPT !.value = p]
    BY <1>3 DEF Load, Value
  <2> QED BY <1>3, <2>1 DEF Load, At, Goto
<1>4. ASSUME NEW here, NEW d, NEW next, Store(t, here, d, next)
      PROVE  pc[t] = here /\ pc'[t] = next /\ cache' = d
  BY <1>4 DEF Store, At, Goto
<1>5. ASSUME NEW here, NEW yes, NEW then, NEW else, Test(t, here, yes, then, else)
      PROVE  pc[t] = here /\ cache' = cache /\ pc'[t] = IF yes THEN then ELSE else
  BY <1>5 DEF Test, At, Goto
<1> HIDE DEF item
<1>6. CASE Detach(t, item)
  <2>1. CASE Load(t, "get prev", Cell(cache.prev[item]),
                  IF cache.prev[item] # NULL THEN "get next" ELSE "test next")
    <3>1. pc'[t] = "get next" /\ cache' = c /\ reg'[t].cell = c.prev[item]
      BY <1>1, <1>2, <2>1 DEF Midway, Course, item
    <3> QED BY <1>0, <3>1 DEF Midway, Course, Stages, MovePCs
  <2>2. CASE Load(t, "get next", Value(t, cache.next[item]), "detach next")
    <3>1. /\ pc'[t] = "detach next" /\ cache' = c /\ reg'[t].cell = c.prev[item]
          /\ reg'[t].value = c.next[item]
      BY <1>3, <2>2 DEF Midway, Course, item
    <3> QED BY <1>0, <3>1 DEF Midway, Course, Stages, MovePCs
  <2>3. CASE Store(t, "detach next", setNext(cache, reg[t].cell, reg[t].value), "test next")
    <3>1. pc'[t] = "test next" /\ cache' = detachNext(c, item)
      BY <1>4, <2>3 DEF Midway, Course, detachNext, item
    <3> QED BY <1>0, <3>1 DEF Midway, Course, Stages, MovePCs
  <2>4. CASE Test(t, "test next", cache.next[item] # NULL, "get second", "test tail")
    <3>1. /\ cache' = detachNext(c, item)
          /\ \/ pc'[t] = "get second" /\ cache'.next[item] # NULL
             \/ pc'[t] = "test tail" /\ cache' = Bypassed(c, item)
      <4>1. /\ cache = detachNext(c, item) /\ cache' = cache
            /\ pc'[t] = IF cache.next[item] # NULL THEN "get second" ELSE "test tail"
        BY <1>5, <2>4 DEF Midway, Course, item
      <4>2. cache.next[item] = NULL => cache = Bypassed(c, item)
        BY <4>1 DEF Bypassed
      <4> QED BY <4>1, <4>2
    <3> QED BY <1>0, <3>1 DEF Midway, Course, Stages, MovePCs
  <2>5. CASE Load(t, "get second", Cell(cache.next[item]), "get before")
    <3>1. /\ pc'[t] = "get before" /\ cache' = detachNext(c, item) /\ cache'.next[item] # NULL
          /\ reg'[t].cell = cache'.next[item]
      BY <1>2, <2>5 DEF Midway, Course, item
    <3> QED BY <1>0, <3>1 DEF Midway, Course, Stages, MovePCs
  <2>6. CASE Load(t, "get before", Value(t, cache.prev[item]), "detach prev")
    <3>1. /\ pc'[t] = "detach prev" /\ cache' = detachNext(c, item) /\ cache'.next[item] # NULL
          /\ reg'[t].cell = cache'.next[item] /\ reg'[t].value = cache'.prev[item]
      BY <1>3, <2>6 DEF Midway, Course, item
    <3> QED BY <1>0, <3>1 DEF Midway, Course, Stages, MovePCs
  <2>7. CASE reg[t].cell # NULL
             /\ Store(t, "detach prev", setPrev(cache, reg[t].cell, reg[t].value), "test tail")
    <3>1. pc'[t] = "test tail" /\ cache' = Bypassed(c, item)
      BY <1>4, <2>7 DEF Midway, Course, Bypassed, detachPrev, item
    <3> QED BY <1>0, <3>1 DEF Midway, Course, Stages, MovePCs
  <2> QED BY <1>6, <2>1, <2>2, <2>3, <2>4, <2>5, <2>6, <2>7 DEF Detach, item
<1>7. CASE LeaveTail(t, item)
  <2>1. CASE Test(t, "test tail", item = cache.tail, "get last", "get first")
    <3>1. \/ pc'[t] = "get last" /\ cache' = Bypassed(c, item) /\ item = cache'.tail
          \/ pc'[t] = "get first" /\ cache' = Detached(c, item)
      <4>1. /\ cache = Bypassed(c, item) /\ cache' = cache
            /\ pc'[t] = IF item = cache.tail THEN "get last" ELSE "get first"
        BY <2>1 DEF Test, At, Goto, Midway, Course, item
      <4>2. item # cache.tail => cache = Detached(c, item)
        BY <4>1 DEF Detached, leaveTail
      <4> QED BY <4>1, <4>2
    <3> QED BY <1>0, <3>1 DEF Midway, Course, Stages, MovePCs
  <2>2. CASE Load(t, "get last", Value(t, cache.prev[item]), "leave tail")
    <3>1. /\ pc'[t] = "leave tail" /\ cache' = Bypassed(c, item) /\ item = cache'.tail
          /\ reg'[t].value = cache'.prev[item]
      BY <1>3, <2>2 DEF Midway, Course, item
    <3> QED BY <1>0, <3>1 DEF Midway, Course, Stages, MovePCs
  <2>3. CASE Store(t, "leave tail", setTail(cache, reg[t].value), "get first")
    <3>1. pc'[t] = "get first" /\ cache' = Detached(c, item)
      BY <1>4, <2>3 DEF Midway, Course, Detached, leaveTail, item
    <3> QED BY <1>0, <3>1 DEF Midway, Course, Stages, MovePCs
  <2> QED BY <1>7, <2>1, <2>2, <2>3 DEF LeaveTail, item
<1>8. CASE Attach(t, item)
  <2>1. CASE Load(t, "get first", Value(t, cache.next[Dummy]), "link next")
    <3>1. pc'[t] = "link next" /\ cache' = Detached(c, item) /\ reg'[t].value = cache'.next[Dummy]
      <4>1. /\ cache = Detached(c, item) /\ cache' = cache /\ pc'[t] = "link next"
            /\ reg'[t].value = cache.next[Dummy]
        BY <1>3, <2>1 DEF Midway, Course, item
      <4> QED BY <4>1
    <3> QED BY <1>0, <3>1 DEF Midway, Course, Stages, MovePCs
  <2>2. CASE Store(t, "link next", setNext(cache, item, reg[t].value), "link prev")
    <3>1. pc'[t] = "link prev" /\ cache' = linkNext(Detached(c, item), item)
      BY <1>4, <2>2 DEF Midway, Course, linkNext, item
    <3> QED BY <1>0, <3>1 DEF Midway, Course, Stages, MovePCs
  <2>3. CASE Store(t, "link prev", setPrev(cache, item, Dummy), "test head")
    <3>1. pc'[t] = "test head" /\ cache' = Aimed(c, item)
      BY <1>4, <2>3 DEF Midway, Course, Aimed, linkPrev, item
    <3> QED BY <1>0, <3>1 DEF Midway, Course, Stages, MovePCs
  <2>4. CASE Test(t, "test head", cache.next[Dummy] # NULL, "get old", "link head")
    <3>1. \/ pc'[t] = "get old" /\ cache' = Aimed(c, item) /\ cache'.next[Dummy] # NULL
          \/ pc'[t] = "link head" /\ cache' = Hooked(c, item)
      <4>1. /\ cache = Aimed(c, item) /\ cache' = cache
            /\ pc'[t] = IF cache.next[Dummy] # NULL THEN "get old" ELSE "link head"
        BY <1>5, <2>4 DEF Midway, Course, item
      <4>2. cache.next[Dummy] = NULL => cache = Hooked(c, item)
        BY <4>1 DEF Hooked
      <4> QED BY <4>1, <4>2
    <3> QED BY <1>0, <3>1 DEF Midway, Course, Stages, MovePCs
  <2>5. CASE Load(t, "get old", Cell(cache.next[Dummy]), "link old")
    <3>1. /\ pc'[t] = "link old" /\ cache' = Aimed(c, item) /\ cache'.next[Dummy] # NULL
          /\ reg'[t].cell = cache'.next[Dummy]
      BY <1>2, <2>5 DEF Midway, Course, item
    <3> QED BY <1>0, <3>1 DEF Midway, Course, Stages, MovePCs
  <2>6. CASE reg[t].cell # NULL
             /\ Store(t, "link old", setPrev(cache, reg[t].cell, item), "link head")
    <3>1. pc'[t] = "link head" /\ cache' = Hooked(c, item)
      BY <1>4, <2>6 DEF Midway, Course, Hooked, linkOld, item
    <3> QED BY <1>0, <3>1 DEF Midway, Course, Stages, MovePCs
  <2>7. CASE Store(t, "link head", setNext(cache, Dummy, item), "test empty")
    <3>1. pc'[t] = "test empty" /\ cache' = linkHead(Hooked(c, item), item)
      BY <1>4, <2>7 DEF Midway, Course, linkHead, item
    <3> QED BY <1>0, <3>1 DEF Midway, Course, Stages, MovePCs
  <2> QED BY <1>8, <2>1, <2>2, <2>3, <2>4, <2>5, <2>6, <2>7 DEF Attach, item
<1>9. CASE TakeTail(t, item)
  <2>1. CASE Test(t, "test empty", cache.tail = Dummy, "take tail", "write")
    <3>1. /\ cache' = linkHead(Hooked(c, item), item)
          /\ \/ pc'[t] = "take tail" /\ cache'.tail = Dummy
             \/ pc'[t] = "write" /\ cache' = Moved(c, item)
      BY <1>5, <2>1 DEF Midway, Course, Moved, takeTail, item
    <3> QED BY <1>0, <3>1 DEF Midway, Course, Stages, MovePCs, item
  <2>2. CASE Store(t, "take tail", setTail(cache, item), "write")
    <3>1. pc'[t] = "write" /\ cache' = Moved(c, item)
      BY <1>4, <2>2 DEF Midway, Course, Moved, takeTail, item
    <3> QED BY <3>1 DEF Stages, MovePCs, item
  <2> QED BY <1>9, <2>1, <2>2 DEF TakeTail, item
<1>10. CASE Test(t, "front", item = cache.next[Dummy], "write", "get prev")
  BY <1>10 DEF Test, At, Stages
<1> QED BY <1>6, <1>7, <1>8, <1>9, <1>10 DEF MoveToFront, item

(* At the front, the only test decides.                                     *)
LEMMA MoveBegins ==
    ASSUME NEW t \in Threads, MoveToFront(t), pc[t] = "front"
    PROVE  Test(t, "front", at[t] = cache.next[Dummy], "write", "get prev")
<1>1. CASE Detach(t, at[t])
  BY <1>1 DEF Detach, Test, Load, Store, At
<1>2. CASE LeaveTail(t, at[t]) \/ TakeTail(t, at[t])
  BY <1>2 DEF LeaveTail, TakeTail, Test, Load, Store, At
<1>3. CASE Attach(t, at[t])
  BY <1>3 DEF Attach, Test, Load, Store, At
<1> QED BY <1>1, <1>2, <1>3 DEF MoveToFront

(* A statement of moveToFront by the only hit goes on with the move.        *)
LEMMA MoveKeepsSound ==
    ASSUME SoundInv, Inv', NEW t \in Threads, MoveToFront(t)
    PROVE  SoundInv'
<1>0. /\ Inv /\ IsFiniteSet(readers) /\ readers \subseteq Threads
      /\ \A s \in Threads : Hits = {s} => OneHit(s)
      /\ pc \in [Threads -> PCs] /\ cache \in Cache
      /\ reg \in [Threads -> [cell : Pointers, value : Pointers]]
      /\ pc[t] \in MovePCs /\ t \in readers /\ at[t] \in cache.used
  BY DEF SoundInv, Inv, TypeOK, LockOK, MoveToFront, ReaderPCs, ItemStillThere
<1>1. PICK there \in (MovePCs \cup {"write"}) \ {"front"} : Goto(t, there)
  BY MoveFrame
<1>2. readers' = readers /\ at' = at
  BY MoveFrame
<1>3. pc'[t] # "walk" /\ pc[t] # "walk" /\ \A s \in Threads \ {t} : pc'[s] = pc[s]
  BY <1>0, <1>1 DEF Goto, MovePCs
<1>4. Hits' = Hits /\ t \in Hits
  <2>1. \A s \in Threads : pc'[s] # "walk" <=> pc[s] # "walk"
    BY <1>3
  <2> QED BY <1>0, <1>2, <1>3, <2>1 DEF Hits
<1>5. ASSUME Hits = {t} PROVE OneHit(t)'
  <2>1. OneHit(t)
    BY <1>0, <1>5
  <2>2. CASE pc[t] \in Stages
    <3>1. PICK c \in Cache : Midway(t, c)
      BY <2>1, <2>2 DEF OneHit
    <3>2. /\ pc'[t] \in Stages => Midway(t, c)'
          /\ pc'[t] \notin Stages => cache' = Moved(c, at[t])
      BY <1>0, <2>2, <3>1, MidwayStep
    <3>3. Sound(Moved(c, at[t]))
      BY <3>1, MovedSound DEF Midway, Course
    <3>4. Stages' = Stages /\ Cache' = Cache
      BY DEF Stages, MovePCs, Cache
    <3>5. pc'[t] \in Stages => \E d \in Cache : Midway(t, d)'
      BY <3>2
    <3> QED BY <3>2, <3>3, <3>4, <3>5 DEF OneHit
  <2>3. CASE pc[t] \notin Stages
    <3>1. pc[t] = "front" /\ Sound(cache)
      BY <1>0, <2>1, <2>3 DEF OneHit, Stages
    <3>2. Test(t, "front", at[t] = cache.next[Dummy], "write", "get prev")
      BY <3>1, MoveBegins
    <3>3. CASE at[t] = cache.next[Dummy]
      <4>1. pc'[t] = "write" /\ cache' = cache
        BY <1>0, <3>2, <3>3 DEF Test, Goto
      <4> QED BY <3>1, <4>1 DEF OneHit, Stages, MovePCs
    <3>4. CASE at[t] # cache.next[Dummy]
      <4>1. pc'[t] = "get prev" /\ cache' = cache
        BY <1>0, <3>2, <3>4 DEF Test, Goto
      <4>2. Midway(t, cache)'
        BY <1>0, <1>2, <3>1, <3>4, <4>1 DEF Midway, Course
      <4>3. Cache' = Cache /\ cache' \in Cache
        BY <1>0, <4>1 DEF Cache
      <4>4. (\E c \in Cache : Midway(t, c))'
        BY <4>2, <4>3
      <4> QED BY <4>1, <4>4 DEF OneHit, Stages, MovePCs
    <3> QED BY <3>3, <3>4
  <2> QED BY <2>2, <2>3
<1>6. \A s \in Threads : Hits' = {s} => s = t /\ Hits = {t}
  BY <1>4
<1> QED BY <1>0, <1>2, <1>4, <1>5, <1>6 DEF SoundInv

(* A writer comes when there is no hit, and leaves the list sound.          *)
LEMMA WriterKeepsSound ==
    ASSUME SoundInv, Inv', NEW t \in Threads, Evict(t) \/ Insert(t)
    PROVE  SoundInv'
<1>1. /\ readers = {} /\ readers' = readers /\ IsFiniteSet(readers)
      /\ cache \in Cache /\ response[t] \in Nat /\ key[t] \in Urls \cup {NULL}
  BY ProxyAssumption DEF Evict, Insert, At, SoundInv, Inv, LockOK, TypeOK, WriterPCs, lock
<1>2. Hits = {} /\ Hits' = {}
  BY <1>1 DEF Hits
<1>3. Sound(cache)
  BY <1>2 DEF SoundInv
<1>4. Sound(cache')
  <2>1. CASE Evict(t)
    BY <1>1, <1>3, <2>1, RemoveSound DEF Evict
  <2>2. CASE Insert(t)
    <3>1. PICK n \in Nodes \ cache.used, u \in {key[t]} \cup {w \in {NULL} : MallocFails} :
              cache' = insertItem(cache, n, u, response[t])
      BY <2>2 DEF Insert
    <3>2. u \in Urls \cup {NULL} /\ cache.totalSize + response[t] <= MAX_CACHE_SIZE
      BY <1>1, <2>2, <3>1 DEF Insert, Fits
    <3> QED BY <1>1, <1>3, <3>1, <3>2, InsertSound
  <2> QED BY <2>1, <2>2
<1> QED BY <1>1, <1>2, <1>4 DEF SoundInv

(* Every step keeps the list sound but for hits that race.                  *)
LEMMA SoundStep == SoundInv /\ [Next]_vars => SoundInv'
<1> SUFFICES ASSUME SoundInv, [Next]_vars PROVE SoundInv'
  OBVIOUS
<1>1. Inv'
  BY InvariantStep DEF SoundInv
<1>2. ASSUME UNCHANGED <<cache, pc, at, reg, readers>> PROVE SoundInv'
  <2>1. Hits' = Hits
    BY <1>2 DEF Hits
  <2>2. \A t \in Threads : OneHit(t) => OneHit(t)'
    <3> SUFFICES ASSUME NEW t \in Threads, OneHit(t) PROVE OneHit(t)'
      OBVIOUS
    <3>1. ASSUME NEW c, Midway(t, c) PROVE Midway(t, c)'
      BY <1>2, <3>1, MidwayKept
    <3>2. Stages' = Stages /\ Cache' = Cache
      BY DEF Stages, MovePCs, Cache
    <3>3. pc'[t] = pc[t] /\ cache' = cache
      BY <1>2
    <3>4. CASE pc[t] \in Stages
      <4>1. PICK c \in Cache : Midway(t, c)
        BY <3>4 DEF OneHit
      <4>2. Midway(t, c)'
        BY <3>1, <4>1
      <4> QED BY <3>2, <3>3, <3>4, <4>2 DEF OneHit
    <3>5. CASE pc[t] \notin Stages
      BY <3>2, <3>3, <3>5 DEF OneHit
    <3> QED BY <3>4, <3>5
  <2> QED BY <1>1, <1>2, <2>1, <2>2 DEF SoundInv
<1>3. ASSUME NEW t \in Threads, AcceptFails(t) \/ NetworkError(t) \/ NullAccess(t) \/ Overlong(t)
      PROVE  SoundInv'
  BY <1>2, <1>3 DEF AcceptFails, NetworkError, NullAccess, Overlong, lock
<1>4. ASSUME NEW t \in Threads, Accept(t) \/ AcceptFails(t) \/ Step(t) \/ NetworkError(t) \/ Overlong(t)
      PROVE  SoundInv'
  BY <1>1, <1>3, <1>4, QuietSteps, MoveKeepsSound, WriterKeepsSound DEF Step
<1>5. CASE UNCHANGED vars
  BY <1>2, <1>5 DEF vars, lock
<1> QED BY <1>4, <1>5 DEF Next

(* The cache list stays whole unless two hits overlap: with one hit at most *)
(* among the threads, whatever the others walk, insert or evict, the chain  *)
(* from the head holds every item once, neighbours and tail agree, and      *)
(* totalSize is the sum of the sizes and within MAX_CACHE_SIZE.             *)
THEOREM ListWhole == Spec => []SoundUnlessHitsRace
<1>1. SoundInv => SoundUnlessHitsRace
  <2> SUFFICES ASSUME SoundInv, Moving = {}, Cardinality(Hits) <= 1 PROVE WellFormed(cache)
    BY DEF SoundUnlessHitsRace
  <2>1. IsFiniteSet(readers) /\ readers \subseteq Threads /\ cache \in Cache
    BY DEF SoundInv, Inv, TypeOK
  <2>2. IsFiniteSet(Hits) /\ Hits \subseteq Threads
    BY <2>1, FS_Subset DEF Hits
  <2>3. Hits = {} \/ \E t \in Threads : Hits = {t}
    <3>1. Cardinality(Hits) = 0 \/ Cardinality(Hits) = 1
      BY <2>2, FS_CardinalityType
    <3>2. Cardinality(Hits) = 0 => Hits = {}
      BY <2>2, FS_EmptySet
    <3>3. Cardinality(Hits) = 1 => \E t : Hits = {t}
      BY <2>2, FS_Singleton
    <3> QED BY <2>2, <3>1, <3>2, <3>3
  <2>4. Sound(cache)
    <3>1. ASSUME NEW t \in Threads, Hits = {t} PROVE Sound(cache)
      <4>1. pc[t] \notin MovePCs
        BY DEF Moving
      <4> QED BY <3>1, <4>1 DEF SoundInv, OneHit, Stages
    <3> QED BY <2>3, <3>1 DEF SoundInv
  <2> QED BY <2>1, <2>4, SoundWellFormed
<1> QED
  BY <1>1, SoundInit, SoundStep, PTL DEF Spec

-----------------------------------------------------------------------------
(* Connections that are served one at a time use the list as Lru promises.  *)

(* The sequence with its k-th element in front.                             *)
Fronted(w, k) ==
    [i \in 1 .. Len(w) |-> IF i = 1 THEN w[k] ELSE IF i <= k THEN w[i - 1] ELSE w[i]]

(* What is at each place when an element is put in front.                   *)
LEMMA PushFront ==
    ASSUME NEW D, NEW x \in D, NEW w \in Seq(D)
    PROVE  <<x>> \o w = [i \in 1 .. Len(w) + 1 |-> IF i = 1 THEN x ELSE w[i - 1]]
<1> DEFINE o == <<x>>
           f == [i \in 1 .. Len(w) + 1 |-> IF i = 1 THEN x ELSE w[i - 1]]
<1>1. o \in Seq(D) /\ Len(o) = 1 /\ o[1] = x /\ Len(w) \in Nat
  OBVIOUS
<1>2. \A i \in 2 .. Len(w) + 1 : i - 1 \in 1 .. Len(w) /\ w[i - 1] \in D
  OBVIOUS
<1>3. f \in Seq(D) /\ Len(f) = Len(w) + 1
  <2>1. f \in [1 .. Len(w) + 1 -> D] /\ Len(w) + 1 \in Nat
    BY <1>2
  <2> HIDE DEF f
  <2> QED BY <2>1
<1>4. \A i \in 1 .. Len(w) + 1 : f[i] = IF i = 1 THEN x ELSE w[i - 1]
  OBVIOUS
<1> HIDE DEF o, f
<1>5. /\ o \o w \in Seq(D) /\ Len(o \o w) = Len(o) + Len(w)
      /\ \A i \in 1 .. Len(o) + Len(w) : (o \o w)[i] = IF i <= Len(o) THEN o[i] ELSE w[i - Len(o)]
  BY <1>1, ConcatProperties
<1>6. \A i \in 1 .. Len(w) + 1 : (o \o w)[i] = f[i]
  BY <1>1, <1>4, <1>5
<1>7. Len(o \o w) = Len(w) + 1
  BY <1>1, <1>5
<1> DEFINE u == o \o w
<1> HIDE DEF u
<1>8. u \in Seq(D) /\ f \in Seq(D) /\ Len(u) = Len(f) /\ \A i \in 1 .. Len(u) : u[i] = f[i]
  BY <1>3, <1>5, <1>6, <1>7 DEF u
<1>9. u = f
  BY <1>8, SeqEqual
<1> QED BY <1>9 DEF u, o, f

(* The place of an element that occurs once, and what is left without the   *)
(* element at a place.                                                      *)
LEMMA RemoveOnce ==
    ASSUME NEW D, NEW w \in Seq(D), NEW k \in 1 .. Len(w),
           \A j \in 1 .. Len(w) : w[j] = w[k] => j = k
    PROVE  RemoveFirst(w, w[k]) = RemoveAt(w, k)
<1> DEFINE x == w[k]
           I == {i \in 1 .. Len(w) : w[i] = x}
           where == SelectInSeq(w, LAMBDA v : v = x)
<1>1. where = IF I # {} THEN Min(I) ELSE 0
  BY DEF SelectInSeq
<1>2. I = {k} /\ \E i \in 1 .. Len(w) : w[i] = x
  OBVIOUS
<1>3. where = k
  <2>1. I \in SUBSET Nat
    OBVIOUS
  <2> HIDE DEF I, where
  <2>2. Min(I) \in I
    BY <1>2, <2>1, NatMin
  <2> QED BY <1>1, <1>2, <2>2
<1>4. RemoveFirst(w, x) = RemoveAt(w, where)
  BY <1>2 DEF RemoveFirst
<1> QED BY <1>3, <1>4

(* An element taken out of its place and put in front.                      *)
LEMMA FrontedAt ==
    ASSUME NEW D, NEW w \in Seq(D), NEW k \in 1 .. Len(w)
    PROVE  <<w[k]>> \o RemoveAt(w, k) = Fronted(w, k)
<1> DEFINE x == SubSeq(w, 1, k - 1)
           y == SubSeq(w, k + 1, Len(w))
           r == x \o y
<1>0. Len(w) \in Nat /\ k \in Nat /\ 1 <= k /\ k <= Len(w) /\ w[k] \in D
  OBVIOUS
<1>1. /\ x \in Seq(D) /\ Len(x) = k - 1 /\ \A j \in 1 .. k - 1 : x[j] = w[j]
      /\ y \in Seq(D) /\ Len(y) = Len(w) - k /\ \A j \in 1 .. Len(w) - k : y[j] = w[j + k]
  BY <1>0
<1>2. RemoveAt(w, k) = r
  BY DEF RemoveAt
<1> HIDE DEF x, y
<1>3. /\ r \in Seq(D) /\ Len(r) = Len(x) + Len(y)
      /\ \A j \in 1 .. Len(x) + Len(y) : r[j] = IF j <= Len(x) THEN x[j] ELSE y[j - Len(x)]
  BY <1>1, ConcatProperties
<1> HIDE DEF r
<1>4. Len(r) = Len(w) - 1
  BY <1>0, <1>1, <1>3
<1>5. ASSUME NEW j \in 1 .. Len(w) - 1 PROVE r[j] = IF j < k THEN w[j] ELSE w[j + 1]
  <2>1. j \in 1 .. Len(x) + Len(y)
    BY <1>0, <1>1
  <2>2. CASE j < k
    <3>1. j \in 1 .. k - 1 /\ j <= Len(x)
      BY <1>0, <1>1, <2>2
    <3> QED BY <1>1, <1>3, <2>1, <2>2, <3>1
  <2>3. CASE ~(j < k)
    <3>1. j - (k - 1) \in 1 .. Len(w) - k /\ (j - (k - 1)) + k = j + 1 /\ ~(j <= k - 1)
      BY <1>0, <2>3
    <3>2. r[j] = y[j - (k - 1)]
      BY <1>1, <1>3, <2>1, <3>1
    <3> QED BY <1>1, <2>3, <3>1, <3>2
  <2> QED BY <2>2, <2>3
<1>6. <<w[k]>> \o r = [i \in 1 .. Len(r) + 1 |-> IF i = 1 THEN w[k] ELSE r[i - 1]]
  BY <1>0, <1>3, PushFront
<1>7. \A i \in 1 .. Len(w) : (IF i = 1 THEN w[k] ELSE r[i - 1]) = Fronted(w, k)[i]
  <2> SUFFICES ASSUME NEW i \in 1 .. Len(w)
               PROVE  (IF i = 1 THEN w[k] ELSE r[i - 1]) = Fronted(w, k)[i]
    OBVIOUS
  <2>1. i # 1 => i - 1 \in 1 .. Len(w) - 1 /\ (i - 1) + 1 = i /\ (i - 1 < k <=> i <= k)
    BY <1>0
  <2> QED BY <1>5, <2>1 DEF Fronted
<1>8. Len(r) + 1 = Len(w)
  BY <1>0, <1>4
<1> QED BY <1>2, <1>6, <1>7, <1>8 DEF Fronted

(* The items of a row as a sequence, the objects that a sequence of items   *)
(* stands for, and the row without its k-th item.                           *)
Items(m, q) == [i \in 1 .. m |-> q[i]]
Object(c, n) == [url |-> c.url[n], size |-> c.size[n]]
Objects(c, s) == [i \in DOMAIN s |-> Object(c, s[i])]
Gap(m, q, k) == [i \in 0 .. m - 1 |-> IF i < k THEN q[i] ELSE q[i + 1]]

(* The sequence of the items of a row.                                      *)
LEMMA ItemsSeq ==
    ASSUME NEW D, NEW m \in Nat, NEW q, \A i \in 1 .. m : q[i] \in D
    PROVE  /\ Items(m, q) \in Seq(D) /\ Len(Items(m, q)) = m
           /\ DOMAIN Items(m, q) = 1 .. m /\ \A i \in 1 .. m : Items(m, q)[i] = q[i]
<1>1. Items(m, q) \in [1 .. m -> D]
  BY DEF Items
<1>2. \A i \in 1 .. m : Items(m, q)[i] = q[i]
  BY DEF Items
<1> QED BY <1>1, <1>2

(* The item at each place of a row whose k-th item has gone in front.       *)
LEMMA HoistedAt ==
    ASSUME NEW m \in Nat, NEW q, NEW k \in 1 .. m
    PROVE  \A i \in 1 .. m : /\ Hoisted(m, q, k)[i] = IF i = 1 THEN q[k]
                                                     ELSE IF i <= k THEN q[i - 1] ELSE q[i]
                             /\ i # 1 => i - 1 \in 1 .. m
<1>1. \A i \in 1 .. m : i \in 0 .. m /\ i # 0
  OBVIOUS
<1> QED BY <1>1 DEF Hoisted

(* An item put in front of the others, whether it is in the list or not.    *)
Lined(m, q) == /\ m \in Nat /\ \A i \in 1 .. m : q[i] \in Nodes
               /\ \A i, j \in 1 .. m : q[i] = q[j] => i = j

(* The item is still in the list.                                           *)
LEMMA RestHere ==
    ASSUME NEW m, NEW q, Lined(m, q), NEW k \in 1 .. m
    PROVE  <<q[k]>> \o RemoveFirst(Items(m, q), q[k]) = Items(m, Hoisted(m, q, k))
<1> DEFINE w == Items(m, q)
           r == Hoisted(m, q, k)
<1>0. m \in Nat /\ k \in 1 .. m /\ \A i \in 1 .. m : q[i] \in Nodes
  BY DEF Lined
<1>1. w \in Seq(Nodes) /\ Len(w) = m /\ \A i \in 1 .. m : w[i] = q[i]
  BY <1>0, ItemsSeq
<1> HIDE DEF w
<1>2. k \in 1 .. Len(w) /\ \A j \in 1 .. Len(w) : w[j] = w[k] => j = k
  BY <1>1 DEF Lined
<1>3. RemoveFirst(w, w[k]) = RemoveAt(w, k)
  BY <1>1, <1>2, RemoveOnce
<1>4. <<w[k]>> \o RemoveFirst(w, w[k]) = Fronted(w, k)
  BY <1>1, <1>2, <1>3, FrontedAt
<1>5. \A i \in 1 .. m : Fronted(w, k)[i] = r[i]
  <2>1. \A i \in 1 .. m : Fronted(w, k)[i] = IF i = 1 THEN w[k] ELSE IF i <= k THEN w[i - 1] ELSE w[i]
    BY <1>1 DEF Fronted
  <2> HIDE DEF r
  <2>2. \A i \in 1 .. m : /\ r[i] = IF i = 1 THEN q[k] ELSE IF i <= k THEN q[i - 1] ELSE q[i]
                          /\ i # 1 => i - 1 \in 1 .. m
    BY <1>0, HoistedAt DEF r
  <2> QED BY <1>0, <1>1, <2>1, <2>2
<1>6. Fronted(w, k) = [i \in 1 .. m |-> Fronted(w, k)[i]]
  BY <1>1 DEF Fronted
<1> HIDE DEF r
<1>7. Fronted(w, k) = Items(m, r)
  BY <1>5, <1>6 DEF Items
<1>8. w[k] = q[k]
  BY <1>1
<1> QED BY <1>4, <1>7, <1>8 DEF w, r

(* The same when the list no longer holds the item.                         *)
LEMMA RestGone ==
    ASSUME NEW m, NEW q, Lined(m, q), NEW k \in 1 .. m
    PROVE  <<q[k]>> \o RemoveFirst(Items(m - 1, Gap(m, q, k)), q[k]) = Items(m, Hoisted(m, q, k))
<1> DEFINE g == Gap(m, q, k)
           w == Items(m - 1, g)
           r == Hoisted(m, q, k)
<1>0. m \in Nat /\ k \in 1 .. m /\ \A i \in 1 .. m : q[i] \in Nodes
  BY DEF Lined
<1>1. \A i \in 1 .. m - 1 : /\ g[i] = IF i < k THEN q[i] ELSE q[i + 1]
                            /\ i \in 1 .. m /\ i + 1 \in 1 .. m
  BY <1>0 DEF Gap
<1> HIDE DEF g
<1>2. w \in Seq(Nodes) /\ Len(w) = m - 1 /\ \A i \in 1 .. m - 1 : w[i] = g[i]
  <2>1. m - 1 \in Nat /\ \A i \in 1 .. m - 1 : g[i] \in Nodes
    BY <1>0, <1>1
  <2> QED BY <2>1, ItemsSeq
<1> HIDE DEF w
<1>3. ~\E i \in 1 .. Len(w) : w[i] = q[k]
  <2> SUFFICES ASSUME NEW i \in 1 .. m - 1, w[i] = q[k] PROVE FALSE
    BY <1>2
  <2> QED BY <1>0, <1>1, <1>2 DEF Lined
<1>4. RemoveFirst(w, q[k]) = w
  BY <1>3 DEF RemoveFirst
<1>5. <<q[k]>> \o w = [i \in 1 .. Len(w) + 1 |-> IF i = 1 THEN q[k] ELSE w[i - 1]]
  BY <1>2, PushFront
<1>6. Len(w) + 1 = m
  BY <1>0, <1>2
<1>7. ASSUME NEW i \in 1 .. m PROVE (IF i = 1 THEN q[k] ELSE w[i - 1]) = r[i]
  <2>1. r[i] = IF i = 1 THEN q[k] ELSE IF i <= k THEN q[i - 1] ELSE q[i]
    BY <1>0, HoistedAt
  <2> HIDE DEF r
  <2>2. CASE i # 1
    <3>1. i - 1 \in 1 .. m - 1 /\ (i - 1) + 1 = i /\ (i - 1 < k <=> i <= k)
      BY <1>0, <2>2
    <3> QED BY <1>1, <1>2, <2>1, <2>2, <3>1
  <2> QED BY <2>1, <2>2
<1> HIDE DEF r
<1>8. <<q[k]>> \o w = Items(m, r)
  BY <1>5, <1>6, <1>7 DEF Items
<1> QED BY <1>4, <1>8 DEF w, g, r

(* Without the k-th item the next pointers string the others together,      *)
(* before and after the item is aimed at the first of them.                 *)
LEMMA GapStrung ==
    ASSUME NEW c \in Cache, NEW m, NEW q, Row(c, m, q), NEW k \in 2 .. m
    PROVE  /\ Strung(Bypass(c, q, k), m - 1, Gap(m, q, k))
           /\ Strung(Aim(c, q, k), m - 1, Gap(m, q, k))
<1> DEFINE g == Gap(m, q, k)
           n1 == Bypass(c, q, k)
           n2 == Aim(c, q, k)
<1>0. /\ c.next \in [Cells -> Pointers] /\ Linked(c) \subseteq Cells
      /\ m \in Nat /\ q \in [0 .. m -> Linked(c)] /\ q[0] = Dummy
      /\ \A i, j \in 0 .. m : q[i] = q[j] => i = j
      /\ \A i \in 0 .. m - 1 : c.next[q[i]] = q[i + 1]
      /\ c.next[q[m]] = NULL
  BY CacheFields DEF Row
<1>1. \A i \in 0 .. m - 1 : /\ g[i] = IF i < k THEN q[i] ELSE q[i + 1]
                            /\ i \in 0 .. m /\ i + 1 \in 0 .. m
  BY <1>0 DEF Gap
<1>2. k \in 0 .. m /\ k - 1 \in 0 .. m - 1 /\ k - 1 \in 0 .. m /\ (k - 1) + 1 = k
  BY <1>0
<1>3. \A i \in 0 .. m : q[i] \in Cells
  BY <1>0
<1>4. g \in [0 .. m - 1 -> Cells]
  <2>1. \A i \in 0 .. m - 1 : g[i] \in Cells
    BY <1>1, <1>3
  <2>2. g = [i \in 0 .. m - 1 |-> g[i]]
    BY DEF Gap
  <2> HIDE DEF g
  <2> QED BY <2>1, <2>2
<1>5. m - 1 \in Nat /\ g[0] = Dummy
  BY <1>0, <1>1
<1>6. \A x \in Cells : n1[x] = IF x = q[k - 1] THEN c.next[q[k]] ELSE c.next[x]
  BY <1>0 DEF Bypass
<1>7. n1 \in [Cells -> Pointers]
  <2>1. c.next[q[k]] \in Pointers
    BY <1>0, <1>2, <1>3
  <2> QED BY <1>0, <2>1 DEF Bypass
<1> HIDE DEF n1
<1>8. \A x \in Cells : x # q[k] => n2[x] = n1[x]
  BY <1>7 DEF Aim, n1
<1> HIDE DEF g, n2
<1>9. ASSUME NEW i \in 0 .. (m - 1) - 1 PROVE n1[g[i]] = g[i + 1] /\ g[i] # q[k]
  <2>1. i \in 0 .. m - 1 /\ i + 1 \in 0 .. m - 1 /\ i \in 0 .. m /\ i + 1 \in 0 .. m
        /\ (i + 1) + 1 \in 0 .. m
    BY <1>0
  <2>2. CASE i < k - 1
    <3>1. g[i] = q[i] /\ g[i + 1] = q[i + 1] /\ i # k - 1 /\ i # k
      BY <1>1, <1>2, <2>1, <2>2
    <3>2. q[i] # q[k - 1] /\ q[i] # q[k]
      BY <1>0, <1>2, <2>1, <3>1
    <3> QED BY <1>0, <1>3, <1>6, <2>1, <3>1, <3>2
  <2>3. CASE i = k - 1
    <3>1. g[i] = q[k - 1] /\ g[i + 1] = q[k + 1] /\ k \in 0 .. m - 1 /\ k - 1 # k
      BY <1>1, <1>2, <2>1, <2>3
    <3>2. n1[g[i]] = c.next[q[k]] /\ c.next[q[k]] = q[k + 1]
      BY <1>0, <1>2, <1>3, <1>6, <3>1
    <3>3. q[k - 1] # q[k]
      BY <1>0, <1>2, <3>1
    <3> QED BY <3>1, <3>2, <3>3
  <2>4. CASE i > k - 1
    <3>1. g[i] = q[i + 1] /\ g[i + 1] = q[(i + 1) + 1] /\ i + 1 # k - 1 /\ i + 1 # k
          /\ i + 1 \in 0 .. m - 1
      BY <1>0, <1>1, <1>2, <2>1, <2>4
    <3>2. q[i + 1] # q[k - 1] /\ q[i + 1] # q[k]
      BY <1>0, <1>2, <2>1, <3>1
    <3> QED BY <1>0, <1>3, <1>6, <2>1, <3>1, <3>2
  <2> QED BY <1>2, <2>2, <2>3, <2>4
<1>10. n1[g[m - 1]] = NULL /\ g[m - 1] # q[k]
  <2>1. m - 1 \in 0 .. m - 1 /\ m \in 0 .. m /\ m - 1 \in 0 .. m /\ (m - 1) + 1 = m
    BY <1>0, <1>5
  <2>2. CASE k = m
    <3>1. g[m - 1] = q[k - 1] /\ k - 1 # k
      BY <1>1, <1>2, <2>1, <2>2
    <3>2. n1[q[k - 1]] = c.next[q[k]] /\ q[k - 1] # q[k]
      BY <1>0, <1>2, <1>3, <1>6, <3>1
    <3> QED BY <1>0, <2>2, <3>1, <3>2
  <2>3. CASE k # m
    <3>1. g[m - 1] = q[m] /\ m # k - 1 /\ m # k
      BY <1>0, <1>1, <1>2, <2>1, <2>3
    <3>2. q[m] # q[k - 1] /\ q[m] # q[k]
      BY <1>0, <1>2, <2>1, <3>1
    <3> QED BY <1>0, <1>3, <1>6, <2>1, <3>1, <3>2
  <2> QED BY <2>2, <2>3
<1>11. Strung(n1, m - 1, g)
  BY <1>4, <1>5, <1>9, <1>10 DEF Strung
<1>12. Strung(n2, m - 1, g)
  <2>1. ASSUME NEW i \in 0 .. (m - 1) - 1 PROVE n2[g[i]] = g[i + 1]
    <3>1. i \in 0 .. m - 1
      BY <1>0
    <3> QED BY <1>4, <1>8, <1>9, <3>1
  <2>2. n2[g[m - 1]] = NULL
    <3>1. m - 1 \in 0 .. m - 1
      BY <1>5
    <3> QED BY <1>4, <1>8, <1>10, <3>1
  <2> QED BY <1>4, <1>5, <2>1, <2>2 DEF Strung
<1> QED BY <1>11, <1>12 DEF n1, n2, g

(* During a move, the moved item counts as the first and the others keep    *)
(* their order.                                                             *)
Courses(c, item) ==
    {c, detachNext(c, item), Bypassed(c, item), Detached(c, item),
     linkNext(Detached(c, item), item), Aimed(c, item), Hooked(c, item),
     linkHead(Hooked(c, item), item)}

(* The item in front of the rest of the list, at any point of the move.     *)
LEMMA CourseRest ==
    ASSUME NEW c \in Cache, NEW m, NEW q, Row(c, m, q), NEW k \in 2 .. m,
           NEW d \in Courses(c, q[k])
    PROVE  /\ <<q[k]>> \o RemoveFirst(Chain(d), q[k]) = Items(m, Hoisted(m, q, k))
           /\ d.url = c.url /\ d.size = c.size
<1> DEFINE item == q[k]
           order == Items(m, Hoisted(m, q, k))
           next == [Aim(c, q, k) EXCEPT ![Dummy] = item]
<1>0. /\ m \in Nat /\ m <= Cardinality(Nodes) /\ k \in 1 .. m /\ Strung(c.next, m, q)
      /\ Lined(m, q)
  <2>0. m \in Nat
    BY DEF Row
  <2>1. m <= Cardinality(Nodes) /\ \A i \in 1 .. m : q[i] \in c.used
    BY RowLength, RowPlace
  <2>2. c.used \subseteq Nodes /\ Linked(c) \subseteq Cells
    BY CacheFields
  <2>3. Strung(c.next, m, q)
    BY <2>2 DEF Row, Strung
  <2>4. Lined(m, q)
    <3>1. \A i, j \in 1 .. m : q[i] = q[j] => i = j
      <4>1. \A i \in 1 .. m : i \in 0 .. m
        BY <2>0
      <4> QED BY <4>1 DEF Row
    <3> QED BY <2>0, <2>1, <2>2, <3>1 DEF Lined
  <2> QED BY <2>0, <2>1, <2>3, <2>4
<1>1. ASSUME d = c PROVE <<item>> \o RemoveFirst(Chain(d), item) = order
  <2>1. Chain(d) = Items(m, q)
    <3>1. Chain(c) = Items(m, q)
      BY <1>0, StrungChain DEF Items
    <3> QED BY <1>1, <3>1
  <2> QED BY <1>0, <2>1, RestHere
<1>2. ASSUME NEW nx, NextIs(d, c, nx), Strung(nx, m - 1, Gap(m, q, k))
      PROVE  <<item>> \o RemoveFirst(Chain(d), item) = order
  <2>1. Chain(d) = Items(m - 1, Gap(m, q, k))
    <3>1. Strung(d.next, m - 1, Gap(m, q, k))
      BY <1>2 DEF NextIs
    <3>2. m - 1 <= Cardinality(Nodes)
      BY <1>0, FS_CardinalityType, CacheAssumption
    <3> QED BY <3>1, <3>2, StrungChain DEF Items
  <2> QED BY <1>0, <2>1, RestGone
<1>3. ASSUME NextIs(d, c, next) PROVE <<item>> \o RemoveFirst(Chain(d), item) = order
  <2> DEFINE r == Hoisted(m, q, k)
  <2>1. Row(Moved(c, item), m, r) /\ Moved(c, item).next = next
    <3>1. Row(Moved(c, item), m, r) /\ Moved(c, item).used = c.used
      BY MovedRow
    <3>2. NextIs(Moved(c, item), c, next)
      BY StageFields
    <3> QED BY <3>1, <3>2 DEF NextIs
  <2>2. Strung(d.next, m, r)
    <3>1. Linked(Moved(c, item)) \subseteq Cells
      BY MovedRow, CacheFields DEF Linked
    <3> HIDE DEF r, next
    <3> QED BY <1>3, <2>1, <3>1 DEF Row, Strung, NextIs
  <2>3. Chain(d) = Items(m, r)
    BY <1>0, <2>2, StrungChain DEF Items
  <2>4. \A i \in 1 .. m : r[i] = IF i = 1 THEN q[k] ELSE IF i <= k THEN q[i - 1] ELSE q[i]
    BY <1>0, HoistedAt
  <2>5. 1 \in 1 .. m /\ r[1] = item
    BY <1>0, <2>4
  <2>6. \A i \in 1 .. m : r[i] \in Nodes
    <3>1. \A i \in 1 .. m : (i # 1 => i - 1 \in 1 .. m) /\ q[i] \in Nodes
      BY <1>0 DEF Lined
    <3> HIDE DEF r
    <3> QED BY <1>0, <2>4, <3>1
  <2>7. Lined(m, r)
    BY <1>0, <2>1, <2>6 DEF Row, Lined
  <2> HIDE DEF r
  <2>8. <<r[1]>> \o RemoveFirst(Items(m, r), r[1]) = Items(m, Hoisted(m, r, 1))
    BY <2>5, <2>7, RestHere
  <2>9. Items(m, Hoisted(m, r, 1)) = Items(m, r)
    <3>1. \A i \in 1 .. m : Hoisted(m, r, 1)[i] = IF i = 1 THEN r[1]
                                                   ELSE IF i <= 1 THEN r[i - 1] ELSE r[i]
      BY <1>0, <2>5, HoistedAt
    <3>2. \A i \in 1 .. m : Hoisted(m, r, 1)[i] = r[i]
      BY <3>1
    <3> QED BY <3>2 DEF Items
  <2> QED BY <2>3, <2>5, <2>8, <2>9 DEF r
<1>4. /\ Strung(Bypass(c, q, k), m - 1, Gap(m, q, k)) /\ Strung(Aim(c, q, k), m - 1, Gap(m, q, k))
  BY GapStrung
<1>5. /\ \A e \in {detachNext(c, item), Bypassed(c, item), Detached(c, item)} :
             NextIs(e, c, Bypass(c, q, k))
      /\ \A e \in {linkNext(Detached(c, item), item), Aimed(c, item), Hooked(c, item)} :
             NextIs(e, c, Aim(c, q, k))
      /\ NextIs(linkHead(Hooked(c, item), item), c, next)
  BY StageFields
<1> HIDE DEF order, next, item
<1>6. \/ d = c
      \/ d \in {detachNext(c, item), Bypassed(c, item), Detached(c, item)}
      \/ d \in {linkNext(Detached(c, item), item), Aimed(c, item), Hooked(c, item)}
      \/ d = linkHead(Hooked(c, item), item)
  BY DEF Courses, item
<1>7. /\ <<item>> \o RemoveFirst(Chain(d), item) = order /\ d.url = c.url /\ d.size = c.size
  <2>1. CASE d = c
    BY <1>1, <2>1
  <2>2. CASE d \in {detachNext(c, item), Bypassed(c, item), Detached(c, item)}
    BY <1>2, <1>4, <1>5, <2>2 DEF NextIs
  <2>3. CASE d \in {linkNext(Detached(c, item), item), Aimed(c, item), Hooked(c, item)}
    BY <1>2, <1>4, <1>5, <2>3 DEF NextIs
  <2>4. CASE d = linkHead(Hooked(c, item), item)
    BY <1>3, <1>5, <2>4 DEF NextIs
  <2> QED BY <1>6, <2>1, <2>2, <2>3, <2>4
<1> QED BY <1>7 DEF order, item

(* What the list shows as Lru's order, for a list, the places of the        *)
(* threads and their items.                                                 *)
OrderOf(c, p, a) ==
    LET moving == {t \in Threads : p[t] \in MovePCs}
    IN Objects(c, IF moving = {} THEN Chain(c)
                  ELSE LET item == a[CHOOSE t \in moving : TRUE]
                       IN <<item>> \o RemoveFirst(Chain(c), item))
Order == [i \in DOMAIN UseOrder |-> Described(UseOrder[i])]

(* Order is OrderOf this state, and of the next state after a step.         *)
LEMMA OrderIs == Order = OrderOf(cache, pc, at) /\ Order' = OrderOf(cache', pc', at')
BY Zenon DEF Order, OrderOf, Objects, Object, UseOrder, Described, Rest, Moving, MovePCs

(* Lru's total is the sum over the places of a sequence.                    *)
LEMMA OrderTotal ==
    \A s : Uses!Total(s) = SumOf([i \in DOMAIN s |-> s[i].size], DOMAIN [i \in DOMAIN s |-> s[i].size])
BY Zenon DEF Uses!Total, Uses!SumFunction, Uses!SumFunctionOnSet, Uses!FoldFunctionOnSet,
             Uses!MapThenFoldSet, SumOf, MapThenSumSet, MapThenFoldSet

(* What makes a step a hit, a drop or an addition of Lru.                   *)
LEMMA UsesHit ==
    ASSUME NEW i \in DOMAIN Order, \A j \in 1 .. i - 1 : Order[j].url # Order[i].url,
           Order[i].url \in Urls, Order' = <<Order[i]>> \o RemoveAt(Order, i)
    PROVE  Uses!Next
<1>1. Uses!Hit(Order[i].url)
  <2>1. Order' = <<Order[i]>> \o Uses!RemoveAt(Order, i)
    BY Zenon DEF RemoveAt, Uses!RemoveAt
  <2> QED BY <2>1, Zenon DEF Order, Uses!Hit
<1> QED BY <1>1, Zenon DEF Uses!Next

LEMMA UsesDrop ==
    ASSUME Order # <<>>, Uses!Total(Order) + MAX_OBJECT_SIZE > MAX_CACHE_SIZE,
           Order' = Front(Order)
    PROVE  Uses!Next
<1>1. Order' = Uses!Front(Order)
  BY Zenon DEF Front, Uses!Front
<1> QED BY <1>1, Zenon DEF Order, Uses!Next, Uses!Drop

LEMMA UsesAdd ==
    ASSUME NEW u \in Urls, NEW s \in 0 .. MAX_OBJECT_SIZE,
           Uses!Total(Order) + s <= MAX_CACHE_SIZE,
           Order' = <<[url |-> u, size |-> s]>> \o Order
    PROVE  Uses!Next
BY Zenon DEF Order, Uses!Next, Uses!Add

(* A step that leaves the list, the places and the items alone stutters.    *)
LEMMA OrderKept == ASSUME UNCHANGED <<cache, pc, at>> PROVE Order' = Order
BY OrderIs

(* The objects while no item is on its way to the front, and while one is.  *)
LEMMA OrderStill ==
    ASSUME NEW c \in Cache, NEW m, NEW q, Row(c, m, q), NEW p, NEW a,
           \A s \in Threads : p[s] \notin MovePCs
    PROVE  OrderOf(c, p, a) = Objects(c, Items(m, q))
<1>1. {s \in Threads : p[s] \in MovePCs} = {}
  OBVIOUS
<1>2. Chain(c) = Items(m, q)
  BY RowChain DEF Items
<1> QED BY <1>1, <1>2, Zenon DEF OrderOf

(* The k-th item of a row is on its way to the front: the list c is now d;  *)
(* and no thread but t moves an item.                                       *)
OnItsWay(c, q, k, d) ==
    \/ k = 1 /\ d = c
    \/ k # 1 /\ d \in Courses(c, q[k])

OnlyMoves(p, t) == \A s \in Threads : p[s] \in MovePCs <=> s = t

(* While an item moves the order is that of the row with the item hoisted.  *)
LEMMA OrderMoving ==
    ASSUME NEW c \in Cache, NEW m, NEW q, Row(c, m, q), NEW k \in 1 .. m,
           NEW d, OnItsWay(c, q, k, d), NEW p, NEW a, NEW t \in Threads,
           OnlyMoves(p, t), a[t] = q[k]
    PROVE  OrderOf(d, p, a) = Objects(c, Items(m, Hoisted(m, q, k)))
<1> DEFINE moving == {s \in Threads : p[s] \in MovePCs}
           order == Items(m, Hoisted(m, q, k))
<1>1. moving = {t}
  BY DEF OnlyMoves
<1>2. (CHOOSE s \in moving : TRUE) = t
  BY <1>1
<1>3. moving # {}
  BY <1>1
<1>4. OrderOf(d, p, a) = Objects(d, <<q[k]>> \o RemoveFirst(Chain(d), q[k]))
  <2>1. OrderOf(d, p, a) =
            Objects(d, IF moving = {} THEN Chain(d)
                       ELSE LET item == a[CHOOSE s \in moving : TRUE]
                            IN <<item>> \o RemoveFirst(Chain(d), item))
    BY Zenon DEF OrderOf
  <2> HIDE DEF moving
  <2> QED BY <1>2, <1>3, <2>1, Zenon
<1>5. CASE k = 1
  <2>1. d = c
    BY <1>5 DEF OnItsWay
  <2>2. Lined(m, q) /\ Chain(c) = Items(m, q)
    <3>1. m \in Nat /\ \A i \in 1 .. m : i \in 0 .. m
      BY DEF Row
    <3>2. \A i \in 1 .. m : q[i] \in Nodes
      BY RowPlace, CacheFields
    <3>3. \A i, j \in 1 .. m : q[i] = q[j] => i = j
      BY <3>1 DEF Row
    <3> QED BY <3>1, <3>2, <3>3, RowChain DEF Lined, Items
  <2>3. <<q[k]>> \o RemoveFirst(Items(m, q), q[k]) = order
    BY <2>2, RestHere
  <2> QED BY <1>4, <2>1, <2>2, <2>3
<1>6. CASE k # 1
  <2>1. k \in 2 .. m /\ d \in Courses(c, q[k])
    BY <1>6 DEF OnItsWay, Row
  <2>2. <<q[k]>> \o RemoveFirst(Chain(d), q[k]) = order /\ d.url = c.url /\ d.size = c.size
    BY <2>1, CourseRest
  <2>3. Objects(d, order) = Objects(c, order)
    BY <2>2, Zenon DEF Objects, Object
  <2> QED BY <1>4, <2>2, <2>3
<1> QED BY <1>5, <1>6

(* The sizes of the objects add up to the size of the list.                 *)
(* The object at each place of a row.                                       *)
LEMMA ObjectsAt ==
    ASSUME NEW c, NEW m, NEW q
    PROVE  /\ DOMAIN Objects(c, Items(m, q)) = 1 .. m
           /\ \A i \in 1 .. m : Objects(c, Items(m, q))[i] = Object(c, q[i])
BY DEF Objects, Items

(* Summed place by place, the objects are as large as the list.             *)
LEMMA ObjectsTotal ==
    ASSUME NEW c \in Cache, NEW m, NEW q, Row(c, m, q)
    PROVE  Uses!Total(Objects(c, Items(m, q))) = TotalOf(c)
<1> DEFINE s == Objects(c, Items(m, q))
           f == [i \in 1 .. m |-> s[i].size]
           Taken(k) == {q[i] : i \in 1 .. k}
           T == {k \in 0 .. m : SumOf(f, 1 .. k) = SumOf(c.size, Taken(k))}
<1>0. /\ m \in Nat /\ DOMAIN s = 1 .. m /\ \A i \in 1 .. m : s[i].size = c.size[q[i]]
      /\ \A i \in 1 .. m : q[i] \in c.used /\ q[i] \in Nodes /\ c.size[q[i]] \in Nat
      /\ \A i, j \in 1 .. m : q[i] = q[j] => i = j
      /\ c.used \subseteq Nodes /\ IsFiniteSet(c.used)
  <2>1. m \in Nat /\ \A i \in 1 .. m : i \in 0 .. m
    BY DEF Row
  <2>2. \A i, j \in 1 .. m : q[i] = q[j] => i = j
    BY <2>1 DEF Row
  <2>3. DOMAIN s = 1 .. m /\ \A i \in 1 .. m : s[i].size = c.size[q[i]]
    <3>1. /\ DOMAIN s = 1 .. m
          /\ \A i \in 1 .. m : s[i] = Object(c, q[i])
      BY ObjectsAt
    <3> HIDE DEF s
    <3> QED BY <3>1 DEF Object
  <2>4. c.size \in [Nodes -> Nat] /\ c.used \subseteq Nodes /\ IsFiniteSet(c.used)
    BY CacheFields, CacheAssumption, FS_Subset
  <2>5. \A i \in 1 .. m : q[i] \in c.used
    BY RowPlace
  <2> HIDE DEF s
  <2> QED BY <2>1, <2>2, <2>3, <2>4, <2>5
<1>1. Uses!Total(s) = SumOf(f, 1 .. m)
  <2>1. DOMAIN f = 1 .. m /\ f = [i \in DOMAIN s |-> s[i].size]
    BY <1>0
  <2> HIDE DEF f, s
  <2> QED BY <2>1, OrderTotal
<1>2. \A i \in 1 .. m : f[i] = c.size[q[i]]
  BY <1>0
<1> HIDE DEF s, f
<1>3. 0 \in T
  <2>1. 1 .. 0 = {} /\ Taken(0) = {} /\ 0 \in 0 .. m
    BY <1>0
  <2> QED BY <2>1, SumEmpty
<1>4. ASSUME NEW k \in 0 .. m, k \in T, k < m PROVE k + 1 \in T
  <2>1. k + 1 \in 1 .. m /\ k + 1 \in 1 .. k + 1 /\ (1 .. k + 1) \ {k + 1} = 1 .. k
    BY <1>0, <1>4
  <2>2. SumOf(f, 1 .. k + 1) = f[k + 1] + SumOf(f, 1 .. k)
    <3>1. IsFiniteSet(1 .. k + 1)
      BY <1>0, <1>4, FS_Interval
    <3>2. \A i \in 1 .. k + 1 : f[i] \in Nat
      BY <1>0, <1>2, <2>1
    <3>3. SumOf(f, 1 .. k + 1) = f[k + 1] + SumOf(f, (1 .. k + 1) \ {k + 1})
      BY <2>1, <3>1, <3>2, SumAdd
    <3> QED BY <2>1, <3>3
  <2>3. SumOf(c.size, Taken(k + 1)) = c.size[q[k + 1]] + SumOf(c.size, Taken(k))
    <3>1. Taken(k + 1) \subseteq c.used /\ q[k + 1] \in Taken(k + 1) /\ Taken(k + 1) \ {q[k + 1]} = Taken(k)
      <4>1. \A i \in 1 .. k + 1 : i \in 1 .. m
        BY <1>0, <2>1
      <4>2. \A i \in 1 .. k : i \in 1 .. m /\ i \in 1 .. k + 1 /\ i # k + 1
        BY <1>0, <2>1
      <4>3. \A i \in 1 .. k + 1 : i \in 1 .. k \/ i = k + 1
        BY <1>0, <2>1
      <4>4. \A i \in 1 .. k : q[i] # q[k + 1]
        BY <1>0, <2>1, <4>2
      <4>5. Taken(k + 1) = Taken(k) \cup {q[k + 1]} /\ q[k + 1] \notin Taken(k)
        BY <2>1, <4>2, <4>3, <4>4
      <4>6. Taken(k + 1) \subseteq c.used
        BY <1>0, <4>1
      <4> QED BY <4>5, <4>6
    <3>2. IsFiniteSet(Taken(k + 1)) /\ \A x \in Taken(k + 1) : c.size[x] \in Nat
      BY <1>0, <3>1, FS_Subset, CacheFields
    <3> HIDE DEF Taken
    <3>3. SumOf(c.size, Taken(k + 1)) = c.size[q[k + 1]] + SumOf(c.size, Taken(k + 1) \ {q[k + 1]})
      BY <3>1, <3>2, SumAdd
    <3> QED BY <3>1, <3>3
  <2>4. SumOf(f, 1 .. k) = SumOf(c.size, Taken(k))
    BY <1>4
  <2>5. k + 1 \in 0 .. m
    BY <2>1
  <2> HIDE DEF Taken
  <2>6. SumOf(f, 1 .. k + 1) = SumOf(c.size, Taken(k + 1))
    BY <1>2, <2>1, <2>2, <2>3, <2>4
  <2> QED BY <2>5, <2>6
<1>5. m \in T
  <2> HIDE DEF T
  <2>1. 0 .. m \subseteq T
    BY <1>0, <1>3, <1>4, BoundedInduct
  <2> QED BY <1>0, <2>1
<1>6. Taken(m) = c.used
  BY RowLength
<1>7. SumOf(f, 1 .. m) = SumOf(c.size, c.used)
  <2> HIDE DEF Taken
  <2> QED BY <1>5, <1>6
<1>8. Uses!Total(s) = TotalOf(c)
  BY <1>1, <1>7, SumOfSizes
<1> QED BY <1>8 DEF s

(* With one connection at a time and memory for every copy, the thread that *)
(* is served is in the middle of a move that began with a sound list, or    *)
(* the list is sound; what a walk has passed has other keys.                *)
OneAtATime == ActiveBound <= 1 /\ ~MallocFails

Passed(t) ==
    \E m, q : /\ Row(cache, m, q)
              /\ \E i \in 1 .. m + 1 :
                     /\ at[t] = IF i = m + 1 THEN NULL ELSE q[i]
                     /\ \A j \in 1 .. i - 1 : cache.url[q[j]] # key[t]

Turn(t) ==
    /\ pc[t] \in Stages => \E c \in Cache : Midway(t, c)
    /\ pc[t] = "walk" => Passed(t)

SerialInv ==
    /\ LeaksInv
    /\ \A s, t \in Active : s = t
    /\ \A t \in Threads : Turn(t)
    /\ (\A t \in Threads : pc[t] \notin Stages) => Sound(cache)

(* Before the first connection nothing is cached.                           *)
LEMMA SerialInit == Init => SerialInv /\ Order = <<>>
<1> SUFFICES ASSUME Init PROVE SerialInv /\ Order = <<>>
  OBVIOUS
<1>1. LeaksInv /\ cache = initCache /\ \A t \in Threads : pc[t] = "new"
  BY LeaksInit DEF Init
<1>2. Active = {} /\ \A t \in Threads : Turn(t)
  BY <1>1 DEF Active, Turn, Stages, MovePCs
<1>3. SerialInv
  BY <1>1, <1>2, InitSound DEF SerialInv
<1>4. Order = <<>>
  <2>1. PICK m, q : Row(cache, m, q)
    BY <1>1, InitSound DEF Sound
  <2>2. cache \in Cache /\ cache.used = {}
    BY <1>1, InitCache DEF initCache
  <2>3. m = 0
    <3>1. Cardinality(cache.used) = m
      BY <2>1, <2>2, RowLength
    <3> QED BY <2>2, <3>1, FS_EmptySet
  <2>4. \A t \in Threads : pc[t] \notin MovePCs
    BY <1>1 DEF MovePCs
  <2>5. Order = Objects(cache, Items(m, q))
    BY <2>1, <2>2, <2>4, OrderIs, OrderStill
  <2>6. DOMAIN Items(m, q) = {}
    BY <2>3 DEF Items
  <2> QED BY <2>5, <2>6 DEF Objects
<1> QED BY <1>3, <1>4

(* The thread that takes a step is the only one that is served.             *)
LEMMA Alone ==
    ASSUME OneAtATime, SerialInv, NEW t \in Threads, Accept(t) \/ Step(t)
    PROVE  /\ \A s \in Threads \ {t} : pc[s] \in {"new", "ended"} /\ pc'[s] = pc[s]
           /\ pc[t] # "ended" /\ pc \in [Threads -> PCs]
<1>0. pc \in [Threads -> PCs] /\ ActiveBound \in Nat
  BY ProxyAssumption DEF SerialInv, LeaksInv, Inv, TypeOK
<1>1. \A s \in Threads \ {t} : pc'[s] = pc[s]
  BY OwnHolding DEF SerialInv
<1>2. CASE Accept(t)
  <2>1. pc[t] = "new" /\ Cardinality(Active) < ActiveBound
    BY <1>2 DEF Accept, At
  <2>2. Active = {}
    <3>1. Active = {} \/ \E s \in Active : Active = {s}
      BY DEF SerialInv
    <3>2. ASSUME NEW s, Active = {s} PROVE FALSE
      BY <1>0, <2>1, <3>2, FS_Singleton DEF OneAtATime
    <3> QED BY <3>1, <3>2
  <2> QED BY <1>0, <1>1, <2>1, <2>2 DEF Active
<1>3. CASE Step(t)
  <2>1. pc[t] \notin {"new", "ended"}
    <3>1. CASE MoveToFront(t)
      BY <3>1 DEF MoveToFront, MovePCs
    <3>2. CASE ~MoveToFront(t)
      BY <1>3, <3>2 DEF Step, At, RefuseRequest, GetRequest, ReadLock, Walk, NotFound, NullAccess,
                      WriteCached, Connect, Relay, RelayOnly, WriteLock, RefuseItem, Evict,
                      Insert, Close
    <3> QED BY <3>1, <3>2
  <2>2. t \in Active
    BY <2>1 DEF Active
  <2>3. \A s \in Threads \ {t} : s \notin Active
    BY <2>2 DEF SerialInv
  <2> QED BY <1>0, <1>1, <2>1, <2>3 DEF Active
<1> QED BY <1>2, <1>3

(* What is left to show of its step.                                        *)
LEMMA SerialRest ==
    ASSUME OneAtATime, SerialInv, LeaksInv', NEW t \in Threads, Accept(t) \/ Step(t),
           Turn(t)', pc'[t] \notin Stages => Sound(cache')
    PROVE  SerialInv'
<1>1. \A s \in Threads \ {t} : pc'[s] \in {"new", "ended"}
  BY Alone
<1>2. \A s \in Threads \ {t} : Turn(s)'
  BY <1>1 DEF Turn, Stages, MovePCs
<1>3. (\A s, u \in Active : s = u)'
  BY <1>1 DEF Active
<1>4. (\A s \in Threads : pc[s] \notin Stages)' => pc'[t] \notin Stages
  BY DEF Stages, MovePCs
<1> QED BY <1>2, <1>3, <1>4 DEF SerialInv

(* The list that a thread finds outside a move, and its objects.            *)
LEMMA SerialRow ==
    ASSUME OneAtATime, SerialInv, NEW t \in Threads, Accept(t) \/ Step(t), pc[t] \notin MovePCs
    PROVE  /\ Sound(cache) /\ cache \in Cache
           /\ \A m, q : Row(cache, m, q) => Order = Objects(cache, Items(m, q))
<1>1. \A s \in Threads : pc[s] \notin MovePCs
  BY Alone DEF MovePCs
<1>2. cache \in Cache /\ Sound(cache)
  BY <1>1 DEF SerialInv, LeaksInv, Inv, TypeOK, Stages
<1> QED BY <1>1, <1>2, OrderIs, OrderStill

(* The same for the list that a step leaves.                                *)
LEMMA SerialRowAfter ==
    ASSUME OneAtATime, SerialInv, NEW t \in Threads, Accept(t) \/ Step(t), pc'[t] \notin MovePCs,
           cache' \in Cache, NEW m, NEW q, Row(cache', m, q)
    PROVE  Order' = Objects(cache', Items(m, q))
<1>1. \A s \in Threads : pc'[s] \notin MovePCs
  BY Alone DEF MovePCs
<1> QED BY <1>1, OrderIs, OrderStill

(* The steps outside the list.                                              *)
LEMMA SerialQuiet ==
    ASSUME OneAtATime, SerialInv, LeaksInv', NEW t \in Threads,
           \/ Accept(t) \/ RefuseRequest(t) \/ GetRequest(t) \/ NotFound(t) \/ WriteCached(t)
           \/ Connect(t) \/ Relay(t) \/ RelayOnly(t) \/ WriteLock(t) \/ RefuseItem(t) \/ Close(t)
    PROVE  SerialInv' /\ Order' = Order
<1>0. (Accept(t) \/ Step(t)) /\ pc \in [Threads -> PCs]
  BY Alone DEF Step
<1>1. /\ cache' = cache /\ pc[t] \notin MovePCs /\ pc'[t] \notin MovePCs \cup {"walk"}
  <2>1. CASE Accept(t) \/ RefuseRequest(t) \/ GetRequest(t) \/ NotFound(t)
    BY <1>0, <2>1 DEF Accept, RefuseRequest, GetRequest, NotFound, At, Goto, MovePCs
  <2>2. CASE WriteCached(t) \/ Connect(t) \/ Relay(t) \/ RelayOnly(t)
    BY <1>0, <2>2 DEF WriteCached, Connect, Relay, RelayOnly, At, Goto, MovePCs
  <2>3. CASE WriteLock(t) \/ RefuseItem(t) \/ Close(t)
    BY <1>0, <2>3 DEF WriteLock, RefuseItem, Close, At, Goto, MovePCs
  <2> QED BY <2>1, <2>2, <2>3
<1>2. /\ Sound(cache) /\ cache \in Cache
      /\ \A m, q : Row(cache, m, q) => Order = Objects(cache, Items(m, q))
  BY <1>0, <1>1, SerialRow
<1>3. Order' = Order
  <2>1. PICK m, q : Row(cache, m, q)
    BY <1>2 DEF Sound
  <2>2. Order' = Objects(cache', Items(m, q))
    BY <1>0, <1>1, <1>2, <2>1, SerialRowAfter
  <2> QED BY <1>1, <1>2, <2>1, <2>2
<1>4. Turn(t)'
  BY <1>1 DEF Turn, Stages
<1> QED BY <1>0, <1>1, <1>2, <1>3, <1>4, SerialRest

(* The walk begins at the first item and goes on to the next.               *)
LEMMA WalkBegins ==
    ASSUME OneAtATime, SerialInv, LeaksInv', NEW t \in Threads, ReadLock(t)
    PROVE  SerialInv' /\ Order' = Order
<1>0. (Accept(t) \/ Step(t)) /\ pc \in [Threads -> PCs] /\ at \in [Threads -> Pointers]
  BY Alone DEF Step, SerialInv, LeaksInv, Inv, TypeOK
<1>1. /\ cache' = cache /\ pc[t] = "rdlock" /\ pc'[t] = "walk" /\ at'[t] = cache.next[Dummy]
  BY <1>0 DEF ReadLock, At, Goto
<1>2. /\ Sound(cache) /\ cache \in Cache
      /\ \A m, q : Row(cache, m, q) => Order = Objects(cache, Items(m, q))
  BY <1>0, <1>1, SerialRow DEF MovePCs
<1>3. PICK m, q : Row(cache, m, q)
  BY <1>2 DEF Sound
<1>4. Order' = Order
  BY <1>0, <1>1, <1>2, <1>3, SerialRowAfter DEF MovePCs
<1>5. Passed(t)'
  <2>1. m \in Nat /\ q[0] = Dummy
    BY <1>3 DEF Row
  <2>2. cache.next[Dummy] = IF 1 = m + 1 THEN NULL ELSE q[1]
    <3>1. CASE m = 0
      BY <1>3, <2>1, <3>1 DEF Row
    <3>2. CASE m # 0
      <4>1. 0 \in 0 .. m - 1 /\ 0 + 1 = 1 /\ 1 # m + 1
        BY <2>1, <3>2
      <4>2. cache.next[q[0]] = q[0 + 1]
        BY <1>3, <4>1 DEF Row
      <4> QED BY <2>1, <4>1, <4>2
    <3> QED BY <3>1, <3>2
  <2>3. 1 \in 1 .. m + 1 /\ 1 .. 1 - 1 = {}
    BY <2>1
  <2>4. Row(cache', m, q)
    BY <1>1, <1>3
  <2>5. at'[t] = IF 1 = m + 1 THEN NULL ELSE q[1]
    BY <1>1, <2>2
  <2> QED BY <2>3, <2>4, <2>5 DEF Passed
<1>6. Turn(t)'
  BY <1>1, <1>5 DEF Turn, Stages, MovePCs
<1> QED BY <1>0, <1>1, <1>2, <1>4, <1>6, SerialRest

(* A walk that passes an item of another key.                               *)
LEMMA WalkGoesOn ==
    ASSUME OneAtATime, SerialInv, LeaksInv', NEW t \in Threads, Walk(t),
           cache.url[at[t]] # key[t]
    PROVE  SerialInv' /\ Order' = Order
<1>0. /\ Accept(t) \/ Step(t)
      /\ pc \in [Threads -> PCs] /\ at \in [Threads -> Pointers]
  BY Alone DEF Step, SerialInv, LeaksInv, Inv, TypeOK
<1>1. /\ cache' = cache /\ key' = key /\ pc[t] = "walk" /\ pc'[t] = "walk"
      /\ at[t] # NULL /\ at'[t] = cache.next[at[t]]
  BY <1>0 DEF Walk, At, Goto
<1>2. /\ Sound(cache) /\ cache \in Cache
      /\ \A m, q : Row(cache, m, q) => Order = Objects(cache, Items(m, q))
  BY <1>0, <1>1, SerialRow DEF MovePCs
<1>3. Passed(t)
  BY <1>1 DEF SerialInv, Turn
<1>4. PICK m, q : /\ Row(cache, m, q)
                  /\ \E i \in 1 .. m + 1 :
                         /\ at[t] = IF i = m + 1 THEN NULL ELSE q[i]
                         /\ \A j \in 1 .. i - 1 : cache.url[q[j]] # key[t]
  BY <1>3 DEF Passed
<1>5. PICK i \in 1 .. m + 1 : /\ at[t] = IF i = m + 1 THEN NULL ELSE q[i]
                              /\ \A j \in 1 .. i - 1 : cache.url[q[j]] # key[t]
  BY <1>4
<1>6. Order' = Order
  BY <1>0, <1>1, <1>2, <1>4, SerialRowAfter DEF MovePCs
<1>7. Passed(t)'
  <2>1. m \in Nat /\ i # m + 1 /\ at[t] = q[i]
    BY <1>1, <1>4, <1>5 DEF Row
  <2>2. /\ i + 1 \in 1 .. m + 1 /\ i \in 0 .. m /\ (i + 1) - 1 = i
        /\ \A j \in 1 .. i : j \in 1 .. i - 1 \/ j = i
    BY <2>1
  <2>3. at'[t] = IF i + 1 = m + 1 THEN NULL ELSE q[i + 1]
    <3>1. CASE i = m
      BY <1>1, <1>4, <2>1, <3>1 DEF Row
    <3>2. CASE i # m
      <4>1. i \in 0 .. m - 1 /\ i + 1 # m + 1
        BY <2>1, <2>2, <3>2
      <4>2. cache.next[q[i]] = q[i + 1]
        BY <1>4, <4>1 DEF Row
      <4> QED BY <1>1, <2>1, <4>1, <4>2
    <3> QED BY <3>1, <3>2
  <2>4. \A j \in 1 .. (i + 1) - 1 : cache'.url[q[j]] # key'[t]
    BY <1>1, <1>5, <2>1, <2>2
  <2>5. Row(cache', m, q)
    BY <1>1, <1>4
  <2> QED BY <2>2, <2>3, <2>4, <2>5 DEF Passed
<1>8. Turn(t)'
  BY <1>1, <1>7 DEF Turn, Stages, MovePCs
<1> QED BY <1>0, <1>1, <1>2, <1>6, <1>8, SerialRest

(* What the steps of Lru do to the objects of a row.                        *)
Lists(s, c, m, q) ==
    /\ \E D : s \in Seq(D)
    /\ Len(s) = m /\ DOMAIN s = 1 .. m /\ \A i \in 1 .. m : s[i] = Object(c, q[i])

(* The objects of a row are listed, and a list is what it lists.            *)
LEMMA ObjectsSeq ==
    ASSUME NEW c, NEW m \in Nat, NEW q
    PROVE  Lists(Objects(c, Items(m, q)), c, m, q)
<1> DEFINE s == Objects(c, Items(m, q))
           D == {s[i] : i \in 1 .. m}
<1>1. DOMAIN s = 1 .. m /\ \A i \in 1 .. m : s[i] = Object(c, q[i])
  BY ObjectsAt
<1>2. s = [i \in 1 .. m |-> s[i]]
  BY <1>1 DEF Objects
<1> HIDE DEF s
<1>3. s \in [1 .. m -> D]
  BY <1>2
<1>4. s \in Seq(D) /\ Len(s) = m
  BY <1>3
<1> HIDE DEF D
<1> QED BY <1>1, <1>4 DEF s, Lists

LEMMA ListsIs ==
    ASSUME NEW s, NEW c, NEW m \in Nat, NEW q, Lists(s, c, m, q)
    PROVE  s = [i \in 1 .. m |-> Object(c, q[i])]
<1>1. PICK D : s \in Seq(D)
  BY DEF Lists
<1>2. s = [i \in 1 .. m |-> s[i]]
  BY <1>1 DEF Lists
<1> QED BY <1>2 DEF Lists

(* Hoisting an item is Lru's hit, dropping the last is Lru's drop, and      *)
(* pushing one is Lru's addition.                                           *)
LEMMA ObjectsHoisted ==
    ASSUME NEW c, NEW m \in Nat, NEW q, NEW k \in 1 .. m
    PROVE  LET s == Objects(c, Items(m, q)) IN
           Objects(c, Items(m, Hoisted(m, q, k))) = <<s[k]>> \o RemoveAt(s, k)
<1> DEFINE s == Objects(c, Items(m, q))
           h == Hoisted(m, q, k)
           r == Objects(c, Items(m, h))
<1>1. Lists(s, c, m, q) /\ Lists(r, c, m, h)
  BY ObjectsSeq
<1>2. \A i \in 1 .. m : /\ h[i] = IF i = 1 THEN q[k] ELSE IF i <= k THEN q[i - 1] ELSE q[i]
                        /\ i # 1 => i - 1 \in 1 .. m
  BY HoistedAt
<1> HIDE DEF s, h, r
<1>3. r = [i \in 1 .. m |-> Object(c, h[i])]
  BY <1>1, ListsIs
<1>4. <<s[k]>> \o RemoveAt(s, k) = Fronted(s, k)
  BY <1>1, FrontedAt DEF Lists
<1>5. \A i \in 1 .. m : Object(c, h[i]) = IF i = 1 THEN s[k] ELSE IF i <= k THEN s[i - 1] ELSE s[i]
  BY <1>1, <1>2 DEF Lists
<1>6. r = Fronted(s, k)
  <2>1. Len(s) = m
    BY <1>1 DEF Lists
  <2> QED BY <1>3, <1>5, <2>1 DEF Fronted
<1> QED BY <1>4, <1>6 DEF r, s, h

(* The first m items of two rows mean the same objects.                     *)
Agree(d, p, c, q, m) == m \in Nat /\ \A i \in 1 .. m : Object(d, p[i]) = Object(c, q[i])

LEMMA ObjectsDropped ==
    ASSUME NEW c, NEW d, NEW m \in Nat \ {0}, NEW p, NEW q, Agree(d, p, c, q, m - 1)
    PROVE  Objects(d, Items(m - 1, p)) = Front(Objects(c, Items(m, q)))
<1> DEFINE s == Objects(c, Items(m, q))
           r == Objects(d, Items(m - 1, p))
<1>1. Lists(s, c, m, q) /\ Lists(r, d, m - 1, p) /\ m - 1 \in Nat
  BY ObjectsSeq
<1>2. \A i \in 1 .. m - 1 : i \in 1 .. m
  OBVIOUS
<1> HIDE DEF s, r
<1>3. r = [i \in 1 .. m - 1 |-> Object(d, p[i])]
  BY <1>1, ListsIs
<1>4. Front(s) = [i \in 1 .. m - 1 |-> s[i]]
  <2>1. PICK D : s \in Seq(D)
    BY <1>1 DEF Lists
  <2>2. Len(s) = m
    BY <1>1 DEF Lists
  <2> QED BY <2>1, <2>2 DEF Front
<1>5. \A i \in 1 .. m - 1 : Object(d, p[i]) = s[i]
  BY <1>1, <1>2 DEF Lists, Agree
<1> QED BY <1>3, <1>4, <1>5 DEF r, s

LEMMA ObjectsPushed ==
    ASSUME NEW c, NEW d, NEW m, NEW q, NEW n, Agree(d, q, c, q, m)
    PROVE  Objects(d, Items(m + 1, Pushed(m, q, n))) = <<Object(d, n)>> \o Objects(c, Items(m, q))
<1> DEFINE s == Objects(c, Items(m, q))
           p == Pushed(m, q, n)
           z == m + 1
           r == Objects(d, Items(z, p))
           o == Object(d, n)
<1>0. m \in Nat /\ \A i \in 1 .. m : Object(d, q[i]) = Object(c, q[i])
  BY DEF Agree
<1>1. Lists(s, c, m, q) /\ Lists(r, d, z, p) /\ z \in Nat
  BY <1>0, ObjectsSeq
<1>2. \A i \in 1 .. z : p[i] = (IF i = 1 THEN n ELSE q[i - 1]) /\ (i # 1 => i - 1 \in 1 .. m)
  BY <1>0 DEF Pushed
<1> HIDE DEF s, p, r
<1>3. r = [i \in 1 .. z |-> Object(d, p[i])]
  <2> HIDE DEF z
  <2> QED BY <1>1, ListsIs
<1>4. \A i \in 1 .. z : Object(d, p[i]) = IF i = 1 THEN o ELSE s[i - 1]
  <2> SUFFICES ASSUME NEW i \in 1 .. z
               PROVE  Object(d, p[i]) = IF i = 1 THEN o ELSE s[i - 1]
    OBVIOUS
  <2>1. i # 1 => s[i - 1] = Object(c, q[i - 1])
    BY <1>1, <1>2 DEF Lists
  <2> QED BY <1>0, <1>2, <2>1
<1> HIDE DEF o
<1>5. <<o>> \o s = [i \in 1 .. z |-> IF i = 1 THEN o ELSE s[i - 1]]
  <2>1. PICK D : s \in Seq(D)
    BY <1>1 DEF Lists
  <2> DEFINE F == D \cup {o}
  <2>2. o \in F /\ s \in Seq(F)
    BY <2>1
  <2>3. Len(s) = m
    BY <1>1 DEF Lists
  <2> HIDE DEF F
  <2> QED BY <2>2, <2>3, PushFront
<1> QED BY <1>3, <1>4, <1>5 DEF r, s, p, o

(* A walk that finds the key of its thread is a hit.                        *)
LEMMA WalkHits ==
    ASSUME OneAtATime, SerialInv, LeaksInv', NEW t \in Threads, Walk(t),
           cache.url[at[t]] = key[t]
    PROVE  SerialInv' /\ Uses!Next
<1>0. /\ Accept(t) \/ Step(t)
      /\ pc \in [Threads -> PCs] /\ at \in [Threads -> Pointers]
      /\ key[t] \in Urls \cup {NULL}
  BY Alone DEF Step, SerialInv, LeaksInv, Inv, TypeOK
<1>1. /\ cache' = cache /\ pc[t] = "walk" /\ pc'[t] = "front"
      /\ at[t] # NULL /\ at' = at /\ key[t] # NULL
  BY <1>0 DEF Walk, At, Goto
<1>2. /\ Sound(cache) /\ cache \in Cache
      /\ \A m, q : Row(cache, m, q) => Order = Objects(cache, Items(m, q))
  BY <1>0, <1>1, SerialRow DEF MovePCs
<1>3. Passed(t)
  BY <1>1 DEF SerialInv, Turn
<1>4. PICK m, q : /\ Row(cache, m, q)
                  /\ \E i \in 1 .. m + 1 :
                         /\ at[t] = IF i = m + 1 THEN NULL ELSE q[i]
                         /\ \A j \in 1 .. i - 1 : cache.url[q[j]] # key[t]
  BY <1>3 DEF Passed
<1>5. PICK k \in 1 .. m + 1 : /\ at[t] = IF k = m + 1 THEN NULL ELSE q[k]
                              /\ \A j \in 1 .. k - 1 : cache.url[q[j]] # key[t]
  BY <1>4
<1>6. m \in Nat /\ k \in 1 .. m /\ at[t] = q[k]
  <2>1. m \in Nat
    BY <1>4 DEF Row
  <2> QED BY <1>1, <1>5, <2>1
<1>7. Order = Objects(cache, Items(m, q))
  BY <1>2, <1>4
<1>8. Order' = Objects(cache, Items(m, Hoisted(m, q, k)))
  <2>1. OnItsWay(cache, q, k, cache)
    BY DEF OnItsWay, Courses
  <2>2. OnlyMoves(pc', t)
    BY <1>0, <1>1, Alone DEF OnlyMoves, MovePCs
  <2>3. OrderOf(cache, pc', at') = Objects(cache, Items(m, Hoisted(m, q, k)))
    BY <1>1, <1>2, <1>4, <1>6, <2>1, <2>2, OrderMoving
  <2> QED BY <1>1, <2>3, OrderIs
<1>9. Lists(Order, cache, m, q)
  BY <1>6, <1>7, ObjectsSeq
<1>10. Uses!Next
  <2>1. Order' = <<Order[k]>> \o RemoveAt(Order, k)
    BY <1>6, <1>7, <1>8, ObjectsHoisted
  <2>2. k \in DOMAIN Order /\ Order[k].url = key[t]
    BY <1>1, <1>6, <1>9 DEF Lists, Object
  <2>3. \A j \in 1 .. k - 1 : Order[j].url # key[t]
    <3>1. \A j \in 1 .. k - 1 : j \in 1 .. m
      BY <1>6
    <3> QED BY <1>5, <1>9, <3>1 DEF Lists, Object
  <2>4. key[t] \in Urls
    BY <1>0, <1>1
  <2> QED BY <2>1, <2>2, <2>3, <2>4, UsesHit
<1>11. Turn(t)'
  BY <1>1 DEF Turn, Stages
<1> QED BY <1>0, <1>1, <1>2, <1>10, <1>11, SerialRest

(* The statements of moveToFront change nothing that Lru tells apart.       *)
LEMMA MidwayCourse ==
    ASSUME NEW t, NEW c, pc[t] \in Stages, Midway(t, c)
    PROVE  cache \in Courses(c, at[t])
BY DEF Midway, Course, Courses, Stages, MovePCs

LEMMA MidwayCourseAfter ==
    ASSUME NEW t, NEW c, pc'[t] \in Stages, Midway(t, c)'
    PROVE  cache' \in Courses(c, at'[t])
BY DEF Midway, Course, Courses, Stages, MovePCs

(* Each statement of moveToFront stutters.                                  *)
LEMMA SerialMove ==
    ASSUME OneAtATime, SerialInv, LeaksInv', NEW t \in Threads, MoveToFront(t)
    PROVE  SerialInv' /\ Order' = Order
<1>0. /\ Accept(t) \/ Step(t)
      /\ pc \in [Threads -> PCs] /\ at' = at /\ cache \in Cache /\ pc[t] \in MovePCs
      /\ at[t] \in cache.used /\ cache' \in Cache
  BY Alone, MoveFrame DEF Step, SerialInv, LeaksInv, Inv, TypeOK, ItemStillThere
<1>10. reg \in [Threads -> [cell : Pointers, value : Pointers]]
  BY DEF SerialInv, LeaksInv, Inv, TypeOK
<1>1. /\ OnlyMoves(pc, t) /\ \A s \in Threads : pc[s] \in MovePCs <=> s = t
      /\ \A s \in Threads : pc'[s] \in MovePCs => s = t
  BY <1>0, Alone DEF OnlyMoves, MovePCs
<1>2. PICK there \in (MovePCs \cup {"write"}) \ {"front"} : Goto(t, there)
  BY MoveFrame
<1>3. pc'[t] \in Stages \cup {"write"}
  BY <1>0, <1>2 DEF Goto, Stages
<1>4. CASE pc[t] \in Stages
  <2>1. PICK c \in Cache : Midway(t, c)
    BY <1>4 DEF SerialInv, Turn
  <2>2. Sound(c) /\ at[t] \in c.used /\ at[t] # c.next[Dummy]
    BY <2>1 DEF Midway, Course
  <2>3. PICK m, q : Row(c, m, q)
    BY <2>2 DEF Sound
  <2>4. PICK k \in 1 .. m : at[t] = q[k]
    BY <2>2, <2>3, RowPlace
  <2>5. k # 1 /\ m \in Nat
    <3>1. m \in Nat /\ q[0] = Dummy
      BY <2>3 DEF Row
    <3>2. 0 \in 0 .. m - 1 /\ 0 + 1 = 1
      BY <3>1, <2>4
    <3>3. c.next[q[0]] = q[0 + 1]
      BY <2>3, <3>2 DEF Row
    <3> QED BY <2>2, <2>4, <3>1, <3>2, <3>3
  <2>6. Order = Objects(c, Items(m, Hoisted(m, q, k)))
    <3>1. OnItsWay(c, q, k, cache)
      BY <1>4, <2>1, <2>4, <2>5, MidwayCourse DEF OnItsWay
    <3>2. OrderOf(cache, pc, at) = Objects(c, Items(m, Hoisted(m, q, k)))
      BY <1>1, <2>3, <2>4, <3>1, OrderMoving
    <3> QED BY <3>2, OrderIs
  <2>7. /\ pc'[t] \in Stages => Midway(t, c)'
        /\ pc'[t] \notin Stages => cache' = Moved(c, at[t])
    BY <1>0, <1>4, <1>10, <2>1, MidwayStep
  <2>8. CASE pc'[t] \in Stages
    <3>1. OnItsWay(c, q, k, cache')
      BY <1>0, <2>4, <2>5, <2>7, <2>8, MidwayCourseAfter DEF OnItsWay
    <3>2. OnlyMoves(pc', t)
      BY <1>1, <2>8 DEF OnlyMoves, Stages
    <3>3. OrderOf(cache', pc', at') = Objects(c, Items(m, Hoisted(m, q, k)))
      BY <1>0, <2>3, <2>4, <3>1, <3>2, OrderMoving
    <3>4. Turn(t)'
      <4>1. Midway(t, c)' /\ Cache' = Cache
        BY <2>7, <2>8 DEF Cache
      <4>2. (\E d \in Cache : Midway(t, d))'
        BY <4>1
      <4> QED BY <2>8, <4>2 DEF Turn, Stages, MovePCs
    <3>5. pc'[t] \in Stages'
      BY <2>8 DEF Stages, MovePCs
    <3>6. SerialInv'
      BY <1>0, <2>8, <3>4, SerialRest
    <3> QED BY <2>6, <3>3, <3>6, OrderIs
  <2>9. CASE pc'[t] \notin Stages
    <3>1. pc'[t] = "write" /\ cache' = Moved(c, q[k])
      BY <1>3, <2>4, <2>7, <2>9
    <3>2. Sound(cache')
      BY <2>2, <2>4, <3>1, MovedSound
    <3>3. /\ Row(cache', m, Hoisted(m, q, k))
          /\ cache'.url = c.url /\ cache'.size = c.size
      <4>1. k \in 2 .. m
        BY <2>5
      <4> QED BY <2>3, <3>1, <4>1, MovedRow
    <3>4. Order' = Objects(cache', Items(m, Hoisted(m, q, k)))
      BY <1>0, <3>1, <3>3, SerialRowAfter DEF MovePCs
    <3>5. Order' = Order
      BY <2>6, <3>3, <3>4, Zenon DEF Objects, Object
    <3>6. Turn(t)'
      BY <3>1 DEF Turn, Stages, MovePCs
    <3>7. SerialInv'
      BY <1>0, <3>2, <3>6, SerialRest
    <3> QED BY <3>5, <3>7
  <2> QED BY <2>8, <2>9
<1>5. CASE pc[t] \notin Stages
  <2>1. pc[t] = "front"
    BY <1>0, <1>5 DEF Stages
  <2>2. Test(t, "front", at[t] = cache.next[Dummy], "write", "get prev")
    BY <2>1, MoveBegins
  <2>3. cache' = cache /\ Sound(cache)
    <3>1. \A s \in Threads : pc[s] \notin Stages
      BY <1>1, <1>5 DEF Stages
    <3> QED BY <2>2, <3>1 DEF Test, SerialInv
  <2>4. PICK m, q : Row(cache, m, q)
    BY <2>3 DEF Sound
  <2>5. PICK k \in 1 .. m : at[t] = q[k]
    BY <1>0, <2>4, RowPlace
  <2>6. OnItsWay(cache, q, k, cache) /\ m \in Nat
    <3>1. m \in Nat
      BY <2>4 DEF Row
    <3> QED BY <3>1 DEF OnItsWay, Courses
  <2>7. Order = Objects(cache, Items(m, Hoisted(m, q, k)))
    <3>1. OrderOf(cache, pc, at) = Objects(cache, Items(m, Hoisted(m, q, k)))
      BY <1>0, <1>1, <2>4, <2>5, <2>6, OrderMoving
    <3> QED BY <3>1, OrderIs
  <2>8. CASE at[t] = cache.next[Dummy]
    <3>1. pc'[t] = "write"
      BY <1>0, <2>2, <2>8 DEF Test, Goto
    <3>2. k = 1
      <4>1. q[0] = Dummy /\ 0 \in 0 .. m - 1 /\ 0 + 1 = 1 /\ 1 \in 0 .. m /\ k \in 0 .. m
        BY <2>4, <2>6 DEF Row
      <4>2. cache.next[q[0]] = q[0 + 1]
        BY <2>4, <4>1 DEF Row
      <4>3. q[k] = q[1]
        BY <2>5, <2>8, <4>1, <4>2
      <4> QED BY <2>4, <4>1, <4>3 DEF Row
    <3>3. Items(m, Hoisted(m, q, k)) = Items(m, q)
      <4>1. \A i \in 1 .. m : Hoisted(m, q, k)[i] = IF i = 1 THEN q[k]
                                                     ELSE IF i <= k THEN q[i - 1] ELSE q[i]
        BY <2>6, HoistedAt
      <4>2. \A i \in 1 .. m : Hoisted(m, q, k)[i] = q[i]
        BY <3>2, <4>1
      <4> QED BY <4>2 DEF Items
    <3>4. Order' = Order
      BY <1>0, <2>3, <2>4, <2>7, <3>1, <3>3, SerialRowAfter DEF MovePCs
    <3>5. Turn(t)'
      BY <3>1 DEF Turn, Stages, MovePCs
    <3> QED BY <1>0, <2>3, <3>4, <3>5, SerialRest
  <2>9. CASE at[t] # cache.next[Dummy]
    <3>1. pc'[t] = "get prev"
      BY <1>0, <2>2, <2>9 DEF Test, Goto
    <3>2. OnlyMoves(pc', t)
      BY <1>1, <3>1 DEF OnlyMoves, MovePCs
    <3>3. Order' = Order
      <4>1. OrderOf(cache, pc', at') = Objects(cache, Items(m, Hoisted(m, q, k)))
        BY <1>0, <2>4, <2>5, <2>6, <3>2, OrderMoving
      <4> QED BY <2>3, <2>7, <4>1, OrderIs
    <3>4. Midway(t, cache)'
      BY <1>0, <2>3, <2>9, <3>1 DEF Midway, Course
    <3>5. Turn(t)'
      <4>1. Cache' = Cache /\ cache' \in Cache
        BY <1>0, <2>3 DEF Cache
      <4>2. (\E c \in Cache : Midway(t, c))'
        BY <3>4, <4>1
      <4> QED BY <3>1, <4>2 DEF Turn, Stages, MovePCs
    <3> QED BY <1>0, <2>3, <3>3, <3>5, SerialRest
  <2> QED BY <2>8, <2>9
<1> QED BY <1>4, <1>5

(* Eviction drops the last object, and insertion adds one in front.         *)
LEMMA SerialEvict ==
    ASSUME OneAtATime, SerialInv, LeaksInv', NEW t \in Threads, Evict(t)
    PROVE  SerialInv' /\ (Uses!Next \/ Order' = Order)
<1>0. /\ Accept(t) \/ Step(t)
      /\ pc' = pc /\ pc[t] = "add" /\ cache' = removeOldestCacheItem(cache)
      /\ response[t] \in Nat /\ response[t] <= MAX_OBJECT_SIZE
      /\ cache.totalSize + response[t] > MAX_CACHE_SIZE
      /\ MAX_CACHE_SIZE \in Nat /\ MAX_OBJECT_SIZE \in Nat /\ cache.totalSize \in Int
  <2>1. response[t] \in Nat /\ cache.totalSize \in Int
    BY DEF SerialInv, LeaksInv, Inv, TypeOK, Cache
  <2>2. MAX_CACHE_SIZE \in Nat /\ MAX_OBJECT_SIZE \in Nat
    BY CacheAssumption
  <2> QED BY <2>1, <2>2 DEF Step, Evict, At, TooLarge, Fits
<1>1. /\ Sound(cache) /\ cache \in Cache
      /\ \A m, q : Row(cache, m, q) => Order = Objects(cache, Items(m, q))
  BY <1>0, SerialRow DEF MovePCs
<1>2. SerialInv'
  <2>1. Sound(cache')
    BY <1>0, <1>1, RemoveSound
  <2>2. Turn(t)'
    BY <1>0 DEF Turn, Stages, MovePCs
  <2> QED BY <1>0, <2>1, <2>2, SerialRest
<1>3. PICK m, q : Row(cache, m, q)
  BY <1>1 DEF Sound
<1>4. Order = Objects(cache, Items(m, q)) /\ m \in Nat
  BY <1>1, <1>3 DEF Row
<1>5. CASE m = 0
  <2>1. cache.tail = Dummy
    BY <1>3, <1>5 DEF Row
  <2>2. cache' = cache
    BY <1>0, <2>1 DEF removeOldestCacheItem
  <2>3. Order' = Objects(cache', Items(m, q))
    BY <1>0, <1>1, <1>3, <2>2, SerialRowAfter DEF MovePCs
  <2> QED BY <1>2, <1>4, <2>2, <2>3
<1>6. CASE m # 0
  <2> DEFINE p == [i \in 0 .. m - 1 |-> q[i]]
  <2>1. /\ cache' \in Cache /\ Row(cache', m - 1, p)
        /\ cache'.size = cache.size /\ cache'.url = cache.url
    BY <1>0, <1>1, <1>3, <1>6, RemoveRow
  <2> HIDE DEF p
  <2>2. Order' = Objects(cache', Items(m - 1, p))
    BY <1>0, <2>1, SerialRowAfter DEF MovePCs
  <2>3. Order' = Front(Order)
    <3>1. m \in Nat \ {0}
      BY <1>4, <1>6
    <3>2. Agree(cache', p, cache, q, m - 1)
      <4>1. m - 1 \in Nat /\ \A i \in 1 .. m - 1 : p[i] = q[i]
        BY <3>1 DEF p
      <4>2. \A n : Object(cache', n) = Object(cache, n)
        BY <2>1, Zenon DEF Object
      <4> QED BY <4>1, <4>2 DEF Agree
    <3>3. Objects(cache', Items(m - 1, p)) = Front(Objects(cache, Items(m, q)))
      BY <3>1, <3>2, ObjectsDropped
    <3> QED BY <1>4, <2>2, <3>3
  <2>4. Order # <<>>
    <3>1. Lists(Order, cache, m, q)
      BY <1>4, ObjectsSeq
    <3>2. Len(Order) # 0
      BY <1>4, <1>6, <3>1 DEF Lists
    <3> QED BY <3>2
  <2>5. Uses!Total(Order) = cache.totalSize
    BY <1>1, <1>3, <1>4, ObjectsTotal DEF Sound
  <2>6. Uses!Total(Order) + MAX_OBJECT_SIZE > MAX_CACHE_SIZE
    BY <1>0, <2>5
  <2> QED BY <1>2, <2>3, <2>4, <2>6, UsesDrop
<1> QED BY <1>5, <1>6

(* An insertion is an addition of the thread's key.                         *)
LEMMA SerialInsert ==
    ASSUME OneAtATime, SerialInv, LeaksInv', NEW t \in Threads, Insert(t)
    PROVE  SerialInv' /\ Uses!Next
<1>0. /\ Accept(t) \/ Step(t)
      /\ pc[t] = "add" /\ pc'[t] = "close"
      /\ response[t] \in Nat /\ response[t] <= MAX_OBJECT_SIZE /\ key[t] \in Urls
      /\ cache.totalSize + response[t] <= MAX_CACHE_SIZE
      /\ MAX_CACHE_SIZE \in Nat /\ MAX_OBJECT_SIZE \in Nat /\ cache.totalSize \in Int
  <2>1. /\ response[t] \in Nat /\ cache.totalSize \in Int /\ pc \in [Threads -> PCs]
        /\ key[t] \in Urls \cup {NULL} /\ Holding(t)
    BY DEF SerialInv, LeaksInv, Inv, TypeOK, Cache
  <2>2. MAX_CACHE_SIZE \in Nat /\ MAX_OBJECT_SIZE \in Nat
    BY CacheAssumption
  <2>3. pc[t] = "add" /\ pc'[t] = "close" /\ ~TooLarge(t) /\ Fits(t)
    BY <2>1 DEF Insert, At, Goto
  <2>4. key[t] # NULL
    BY <2>1, <2>3 DEF Holding
  <2> QED BY <2>1, <2>2, <2>3, <2>4 DEF Step, TooLarge, Fits
<1>1. /\ Sound(cache) /\ cache \in Cache
      /\ \A m, q : Row(cache, m, q) => Order = Objects(cache, Items(m, q))
  BY <1>0, SerialRow DEF MovePCs
<1>2. PICK n \in Nodes \ cache.used : cache' = insertItem(cache, n, key[t], response[t])
  BY DEF Insert, OneAtATime
<1>3. SerialInv'
  <2>1. Sound(cache')
    BY <1>0, <1>1, <1>2, InsertSound
  <2>2. Turn(t)'
    BY <1>0 DEF Turn, Stages, MovePCs
  <2> QED BY <1>0, <2>1, <2>2, SerialRest
<1>4. PICK m, q : Row(cache, m, q)
  BY <1>1 DEF Sound
<1>5. Order = Objects(cache, Items(m, q)) /\ m \in Nat
  BY <1>1, <1>4 DEF Row
<1>6. /\ cache' \in Cache /\ Row(cache', m + 1, Pushed(m, q, n))
      /\ cache'.size[n] = response[t] /\ cache'.url[n] = key[t]
      /\ \A x \in cache.used : cache'.size[x] = cache.size[x] /\ cache'.url[x] = cache.url[x]
  BY <1>0, <1>1, <1>2, <1>4, InsertRow
<1>7. Order' = Objects(cache', Items(m + 1, Pushed(m, q, n)))
  BY <1>0, <1>6, SerialRowAfter DEF MovePCs
<1>8. Order' = <<[url |-> key[t], size |-> response[t]]>> \o Order
  <2>1. Agree(cache', q, cache, q, m)
    BY <1>1, <1>4, <1>5, <1>6, RowPlace DEF Agree, Object
  <2>2. Objects(cache', Items(m + 1, Pushed(m, q, n))) =
            <<Object(cache', n)>> \o Objects(cache, Items(m, q))
    BY <2>1, ObjectsPushed
  <2>3. Order' = <<Object(cache', n)>> \o Order
    BY <1>5, <1>7, <2>2
  <2> QED BY <1>6, <2>3, Zenon DEF Object
<1>9. Uses!Total(Order) = cache.totalSize
  BY <1>1, <1>4, <1>5, ObjectsTotal DEF Sound
<1>10. response[t] \in 0 .. MAX_OBJECT_SIZE /\ Uses!Total(Order) + response[t] <= MAX_CACHE_SIZE
  BY <1>0, <1>9
<1>11. Uses!Next
  BY <1>0, <1>8, <1>10, UsesAdd
<1> QED BY <1>3, <1>11

(* Every step of the proxy is a step of Lru or leaves its order alone.      *)
LEMMA SerialStep ==
    OneAtATime /\ SerialInv /\ [Next]_vars => SerialInv' /\ (Uses!Next \/ Order' = Order)
<1> SUFFICES ASSUME OneAtATime, SerialInv, [Next]_vars
             PROVE  SerialInv' /\ (Uses!Next \/ Order' = Order)
  OBVIOUS
<1>1. LeaksInv'
  BY LeaksStep DEF SerialInv
<1>2. ASSUME UNCHANGED <<cache, pc, at, reg, key>> PROVE SerialInv' /\ Order' = Order
  <2>1. Order' = Order
    BY <1>2, OrderKept
  <2>2. Active' = Active
    BY <1>2 DEF Active
  <2>3. Stages' = Stages /\ Cache' = Cache
    BY DEF Stages, MovePCs, Cache
  <2>4. ASSUME NEW t \in Threads PROVE Turn(t)'
    <3>1. ASSUME NEW c, Midway(t, c) PROVE Midway(t, c)'
      BY <1>2, <3>1, MidwayKept
    <3>2. Passed(t) => Passed(t)'
      BY <1>2 DEF Passed
    <3>3. pc[t] \in Stages => \E c \in Cache : Midway(t, c)
      BY DEF SerialInv, Turn
    <3>4. pc'[t] \in Stages => \E c \in Cache : Midway(t, c)'
      BY <1>2, <3>1, <3>3
    <3> QED BY <1>2, <2>3, <3>2, <3>4 DEF SerialInv, Turn
  <2>5. (\A t \in Threads : pc[t] \notin Stages)' => Sound(cache')
    BY <1>2, <2>3 DEF SerialInv
  <2> QED BY <1>1, <2>1, <2>2, <2>4, <2>5 DEF SerialInv
<1>3. ASSUME NEW t \in Threads, AcceptFails(t) \/ NetworkError(t) \/ NullAccess(t) \/ Overlong(t)
      PROVE  SerialInv' /\ Order' = Order
  BY <1>2, <1>3 DEF AcceptFails, NetworkError, NullAccess, Overlong, lock
<1>4. ASSUME NEW t \in Threads, Walk(t)
      PROVE  SerialInv' /\ (Uses!Next \/ Order' = Order)
  BY <1>1, <1>4, WalkHits, WalkGoesOn
<1>5. ASSUME NEW t \in Threads, Accept(t) \/ AcceptFails(t) \/ Step(t) \/ NetworkError(t) \/ Overlong(t)
      PROVE  SerialInv' /\ (Uses!Next \/ Order' = Order)
  BY <1>1, <1>3, <1>4, <1>5, SerialQuiet, WalkBegins, SerialMove, SerialEvict, SerialInsert DEF Step
<1>6. CASE UNCHANGED vars
  BY <1>2, <1>6 DEF vars
<1> QED BY <1>5, <1>6 DEF Next

(* With one connection at a time, and memory for every copy, the proxy uses *)
(* its list as Lru promises: a hit takes the most recent object of its key  *)
(* to the front, a miss adds its object there, and an object is dropped     *)
(* only when it was not used for the longest time and the next one may not  *)
(* fit.  All the steps of moveToFront are one use.                          *)
THEOREM ServesAsLru == OneAtATime /\ Spec => ImplementsLru
<1>1. OneAtATime /\ SerialInv /\ [Next]_vars => SerialInv' /\ [Uses!Next]_Order
  BY SerialStep
<1>2. Order = <<>> => Uses!Init
  BY DEF Order, Uses!Init
<1>3. OneAtATime => OneAtATime'
  BY DEF OneAtATime
<1> QED BY <1>1, <1>2, <1>3, SerialInit, PTL DEF Spec, ImplementsLru, Uses!Spec, Order
=============================================================================
