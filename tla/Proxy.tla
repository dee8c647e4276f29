------------------------------- MODULE Proxy -------------------------------
(***************************************************************************)
(* The caching web proxy (src/Proxy/proxylab-handout/proxy.c and cache.c):  *)
(* one thread per connection, the cache they share, and its reader-writer   *)
(* lock.  Statements that run under the write lock or touch only the        *)
(* thread's own data are grouped; under the read lock threads run together, *)
(* and there each load from the list and each store to it is a step.  The   *)
(* program is built without optimisation, so that they happen in the order  *)
(* of the source and nothing is kept in a register from one statement to    *)
(* the next.                                                                *)
(***************************************************************************)
EXTENDS CacheList, SequencesExt

CONSTANTS Threads,       \* one for each connection
          Asks,          \* the keys the client of a connection may ask for
          Sizes,         \* sizes of responses
          ActiveBound,   \* bound on connections served at the same time
          StackBound,    \* threads there is room for, ended ones included
          BadRequests,   \* whether clients send requests that are refused
          NetworkFails,  \* whether connections may fail
          MallocFails    \* whether malloc may return NULL

ASSUME ProxyAssumption ==
    /\ NULL \notin Threads
    /\ Asks \in [Threads -> SUBSET Urls]
    /\ Sizes \subseteq Nat
    /\ ActiveBound \in Nat /\ StackBound \in Nat
    /\ {BadRequests, NetworkFails, MallocFails} \subseteq BOOLEAN

VARIABLES
    cache,     \* the list
    readers,   \* threads, ended ones too, that hold the read lock
    writer,    \* the thread that holds the write lock
    pc,        \* where each thread is
    key,       \* cache_key
    at,        \* current in findCacheItem, then item
    reg,       \* what a statement of moveToFront has loaded for its store
    response,  \* the size of the response read from the server
    held,      \* its stack, descriptors and memory a thread has not given back
    status     \* of the process

lock == <<readers, writer>>
vars == <<cache, lock, pc, key, at, reg, response, held, status>>

(* findCacheItem runs under the read lock, and so does the use of its       *)
(* result, up to the end of the thread.                                     *)
MovePCs == {"front",
            "get prev", "get next", "detach next",
            "test next", "get second", "get before", "detach prev",
            "test tail", "get last", "leave tail",
            "get first", "link next", "link prev",
            "test head", "get old", "link old", "link head",
            "test empty", "take tail"}
ReaderPCs == {"walk", "write"} \cup MovePCs
WriterPCs == {"add"}
PCs == {"new", "request", "rdlock", "connect", "relay", "wrlock", "close", "ended"}
           \cup ReaderPCs \cup WriterPCs
Resources == {"thread", "connfd", "uri_data", "serverfd", "response"}

(* The registers outside a statement.                                       *)
Unloaded == [cell |-> NULL, value |-> NULL]

TypeOK ==
    /\ cache \in Cache
    /\ readers \in SUBSET Threads
    /\ writer \in Threads \cup {NULL}
    /\ pc \in [Threads -> PCs]
    /\ key \in [Threads -> Urls \cup {NULL}]
    /\ at \in [Threads -> Pointers]
    /\ reg \in [Threads -> [cell : Pointers, value : Pointers]]
    /\ response \in [Threads -> Nat]
    /\ held \in [Threads -> SUBSET Resources]
    /\ status \in {"up", "exited", "segfault"}

Init ==
    /\ cache = initCache
    /\ readers = {}
    /\ writer = NULL
    /\ pc = [t \in Threads |-> "new"]
    /\ key = [t \in Threads |-> NULL]
    /\ at = [t \in Threads |-> NULL]
    /\ reg = [t \in Threads |-> Unloaded]
    /\ response = [t \in Threads |-> 0]
    /\ held = [t \in Threads |-> {}]
    /\ status = "up"

At(t, here) == status = "up" /\ pc[t] = here
Goto(t, there) == pc' = [pc EXCEPT ![t] = there]
Active == {t \in Threads : pc[t] \notin {"new", "ended"}}

-----------------------------------------------------------------------------
(* Requests.                                                                *)

(* A thread that is neither detached nor joined keeps its stack.            *)
Stacks == {t \in Threads : "thread" \in held[t]}
RoomForThread == Cardinality(Stacks) < StackBound

Accept(t) ==
    /\ At(t, "new")
    /\ Cardinality(Active) < ActiveBound
    /\ RoomForThread
    /\ Goto(t, "request")
    /\ held' = [held EXCEPT ![t] = {"thread", "connfd"}]
    /\ UNCHANGED <<cache, lock, key, at, reg, response, status>>

(* The wrappers end the process when accept or pthread_create fails; the    *)
(* memory for the descriptor is not tested.                                 *)
AcceptFails(t) ==
    /\ At(t, "new")
    /\ \/ (NetworkFails \/ ~RoomForThread) /\ status' = "exited"
       \/ MallocFails /\ status' = "segfault"
    /\ UNCHANGED <<cache, lock, pc, key, at, reg, response, held>>

(* No request line, three words missing, another method than GET, or no     *)
(* memory for the parsed URI: the thread ends at once.                      *)
RefuseRequest(t) ==
    /\ At(t, "request")
    /\ BadRequests \/ MallocFails
    /\ Goto(t, "ended")
    /\ UNCHANGED <<cache, lock, key, at, reg, response, held, status>>

GetRequest(t) ==
    /\ At(t, "request")
    /\ \E u \in Asks[t] : key' = [key EXCEPT ![t] = u]
    /\ held' = [held EXCEPT ![t] = @ \cup {"uri_data"}]
    /\ Goto(t, "rdlock")
    /\ UNCHANGED <<cache, lock, at, reg, response, status>>

(* The Rio_ and Open_ wrappers end the process on an error, and so does     *)
(* SIGPIPE, which nothing catches.  A content that strdup had no memory for *)
(* cannot be written either.                                                *)
NetworkError(t) ==
    /\ \E here \in {"request", "write", "connect", "relay"} : At(t, here)
    /\ NetworkFails \/ (MallocFails /\ pc[t] = "write")
    /\ status' = "exited"
    /\ UNCHANGED <<cache, lock, pc, key, at, reg, response, held>>

(* parse_uri copies a host and a path of any length into fields of 100      *)
(* bytes, and build_header copies what it reads and makes of it into        *)
(* buffers of MAXLINE bytes.  Such a request may bring the process down,    *)
(* or do no harm.                                                           *)
Overlong(t) ==
    /\ At(t, "request") \/ At(t, "connect")
    /\ BadRequests
    /\ status' = "segfault"
    /\ UNCHANGED <<cache, lock, pc, key, at, reg, response, held>>

-----------------------------------------------------------------------------
(* findCacheItem.  The lock lets readers pass waiting writers.              *)

ReadLock(t) ==
    /\ At(t, "rdlock")
    /\ writer = NULL
    /\ readers' = readers \cup {t}
    /\ at' = [at EXCEPT ![t] = cache.next[Dummy]]
    /\ Goto(t, "walk")
    /\ UNCHANGED <<cache, writer, key, reg, response, held, status>>

Walk(t) ==
    /\ At(t, "walk")
    /\ at[t] # NULL /\ cache.url[at[t]] # NULL
    /\ IF cache.url[at[t]] = key[t]
       THEN Goto(t, "front") /\ at' = at
       ELSE Goto(t, "walk") /\ at' = [at EXCEPT ![t] = cache.next[at[t]]]
    /\ UNCHANGED <<cache, lock, key, reg, response, held, status>>

(* Mutant: a miss returns with the read lock held.                          *)
NotFoundKeepsLock(t) ==
    /\ At(t, "walk")
    /\ at[t] = NULL
    /\ Goto(t, "connect")
    /\ UNCHANGED <<cache, lock, key, at, reg, response, held, status>>

NotFound(t) ==
    /\ At(t, "walk")
    /\ at[t] = NULL
    /\ readers' = readers \ {t}
    /\ Goto(t, "connect")
    /\ UNCHANGED <<cache, writer, key, at, reg, response, held, status>>

(* moveToFront: a test of what is loaded, a load for the store of the same  *)
(* statement, or that store.                                                *)
Test(t, here, yes, then, else) ==
    /\ At(t, here)
    /\ Goto(t, IF yes THEN then ELSE else)
    /\ UNCHANGED <<cache, lock, key, at, reg, response, held, status>>

Load(t, here, loaded, next) ==
    /\ At(t, here)
    /\ reg' = [reg EXCEPT ![t] = loaded]
    /\ Goto(t, next)
    /\ UNCHANGED <<cache, lock, key, at, response, held, status>>

Store(t, here, changed, next) ==
    /\ At(t, here)
    /\ cache' = changed
    /\ reg' = [reg EXCEPT ![t] = Unloaded]
    /\ Goto(t, next)
    /\ UNCHANGED <<lock, key, at, response, held, status>>

Cell(pointer) == [cell |-> pointer, value |-> NULL]
Value(t, pointer) == [reg[t] EXCEPT !.value = pointer]

(* Mutant: the item is put in front without being taken from its place.     *)
StayAttached(t, item) == Test(t, "get prev", TRUE, "test tail", "test tail")

(* An item always has a predecessor, so that the test of item->prev and the *)
(* next load of it need not be two steps.                                   *)
Detach(t, item) ==
    \/ Load(t, "get prev", Cell(cache.prev[item]),
            IF cache.prev[item] # NULL THEN "get next" ELSE "test next")
    \/ Load(t, "get next", Value(t, cache.next[item]), "detach next")
    \/ Store(t, "detach next", setNext(cache, reg[t].cell, reg[t].value), "test next")
    \/ Test(t, "test next", cache.next[item] # NULL, "get second", "test tail")
    \/ Load(t, "get second", Cell(cache.next[item]), "get before")
    \/ Load(t, "get before", Value(t, cache.prev[item]), "detach prev")
    \/ /\ reg[t].cell # NULL
       /\ Store(t, "detach prev", setPrev(cache, reg[t].cell, reg[t].value), "test tail")

LeaveTail(t, item) ==
    \/ Test(t, "test tail", item = cache.tail, "get last", "get first")
    \/ Load(t, "get last", Value(t, cache.prev[item]), "leave tail")
    \/ Store(t, "leave tail", setTail(cache, reg[t].value), "get first")

Attach(t, item) ==
    \/ Load(t, "get first", Value(t, cache.next[Dummy]), "link next")
    \/ Store(t, "link next", setNext(cache, item, reg[t].value), "link prev")
    \/ Store(t, "link prev", setPrev(cache, item, Dummy), "test head")
    \/ Test(t, "test head", cache.next[Dummy] # NULL, "get old", "link head")
    \/ Load(t, "get old", Cell(cache.next[Dummy]), "link old")
    \/ /\ reg[t].cell # NULL
       /\ Store(t, "link old", setPrev(cache, reg[t].cell, item), "link head")
    \/ Store(t, "link head", setNext(cache, Dummy, item), "test empty")

TakeTail(t, item) ==
    \/ Test(t, "test empty", cache.tail = Dummy, "take tail", "write")
    \/ Store(t, "take tail", setTail(cache, item), "write")

MoveToFront(t) ==
    /\ pc[t] \in MovePCs
    /\ \/ Test(t, "front", at[t] = cache.next[Dummy], "write", "get prev")
       \/ Detach(t, at[t]) \/ LeaveTail(t, at[t])
       \/ Attach(t, at[t]) \/ TakeTail(t, at[t])

(* A null pointer is followed: one that another thread has cleared between  *)
(* its test and its load, the url of an item that strdup had no memory      *)
(* for, or the result of realloc.                                           *)
NullAccess(t) ==
    /\ \/ At(t, "walk") /\ at[t] # NULL /\ cache.url[at[t]] = NULL
       \/ At(t, "relay") /\ MallocFails
       \/ At(t, "detach prev") /\ reg[t].cell = NULL
       \/ At(t, "link old") /\ reg[t].cell = NULL
    /\ status' = "segfault"
    /\ UNCHANGED <<cache, lock, pc, key, at, reg, response, held>>

(* Mutant: findCacheItem unlocks before it returns the item.                *)
UnlockThenWrite(t) ==
    /\ At(t, "write")
    /\ IF t \in readers
       THEN readers' = readers \ {t} /\ UNCHANGED <<pc, held>>
       ELSE /\ held' = [held EXCEPT ![t] = @ \ {"connfd"}]
            /\ Goto(t, "ended")
            /\ UNCHANGED readers
    /\ UNCHANGED <<cache, writer, key, at, reg, response, status>>

(* The cached object is written to the client and the client's descriptor   *)
(* closed; findCacheItem has returned without unlocking.                    *)
WriteCached(t) ==
    /\ At(t, "write")
    /\ held' = [held EXCEPT ![t] = @ \ {"connfd"}]
    /\ Goto(t, "ended")
    /\ UNCHANGED <<cache, lock, key, at, reg, response, status>>

-----------------------------------------------------------------------------
(* A miss: the request is forwarded, the response relayed and cached.       *)

Connect(t) ==
    /\ At(t, "connect")
    /\ held' = [held EXCEPT ![t] = @ \cup {"serverfd"}]
    /\ Goto(t, "relay")
    /\ UNCHANGED <<cache, lock, key, at, reg, response, status>>

Relay(t) ==
    /\ At(t, "relay")
    /\ \E s \in Sizes : response' = [response EXCEPT ![t] = s]
    /\ held' = [held EXCEPT ![t] = @ \cup {"response"}]
    /\ Goto(t, "wrlock")
    /\ UNCHANGED <<cache, lock, key, at, reg, status>>

(* Mutant: the thread returns when it cannot cache.                         *)
RelayReturns(t) ==
    /\ At(t, "relay")
    /\ MallocFails
    /\ Goto(t, "ended")
    /\ UNCHANGED <<cache, lock, key, at, reg, response, held, status>>

(* Without memory for a copy the response is relayed and not cached.        *)
RelayOnly(t) ==
    /\ At(t, "relay")
    /\ MallocFails
    /\ Goto(t, "close")
    /\ UNCHANGED <<cache, lock, key, at, reg, response, held, status>>

WriteLock(t) ==
    /\ At(t, "wrlock")
    /\ readers = {} /\ writer = NULL
    /\ writer' = t
    /\ Goto(t, "add")
    /\ UNCHANGED <<cache, readers, key, at, reg, response, held, status>>

(* Both refusals of addCacheItem return with the write lock held.           *)
TooLarge(t) == response[t] > MAX_OBJECT_SIZE
Fits(t) == cache.totalSize + response[t] <= MAX_CACHE_SIZE
RefuseItem(t) ==
    /\ At(t, "add")
    /\ TooLarge(t) \/ (Fits(t) /\ MallocFails)
    /\ Goto(t, "close")
    /\ UNCHANGED <<cache, lock, key, at, reg, response, held, status>>

Evict(t) ==
    /\ At(t, "add")
    /\ ~TooLarge(t) /\ ~Fits(t)
    /\ cache' = removeOldestCacheItem(cache)
    /\ UNCHANGED <<lock, pc, key, at, reg, response, held, status>>

Insert(t) ==
    /\ At(t, "add")
    /\ ~TooLarge(t) /\ Fits(t)
    /\ \E n \in Nodes \ cache.used, u \in {key[t]} \cup {w \in {NULL} : MallocFails} :
          cache' = insertItem(cache, n, u, response[t])
    /\ writer' = NULL
    /\ Goto(t, "close")
    /\ UNCHANGED <<readers, key, at, reg, response, held, status>>

Close(t) ==
    /\ At(t, "close")
    /\ held' = [held EXCEPT ![t] = {"thread"}]
    /\ Goto(t, "ended")
    /\ UNCHANGED <<cache, lock, key, at, reg, response, status>>

-----------------------------------------------------------------------------
Step(t) ==
    \/ RefuseRequest(t) \/ GetRequest(t)
    \/ ReadLock(t) \/ Walk(t) \/ NotFound(t) \/ MoveToFront(t) \/ NullAccess(t)
    \/ WriteCached(t)
    \/ Connect(t) \/ Relay(t) \/ RelayOnly(t)
    \/ WriteLock(t) \/ RefuseItem(t) \/ Evict(t) \/ Insert(t) \/ Close(t)

Next == \E t \in Threads : Accept(t) \/ AcceptFails(t) \/ Step(t) \/ NetworkError(t) \/ Overlong(t)

Spec == Init /\ [][Next]_vars

(* The scheduler runs every thread, and clients and servers send and read.  *)
FairSpec == Spec /\ \A t \in Threads : WF_vars(Step(t))

-----------------------------------------------------------------------------
(* Properties that hold.                                                    *)

(* No use after free: whatever a thread that walks, moves or writes an item *)
(* points to is still allocated, and the item it sends is the one its       *)
(* client asked for.  findCacheItem hands its result out of the lock, so    *)
(* this rests on the read lock not being released after a hit.              *)
ItemStillThere ==
    \A t \in Threads :
        /\ pc[t] = "walk" => at[t] \in cache.used \cup {NULL}
        /\ pc[t] \in MovePCs \cup {"write"} =>
               at[t] \in cache.used /\ cache.url[at[t]] = key[t]

(* Only hits that race can damage the list.  With one hit, and while        *)
(* eviction and insertion are under way, the chain from the head holds      *)
(* every item once, prev and tail agree with it, and totalSize is the sum   *)
(* of the sizes and within the limit; a writer always finds it so.          *)
Hits == {t \in readers : pc[t] # "walk"}
Moving == {t \in Threads : pc[t] \in MovePCs}
SoundUnlessHitsRace == Moving = {} /\ Cardinality(Hits) <= 1 => WellFormed(cache)

(* What a thread that has ended keeps: always its stack, for main neither   *)
(* detaches nor joins it; besides, the parsed URI after a hit, the client's *)
(* descriptor after a request that was refused (the early return of         *)
(* handleRequest), and nothing else after a miss: what it got from the      *)
(* server is always given back.                                             *)
KnownLeaks ==
    \A t \in Threads : pc[t] = "ended" =>
        held[t] = {"thread"} \cup CASE t \in readers -> {"uri_data"}
                                    [] key[t] = NULL -> {"connfd"}
                                    [] OTHER         -> {}

(* Served one at a time, the threads use the cache as Lru promises.  While  *)
(* an item is on its way to the front it counts as being there.             *)
Described(n) == [url |-> cache.url[n], size |-> cache.size[n]]
Rest(n) == RemoveFirst(Chain(cache), n)
UseOrder ==
    IF Moving = {} THEN Chain(cache)
    ELSE LET item == at[CHOOSE t \in Moving : TRUE] IN <<item>> \o Rest(item)
Uses == INSTANCE Lru WITH order <- [i \in DOMAIN UseOrder |-> Described(UseOrder[i])]
ImplementsLru == Uses!Spec

(* Every request that reaches handleRequest is answered and its thread ends *)
(* (or the process does).                                                   *)
RequestsServed ==
    \A t \in Threads : pc[t] = "request" ~> pc[t] = "ended" \/ status # "up"

-----------------------------------------------------------------------------
(* The inductive invariant behind ItemStillThere.                           *)

LockOK ==
    /\ writer # NULL => readers = {}
    /\ \A t \in Threads : /\ pc[t] \in ReaderPCs => t \in readers
                          /\ t \in readers => pc[t] \in ReaderPCs \cup {"ended"}
                          /\ pc[t] \in WriterPCs => writer = t

(* Hits may have damaged the list, but not lost what it points to; without  *)
(* them neighbours agree.  A thread that has hit never leaves readers, so   *)
(* a writer comes after walks only.                                         *)
ListOK ==
    /\ Closed(cache)
    /\ (\A t \in readers : pc[t] = "walk") => DoublyLinked(cache)

(* A pointer that has been loaded for a store may be stale, but it points   *)
(* into the list, because the store comes before the list loses an item.    *)
LoadsOK ==
    \A t \in Threads :
        /\ pc[t] \in {"get next", "detach next"} => reg[t].cell \in Linked(cache)
        /\ pc[t] \in {"get before", "detach prev", "link old"} =>
               reg[t].cell \in cache.used \cup {NULL}
        /\ pc[t] \in {"detach next", "link next"} =>
               reg[t].value \in cache.used \cup {NULL}
        /\ pc[t] \in {"detach prev", "leave tail"} => reg[t].value \in Linked(cache)

Inv == TypeOK /\ LockOK /\ ListOK /\ ItemStillThere /\ LoadsOK

=============================================================================
