------------------------------- MODULE FdbKvdb -------------------------------
(***************************************************************************)
(* FlashDB's key-value database (deps/flashdb/src/fdb_kvdb.c) at the       *)
(* granularity of its flash writes.  Every program, status or erase of the *)
(* flash is a step of its own; the computation between two writes belongs  *)
(* to the later one.  The database lock makes a call of the interface run  *)
(* alone, so the only interleaving is with the loss of power, which may    *)
(* fall between any two writes and leaves just the flash.                  *)
(***************************************************************************)
EXTENDS Integers, FiniteSets

CONSTANTS Keys,         \* names of key-value pairs
          Vals,         \* values
          None,         \* no node, no value, no address
          NumSectors,   \* SECTOR_NUM
          SectorSize,   \* sector size without SECTOR_HDR_DATA_SIZE
          HdrSize,      \* KV_HDR_DATA_SIZE
          KvLen,        \* length of the node that holds a value (header, name and value)
          Threshold,    \* FDB_SEC_REMAIN_THRESHOLD
          GcThreshold,  \* FDB_GC_EMPTY_SEC_THRESHOLD
          MaxCrashes    \* bound on the losses of power

ASSUME FdbAssumption ==
    /\ NumSectors \in Nat \ {0}
    /\ SectorSize \in Nat \ {0}
    /\ HdrSize \in Nat \ {0}
    /\ KvLen \in [Vals -> Nat]
    /\ \A v \in Vals : KvLen[v] >= HdrSize
    /\ Threshold \in Nat
    /\ GcThreshold \in 1 .. NumSectors - 1
    /\ MaxCrashes \in Nat

Sectors == 0 .. NumSectors - 1
Offsets == 0 .. SectorSize - 1
Addrs   == Sectors \X Offsets

StoreStatus == {"UNUSED", "EMPTY", "USING", "FULL"}
DirtyStatus == {"UNUSED", "FALSE", "TRUE", "GC"}
KvStatus    == {"PRE_WRITE", "WRITE", "PRE_DELETE", "DELETED", "ERR_HDR"}

\* A node in the flash; crc: its name and value are written and match the CRC.
Nodes == [key : Keys, val : Vals, status : KvStatus, crc : BOOLEAN]

\* A call of the interface; done: it took effect.
Calls == [key : Keys \cup {None}, val : Vals \cup {None}, done : BOOLEAN]

\* A node about to be written: its place, the space that was left there, its
\* contents, and whether it makes its sector full.
NewNodes == [sec : Sectors, off : Offsets, remain : 0 .. SectorSize, key : Keys,
             val : Vals, full : BOOLEAN]

\* A collection: where its walk began and how many sectors it passed, the sector
\* it collects and the last offset it looked at there, last_gc_sec_addr and
\* setting_free_size.
Collections == [from : Sectors, done : 0 .. NumSectors, sec : Sectors, pos : Offsets \cup {-1},
                last : Sectors, free : Nat]

\* A walk over sectors or nodes: where it began and how far it got.
Walks == [from : Sectors, done : Nat]

ASSUME NoneAssumption ==
    None \notin Keys \cup Vals \cup Addrs \cup Nodes \cup Calls \cup NewNodes
                 \cup Collections \cup Walks

VARIABLES
    store,       \* store status in the header of each sector
    dirty,       \* dirty status in the header of each sector
    flash,       \* the node that starts at each offset of each sector
    oldest,      \* db->parent.oldest_addr
    gcRequest,   \* db->gc_request
    lastDel,     \* db->last_is_complete_del
    recovering,  \* db->in_recovery_check
    cache,       \* db->kv_cache_table: the address cached for each key
    call,        \* the interface call in progress
    pc,          \* the next step
    ret,         \* where del_kv, create_kv_blob, move_kv, gc_collect, fdb_kv_set_default return
    new,         \* the node being created (cur_sector, the node's contents)
    old,         \* address of the node being replaced, moved or deleted
    gc,          \* the garbage collection's position
    scan         \* position of the load's walk over sectors and nodes
VARIABLE crashes \* losses of power so far

flashVars == <<store, dirty, flash>>
dbVars    == <<oldest, gcRequest, lastDel, recovering, cache>>
ctlVars   == <<call, pc, ret, new, old, gc, scan>>
vars      == <<flashVars, dbVars, ctlVars, crashes>>

\* No procedure is running.
NoReturn == [del |-> "idle", create |-> "idle", move |-> "idle", gc |-> "idle", reset |-> "idle"]

-----------------------------------------------------------------------------
(* The walk over the database: sectors in address order from the oldest.   *)

NodeAt(a) == flash[a[1]][a[2]]
Occupied(s) == {o \in Offsets : flash[s][o] # None}
NodeAddrs == {a \in Addrs : NodeAt(a) # None}

Next1Unrolled(s) == s + 1
Next1(s) == IF s = NumSectors - 1 THEN 0 ELSE s + 1
Distance(from, s) == IF s >= from THEN s - from ELSE s - from + NumSectors
Dist(s) == Distance(oldest, s)

\* The sector of a nonempty set S the walk meets first.
FirstSector(S) == CHOOSE s \in S : \A t \in S : Dist(s) <= Dist(t)

\* The address of a nonempty set A the walk meets first.
FirstAddr(A) == CHOOSE a \in A :
    \A b \in A : \/ Dist(a[1]) < Dist(b[1])
                 \/ a[1] = b[1] /\ a[2] <= b[2]

\* get_next_kv_addr: the nodes of s that start after offset o.
After(s, o) == {p \in Occupied(s) : p > o}
Least(O) == CHOOSE o \in O : \A p \in O : o <= p

Greatest(O) == CHOOSE o \in O : \A p \in O : p <= o

\* read_sector_info: the free space starts behind the last node.  The slot
\* behind the header of a sector in use counts as a node even when nothing was
\* written there.
EmptyKv(s) == IF Occupied(s) = {} THEN HdrSize
              ELSE LET o == Greatest(Occupied(s)) IN o + KvLen[flash[s][o].val]

Remain(s) == CASE store[s] = "EMPTY" -> SectorSize
               [] store[s] = "USING" -> SectorSize - EmptyKv(s)
               [] OTHER -> 0

FreeOffset(s) == IF store[s] = "USING" THEN EmptyKv(s) ELSE 0

EmptySectors == {s \in Sectors : store[s] = "EMPTY"}

\* find_kv_no_cache: the written nodes of k; the walk returns the first.
Written(k) == {a \in NodeAddrs : /\ NodeAt(a).key = k
                                 /\ NodeAt(a).status = "WRITE"
                                 /\ NodeAt(a).crc}

\* update_kv_cache: the table with address a for k (None: without k).
CachedOnce(k, a) == IF cache[k] = None THEN [cache EXCEPT ![k] = a] ELSE cache
Cached(k, a) == [cache EXCEPT ![k] = a]

\* get_kv_from_cache: only the name behind the cached address is compared.
CacheHit(k) == /\ cache[k] # None
               /\ NodeAt(cache[k]) # None
               /\ NodeAt(cache[k]).key = k

\* find_kv: the cached address, or else the first written node.
Find(k) == IF CacheHit(k) THEN cache[k]
           ELSE IF Written(k) # {} THEN FirstAddr(Written(k)) ELSE None

\* fdb_kv_get_blob: what a read of k returns.
Get(k) == IF Find(k) = None THEN None ELSE NodeAt(Find(k)).val

-----------------------------------------------------------------------------
(* alloc_kv *)

\* alloc_kv_cb: sectors of one store status that take a node of length len.
Roomy(status, len) == {s \in Sectors :
    /\ store[s] = status
    /\ Remain(s) > len + Threshold
    /\ \/ dirty[s] = "FALSE"
       \/ dirty[s] = "TRUE" /\ ~gcRequest}

MayOpenEmptyAlways == TRUE

\* The reserve is opened only to the garbage collection.
MayOpenEmpty == Cardinality(EmptySectors) > GcThreshold \/ gcRequest

Candidates(len) == IF Roomy("USING", len) # {} THEN Roomy("USING", len)
                   ELSE IF MayOpenEmpty THEN Roomy("EMPTY", len) ELSE {}

\* A failed allocation that spares the reserve asks for a collection.
AllocAsksGc(len) == /\ Roomy("USING", len) = {}
                    /\ EmptySectors # {}
                    /\ ~MayOpenEmpty

\* A node for k = v at the free space of sector s, with the remaining space as
\* alloc_kv read it.
NewNode(s, k, v) == [sec |-> s, off |-> FreeOffset(s), remain |-> Remain(s),
                     key |-> k, val |-> v, full |-> FALSE]

-----------------------------------------------------------------------------
(* del_kv: the status write, then the sector is marked dirty.              *)

DelStatusAtOnce(a, complete) ==
    /\ flash' = [flash EXCEPT ![a[1]][a[2]].status = "DELETED"]
    /\ lastDel' = ~complete
    /\ cache' = IF complete /\ ~lastDel
                THEN Cached(NodeAt(a).key, None) ELSE cache

\* A complete deletion that does not follow a prepared one also drops the
\* cached address.
DelStatus(a, complete) ==
    /\ flash' = [flash EXCEPT ![a[1]][a[2]].status =
                     IF complete THEN "DELETED" ELSE "PRE_DELETE"]
    /\ lastDel' = ~complete
    /\ cache' = IF complete /\ ~lastDel
                THEN Cached(NodeAt(a).key, None) ELSE cache

\* Mark the sector of a dirty unless it is already, then continue at next.
ThenDirty(a, next) ==
    IF dirty[a[1]] = "FALSE" THEN pc' = "dirty" /\ ret' = [ret EXCEPT !.del = next]
                             ELSE pc' = next /\ UNCHANGED ret

MarkDirty ==
    /\ pc = "dirty"
    /\ dirty' = [dirty EXCEPT ![old[1]] = "TRUE"]
    /\ pc' = ret.del
    /\ UNCHANGED <<store, flash, dbVars, call, ret, new, old, gc, scan, crashes>>

-----------------------------------------------------------------------------
(* create_kv_blob and the copy loop of move_kv: four writes.               *)

\* update_sec_status: a fresh sector comes into use, a sector the node leaves
\* too little space in is full.
WriteSector ==
    /\ pc = "sector"
    /\ LET full == /\ store[new.sec] = "USING"
                   /\ \/ new.remain < Threshold
                      \/ new.remain - KvLen[new.val] < Threshold
       IN /\ store' = [store EXCEPT ![new.sec] = IF full THEN "FULL" ELSE "USING"]
          /\ new' = [new EXCEPT !.full = full /\ ret.create # "move_delete"]
    /\ pc' = "header"
    /\ UNCHANGED <<dirty, flash, dbVars, call, ret, old, gc, scan, crashes>>

HeaderStatusTooSoon == "WRITE"
HeaderStatus == "PRE_WRITE"

\* write_kv_hdr: the node becomes visible to the walk, without its contents.
WriteHeader ==
    /\ pc = "header"
    /\ flash' = [flash EXCEPT ![new.sec][new.off] =
           [key |-> new.key, val |-> new.val, status |-> HeaderStatus, crc |-> FALSE]]
    /\ pc' = "data"
    /\ UNCHANGED <<store, dirty, dbVars, call, ret, new, old, gc, scan, crashes>>

WriteData ==
    /\ pc = "data"
    /\ flash' = [flash EXCEPT ![new.sec][new.off].crc = TRUE]
    /\ pc' = "commit"
    /\ UNCHANGED <<store, dirty, dbVars, call, ret, new, old, gc, scan, crashes>>

\* The status write that makes the node count.
WriteCommit ==
    /\ pc = "commit"
    /\ flash' = [flash EXCEPT ![new.sec][new.off].status = "WRITE"]
    /\ cache' = Cached(new.key, <<new.sec, new.off>>)
    /\ gcRequest' = (gcRequest \/ new.full)
    /\ call' = IF ret.create = "move_delete" THEN call ELSE [call EXCEPT !.done = TRUE]
    /\ new' = None
    /\ pc' = ret.create
    /\ UNCHANGED <<store, dirty, oldest, lastDel, recovering, ret, old, gc, scan, crashes>>

-----------------------------------------------------------------------------
(* move_kv: old is the address of the node that moves.                     *)

\* A written node is prepared for deletion; "move_again" is the entry for one
\* that already was.
MovePrepare ==
    /\ pc = "move"
    /\ DelStatus(old, FALSE)
    /\ pc' = "move_alloc"
    /\ UNCHANGED <<store, dirty, oldest, gcRequest, recovering, call, ret, new, old,
                   gc, scan, crashes>>

\* Only recovery looks for an earlier copy, and only of a node it found
\* prepared for deletion.
AlreadyCopiedNever(k) == FALSE
AlreadyCopied(k) == recovering /\ Written(k) # {}

MoveAlloc ==
    /\ pc \in {"move_alloc", "move_again"}
    /\ LET node == NodeAt(old)
           room == Candidates(KvLen[node.val])
           copied == pc = "move_again" /\ AlreadyCopied(node.key)
       IN /\ gcRequest' = (gcRequest \/ AllocAsksGc(KvLen[node.val]))
          /\ \/ /\ room = {}
                /\ pc' = IF ret.move = "load_kv" THEN "load_end" ELSE ret.move
                /\ UNCHANGED <<new, ret>>
             \/ /\ room # {} /\ copied
                /\ pc' = "move_delete"
                /\ UNCHANGED <<new, ret>>
             \/ /\ room # {} /\ ~copied
                /\ new' = NewNode(FirstSector(room), node.key, node.val)
                /\ ret' = [ret EXCEPT !.create = "move_delete"]
                /\ pc' = "sector"
    /\ UNCHANGED <<flashVars, oldest, lastDel, recovering, cache, call, old, gc, scan, crashes>>

MoveDelete ==
    /\ pc = "move_delete"
    /\ DelStatus(old, TRUE)
    /\ ThenDirty(old, ret.move)
    /\ UNCHANGED <<store, dirty, oldest, gcRequest, recovering, call, new, old, gc,
                   scan, crashes>>

-----------------------------------------------------------------------------
(* gc_collect_by_free_size and do_gc                                       *)

\* Ask for a collection that stops once free bytes are found.
CallGc(free, next) ==
    /\ pc' = "gc_begin"
    /\ ret' = [ret EXCEPT !.gc = next]
    /\ gc' = [from |-> oldest, done |-> 0, sec |-> oldest, pos |-> -1, last |-> 0, free |-> free]

MaxSize == NumSectors * SectorSize

\* A collection runs only when no more empty sectors than the reserve are left;
\* the last of them (or sector 0) is where it expects the space to appear.
GcBegin ==
    /\ pc = "gc_begin"
    /\ IF Cardinality(EmptySectors) <= GcThreshold
       THEN /\ gc' = [gc EXCEPT !.last =
                   IF EmptySectors = {} THEN 0
                   ELSE CHOOSE s \in EmptySectors : \A t \in EmptySectors : Dist(t) <= Dist(s)]
            /\ pc' = "gc_sector"
            /\ UNCHANGED gcRequest
       ELSE gcRequest' = FALSE /\ pc' = ret.gc /\ gc' = None
    /\ UNCHANGED <<flashVars, oldest, lastDel, recovering, cache, call, ret, new, old,
                   scan, crashes>>

\* The sectors still ahead of the collection that it will collect.
GcAhead == {s \in Sectors : /\ Distance(gc.from, s) >= gc.done
                            /\ dirty[s] \in {"TRUE", "GC"}}

\* Clean sectors are passed over.
GcMark ==
    /\ pc = "gc_sector"
    /\ GcAhead # {}
    /\ LET s == CHOOSE t \in GcAhead : \A u \in GcAhead :
                    Distance(gc.from, t) <= Distance(gc.from, u)
       IN /\ dirty' = [dirty EXCEPT ![s] = "GC"]
          /\ gc' = [gc EXCEPT !.sec = s, !.pos = -1,
                              !.done = Distance(gc.from, s) + 1]
    /\ pc' = "gc_kv"
    /\ UNCHANGED <<store, flash, dbVars, call, ret, new, old, scan, crashes>>

GcEnd ==
    /\ pc = "gc_sector"
    /\ GcAhead = {}
    /\ gcRequest' = FALSE
    /\ gc' = None
    /\ old' = None
    /\ pc' = ret.gc
    /\ UNCHANGED <<flashVars, oldest, lastDel, recovering, cache, call, ret, new, scan, crashes>>

MovableWritten == {o \in After(gc.sec, gc.pos) : flash[gc.sec][o].status = "WRITE"}

Movable == {o \in After(gc.sec, gc.pos) :
               /\ flash[gc.sec][o].crc
               /\ flash[gc.sec][o].status \in {"WRITE", "PRE_DELETE"}}

\* The next node worth keeping; what move_kv answers is not looked at.
GcMove ==
    /\ pc = "gc_kv"
    /\ Movable # {}
    /\ old' = <<gc.sec, Least(Movable)>>
    /\ gc' = [gc EXCEPT !.pos = Least(Movable)]
    /\ pc' = IF NodeAt(old').status = "WRITE" THEN "move" ELSE "move_again"
    /\ ret' = [ret EXCEPT !.move = "gc_kv"]
    /\ UNCHANGED <<flashVars, dbVars, call, new, scan, crashes>>

\* format_sector: the erase ...
Erase(s) ==
    /\ flash' = [flash EXCEPT ![s] = [o \in Offsets |-> None]]
    /\ store' = [store EXCEPT ![s] = "UNUSED"]
    /\ dirty' = [dirty EXCEPT ![s] = "UNUSED"]

\* ... and the fresh header.
Format(s) ==
    /\ store' = [store EXCEPT ![s] = "EMPTY"]
    /\ dirty' = [dirty EXCEPT ![s] = "FALSE"]

GcErase ==
    /\ pc = "gc_kv"
    /\ Movable = {}
    /\ Erase(gc.sec)
    /\ pc' = "gc_format"
    /\ UNCHANGED <<dbVars, call, ret, new, old, gc, scan, crashes>>

\* The collection ends early when the sector collected before this one (at
\* first: the empty one) has room.
GcFormat ==
    /\ pc = "gc_format"
    /\ Format(gc.sec)
    /\ oldest' = Next1(gc.sec)
    /\ LET room == IF gc.last = gc.sec THEN SectorSize ELSE Remain(gc.last)
       IN gc' = [gc EXCEPT !.last = gc.sec,
                           !.done = IF room > gc.free THEN NumSectors ELSE gc.done]
    /\ pc' = "gc_sector"
    /\ UNCHANGED <<flash, gcRequest, lastDel, recovering, cache, call, ret, new, old,
                   scan, crashes>>

-----------------------------------------------------------------------------
(* set_kv and fdb_kv_del                                                   *)

Idle == pc' = "idle" /\ call' = None /\ old' = None /\ ret' = NoReturn

Set(k, v) ==
    /\ pc = "idle"
    /\ call' = [key |-> k, val |-> v, done |-> FALSE]
    /\ pc' = "set_alloc"
    /\ UNCHANGED <<flashVars, dbVars, ret, new, old, gc, scan, crashes>>

\* already_gc is not set yet.
MayCollectAgain == TRUE
MayCollect == pc = "set_alloc"

\* new_kv: allocate, collect garbage once when asked to, and try again.
SetAlloc ==
    /\ pc \in {"set_alloc", "set_retry"}
    /\ LET len == KvLen[call.val]
           room == Candidates(len)
       IN \/ /\ room # {}
             /\ new' = NewNode(FirstSector(room), call.key, call.val)
             /\ pc' = "set_find"
             /\ UNCHANGED <<gcRequest, call, ret, old, gc>>
          \/ /\ room = {}
             /\ MayCollect
             /\ gcRequest \/ AllocAsksGc(len)
             /\ gcRequest' = TRUE
             /\ CallGc(len, "set_retry")
             /\ UNCHANGED <<call, new, old>>
          \/ /\ room = {}
             /\ MayCollect => ~(gcRequest \/ AllocAsksGc(len))
             /\ gcRequest' = FALSE
             /\ Idle
             /\ UNCHANGED <<new, gc>>
    /\ UNCHANGED <<flashVars, oldest, lastDel, recovering, cache, scan, crashes>>

\* An old node of the key is prepared for deletion before the new one is made.
SetPrepare ==
    /\ pc = "set_find"
    /\ Find(call.key) # None
    /\ old' = Find(call.key)
    /\ flash' = [flash EXCEPT ![old'[1]][old'[2]].status = "PRE_DELETE"]
    /\ lastDel' = TRUE
    /\ cache' = Cached(call.key, old')
    /\ ret' = [ret EXCEPT !.create = "set_delete", !.del = "sector"]
    /\ pc' = IF dirty[old'[1]] = "FALSE" THEN "dirty" ELSE "sector"
    /\ UNCHANGED <<store, dirty, oldest, gcRequest, recovering, call, new, gc, scan, crashes>>

SetFresh ==
    /\ pc = "set_find"
    /\ Find(call.key) = None
    /\ ret' = [ret EXCEPT !.create = "set_end"]
    /\ pc' = "sector"
    /\ UNCHANGED <<flashVars, dbVars, call, new, old, gc, scan, crashes>>

SetDelete ==
    /\ pc = "set_delete"
    /\ DelStatus(old, TRUE)
    /\ ThenDirty(old, "set_end")
    /\ UNCHANGED <<store, dirty, oldest, gcRequest, recovering, call, new, old, gc,
                   scan, crashes>>

SetEnd ==
    /\ pc = "set_end"
    /\ IF gcRequest THEN CallGc(KvLen[call.val], "end") /\ UNCHANGED <<call, old>>
                    ELSE Idle /\ UNCHANGED gc
    /\ UNCHANGED <<flashVars, dbVars, new, scan, crashes>>

\* fdb_kv_del, and a set to NULL.
Del(k) ==
    /\ pc = "idle"
    /\ call' = [key |-> k, val |-> None, done |-> FALSE]
    /\ pc' = "del"
    /\ UNCHANGED <<flashVars, dbVars, ret, new, old, gc, scan, crashes>>

\* The node found enters the cache; a deletion that follows a prepared one
\* leaves it there.
DelFound ==
    /\ pc = "del"
    /\ Find(call.key) # None
    /\ old' = Find(call.key)
    /\ flash' = [flash EXCEPT ![old'[1]][old'[2]].status = "DELETED"]
    /\ lastDel' = FALSE
    /\ cache' = Cached(call.key, IF lastDel THEN old' ELSE None)
    /\ call' = [call EXCEPT !.done = TRUE]
    /\ ThenDirty(old', "end")
    /\ UNCHANGED <<store, dirty, oldest, gcRequest, recovering, new, gc, scan, crashes>>

\* A key that is not found is an error.
DelMissing ==
    /\ pc = "del"
    /\ Find(call.key) = None
    /\ Idle
    /\ UNCHANGED <<flashVars, dbVars, new, gc, scan, crashes>>

\* The call returns to its caller.
Return ==
    /\ pc = "end"
    /\ Idle
    /\ UNCHANGED <<flashVars, dbVars, new, gc, scan, crashes>>

\* fdb_kv_get_blob: a key found by the walk enters the cache.
Read(k) ==
    /\ pc = "idle"
    /\ Find(k) # None
    /\ cache' = Cached(k, Find(k))
    /\ UNCHANGED <<flashVars, oldest, gcRequest, lastDel, recovering, ctlVars, crashes>>

-----------------------------------------------------------------------------
(* fdb_kv_set_default: format every sector (no default key-value pairs).   *)

CallReset(next) ==
    /\ pc' = "reset_erase"
    /\ ret' = [ret EXCEPT !.reset = next]
    /\ scan' = [from |-> 0, done |-> 0]
    /\ cache' = [k \in Keys |-> None]

Reset ==
    /\ pc = "idle"
    /\ call' = [key |-> None, val |-> None, done |-> FALSE]
    /\ CallReset("end")
    /\ UNCHANGED <<flashVars, oldest, gcRequest, lastDel, recovering, new, old, gc, crashes>>

ResetErase ==
    /\ pc = "reset_erase"
    /\ Erase(scan.done)
    /\ pc' = "reset_format"
    /\ UNCHANGED <<dbVars, call, ret, new, old, gc, scan, crashes>>

ResetFormat ==
    /\ pc = "reset_format"
    /\ Format(scan.done)
    /\ IF scan.done < NumSectors - 1
       THEN /\ scan' = [scan EXCEPT !.done = scan.done + 1]
            /\ pc' = "reset_erase"
            /\ UNCHANGED oldest
       ELSE scan' = None /\ pc' = ret.reset /\ oldest' = 0
    /\ UNCHANGED <<flash, gcRequest, lastDel, recovering, cache, call, ret, new, old,
                   gc, crashes>>

-----------------------------------------------------------------------------
(* fdb_kvdb_init and _fdb_kv_load                                          *)

\* check_oldest_addr_cb: the last sector in use that follows an empty one.
OldestAtBoot ==
    LET starts == {s \in Sectors \ {0} : store[s] \in {"USING", "FULL"} /\ store[s - 1] = "EMPTY"}
    IN IF starts = {} THEN 0 ELSE CHOOSE s \in starts : \A t \in starts : t <= s

Unformatted == {s \in Sectors : store[s] = "UNUSED"}

Boot ==
    /\ pc = "off"
    /\ oldest' = OldestAtBoot
    /\ recovering' = TRUE
    /\ pc' = IF Unformatted = Sectors THEN "load_new" ELSE "load_headers"
    /\ UNCHANGED <<flashVars, gcRequest, lastDel, cache, call, ret, new, old, gc, scan, crashes>>

\* check_sec_hdr_cb: a sector without a header is formatted.
LoadHeader ==
    /\ pc \in {"load_new", "load_headers"}
    /\ Unformatted # {}
    /\ Format(FirstSector(Unformatted))
    /\ UNCHANGED <<flash, dbVars, ctlVars, crashes>>

\* When no sector had a header the database is new and is set to its default.
LoadHeadersEnd ==
    /\ Unformatted = {}
    /\ \/ pc = "load_new" /\ CallReset("load_check")
       \/ pc = "load_headers" /\ pc' = "load_check" /\ UNCHANGED <<ret, cache, scan>>
    /\ UNCHANGED <<flashVars, oldest, gcRequest, lastDel, recovering, call, new, old, gc, crashes>>

LoadCheck ==
    /\ pc = "load_check"
    /\ scan' = [from |-> oldest, done |-> 0]
    /\ pc' = "load_gc"
    /\ UNCHANGED <<flashVars, dbVars, call, ret, new, old, gc, crashes>>

\* check_and_recovery_gc_cb: an interrupted collection is run again, in full.
LoadGc ==
    /\ pc = "load_gc"
    /\ LET ahead == {s \in Sectors : dirty[s] = "GC" /\ Distance(scan.from, s) >= scan.done}
           s == CHOOSE t \in ahead : \A u \in ahead :
                    Distance(scan.from, t) <= Distance(scan.from, u)
       IN IF ahead = {}
          THEN pc' = "load_start" /\ UNCHANGED <<gcRequest, ret, gc, scan>>
          ELSE /\ scan' = [scan EXCEPT !.done = Distance(scan.from, s) + 1]
               /\ gcRequest' = TRUE
               /\ CallGc(MaxSize, "load_gc")
    /\ UNCHANGED <<flashVars, oldest, lastDel, recovering, cache, call, new, old, crashes>>

LoadStart ==
    /\ pc = "load_start"
    /\ scan' = [from |-> oldest, done |-> 0]
    /\ pc' = "load_kv"
    /\ UNCHANGED <<flashVars, dbVars, call, ret, new, old, gc, crashes>>

\* The place of a node in the walk of the load.
Place(a) == Distance(scan.from, a[1]) * SectorSize + a[2]

UnfinishedWrites == {a \in NodeAddrs : Place(a) >= scan.done /\ NodeAt(a).status = "PRE_WRITE"}

Unfinished == {a \in NodeAddrs : /\ Place(a) >= scan.done
                                 /\ \/ NodeAt(a).status = "PRE_WRITE"
                                    \/ NodeAt(a).status = "PRE_DELETE" /\ NodeAt(a).crc}

\* The written nodes the walk passes on the way to place p enter the cache.
CachedUpTo(p) == [k \in Keys |->
    LET passed == {a \in Written(k) : Place(a) \in scan.done .. p - 1}
    IN IF passed = {} THEN cache[k]
       ELSE CHOOSE a \in passed : \A b \in passed : Place(b) <= Place(a)]

\* check_and_recovery_kv_cb: the next unfinished node is moved if it was being
\* deleted; if it was being written it is discarded, and the walk ends.
LoadKv ==
    /\ pc = "load_kv"
    /\ Unfinished # {}
    /\ LET a == CHOOSE b \in Unfinished : \A c \in Unfinished : Place(b) <= Place(c)
       IN /\ scan' = [scan EXCEPT !.done = Place(a) + 1]
          /\ cache' = CachedUpTo(Place(a))
          /\ \/ /\ NodeAt(a).status = "PRE_DELETE"
                /\ old' = a
                /\ ret' = [ret EXCEPT !.move = "load_kv"]
                /\ pc' = "move_again"
                /\ UNCHANGED flash
             \/ /\ NodeAt(a).status = "PRE_WRITE"
                /\ flash' = [flash EXCEPT ![a[1]][a[2]].status = "ERR_HDR"]
                /\ pc' = "load_end"
                /\ UNCHANGED <<old, ret>>
    /\ UNCHANGED <<store, dirty, oldest, gcRequest, lastDel, recovering, call, new, gc, crashes>>

LoadKvEnd ==
    /\ pc = "load_kv"
    /\ Unfinished = {}
    /\ cache' = CachedUpTo(MaxSize)
    /\ pc' = "load_end"
    /\ UNCHANGED <<flashVars, oldest, gcRequest, lastDel, recovering, call, ret, new, old,
                   gc, scan, crashes>>

\* A move that found no space asked for a collection: run it and walk again.
LoadEnd ==
    /\ pc = "load_end"
    /\ scan' = None
    /\ old' = None
    /\ IF gcRequest THEN CallGc(MaxSize, "load_start") /\ UNCHANGED recovering
       ELSE recovering' = FALSE /\ pc' = "idle" /\ ret' = NoReturn /\ UNCHANGED gc
    /\ UNCHANGED <<flashVars, oldest, gcRequest, lastDel, cache, call, new, crashes>>

-----------------------------------------------------------------------------
\* The power is lost (or the program restarts): only the flash remains.
Crash ==
    /\ pc # "off"
    /\ crashes < MaxCrashes
    /\ crashes' = crashes + 1
    /\ oldest' = 0 /\ gcRequest' = FALSE /\ lastDel' = FALSE /\ recovering' = FALSE
    /\ cache' = [k \in Keys |-> None]
    /\ call' = None /\ pc' = "off" /\ ret' = NoReturn
    /\ new' = None /\ old' = None /\ gc' = None /\ scan' = None
    /\ UNCHANGED flashVars

\* A blank flash.
Init ==
    /\ store = [s \in Sectors |-> "UNUSED"]
    /\ dirty = [s \in Sectors |-> "UNUSED"]
    /\ flash = [s \in Sectors |-> [o \in Offsets |-> None]]
    /\ oldest = 0 /\ gcRequest = FALSE /\ lastDel = FALSE /\ recovering = FALSE
    /\ cache = [k \in Keys |-> None]
    /\ call = None /\ pc = "off" /\ ret = NoReturn
    /\ new = None /\ old = None /\ gc = None /\ scan = None
    /\ crashes = 0

\* What the program does on its own, once called.
Work ==
    \/ MarkDirty \/ WriteSector \/ WriteHeader \/ WriteData \/ WriteCommit
    \/ MovePrepare \/ MoveAlloc \/ MoveDelete
    \/ GcBegin \/ GcMark \/ GcEnd \/ GcMove \/ GcErase \/ GcFormat
    \/ SetAlloc \/ SetPrepare \/ SetFresh \/ SetDelete \/ SetEnd
    \/ DelFound \/ DelMissing \/ Return
    \/ ResetErase \/ ResetFormat
    \/ Boot \/ LoadHeader \/ LoadHeadersEnd \/ LoadCheck \/ LoadGc \/ LoadStart
    \/ LoadKv \/ LoadKvEnd \/ LoadEnd

Calling ==
    \/ \E k \in Keys : Del(k) \/ Read(k) \/ \E v \in Vals : Set(k, v)
    \/ Reset

Next == Work \/ Calling \/ Crash

Spec == Init /\ [][Next]_vars /\ WF_vars(Work)

-----------------------------------------------------------------------------
(* Properties                                                              *)

Labels == {"off", "load_new", "load_headers", "load_check", "load_gc", "load_start", "load_kv",
           "load_end", "idle", "set_alloc", "set_retry", "set_find", "set_delete",
           "set_end", "del", "end", "dirty", "sector", "header", "data", "commit",
           "move", "move_alloc", "move_again", "move_delete", "gc_begin", "gc_sector",
           "gc_kv", "gc_format", "reset_erase", "reset_format"}

\* The variables hold values of their types.
TypeOK ==
    /\ store \in [Sectors -> StoreStatus]
    /\ dirty \in [Sectors -> DirtyStatus]
    /\ flash \in [Sectors -> [Offsets -> Nodes \cup {None}]]
    /\ oldest \in Sectors
    /\ gcRequest \in BOOLEAN /\ lastDel \in BOOLEAN /\ recovering \in BOOLEAN
    /\ cache \in [Keys -> Addrs \cup {None}]
    /\ call \in Calls \cup {None}
    /\ pc \in Labels
    /\ ret \in [del : Labels, create : Labels, move : Labels, gc : Labels, reset : Labels]
    /\ new \in NewNodes \cup {None}
    /\ old \in Addrs \cup {None}
    /\ gc \in Collections \cup {None}
    /\ scan \in Walks \cup {None}
    /\ crashes \in 0 .. MaxCrashes

\* The value the flash holds for k: of a written node, or else of one that is
\* prepared for deletion.
PreDeleted(k) == {a \in NodeAddrs : /\ NodeAt(a).key = k
                                    /\ NodeAt(a).status = "PRE_DELETE"
                                    /\ NodeAt(a).crc}
View(k) == IF Written(k) # {} THEN NodeAt(FirstAddr(Written(k))).val
           ELSE IF PreDeleted(k) # {} THEN NodeAt(FirstAddr(PreDeleted(k))).val
           ELSE None

Abstract == INSTANCE KVStore WITH map <- [k \in Keys |-> View(k)]

\* Every step of the database, moves, collections, recovery and losses of power
\* included, is a step of the map or changes no key: a call takes effect in one
\* flash write or not at all.
Atomic == Abstract!ASpec

\* As long as the power holds, whatever the lengths of the values: every step
\* is a step of the map or changes no key.
AtomicPowered == [][crashes' = 0 => Abstract!ANext \/ UNCHANGED Abstract!avars]_vars

\* Between calls a read answers what the flash holds: the address cache
\* leads to no deleted, moved or half-written node.
ReadsAreCurrent == pc = "idle" => \A k \in Keys : Get(k) = View(k)

\* As long as the power holds, whatever the lengths of the values, reads
\* between calls are current.
ReadsAreCurrentPowered == crashes = 0 => ReadsAreCurrent

\* A deletion drops the cached address with the node: between calls the cache
\* leads to written nodes.
DeletedNotCached == pc = "idle" => \A k \in Keys : CacheHit(k) => NodeAt(cache[k]).status = "WRITE"

\* Between calls a key has one current node: no copy a move, a set or their
\* recovery left behind can surface later.
OneNodePerKey == pc = "idle" => \A k \in Keys : Cardinality(Written(k)) <= 1

\* A loaded database holds no node that is still prepared for deletion: what a
\* loss of power interrupted was undone or finished for every node.
AllRecovered == pc = "idle" => \A k \in Keys : PreDeleted(k) = {}

\* The reserve the garbage collection needs is there between calls.
ReserveKept == pc = "idle" => EmptySectors # {}

\* A status byte only has bits cleared while its sector is not erased: a node's
\* status never goes back, and a node does not change otherwise.
Rank(st) == CASE st = "PRE_WRITE" -> 1 [] st = "WRITE" -> 2 [] st = "PRE_DELETE" -> 3
              [] st = "DELETED" -> 4 [] st = "ERR_HDR" -> 5

StatusForward == [][\A a \in Addrs :
    (NodeAt(a) # None /\ store'[a[1]] # "UNUSED") =>
        /\ NodeAt(a)' # None
        /\ NodeAt(a)'.key = NodeAt(a).key /\ NodeAt(a)'.val = NodeAt(a).val
        /\ Rank(NodeAt(a).status) <= Rank(NodeAt(a)'.status)]_vars

\* A node past PRE_WRITE is complete.
CommittedIsComplete == \A a \in NodeAddrs :
    NodeAt(a).status \in {"WRITE", "PRE_DELETE", "DELETED"} => NodeAt(a).crc

\* The garbage collection erases a sector only after every node worth keeping
\* was moved out of it: no key loses its last value.
CollectsGarbageOnly == [][pc = "gc_kv" /\ pc' = "gc_format" =>
    \A o \in Occupied(gc.sec) : flash[gc.sec][o].status \notin {"WRITE", "PRE_DELETE"}]_vars

\* The load and every call end.
Terminates == []<>(pc = "idle")
=============================================================================
