--------------------------- MODULE FdbKvdb_proofs ---------------------------
(***************************************************************************)
(* Theorems about FdbKvdb for every number of sectors, keys, values and    *)
(* losses of power.                                                        *)
(***************************************************************************)
EXTENDS FdbKvdb, WellFoundedInduction, FiniteSetTheorems, TLAPS

-----------------------------------------------------------------------------
(* Minima and maxima of sets of natural numbers: what CHOOSE relies on.    *)

\* The order of the natural numbers, as a relation.
NatLess == {ss \in Nat \X Nat : ss[1] < ss[2]}

LEMMA NatLessWellFounded == IsWellFoundedOn(NatLess, Nat)
  BY NatLessThanWellFounded DEF OpToRel, NatLess

\* A nonempty set of natural numbers has a least element.
LEMMA LeastExists ==
    ASSUME NEW O, O \subseteq Nat, O # {}
    PROVE  \E o \in O : \A p \in O : o <= p
<1>1. PICK o \in O : \A p \in O : ~ (<<p, o>> \in NatLess)
  BY NatLessWellFounded, WFMin
<1>2. ASSUME NEW p \in O
      PROVE  o <= p
  <2>1. p \in Nat /\ o \in Nat
    OBVIOUS
  <2>2. ~(p < o)
    BY <1>1, <2>1 DEF NatLess
  <2> QED
    BY <2>1, <2>2
<1> QED
  BY <1>2

\* A measure into the natural numbers has a minimum on every nonempty set.
LEMMA MinimumExists ==
    ASSUME NEW S, S # {}, NEW f, \A s \in S : f[s] \in Nat
    PROVE  \E s \in S : \A t \in S : f[s] <= f[t]
<1> DEFINE O == {f[s] : s \in S}
<1>1. O \subseteq Nat /\ O # {}
  OBVIOUS
<1>2. \E o \in O : \A p \in O : o <= p
  BY <1>1, LeastExists
<1> QED
  BY <1>2

\* A nonempty set of numbers below n has a greatest element.
LEMMA GreatestExists ==
    ASSUME NEW n \in Nat, NEW O, O \subseteq 0 .. n - 1, O # {}
    PROVE  \E o \in O : \A p \in O : p <= o
<1> DEFINE f == [o \in O |-> n - o]
<1>1. \A o \in O : f[o] \in Nat
  OBVIOUS
<1>2. \E o \in O : \A p \in O : f[o] <= f[p]
  BY <1>1, MinimumExists
<1> QED
  BY <1>2

-----------------------------------------------------------------------------
(* The inductive invariant: what holds at each step of each procedure.     *)

Creating == {"sector", "header", "data", "commit"}
MoveLabels == {"move", "move_alloc", "move_again", "move_delete"}
GcLabels == {"gc_begin", "gc_sector", "gc_kv", "gc_format"}

\* A move is in progress that returns to l.
Moving(l) == \/ pc \in MoveLabels /\ ret.move = l
             \/ pc \in Creating /\ ret.create = "move_delete" /\ ret.move = l
             \/ pc = "dirty" /\ ret.del = l

Collecting == pc \in GcLabels \/ Moving("gc_kv")

Scanning == \/ pc \in {"load_gc", "load_kv", "reset_erase", "reset_format"}
            \/ Moving("load_kv")
            \/ Collecting /\ ret.gc = "load_gc"

Setting == \/ pc \in {"set_alloc", "set_retry", "set_find", "set_delete", "set_end"}
           \/ pc \in Creating /\ ret.create # "move_delete"
           \/ pc = "dirty" /\ ret.del \in {"sector", "set_end"}
           \/ Collecting /\ ret.gc = "set_retry"

\* Space for a node is allocated; nothing is written there yet.
Reserved == \/ pc \in {"set_find", "sector", "header"}
            \/ pc = "dirty" /\ ret.del = "sector"

\* The node at old is being replaced, moved or deleted.
Replacing == \/ pc \in MoveLabels \cup {"set_delete"}
             \/ pc \in Creating /\ ret.create # "set_end"
             \/ pc = "dirty" /\ ret.del = "sector"

\* Where the procedures return.
ReturnsOK ==
    /\ ret.del \in {"idle", "sector", "set_end", "end", "gc_kv", "load_kv"}
    /\ ret.create \in {"idle", "set_end", "set_delete", "move_delete"}
    /\ ret.move \in {"idle", "gc_kv", "load_kv"}
    /\ ret.gc \in {"idle", "set_retry", "end", "load_gc", "load_start"}
    /\ ret.reset \in {"idle", "end", "load_check"}
    /\ pc \in Creating => ret.create # "idle"
    /\ pc \in MoveLabels \/ (pc \in Creating /\ ret.create = "move_delete") => ret.move # "idle"
    /\ pc = "dirty" => ret.del # "idle"
    /\ pc = "dirty" /\ ret.del = "sector" => ret.create = "set_delete"

\* The variables a procedure reads hold a value while it runs.
RunningOK ==
    /\ Setting => call # None /\ call.key \in Keys /\ call.val \in Vals
    /\ pc = "del" => call # None /\ call.key \in Keys
    /\ Collecting => gc # None
    /\ Scanning => scan # None
    /\ pc \in {"reset_erase", "reset_format"} => scan.done \in Sectors
    /\ Reserved \/ pc \in Creating => new # None
    /\ Replacing => old # None

\* A sector that is empty or without header holds no node.
BlankOK ==
    /\ \A s \in Sectors : store[s] \in {"EMPTY", "UNUSED"} => \A o \in Offsets : flash[s][o] = None
    /\ pc \in {"header", "data", "commit"} => store[new.sec] \in {"USING", "FULL"}
    /\ pc = "gc_format" => store[gc.sec] = "UNUSED"
    /\ pc = "reset_format" => store[scan.done] = "UNUSED"

\* The node being written.
NewOK ==
    /\ Reserved => flash[new.sec][new.off] = None
    /\ pc \in {"data", "commit"} => flash[new.sec][new.off] # None
    /\ pc = "commit" => flash[new.sec][new.off].crc

\* The node being replaced is complete.
OldOK == Replacing => NodeAt(old) # None /\ NodeAt(old).crc

\* The cache leads to complete nodes.
CacheOK == \A k \in Keys : cache[k] # None =>
    \/ NodeAt(cache[k]) = None
    \/ NodeAt(cache[k]).crc
    \/ pc = "data" /\ cache[k] = <<new.sec, new.off>>

IInv == /\ TypeOK /\ ReturnsOK /\ RunningOK /\ BlankOK /\ NewOK /\ OldOK /\ CacheOK
        /\ CommittedIsComplete

-----------------------------------------------------------------------------
(* What the helpers of the model return.                                   *)

LEMMA DistanceType ==
    \A from, s \in Sectors : Distance(from, s) \in 0 .. NumSectors - 1
  BY FdbAssumption DEF Sectors, Distance

\* The walk meets some sector of a nonempty set first.
LEMMA FirstSectorType ==
    ASSUME oldest \in Sectors, NEW S, S \subseteq Sectors, S # {}
    PROVE  FirstSector(S) \in S
<1> DEFINE f == [s \in S |-> Dist(s)]
<1>1. \A s \in S : f[s] \in Nat
  BY FdbAssumption, DistanceType DEF Dist
<1>2. \E s \in S : \A t \in S : f[s] <= f[t]
  BY <1>1, MinimumExists
<1> QED
  BY <1>2 DEF FirstSector

\* ... and some sector last.
LEMMA FarthestExists ==
    ASSUME oldest \in Sectors, NEW S, S \subseteq Sectors, S # {}
    PROVE  \E s \in S : \A t \in S : Dist(t) <= Dist(s)
<1> DEFINE f == [s \in S |-> NumSectors - Dist(s)]
<1>1. \A s \in S : Dist(s) \in 0 .. NumSectors - 1
  BY DistanceType DEF Dist
<1>2. \A s \in S : f[s] \in Nat
  BY <1>1, FdbAssumption
<1>3. PICK s \in S : \A t \in S : f[s] <= f[t]
  BY <1>2, MinimumExists
<1> QED
  BY <1>1, <1>3, FdbAssumption

\* The walk meets some address of a nonempty set first.
LEMMA FirstAddrType ==
    ASSUME oldest \in Sectors, NEW A, A \subseteq Addrs, A # {}
    PROVE  FirstAddr(A) \in A
<1> DEFINE f == [a \in A |-> Dist(a[1])]
<1>1. \A a \in A : a[1] \in Sectors /\ a[2] \in Offsets /\ a[2] \in Nat
  BY FdbAssumption DEF Addrs, Offsets
<1>2. \A a \in A : f[a] \in Nat
  BY <1>1, FdbAssumption, DistanceType DEF Dist
<1>3. PICK m \in A : \A b \in A : f[m] <= f[b]
  BY <1>2, MinimumExists
<1> DEFINE B == {a \in A : a[1] = m[1]}
           g == [a \in B |-> a[2]]
<1>4. PICK a \in B : \A b \in B : g[a] <= g[b]
  <2>1. B # {} /\ \A b \in B : g[b] \in Nat
    BY <1>1
  <2> QED
    BY <2>1, MinimumExists
<1>5. ASSUME NEW b \in A
      PROVE  \/ Dist(a[1]) < Dist(b[1])
             \/ a[1] = b[1] /\ a[2] <= b[2]
  <2>1. CASE b[1] = m[1]
    BY <1>4, <2>1
  <2>2. CASE b[1] # m[1]
    <3>1. Dist(m[1]) <= Dist(b[1])
      BY <1>3
    <3>2. Dist(m[1]) # Dist(b[1])
      BY <1>1, <2>2, FdbAssumption DEF Dist, Distance, Sectors
    <3>3. Dist(m[1]) \in Nat /\ Dist(b[1]) \in Nat
      BY <1>2
    <3> QED
      BY <3>1, <3>2, <3>3
  <2> QED
    BY <2>1, <2>2
<1> QED
  BY <1>5 DEF FirstAddr

LEMMA LeastType ==
    ASSUME NEW O, O \subseteq Offsets, O # {}
    PROVE  Least(O) \in O
<1>1. O \subseteq Nat
  BY DEF Offsets
<1>2. \E o \in O : \A p \in O : o <= p
  BY <1>1, LeastExists
<1> QED
  BY <1>2 DEF Least

\* The greatest offset in use is in use, and no greater one is.
LEMMA GreatestType ==
    ASSUME NEW O, O \subseteq Offsets, O # {}
    PROVE  Greatest(O) \in O /\ \A p \in O : p <= Greatest(O)
<1>1. \E o \in O : \A p \in O : p <= o
  BY FdbAssumption, GreatestExists DEF Offsets
<1> QED
  BY <1>1 DEF Greatest

\* A sector alloc_kv accepts has free space behind its last node.
LEMMA RoomySlot ==
    ASSUME TypeOK, BlankOK, NEW len \in Nat,
           NEW status \in {"USING", "EMPTY"}, NEW s \in Roomy(status, len)
    PROVE  /\ s \in Sectors
           /\ FreeOffset(s) \in Offsets
           /\ Remain(s) \in 0 .. SectorSize
           /\ flash[s][FreeOffset(s)] = None
<1>1. s \in Sectors /\ store[s] = status /\ Remain(s) > len + Threshold
  BY DEF Roomy
<1>2. SectorSize \in Nat \ {0} /\ HdrSize \in Nat \ {0} /\ Threshold \in Nat
  BY FdbAssumption
<1>3. CASE status = "EMPTY"
  <2>1. FreeOffset(s) = 0 /\ Remain(s) = SectorSize
    BY <1>1, <1>3 DEF FreeOffset, Remain
  <2>2. 0 \in Offsets
    BY <1>2 DEF Offsets
  <2> QED
    BY <1>1, <1>2, <1>3, <2>1, <2>2 DEF BlankOK
<1>4. CASE status = "USING"
  <2>1. FreeOffset(s) = EmptyKv(s) /\ Remain(s) = SectorSize - EmptyKv(s)
    BY <1>1, <1>4 DEF FreeOffset, Remain
  <2>2. EmptyKv(s) \in Nat /\ \A o \in Occupied(s) : o < EmptyKv(s)
    <3>1. CASE Occupied(s) = {}
      BY <1>2, <3>1 DEF EmptyKv
    <3>2. CASE Occupied(s) # {}
      <4> DEFINE o == Greatest(Occupied(s))
      <4>1. o \in Occupied(s) /\ \A p \in Occupied(s) : p <= o
        BY <3>2, GreatestType DEF Occupied
      <4>2. o \in Nat /\ flash[s][o] # None /\ o \in Offsets
        BY <4>1 DEF Occupied, Offsets
      <4>3. flash[s][o] \in Nodes
        BY <1>1, <4>2 DEF TypeOK
      <4>4. flash[s][o].val \in Vals
        BY <4>3 DEF Nodes
      <4>5. KvLen[flash[s][o].val] \in Nat \ {0}
        BY <4>4, FdbAssumption
      <4>6. EmptyKv(s) = o + KvLen[flash[s][o].val]
        BY <3>2 DEF EmptyKv
      <4>7. \A p \in Occupied(s) : p \in Nat
        BY DEF Occupied, Offsets
      <4> HIDE DEF o
      <4> QED
        BY <4>1, <4>2, <4>5, <4>6, <4>7
    <3> QED
      BY <3>1, <3>2
  <2>3. EmptyKv(s) < SectorSize
    BY <1>1, <1>2, <2>1, <2>2
  <2>4. EmptyKv(s) \in Offsets /\ EmptyKv(s) \notin Occupied(s)
    BY <1>2, <2>2, <2>3 DEF Offsets
  <2> QED
    BY <1>1, <1>2, <2>1, <2>2, <2>3, <2>4 DEF Occupied
<1> QED
  BY <1>3, <1>4

\* An allocation that succeeds reserves a free slot.
LEMMA NewNodeType ==
    ASSUME TypeOK, BlankOK, NEW k \in Keys, NEW v \in Vals, Candidates(KvLen[v]) # {},
           NEW n, n = NewNode(FirstSector(Candidates(KvLen[v])), k, v)
    PROVE  n \in NewNodes /\ flash[n.sec][n.off] = None
<1> DEFINE len == KvLen[v]
           s == FirstSector(Candidates(len))
<1>1. len \in Nat
  BY FdbAssumption
<1>2. Candidates(len) \subseteq Sectors
  BY DEF Candidates, Roomy
<1>3. s \in Candidates(len)
  BY <1>2, FirstSectorType DEF TypeOK
<1>4. s \in Roomy("USING", len) \/ s \in Roomy("EMPTY", len)
  BY <1>3 DEF Candidates
<1> HIDE DEF len, s
<1>5. /\ s \in Sectors /\ FreeOffset(s) \in Offsets /\ Remain(s) \in 0 .. SectorSize
      /\ flash[s][FreeOffset(s)] = None
  BY <1>1, <1>4, RoomySlot
<1>6. n = [sec |-> s, off |-> FreeOffset(s), remain |-> Remain(s), key |-> k, val |-> v, full |-> FALSE]
  BY DEF NewNode, s, len
<1> QED
  BY <1>5, <1>6 DEF NewNodes

LEMMA NodeType ==
    ASSUME TypeOK, NEW a \in Addrs, NodeAt(a) # None
    PROVE  /\ a[1] \in Sectors /\ a[2] \in Offsets /\ a = <<a[1], a[2]>>
           /\ NodeAt(a) \in Nodes
           /\ NodeAt(a).key \in Keys /\ NodeAt(a).val \in Vals
           /\ NodeAt(a).status \in KvStatus /\ NodeAt(a).crc \in BOOLEAN
<1>1. a[1] \in Sectors /\ a[2] \in Offsets /\ a = <<a[1], a[2]>>
  BY DEF Addrs
<1>2. NodeAt(a) \in Nodes
  BY <1>1 DEF TypeOK, NodeAt
<1> QED
  BY <1>1, <1>2 DEF Nodes

\* What find_kv finds is a complete node.
LEMMA FindComplete ==
    ASSUME TypeOK, CacheOK, pc # "data", NEW k \in Keys, Find(k) # None
    PROVE  Find(k) \in Addrs /\ NodeAt(Find(k)) # None /\ NodeAt(Find(k)).crc
<1>1. CASE CacheHit(k)
  <2>1. cache[k] \in Addrs \cup {None}
    BY DEF TypeOK
  <2> QED
    BY <1>1, <2>1 DEF CacheHit, CacheOK, Find
<1>2. CASE ~CacheHit(k)
  <2>1. Written(k) # {} /\ Find(k) = FirstAddr(Written(k))
    BY <1>2 DEF Find
  <2>2. Written(k) \subseteq Addrs
    BY DEF Written, NodeAddrs
  <2>3. Find(k) \in Written(k)
    BY <2>1, <2>2, FirstAddrType DEF TypeOK
  <2> QED
    BY <2>2, <2>3 DEF Written, NodeAddrs
<1> QED
  BY <1>1, <1>2

-----------------------------------------------------------------------------
(* What the kinds of writes do.                                            *)

\* The slot a of the flash becomes n, and nothing else changes.
LEMMA SlotWrite ==
    ASSUME TypeOK, NEW a \in Addrs, NEW n \in Nodes,
           flash' = [flash EXCEPT ![a[1]] = [flash[a[1]] EXCEPT ![a[2]] = n]]
    PROVE  /\ flash' \in [Sectors -> [Offsets -> Nodes \cup {None}]]
           /\ \A s \in Sectors, o \in Offsets :
                  flash'[s][o] = IF <<s, o>> = a THEN n ELSE flash[s][o]
           /\ flash'[a[1]][a[2]] = n
<1>1. a[1] \in Sectors /\ a[2] \in Offsets /\ a = <<a[1], a[2]>>
  BY DEF Addrs
<1>2. [flash[a[1]] EXCEPT ![a[2]] = n] \in [Offsets -> Nodes \cup {None}]
  BY <1>1 DEF TypeOK
<1>3. flash' \in [Sectors -> [Offsets -> Nodes \cup {None}]]
  BY <1>1, <1>2 DEF TypeOK
<1>4. \A s \in Sectors, o \in Offsets : flash'[s][o] = IF <<s, o>> = a THEN n ELSE flash[s][o]
  BY <1>1 DEF TypeOK
<1> QED
  BY <1>1, <1>3, <1>4

\* Writing the status of a node changes neither another node nor the rest of this one.
LEMMA StatusWrite ==
    ASSUME TypeOK, NEW a \in Addrs, NodeAt(a) # None, NEW st \in KvStatus,
           flash' = [flash EXCEPT ![a[1]][a[2]].status = st]
    PROVE  /\ flash' \in [Sectors -> [Offsets -> Nodes \cup {None}]]
           /\ \A b \in Addrs :
                  /\ NodeAt(b) = None <=> NodeAt(b)' = None
                  /\ NodeAt(b) # None => NodeAt(b)'.crc = NodeAt(b).crc
                  /\ b # a => NodeAt(b)' = NodeAt(b)
           /\ NodeAt(a)'.status = st
<1> DEFINE n == [flash[a[1]][a[2]] EXCEPT !.status = st]
<1>1. a[1] \in Sectors /\ a[2] \in Offsets /\ flash[a[1]][a[2]] \in Nodes
  BY NodeType DEF NodeAt
<1>2. n \in Nodes /\ n.crc = flash[a[1]][a[2]].crc /\ n.status = st
  BY <1>1 DEF Nodes
<1>3. n # None
  BY <1>2, NoneAssumption
<1>4. flash' = [flash EXCEPT ![a[1]] = [flash[a[1]] EXCEPT ![a[2]] = n]]
  OBVIOUS
<1> HIDE DEF n
<1>5. /\ flash' \in [Sectors -> [Offsets -> Nodes \cup {None}]]
      /\ \A s \in Sectors, o \in Offsets : flash'[s][o] = IF <<s, o>> = a THEN n ELSE flash[s][o]
      /\ flash'[a[1]][a[2]] = n
  BY <1>2, <1>4, SlotWrite
<1>6. ASSUME NEW b \in Addrs
      PROVE  /\ NodeAt(b) = None <=> NodeAt(b)' = None
             /\ NodeAt(b) # None => NodeAt(b)'.crc = NodeAt(b).crc
             /\ b # a => NodeAt(b)' = NodeAt(b)
  <2>1. b[1] \in Sectors /\ b[2] \in Offsets /\ b = <<b[1], b[2]>>
    BY DEF Addrs
  <2>2. NodeAt(b)' = IF b = a THEN n ELSE NodeAt(b)
    BY <1>5, <2>1 DEF NodeAt
  <2> QED
    BY <1>2, <1>3, <2>2 DEF NodeAt
<1> QED
  BY <1>2, <1>5, <1>6 DEF NodeAt

\* A step leaves in the cache what was there, nothing or complete nodes.
CacheKept == \A k \in Keys : \/ cache'[k] = cache[k]
                             \/ cache'[k] = None
                             \/ /\ cache'[k] \in Addrs
                                /\ NodeAt(cache'[k]) # None /\ NodeAt(cache'[k]).crc

\* A step that writes nothing and leads neither into nor through a write
\* preserves what the invariant says of the flash.
LEMMA QuietStep ==
    ASSUME IInv, UNCHANGED <<store, flash>>, CacheKept, pc # "data",
           pc' \notin {"header", "data", "commit", "gc_format", "reset_format"},
           ~Reserved', ~Replacing', TypeOK', ReturnsOK', RunningOK'
    PROVE  IInv'
<1>1. BlankOK' /\ NewOK' /\ OldOK' /\ CommittedIsComplete'
  BY DEF IInv, BlankOK, NewOK, OldOK, CommittedIsComplete, NodeAddrs, NodeAt
<1>2. CacheOK'
  BY DEF IInv, CacheOK, CacheKept, NodeAt
<1> QED
  BY <1>1, <1>2 DEF IInv

\* Writing the status of a complete node, or discarding one, preserves what the
\* invariant says of every node.
LEMMA StatusStep ==
    ASSUME IInv, NEW a \in Addrs, NodeAt(a) # None, NEW st \in KvStatus,
           NodeAt(a).crc \/ st = "ERR_HDR",
           flash' = [flash EXCEPT ![a[1]][a[2]].status = st],
           UNCHANGED store, CacheKept, pc # "data"
    PROVE  /\ flash' \in [Sectors -> [Offsets -> Nodes \cup {None}]]
           /\ \A s \in Sectors : store'[s] \in {"EMPTY", "UNUSED"} =>
                  \A o \in Offsets : flash'[s][o] = None
           /\ CacheOK' /\ CommittedIsComplete'
<1>1. /\ flash' \in [Sectors -> [Offsets -> Nodes \cup {None}]]
      /\ \A b \in Addrs :
             /\ NodeAt(b) = None <=> NodeAt(b)' = None
             /\ NodeAt(b) # None => NodeAt(b)'.crc = NodeAt(b).crc
             /\ b # a => NodeAt(b)' = NodeAt(b)
      /\ NodeAt(a)'.status = st
  BY StatusWrite DEF IInv
<1>2. ASSUME NEW s \in Sectors, store'[s] \in {"EMPTY", "UNUSED"}, NEW o \in Offsets
      PROVE  flash'[s][o] = None
  <2>1. <<s, o>> \in Addrs /\ NodeAt(<<s, o>>) = None
    BY <1>2 DEF IInv, BlankOK, Addrs, NodeAt
  <2> QED
    BY <1>1, <2>1 DEF NodeAt
<1>3. ASSUME NEW k \in Keys, NEW b, b = cache'[k], b # None
      PROVE  NodeAt(b)' = None \/ NodeAt(b)'.crc
  <2>1. CASE b = cache[k]
    <3>1. b \in Addrs
      BY <1>3, <2>1 DEF IInv, TypeOK
    <3>2. NodeAt(b) = None \/ NodeAt(b).crc
      BY <1>3, <2>1 DEF IInv, CacheOK
    <3> QED
      BY <1>1, <3>1, <3>2
  <2>2. CASE b \in Addrs /\ NodeAt(b) # None /\ NodeAt(b).crc
    BY <1>1, <2>2
  <2> QED
    BY <1>3, <2>1, <2>2 DEF CacheKept
<1>4. CommittedIsComplete'
  BY <1>1 DEF IInv, CommittedIsComplete, NodeAddrs
<1> QED
  BY <1>1, <1>2, <1>3, <1>4 DEF CacheOK, NodeAt

-----------------------------------------------------------------------------
(* Every action preserves the invariant: first the steps that write        *)
(* nothing.                                                                *)

LEMMA SetPreserves ==
    ASSUME IInv, NEW k \in Keys, NEW v \in Vals, Set(k, v)
    PROVE  IInv'
<1>1. UNCHANGED <<store, dirty, flash, oldest, gcRequest, lastDel, recovering, cache, ret, new, old, gc, scan, crashes>>
  BY DEF Set, flashVars, dbVars, ctlVars
<1>2. TypeOK'
  BY <1>1, FdbAssumption DEF IInv, TypeOK, Set, Calls, Labels
<1>3. ReturnsOK' /\ RunningOK'
  <2>1. call' \in Calls /\ call'.key = k /\ call'.val = v
    BY DEF Calls, Set
  <2>2. call' # None
    BY <2>1, NoneAssumption
  <2> QED
    BY <1>1, <2>1, <2>2 DEF IInv, ReturnsOK, RunningOK, Set, Creating, MoveLabels, GcLabels, Moving,
       Collecting, Scanning, Setting, Reserved, Replacing
<1>4. CacheKept /\ pc # "data" /\ ~Reserved' /\ ~Replacing'
      /\ pc' \notin {"header", "data", "commit", "gc_format", "reset_format"}
  BY <1>1 DEF IInv, ReturnsOK, CacheKept, Set, Reserved, Replacing, Creating, MoveLabels, Calls
<1> QED
  BY <1>1, <1>2, <1>3, <1>4, QuietStep

LEMMA DelPreserves ==
    ASSUME IInv, NEW k \in Keys, Del(k)
    PROVE  IInv'
<1>1. UNCHANGED <<store, dirty, flash, oldest, gcRequest, lastDel, recovering, cache, ret, new, old, gc, scan, crashes>>
  BY DEF Del, flashVars, dbVars, ctlVars
<1>2. TypeOK'
  BY <1>1, FdbAssumption DEF IInv, TypeOK, Del, Calls, Labels
<1>3. ReturnsOK' /\ RunningOK'
  <2>1. call' \in Calls /\ call'.key = k
    BY DEF Calls, Del
  <2>2. call' # None
    BY <2>1, NoneAssumption
  <2> QED
    BY <1>1, <2>1, <2>2 DEF IInv, ReturnsOK, RunningOK, Del, Creating, MoveLabels, GcLabels, Moving,
       Collecting, Scanning, Setting, Reserved, Replacing
<1>4. CacheKept /\ pc # "data" /\ ~Reserved' /\ ~Replacing'
      /\ pc' \notin {"header", "data", "commit", "gc_format", "reset_format"}
  BY <1>1 DEF IInv, ReturnsOK, CacheKept, Del, Reserved, Replacing, Creating, MoveLabels, Calls
<1> QED
  BY <1>1, <1>2, <1>3, <1>4, QuietStep

LEMMA DelMissingPreserves ==
    ASSUME IInv, DelMissing
    PROVE  IInv'
<1>1. UNCHANGED <<store, dirty, flash, oldest, gcRequest, lastDel, recovering, cache, new, gc, scan, crashes>>
  BY DEF DelMissing, flashVars, dbVars, ctlVars
<1>2. TypeOK'
  BY <1>1, FdbAssumption DEF IInv, TypeOK, DelMissing, Idle, NoReturn, Labels
<1>3. ReturnsOK' /\ RunningOK'
  BY <1>1, <1>2, NoneAssumption DEF IInv, TypeOK, ReturnsOK, RunningOK, DelMissing, Creating, MoveLabels, GcLabels, Moving, Collecting, Scanning,
         Setting, Reserved, Replacing, Idle, NoReturn
<1>4. CacheKept /\ pc # "data" /\ ~Reserved' /\ ~Replacing'
      /\ pc' \notin {"header", "data", "commit", "gc_format", "reset_format"}
  BY <1>1 DEF IInv, ReturnsOK, CacheKept, DelMissing, Reserved, Replacing, Creating, MoveLabels, Idle, NoReturn
<1> QED
  BY <1>1, <1>2, <1>3, <1>4, QuietStep

LEMMA ReturnPreserves ==
    ASSUME IInv, Return
    PROVE  IInv'
<1>1. UNCHANGED <<store, dirty, flash, oldest, gcRequest, lastDel, recovering, cache, new, gc, scan, crashes>>
  BY DEF Return, flashVars, dbVars, ctlVars
<1>2. TypeOK'
  BY <1>1, FdbAssumption DEF IInv, TypeOK, Return, Idle, NoReturn, Labels
<1>3. ReturnsOK' /\ RunningOK'
  BY <1>1, <1>2, NoneAssumption DEF IInv, TypeOK, ReturnsOK, RunningOK, Return, Creating, MoveLabels, GcLabels, Moving, Collecting, Scanning,
         Setting, Reserved, Replacing, Idle, NoReturn
<1>4. CacheKept /\ pc # "data" /\ ~Reserved' /\ ~Replacing'
      /\ pc' \notin {"header", "data", "commit", "gc_format", "reset_format"}
  BY <1>1 DEF IInv, ReturnsOK, CacheKept, Return, Reserved, Replacing, Creating, MoveLabels, Idle, NoReturn
<1> QED
  BY <1>1, <1>2, <1>3, <1>4, QuietStep

LEMMA LoadCheckPreserves ==
    ASSUME IInv, LoadCheck
    PROVE  IInv'
<1>1. UNCHANGED <<store, dirty, flash, oldest, gcRequest, lastDel, recovering, cache, call, ret, new, old, gc, crashes>>
  BY DEF LoadCheck, flashVars, dbVars, ctlVars
<1>2. TypeOK'
  BY <1>1, FdbAssumption DEF IInv, TypeOK, LoadCheck, Walks, Labels
<1>3. ReturnsOK' /\ RunningOK'
  BY <1>1, <1>2, NoneAssumption DEF IInv, TypeOK, ReturnsOK, RunningOK, LoadCheck, Creating, MoveLabels, GcLabels, Moving, Collecting, Scanning,
         Setting, Reserved, Replacing, Walks
<1>4. CacheKept /\ pc # "data" /\ ~Reserved' /\ ~Replacing'
      /\ pc' \notin {"header", "data", "commit", "gc_format", "reset_format"}
  BY <1>1 DEF IInv, ReturnsOK, CacheKept, LoadCheck, Reserved, Replacing, Creating, MoveLabels, Walks
<1> QED
  BY <1>1, <1>2, <1>3, <1>4, QuietStep

LEMMA LoadStartPreserves ==
    ASSUME IInv, LoadStart
    PROVE  IInv'
<1>1. UNCHANGED <<store, dirty, flash, oldest, gcRequest, lastDel, recovering, cache, call, ret, new, old, gc, crashes>>
  BY DEF LoadStart, flashVars, dbVars, ctlVars
<1>2. TypeOK'
  BY <1>1, FdbAssumption DEF IInv, TypeOK, LoadStart, Walks, Labels
<1>3. ReturnsOK' /\ RunningOK'
  BY <1>1, <1>2, NoneAssumption DEF IInv, TypeOK, ReturnsOK, RunningOK, LoadStart, Creating, MoveLabels, GcLabels, Moving, Collecting, Scanning,
         Setting, Reserved, Replacing, Walks
<1>4. CacheKept /\ pc # "data" /\ ~Reserved' /\ ~Replacing'
      /\ pc' \notin {"header", "data", "commit", "gc_format", "reset_format"}
  BY <1>1 DEF IInv, ReturnsOK, CacheKept, LoadStart, Reserved, Replacing, Creating, MoveLabels, Walks
<1> QED
  BY <1>1, <1>2, <1>3, <1>4, QuietStep

LEMMA GcEndPreserves ==
    ASSUME IInv, GcEnd
    PROVE  IInv'
<1>1. UNCHANGED <<store, dirty, flash, oldest, lastDel, recovering, cache, call, ret, new, scan, crashes>>
  BY DEF GcEnd, flashVars, dbVars, ctlVars
<1>2. TypeOK'
  <2>1. ret.gc \in Labels
    BY DEF IInv, ReturnsOK, Labels
  <2> QED
    BY <1>1, <2>1 DEF IInv, TypeOK, GcEnd
<1>3. ReturnsOK' /\ RunningOK'
  BY <1>1, <1>2, NoneAssumption DEF IInv, TypeOK, ReturnsOK, RunningOK, GcEnd, Creating, MoveLabels, GcLabels, Moving, Collecting, Scanning,
         Setting, Reserved, Replacing
<1>4. CacheKept /\ pc # "data" /\ ~Reserved' /\ ~Replacing'
      /\ pc' \notin {"header", "data", "commit", "gc_format", "reset_format"}
  BY <1>1 DEF IInv, ReturnsOK, CacheKept, GcEnd, Reserved, Replacing, Creating, MoveLabels
<1> QED
  BY <1>1, <1>2, <1>3, <1>4, QuietStep

\* Starting a collection leaves well-typed what it needs.
LEMMA CallGcType ==
    ASSUME TypeOK, NEW free \in Nat, NEW next \in Labels, CallGc(free, next)
    PROVE  /\ gc' \in Collections /\ gc' # None
           /\ ret' \in [del : Labels, create : Labels, move : Labels, gc : Labels, reset : Labels]
           /\ ret'.gc = next /\ ret'.del = ret.del /\ ret'.create = ret.create
           /\ ret'.move = ret.move /\ ret'.reset = ret.reset
           /\ pc' = "gc_begin"
<1>1. 0 \in Sectors /\ 0 \in 0 .. NumSectors
  BY FdbAssumption DEF Sectors
<1>2. gc' \in Collections
  BY <1>1 DEF CallGc, Collections, TypeOK
<1>3. gc' # None
  BY <1>2, NoneAssumption
<1> QED
  BY <1>2, <1>3 DEF CallGc, TypeOK

LEMMA SetEndPreserves ==
    ASSUME IInv, SetEnd
    PROVE  IInv'
<1>1. UNCHANGED <<store, dirty, flash, oldest, gcRequest, lastDel, recovering, cache, new, scan, crashes>>
      /\ pc = "set_end"
  BY DEF SetEnd, flashVars, dbVars
<1>2. CASE gcRequest
  <2>1. KvLen[call.val] \in Nat
    BY <1>1, FdbAssumption DEF IInv, RunningOK, Setting
  <2>2. CallGc(KvLen[call.val], "end") /\ UNCHANGED <<call, old>>
    BY <1>2 DEF SetEnd
  <2>3. "end" \in Labels /\ "gc_begin" \in Labels
    BY DEF Labels
  <2>4. /\ gc' \in Collections /\ gc' # None
        /\ ret' \in [del : Labels, create : Labels, move : Labels, gc : Labels, reset : Labels]
        /\ ret'.gc = "end" /\ ret'.del = ret.del /\ ret'.create = ret.create
        /\ ret'.move = ret.move /\ ret'.reset = ret.reset
        /\ pc' = "gc_begin"
    BY <2>1, <2>2, <2>3, CallGcType DEF IInv
  <2>5. TypeOK'
    BY <1>1, <2>2, <2>3, <2>4 DEF IInv, TypeOK
  <2>6. ReturnsOK' /\ RunningOK'
    BY <1>1, <2>2, <2>4 DEF IInv, ReturnsOK, RunningOK, Creating, MoveLabels, GcLabels, Moving,
       Collecting, Scanning, Setting, Reserved, Replacing
  <2>7. CacheKept /\ ~Reserved' /\ ~Replacing'
    BY <1>1, <2>4 DEF CacheKept, Reserved, Replacing, Creating, MoveLabels
  <2> QED
    BY <1>1, <2>4, <2>5, <2>6, <2>7, QuietStep
<1>3. CASE ~gcRequest
  <2>1. Idle /\ UNCHANGED gc
    BY <1>3 DEF SetEnd
  <2>2. TypeOK'
    BY <1>1, <2>1 DEF IInv, TypeOK, Idle, NoReturn, Labels
  <2>3. ReturnsOK' /\ RunningOK'
    BY <1>1, <2>1 DEF IInv, ReturnsOK, RunningOK, Creating, MoveLabels, GcLabels, Moving,
       Collecting, Scanning, Setting, Reserved, Replacing, Idle, NoReturn
  <2>4. CacheKept /\ ~Reserved' /\ ~Replacing' /\ pc' = "idle"
    BY <1>1, <2>1 DEF CacheKept, Reserved, Replacing, Creating, MoveLabels, Idle, NoReturn
  <2> QED
    BY <1>1, <2>2, <2>3, <2>4, QuietStep
<1> QED
  BY <1>2, <1>3

LEMMA GcBeginPreserves ==
    ASSUME IInv, GcBegin
    PROVE  IInv'
<1>1. UNCHANGED <<store, dirty, flash, oldest, lastDel, recovering, cache, call, ret, new, old, scan, crashes>>
      /\ pc = "gc_begin"
  BY DEF GcBegin, flashVars
<1>2. gc \in Collections
  BY <1>1 DEF IInv, TypeOK, RunningOK, Collecting, GcLabels
<1>3. CASE Cardinality(EmptySectors) <= GcThreshold
  <2>1. gc' = [gc EXCEPT !.last = IF EmptySectors = {} THEN 0
                  ELSE CHOOSE s \in EmptySectors : \A t \in EmptySectors : Dist(t) <= Dist(s)]
        /\ pc' = "gc_sector" /\ UNCHANGED gcRequest
    BY <1>3 DEF GcBegin
  <2>2. gc'.last \in Sectors
    <3>1. CASE EmptySectors = {}
      BY <1>2, <2>1, <3>1, FdbAssumption DEF Collections, Sectors
    <3>2. CASE EmptySectors # {}
      <4>1. EmptySectors \subseteq Sectors
        BY DEF EmptySectors
      <4>2. \E s \in EmptySectors : \A t \in EmptySectors : Dist(t) <= Dist(s)
        BY <3>2, <4>1, FarthestExists DEF IInv, TypeOK
      <4> QED
        BY <1>2, <2>1, <3>2, <4>1, <4>2 DEF Collections
    <3> QED
      BY <3>1, <3>2
  <2>3. gc' \in Collections
    BY <1>2, <2>1, <2>2 DEF Collections
  <2>4. gc' # None
    BY <2>3, NoneAssumption
  <2>5. TypeOK'
    BY <1>1, <2>1, <2>3 DEF IInv, TypeOK, Labels
  <2>6. ReturnsOK' /\ RunningOK'
    BY <1>1, <2>1, <2>4 DEF IInv, ReturnsOK, RunningOK, Creating, MoveLabels, GcLabels, Moving,
       Collecting, Scanning, Setting, Reserved, Replacing
  <2>7. CacheKept /\ ~Reserved' /\ ~Replacing'
    BY <1>1, <2>1 DEF CacheKept, Reserved, Replacing, Creating, MoveLabels
  <2> QED
    BY <1>1, <2>1, <2>5, <2>6, <2>7, QuietStep
<1>4. CASE ~(Cardinality(EmptySectors) <= GcThreshold)
  <2>1. gcRequest' = FALSE /\ pc' = ret.gc /\ gc' = None
    BY <1>4 DEF GcBegin
  <2>2. TypeOK'
    BY <1>1, <2>1 DEF IInv, TypeOK
  <2>3. ReturnsOK' /\ RunningOK'
    BY <1>1, <2>1 DEF IInv, ReturnsOK, RunningOK, Creating, MoveLabels, GcLabels, Moving,
       Collecting, Scanning, Setting, Reserved, Replacing
  <2>4. /\ CacheKept /\ ~Reserved' /\ ~Replacing'
        /\ pc' \notin {"header", "data", "commit", "gc_format", "reset_format"}
    BY <1>1, <2>1 DEF IInv, ReturnsOK, CacheKept, Reserved, Replacing, Creating, MoveLabels
  <2> QED
    BY <1>1, <2>2, <2>3, <2>4, QuietStep
<1> QED
  BY <1>3, <1>4

LEMMA ResetPreserves ==
    ASSUME IInv, Reset
    PROVE  IInv'
<1>1. UNCHANGED <<store, dirty, flash, oldest, gcRequest, lastDel, recovering, new, old, gc, crashes>>
      /\ pc = "idle" /\ pc' = "reset_erase"
  BY DEF Reset, CallReset, flashVars
<1>2. scan' \in Walks /\ scan'.done = 0 /\ 0 \in Sectors
  BY FdbAssumption DEF Reset, CallReset, Walks, Sectors
<1>3. scan' # None
  BY <1>2, NoneAssumption
<1>4. TypeOK'
  <2>1. call' \in Calls
    BY DEF Reset, Calls
  <2>2. cache' \in [Keys -> Addrs \cup {None}]
    BY DEF Reset, CallReset
  <2>3. /\ ret' \in [del : Labels, create : Labels, move : Labels, gc : Labels, reset : Labels]
        /\ pc' \in Labels
    BY DEF IInv, TypeOK, Reset, CallReset, Labels
  <2> QED
    BY <1>1, <1>2, <2>1, <2>2, <2>3 DEF IInv, TypeOK
<1>5. /\ ret'.del = ret.del /\ ret'.create = ret.create /\ ret'.move = ret.move
      /\ ret'.gc = ret.gc /\ ret'.reset = "end"
  BY DEF IInv, TypeOK, Reset, CallReset
<1>6. ReturnsOK' /\ RunningOK'
  BY <1>1, <1>2, <1>3, <1>5 DEF IInv, ReturnsOK, RunningOK, Creating, MoveLabels, GcLabels, Moving,
       Collecting, Scanning, Setting, Reserved, Replacing
<1>7. CacheKept /\ ~Reserved' /\ ~Replacing'
  BY <1>1 DEF CacheKept, Reset, CallReset, Reserved, Replacing, Creating, MoveLabels
<1> QED
  BY <1>1, <1>4, <1>6, <1>7, QuietStep

LEMMA LoadHeadersEndPreserves ==
    ASSUME IInv, LoadHeadersEnd
    PROVE  IInv'
<1>1. UNCHANGED <<store, dirty, flash, oldest, gcRequest, lastDel, recovering, call, new, old, gc, crashes>>
  BY DEF LoadHeadersEnd, flashVars
<1>2. CASE pc = "load_new" /\ CallReset("load_check")
  <2>1. scan' \in Walks /\ scan'.done = 0 /\ 0 \in Sectors /\ pc' = "reset_erase"
    BY <1>2, FdbAssumption DEF CallReset, Walks, Sectors
  <2>2. scan' # None
    BY <2>1, NoneAssumption
  <2>3. cache' \in [Keys -> Addrs \cup {None}]
    BY <1>2 DEF CallReset
  <2>4. /\ ret' \in [del : Labels, create : Labels, move : Labels, gc : Labels, reset : Labels]
        /\ pc' \in Labels
    BY <1>2 DEF IInv, TypeOK, CallReset, Labels
  <2>5. TypeOK'
    BY <1>1, <2>1, <2>3, <2>4 DEF IInv, TypeOK
  <2>6. /\ ret'.del = ret.del /\ ret'.create = ret.create /\ ret'.move = ret.move
        /\ ret'.gc = ret.gc /\ ret'.reset = "load_check"
    BY <1>2 DEF IInv, TypeOK, CallReset
  <2>7. ReturnsOK' /\ RunningOK'
    BY <1>1, <2>1, <2>2, <2>6 DEF IInv, ReturnsOK, RunningOK, Creating, MoveLabels, GcLabels, Moving,
       Collecting, Scanning, Setting, Reserved, Replacing
  <2>8. CacheKept /\ ~Reserved' /\ ~Replacing'
    BY <1>2, <2>1 DEF CacheKept, CallReset, Reserved, Replacing, Creating, MoveLabels
  <2> QED
    BY <1>1, <1>2, <2>1, <2>5, <2>7, <2>8, QuietStep
<1>3. CASE pc = "load_headers" /\ pc' = "load_check" /\ UNCHANGED <<ret, cache, scan>>
  <2>1. TypeOK'
    BY <1>1, <1>3 DEF IInv, TypeOK, Labels
  <2>2. ReturnsOK' /\ RunningOK'
    BY <1>1, <1>3 DEF IInv, ReturnsOK, RunningOK, Creating, MoveLabels, GcLabels, Moving,
       Collecting, Scanning, Setting, Reserved, Replacing
  <2>3. CacheKept /\ ~Reserved' /\ ~Replacing'
    BY <1>3 DEF CacheKept, Reserved, Replacing, Creating, MoveLabels
  <2> QED
    BY <1>1, <1>3, <2>1, <2>2, <2>3, QuietStep
<1> QED
  BY <1>2, <1>3 DEF LoadHeadersEnd

LEMMA BootPreserves ==
    ASSUME IInv, Boot
    PROVE  IInv'
<1>1. UNCHANGED <<store, dirty, flash, gcRequest, lastDel, cache, call, ret, new, old, gc, scan, crashes>>
      /\ pc = "off" /\ pc' \in {"load_new", "load_headers"} /\ recovering' = TRUE
      /\ oldest' = OldestAtBoot
  BY DEF Boot, flashVars
<1>2. OldestAtBoot \in Sectors
  <2> DEFINE starts == {s \in Sectors \ {0} : store[s] \in {"USING", "FULL"} /\ store[s - 1] = "EMPTY"}
  <2>1. CASE starts = {}
    BY <2>1, FdbAssumption DEF OldestAtBoot, Sectors
  <2>2. CASE starts # {}
    <3>1. starts \subseteq 0 .. NumSectors - 1
      BY DEF Sectors
    <3>2. \E s \in starts : \A t \in starts : t <= s
      BY <2>2, <3>1, FdbAssumption, GreatestExists
    <3> QED
      BY <2>2, <3>2 DEF OldestAtBoot
  <2> QED
    BY <2>1, <2>2
<1>3. TypeOK'
  BY <1>1, <1>2 DEF IInv, TypeOK, Labels
<1>4. ReturnsOK' /\ RunningOK'
  BY <1>1 DEF IInv, ReturnsOK, RunningOK, Creating, MoveLabels, GcLabels, Moving,
       Collecting, Scanning, Setting, Reserved, Replacing
<1>5. CacheKept /\ ~Reserved' /\ ~Replacing'
  BY <1>1 DEF CacheKept, Reserved, Replacing, Creating, MoveLabels
<1> QED
  BY <1>1, <1>3, <1>4, <1>5, QuietStep

LEMMA MaxSizeType == MaxSize \in Nat
  BY FdbAssumption DEF MaxSize

LEMMA LoadGcPreserves ==
    ASSUME IInv, LoadGc
    PROVE  IInv'
<1> DEFINE ahead == {s \in Sectors : dirty[s] = "GC" /\ Distance(scan.from, s) >= scan.done}
           s == CHOOSE t \in ahead : \A u \in ahead :
                    Distance(scan.from, t) <= Distance(scan.from, u)
<1>1. UNCHANGED <<store, dirty, flash, oldest, lastDel, recovering, cache, call, new, old, crashes>>
      /\ pc = "load_gc"
  BY DEF LoadGc, flashVars
<1>2. scan \in Walks
  BY <1>1 DEF IInv, TypeOK, RunningOK, Scanning
<1>3. CASE ahead = {}
  <2>1. pc' = "load_start" /\ UNCHANGED <<gcRequest, ret, gc, scan>>
    BY <1>3 DEF LoadGc
  <2>2. TypeOK'
    BY <1>1, <2>1 DEF IInv, TypeOK, Labels
  <2>3. ReturnsOK' /\ RunningOK'
    BY <1>1, <2>1 DEF IInv, ReturnsOK, RunningOK, Creating, MoveLabels, GcLabels, Moving,
       Collecting, Scanning, Setting, Reserved, Replacing
  <2>4. CacheKept /\ ~Reserved' /\ ~Replacing'
    BY <1>1, <2>1 DEF CacheKept, Reserved, Replacing, Creating, MoveLabels
  <2> QED
    BY <1>1, <2>1, <2>2, <2>3, <2>4, QuietStep
<1>4. CASE ahead # {}
  <2>1. /\ scan' = [scan EXCEPT !.done = Distance(scan.from, s) + 1]
        /\ gcRequest' = TRUE
        /\ CallGc(MaxSize, "load_gc")
    BY <1>4 DEF LoadGc
  <2>2. s \in Sectors
    <3> DEFINE f == [t \in ahead |-> Distance(scan.from, t)]
    <3>1. scan.from \in Sectors /\ ahead \subseteq Sectors
      BY <1>2 DEF Walks
    <3>2. \A t \in ahead : f[t] \in Nat
      BY <3>1, DistanceType, FdbAssumption
    <3>3. \E t \in ahead : \A u \in ahead : f[t] <= f[u]
      BY <1>4, <3>2, MinimumExists
    <3>4. \E t \in ahead : \A u \in ahead : Distance(scan.from, t) <= Distance(scan.from, u)
      BY <3>3
    <3> QED
      BY <3>1, <3>4
  <2>3. scan' \in Walks
    <3>1. scan.from \in Sectors
      BY <1>2 DEF Walks
    <3>2. Distance(scan.from, s) + 1 \in Nat
      BY <2>2, <3>1, DistanceType, FdbAssumption
    <3> HIDE DEF s
    <3> QED
      BY <1>2, <2>1, <3>2 DEF Walks
  <2>4. scan' # None
    BY <2>3, NoneAssumption
  <2>5. "load_gc" \in Labels /\ "gc_begin" \in Labels
    BY DEF Labels
  <2>6. /\ gc' \in Collections /\ gc' # None
        /\ ret' \in [del : Labels, create : Labels, move : Labels, gc : Labels, reset : Labels]
        /\ ret'.gc = "load_gc" /\ ret'.del = ret.del /\ ret'.create = ret.create
        /\ ret'.move = ret.move /\ ret'.reset = ret.reset
        /\ pc' = "gc_begin"
    BY <2>1, <2>5, CallGcType, MaxSizeType DEF IInv
  <2>7. TypeOK'
    BY <1>1, <2>1, <2>3, <2>5, <2>6 DEF IInv, TypeOK
  <2>8. ReturnsOK' /\ RunningOK'
    BY <1>1, <2>4, <2>6 DEF IInv, ReturnsOK, RunningOK, Creating, MoveLabels, GcLabels, Moving,
       Collecting, Scanning, Setting, Reserved, Replacing
  <2>9. CacheKept /\ ~Reserved' /\ ~Replacing'
    BY <1>1, <2>6 DEF CacheKept, Reserved, Replacing, Creating, MoveLabels
  <2> QED
    BY <1>1, <2>6, <2>7, <2>8, <2>9, QuietStep
<1> QED
  BY <1>3, <1>4

LEMMA LoadEndPreserves ==
    ASSUME IInv, LoadEnd
    PROVE  IInv'
<1>1. UNCHANGED <<store, dirty, flash, oldest, gcRequest, lastDel, cache, call, new, crashes>>
      /\ pc = "load_end" /\ scan' = None /\ old' = None
  BY DEF LoadEnd, flashVars
<1>2. CASE gcRequest
  <2>1. CallGc(MaxSize, "load_start") /\ UNCHANGED recovering
    BY <1>2 DEF LoadEnd
  <2>2. "load_start" \in Labels /\ "gc_begin" \in Labels
    BY DEF Labels
  <2>3. /\ gc' \in Collections /\ gc' # None
        /\ ret' \in [del : Labels, create : Labels, move : Labels, gc : Labels, reset : Labels]
        /\ ret'.gc = "load_start" /\ ret'.del = ret.del /\ ret'.create = ret.create
        /\ ret'.move = ret.move /\ ret'.reset = ret.reset
        /\ pc' = "gc_begin"
    BY <2>1, <2>2, CallGcType, MaxSizeType DEF IInv
  <2>4. TypeOK'
    BY <1>1, <2>1, <2>2, <2>3 DEF IInv, TypeOK
  <2>5. ReturnsOK' /\ RunningOK'
    BY <1>1, <2>3 DEF IInv, ReturnsOK, RunningOK, Creating, MoveLabels, GcLabels, Moving,
       Collecting, Scanning, Setting, Reserved, Replacing
  <2>6. CacheKept /\ ~Reserved' /\ ~Replacing'
    BY <1>1, <2>3 DEF CacheKept, Reserved, Replacing, Creating, MoveLabels
  <2> QED
    BY <1>1, <2>3, <2>4, <2>5, <2>6, QuietStep
<1>3. CASE ~gcRequest
  <2>1. recovering' = FALSE /\ pc' = "idle" /\ ret' = NoReturn /\ UNCHANGED gc
    BY <1>3 DEF LoadEnd
  <2>2. TypeOK'
    BY <1>1, <2>1 DEF IInv, TypeOK, NoReturn, Labels
  <2>3. ReturnsOK' /\ RunningOK'
    BY <1>1, <2>1 DEF IInv, NoReturn, ReturnsOK, RunningOK, Creating, MoveLabels, GcLabels, Moving,
       Collecting, Scanning, Setting, Reserved, Replacing
  <2>4. CacheKept /\ ~Reserved' /\ ~Replacing'
    BY <1>1, <2>1 DEF CacheKept, NoReturn, Reserved, Replacing, Creating, MoveLabels
  <2> QED
    BY <1>1, <2>1, <2>2, <2>3, <2>4, QuietStep
<1> QED
  BY <1>2, <1>3

\* The walk of the load puts only written nodes into the cache.
LEMMA CachedUpToWritten ==
    ASSUME TypeOK, scan # None, NEW p \in Nat, cache' = CachedUpTo(p)
    PROVE  \A k \in Keys : cache'[k] = cache[k] \/ cache'[k] \in Written(k)
<1>1. scan.done \in Nat
  BY DEF TypeOK, Walks
<1> SUFFICES ASSUME NEW k \in Keys
             PROVE  cache'[k] = cache[k] \/ cache'[k] \in Written(k)
  OBVIOUS
<1> DEFINE passed == {a \in Written(k) : Place(a) \in scan.done .. p - 1}
<1>2. cache'[k] = IF passed = {} THEN cache[k]
                  ELSE CHOOSE a \in passed : \A b \in passed : Place(b) <= Place(a)
  BY DEF CachedUpTo
<1>3. CASE passed = {}
  BY <1>2, <1>3
<1>4. CASE passed # {}
  <2> DEFINE O == {Place(a) : a \in passed}
  <2>1. O \subseteq 0 .. p - 1 /\ O # {}
    BY <1>1, <1>4
  <2>2. \E o \in O : \A q \in O : q <= o
    BY <2>1, GreatestExists
  <2>3. \E a \in passed : \A b \in passed : Place(b) <= Place(a)
    BY <2>2
  <2> QED
    BY <1>2, <1>4, <2>3
<1> QED
  BY <1>3, <1>4

\* The load puts only complete nodes into the cache.
LEMMA CachedUpToKept ==
    ASSUME TypeOK, scan # None, NEW p \in Nat, cache' = CachedUpTo(p)
    PROVE  CacheKept /\ cache' \in [Keys -> Addrs \cup {None}]
<1>2. \A k \in Keys : cache'[k] = cache[k] \/ cache'[k] \in Written(k)
  BY CachedUpToWritten
<1>3. \A k \in Keys : Written(k) \subseteq Addrs
  BY DEF Written, NodeAddrs
<1>4. cache' \in [Keys -> Addrs \cup {None}]
  BY <1>2, <1>3 DEF CachedUpTo, TypeOK
<1>5. CacheKept
  BY <1>2, <1>3 DEF CacheKept, Written, NodeAddrs
<1> QED
  BY <1>4, <1>5

LEMMA LoadKvEndPreserves ==
    ASSUME IInv, LoadKvEnd
    PROVE  IInv'
<1>1. UNCHANGED <<store, dirty, flash, oldest, gcRequest, lastDel, recovering, call, ret, new, old, gc, scan, crashes>>
      /\ pc = "load_kv" /\ pc' = "load_end" /\ cache' = CachedUpTo(MaxSize)
  BY DEF LoadKvEnd, flashVars
<1>2. scan # None
  BY <1>1 DEF IInv, RunningOK, Scanning
<1>3. CacheKept /\ cache' \in [Keys -> Addrs \cup {None}]
  BY <1>1, <1>2, MaxSizeType, CachedUpToKept DEF IInv
<1>4. TypeOK'
  BY <1>1, <1>3 DEF IInv, TypeOK, Labels
<1>5. ReturnsOK' /\ RunningOK'
  BY <1>1 DEF IInv, ReturnsOK, RunningOK, Creating, MoveLabels, GcLabels, Moving,
       Collecting, Scanning, Setting, Reserved, Replacing
<1>6. ~Reserved' /\ ~Replacing'
  BY <1>1 DEF Reserved, Replacing, Creating, MoveLabels
<1> QED
  BY <1>1, <1>3, <1>4, <1>5, <1>6, QuietStep

LEMMA ReadPreserves ==
    ASSUME IInv, NEW k \in Keys, Read(k)
    PROVE  IInv'
<1>1. UNCHANGED <<store, dirty, flash, oldest, gcRequest, lastDel, recovering, call, pc, ret, new, old, gc, scan, crashes>>
      /\ pc = "idle" /\ Find(k) # None /\ cache' = [cache EXCEPT ![k] = Find(k)]
  BY DEF Read, Cached, flashVars, ctlVars
<1>2. Find(k) \in Addrs /\ NodeAt(Find(k)) # None /\ NodeAt(Find(k)).crc
  BY <1>1, FindComplete DEF IInv
<1>3. CacheKept
  BY <1>1, <1>2 DEF IInv, TypeOK, CacheKept
<1>4. TypeOK'
  BY <1>1, <1>2 DEF IInv, TypeOK
<1>5. ReturnsOK' /\ RunningOK'
  BY <1>1 DEF IInv, ReturnsOK, RunningOK, Creating, MoveLabels, GcLabels, Moving,
       Collecting, Scanning, Setting, Reserved, Replacing
<1>6. ~Reserved' /\ ~Replacing'
  BY <1>1 DEF Reserved, Replacing, Creating, MoveLabels
<1> QED
  BY <1>1, <1>3, <1>4, <1>5, <1>6, QuietStep

-----------------------------------------------------------------------------
(* The steps that write no node but lead to one.                           *)

\* As QuietStep, for steps into the middle of a procedure.
LEMMA CalmStep ==
    ASSUME IInv, UNCHANGED <<store, flash>>, CacheKept, pc # "data",
           pc' \notin {"header", "data", "commit", "gc_format", "reset_format"},
           TypeOK', ReturnsOK', RunningOK', NewOK', OldOK'
    PROVE  IInv'
<1>1. BlankOK' /\ CommittedIsComplete'
  BY DEF IInv, BlankOK, CommittedIsComplete, NodeAddrs, NodeAt
<1>2. CacheOK'
  BY DEF IInv, CacheOK, CacheKept, NodeAt
<1> QED
  BY <1>1, <1>2 DEF IInv

LEMMA MarkDirtyPreserves ==
    ASSUME IInv, MarkDirty
    PROVE  IInv'
<1>1. UNCHANGED <<store, flash, oldest, gcRequest, lastDel, recovering, cache, call, ret, new, old, gc, scan, crashes>>
      /\ pc = "dirty" /\ pc' = ret.del
  BY DEF MarkDirty, dbVars
<1>2. TypeOK'
  <2>1. dirty' \in [Sectors -> DirtyStatus]
    BY DEF IInv, TypeOK, MarkDirty, DirtyStatus
  <2> QED
    BY <1>1, <2>1 DEF IInv, TypeOK
<1>3. ReturnsOK' /\ RunningOK'
  BY <1>1 DEF IInv, ReturnsOK, RunningOK, Creating, MoveLabels, GcLabels, Moving,
       Collecting, Scanning, Setting, Reserved, Replacing
<1>4. NewOK' /\ OldOK'
  BY <1>1 DEF IInv, ReturnsOK, NewOK, OldOK, NodeAt, Reserved, Replacing, Creating, MoveLabels
<1>5. CacheKept /\ pc' \notin {"header", "data", "commit", "gc_format", "reset_format"}
  BY <1>1 DEF IInv, ReturnsOK, CacheKept
<1> QED
  BY <1>1, <1>2, <1>3, <1>4, <1>5, CalmStep

LEMMA MoveAllocPreserves ==
    ASSUME IInv, MoveAlloc
    PROVE  IInv'
<1> DEFINE node == NodeAt(old)
           room == Candidates(KvLen[node.val])
           copied == pc = "move_again" /\ AlreadyCopied(node.key)
<1>1. UNCHANGED <<store, dirty, flash, oldest, lastDel, recovering, cache, call, old, gc, scan, crashes>>
      /\ pc \in {"move_alloc", "move_again"} /\ gcRequest' = (gcRequest \/ AllocAsksGc(KvLen[node.val]))
  BY DEF MoveAlloc, flashVars
<1>2. old \in Addrs /\ node # None /\ node.crc /\ node.key \in Keys /\ node.val \in Vals
  <2>1. old # None /\ node # None /\ node.crc
    BY <1>1 DEF IInv, RunningOK, OldOK, Replacing, MoveLabels
  <2>2. old \in Addrs
    BY <2>1 DEF IInv, TypeOK
  <2> QED
    BY <2>1, <2>2, NodeType DEF IInv
<1>3. gcRequest' \in BOOLEAN
  BY <1>1 DEF AllocAsksGc, IInv, TypeOK
<1>4. ret.move \in {"gc_kv", "load_kv"} /\ CacheKept
  BY <1>1 DEF IInv, ReturnsOK, MoveLabels, CacheKept
<1>5. CASE room = {} /\ pc' = (IF ret.move = "load_kv" THEN "load_end" ELSE ret.move) /\ UNCHANGED <<new, ret>>
  <2>1. TypeOK'
    BY <1>1, <1>3, <1>4, <1>5 DEF IInv, TypeOK, Labels
  <2>2. ReturnsOK' /\ RunningOK'
    BY <1>1, <1>4, <1>5 DEF IInv, ReturnsOK, RunningOK, Creating, MoveLabels, GcLabels, Moving,
       Collecting, Scanning, Setting, Reserved, Replacing
  <2>3. ~Reserved' /\ ~Replacing'
    BY <1>1, <1>4, <1>5 DEF Reserved, Replacing, Creating, MoveLabels
  <2> QED
    BY <1>1, <1>4, <1>5, <2>1, <2>2, <2>3, QuietStep
<1>6. CASE room # {} /\ copied /\ pc' = "move_delete" /\ UNCHANGED <<new, ret>>
  <2>1. TypeOK'
    BY <1>1, <1>3, <1>6 DEF IInv, TypeOK, Labels
  <2>2. ReturnsOK' /\ RunningOK'
    BY <1>1, <1>6 DEF IInv, ReturnsOK, RunningOK, Creating, MoveLabels, GcLabels, Moving,
       Collecting, Scanning, Setting, Reserved, Replacing
  <2>3. NewOK' /\ OldOK'
    BY <1>1, <1>2, <1>6 DEF IInv, NewOK, OldOK, NodeAt, Reserved, Replacing, Creating, MoveLabels
  <2> QED
    BY <1>1, <1>4, <1>6, <2>1, <2>2, <2>3, CalmStep
<1>7. CASE /\ room # {}
           /\ new' = NewNode(FirstSector(room), node.key, node.val)
           /\ ret' = [ret EXCEPT !.create = "move_delete"]
           /\ pc' = "sector"
  <2>1. new' \in NewNodes /\ flash[new'.sec][new'.off] = None
    <3> HIDE DEF node
    <3> QED
      BY <1>2, <1>7, NewNodeType DEF IInv
  <2>2. new' # None
    BY <2>1, NoneAssumption
  <2>3. /\ ret' \in [del : Labels, create : Labels, move : Labels, gc : Labels, reset : Labels]
        /\ ret'.create = "move_delete" /\ ret'.del = ret.del /\ ret'.move = ret.move
        /\ ret'.gc = ret.gc /\ ret'.reset = ret.reset
    BY <1>7 DEF IInv, TypeOK, Labels
  <2>4. TypeOK'
    BY <1>1, <1>3, <1>7, <2>1, <2>3 DEF IInv, TypeOK, Labels
  <2>5. ReturnsOK' /\ RunningOK'
    BY <1>1, <1>4, <1>7, <2>2, <2>3 DEF IInv, ReturnsOK, RunningOK, Creating, MoveLabels, GcLabels, Moving,
       Collecting, Scanning, Setting, Reserved, Replacing
  <2>6. NewOK'
    BY <1>1, <1>7, <2>1 DEF NewOK
  <2>7. OldOK'
    BY <1>1, <1>2 DEF OldOK, NodeAt
  <2> QED
    BY <1>1, <1>4, <1>7, <2>4, <2>5, <2>6, <2>7, CalmStep
<1> QED
  BY <1>5, <1>6, <1>7 DEF MoveAlloc

LEMMA SetAllocPreserves ==
    ASSUME IInv, SetAlloc
    PROVE  IInv'
<1> DEFINE len == KvLen[call.val]
           room == Candidates(len)
<1>1. UNCHANGED <<store, dirty, flash, oldest, lastDel, recovering, cache, scan, crashes>>
      /\ pc \in {"set_alloc", "set_retry"}
  BY DEF SetAlloc, flashVars
<1>2. call # None /\ call.key \in Keys /\ call.val \in Vals /\ len \in Nat
  BY <1>1, FdbAssumption DEF IInv, RunningOK, Setting
<1>3. CacheKept
  BY <1>1 DEF CacheKept
<1>4. CASE /\ room # {}
           /\ new' = NewNode(FirstSector(room), call.key, call.val)
           /\ pc' = "set_find"
           /\ UNCHANGED <<gcRequest, call, ret, old, gc>>
  <2>1. new' \in NewNodes /\ flash[new'.sec][new'.off] = None
    BY <1>2, <1>4, NewNodeType DEF IInv
  <2>2. new' # None
    BY <2>1, NoneAssumption
  <2>3. TypeOK'
    BY <1>1, <1>4, <2>1 DEF IInv, TypeOK, Labels
  <2>4. ReturnsOK' /\ RunningOK'
    BY <1>1, <1>2, <1>4, <2>2 DEF IInv, ReturnsOK, RunningOK, Creating, MoveLabels, GcLabels, Moving,
       Collecting, Scanning, Setting, Reserved, Replacing
  <2>5. NewOK' /\ OldOK'
    BY <1>1, <1>4, <2>1 DEF NewOK, OldOK, Reserved, Replacing, Creating, MoveLabels
  <2> QED
    BY <1>1, <1>3, <1>4, <2>3, <2>4, <2>5, CalmStep
<1>5. CASE gcRequest' = TRUE /\ CallGc(len, "set_retry") /\ UNCHANGED <<call, new, old>>
  <2>1. "set_retry" \in Labels /\ "gc_begin" \in Labels
    BY DEF Labels
  <2>2. /\ gc' \in Collections /\ gc' # None
        /\ ret' \in [del : Labels, create : Labels, move : Labels, gc : Labels, reset : Labels]
        /\ ret'.gc = "set_retry" /\ ret'.del = ret.del /\ ret'.create = ret.create
        /\ ret'.move = ret.move /\ ret'.reset = ret.reset
        /\ pc' = "gc_begin"
    BY <1>2, <1>5, <2>1, CallGcType DEF IInv
  <2>3. TypeOK'
    BY <1>1, <1>5, <2>1, <2>2 DEF IInv, TypeOK
  <2>4. ReturnsOK' /\ RunningOK'
    BY <1>1, <1>2, <1>5, <2>2 DEF IInv, ReturnsOK, RunningOK, Creating, MoveLabels, GcLabels, Moving,
       Collecting, Scanning, Setting, Reserved, Replacing
  <2>5. ~Reserved' /\ ~Replacing'
    BY <2>2 DEF Reserved, Replacing, Creating, MoveLabels
  <2> QED
    BY <1>1, <1>3, <2>2, <2>3, <2>4, <2>5, QuietStep
<1>6. CASE gcRequest' = FALSE /\ Idle /\ UNCHANGED <<new, gc>>
  <2>1. TypeOK'
    BY <1>1, <1>6 DEF IInv, TypeOK, Idle, NoReturn, Labels
  <2>2. ReturnsOK' /\ RunningOK'
    BY <1>1, <1>6 DEF IInv, Idle, NoReturn, ReturnsOK, RunningOK, Creating, MoveLabels, GcLabels, Moving,
       Collecting, Scanning, Setting, Reserved, Replacing
  <2>3. ~Reserved' /\ ~Replacing' /\ pc' = "idle"
    BY <1>6 DEF Idle, NoReturn, Reserved, Replacing, Creating, MoveLabels
  <2> QED
    BY <1>1, <1>3, <2>1, <2>2, <2>3, QuietStep
<1> QED
  BY <1>4, <1>5, <1>6 DEF SetAlloc

LEMMA SetFreshPreserves ==
    ASSUME IInv, SetFresh
    PROVE  IInv'
<1>1. UNCHANGED <<store, dirty, flash, oldest, gcRequest, lastDel, recovering, cache, call, new, old, gc, scan, crashes>>
      /\ pc = "set_find" /\ pc' = "sector"
  BY DEF SetFresh, flashVars, dbVars
<1>2. /\ ret' \in [del : Labels, create : Labels, move : Labels, gc : Labels, reset : Labels]
      /\ ret'.create = "set_end" /\ ret'.del = ret.del /\ ret'.move = ret.move
      /\ ret'.gc = ret.gc /\ ret'.reset = ret.reset
  BY DEF IInv, TypeOK, SetFresh, Labels
<1>3. TypeOK'
  BY <1>1, <1>2 DEF IInv, TypeOK, Labels
<1>4. ReturnsOK' /\ RunningOK'
  BY <1>1, <1>2 DEF IInv, ReturnsOK, RunningOK, Creating, MoveLabels, GcLabels, Moving,
       Collecting, Scanning, Setting, Reserved, Replacing
<1>5. NewOK' /\ OldOK'
  BY <1>1, <1>2 DEF IInv, NewOK, OldOK, Reserved, Replacing, Creating, MoveLabels
<1>6. CacheKept
  BY <1>1 DEF CacheKept
<1> QED
  BY <1>1, <1>3, <1>4, <1>5, <1>6, CalmStep

LEMMA GcMarkPreserves ==
    ASSUME IInv, GcMark
    PROVE  IInv'
<1> DEFINE s == CHOOSE t \in GcAhead : \A u \in GcAhead :
                    Distance(gc.from, t) <= Distance(gc.from, u)
<1>1. UNCHANGED <<store, flash, oldest, gcRequest, lastDel, recovering, cache, call, ret, new, old, scan, crashes>>
      /\ pc = "gc_sector" /\ pc' = "gc_kv" /\ GcAhead # {}
      /\ dirty' = [dirty EXCEPT ![s] = "GC"]
      /\ gc' = [gc EXCEPT !.sec = s, !.pos = -1, !.done = Distance(gc.from, s) + 1]
  BY DEF GcMark, dbVars
<1>2. gc \in Collections /\ gc.from \in Sectors
  BY <1>1 DEF IInv, TypeOK, RunningOK, Collecting, GcLabels, Collections
<1>3. s \in Sectors
  <2> DEFINE f == [t \in GcAhead |-> Distance(gc.from, t)]
  <2>1. GcAhead \subseteq Sectors
    BY DEF GcAhead
  <2>2. \A t \in GcAhead : f[t] \in Nat
    BY <1>2, <2>1, DistanceType, FdbAssumption
  <2>3. \E t \in GcAhead : \A u \in GcAhead : f[t] <= f[u]
    BY <1>1, <2>2, MinimumExists
  <2>4. \E t \in GcAhead : \A u \in GcAhead : Distance(gc.from, t) <= Distance(gc.from, u)
    BY <2>3
  <2> QED
    BY <2>1, <2>4
<1>4. Distance(gc.from, s) + 1 \in 0 .. NumSectors
  <2>1. Distance(gc.from, s) \in 0 .. NumSectors - 1
    BY <1>2, <1>3, DistanceType
  <2> QED
    BY <2>1, FdbAssumption
<1> HIDE DEF s
<1>5. gc' \in Collections
  BY <1>1, <1>2, <1>3, <1>4 DEF Collections
<1>6. gc' # None
  BY <1>5, NoneAssumption
<1>7. TypeOK'
  <2>1. dirty' \in [Sectors -> DirtyStatus]
    BY <1>1 DEF IInv, TypeOK, DirtyStatus
  <2> QED
    BY <1>1, <1>5, <2>1 DEF IInv, TypeOK, Labels
<1>8. ReturnsOK' /\ RunningOK'
  BY <1>1, <1>6 DEF IInv, ReturnsOK, RunningOK, Creating, MoveLabels, GcLabels, Moving,
       Collecting, Scanning, Setting, Reserved, Replacing
<1>9. CacheKept /\ ~Reserved' /\ ~Replacing'
  BY <1>1 DEF CacheKept, Reserved, Replacing, Creating, MoveLabels
<1> QED
  BY <1>1, <1>7, <1>8, <1>9, QuietStep

LEMMA GcMovePreserves ==
    ASSUME IInv, GcMove
    PROVE  IInv'
<1> DEFINE o == Least(Movable)
<1>1. UNCHANGED <<store, dirty, flash, oldest, gcRequest, lastDel, recovering, cache, call, new, scan, crashes>>
      /\ pc = "gc_kv" /\ pc' \in {"move", "move_again"} /\ Movable # {}
      /\ old' = <<gc.sec, o>> /\ gc' = [gc EXCEPT !.pos = o]
      /\ ret' = [ret EXCEPT !.move = "gc_kv"]
  BY DEF GcMove, flashVars, dbVars
<1>2. gc \in Collections /\ gc.sec \in Sectors
  BY <1>1 DEF IInv, TypeOK, RunningOK, Collecting, GcLabels, Collections
<1>3. o \in Offsets /\ flash[gc.sec][o] # None /\ flash[gc.sec][o].crc
  <2>1. Movable \subseteq Offsets
    BY DEF Movable, After, Occupied
  <2>2. o \in Movable
    BY <1>1, <2>1, LeastType
  <2> QED
    BY <2>1, <2>2 DEF Movable, After, Occupied
<1> HIDE DEF o
<1>4. gc' \in Collections
  BY <1>1, <1>2, <1>3 DEF Collections
<1>5. gc' # None
  BY <1>4, NoneAssumption
<1>6. old' \in Addrs
  BY <1>1, <1>2, <1>3 DEF Addrs
<1>7. old' # None
  BY <1>6, NoneAssumption
<1>8. /\ ret' \in [del : Labels, create : Labels, move : Labels, gc : Labels, reset : Labels]
      /\ ret'.move = "gc_kv" /\ ret'.del = ret.del /\ ret'.create = ret.create
      /\ ret'.gc = ret.gc /\ ret'.reset = ret.reset
  BY <1>1 DEF IInv, TypeOK, Labels
<1>9. TypeOK'
  BY <1>1, <1>4, <1>6, <1>8 DEF IInv, TypeOK, Labels
<1>10. ReturnsOK' /\ RunningOK'
  BY <1>1, <1>5, <1>7, <1>8 DEF IInv, ReturnsOK, RunningOK, Creating, MoveLabels, GcLabels, Moving,
       Collecting, Scanning, Setting, Reserved, Replacing
<1>11. NewOK' /\ OldOK'
  BY <1>1, <1>3 DEF NewOK, OldOK, NodeAt, Reserved, Replacing, Creating, MoveLabels
<1>12. CacheKept
  BY <1>1 DEF CacheKept
<1> QED
  BY <1>1, <1>9, <1>10, <1>11, <1>12, CalmStep

-----------------------------------------------------------------------------
(* The status writes: a move, set or deletion, and the recovery.           *)

\* A status write outside the creation of a node, by a step whose control and
\* types are right, preserves the invariant.
LEMMA StatusStepPreserves ==
    ASSUME IInv, NEW a \in Addrs, NodeAt(a) # None, NEW st \in KvStatus,
           NodeAt(a).crc \/ st = "ERR_HDR",
           flash' = [flash EXCEPT ![a[1]][a[2]].status = st],
           UNCHANGED store, CacheKept, pc # "data",
           pc' \notin {"header", "data", "commit", "gc_format", "reset_format"},
           TypeOK', ReturnsOK', RunningOK',
           Reserved' => UNCHANGED new /\ Reserved /\ new \in NewNodes,
           Replacing' => \E b \in Addrs : old' = b /\ NodeAt(b) # None /\ NodeAt(b).crc
    PROVE  IInv'
<1>1. /\ \A s \in Sectors : store'[s] \in {"EMPTY", "UNUSED"} =>
             \A o \in Offsets : flash'[s][o] = None
      /\ CacheOK' /\ CommittedIsComplete'
  BY StatusStep
<1>2. \A b \in Addrs : /\ NodeAt(b) = None <=> NodeAt(b)' = None
                       /\ NodeAt(b) # None => NodeAt(b)'.crc = NodeAt(b).crc
  BY StatusWrite DEF IInv
<1>3. BlankOK'
  BY <1>1 DEF BlankOK
<1>4. NewOK'
  <2>1. ASSUME Reserved'
        PROVE  flash'[new'.sec][new'.off] = None
    <3>1. <<new.sec, new.off>> \in Addrs /\ UNCHANGED new
      BY <2>1 DEF NewNodes, Addrs
    <3>2. NodeAt(<<new.sec, new.off>>) = None
      BY <2>1 DEF IInv, NewOK, NodeAt
    <3> QED
      BY <1>2, <3>1, <3>2 DEF NodeAt
  <2> QED
    BY <2>1 DEF NewOK
<1>5. OldOK'
  <2>1. ASSUME NEW b \in Addrs, old' = b, NodeAt(b) # None, NodeAt(b).crc
        PROVE  NodeAt(old)' # None /\ NodeAt(old)'.crc
    BY <1>2, <2>1 DEF NodeAt
  <2> QED
    BY <2>1 DEF OldOK
<1> QED
  BY <1>1, <1>3, <1>4, <1>5 DEF IInv

\* Dropping a key keeps the rest of the cache.
LEMMA DelStatusCache ==
    ASSUME TypeOK, NEW a, NEW complete \in BOOLEAN, DelStatus(a, complete)
    PROVE  CacheKept /\ cache' \in [Keys -> Addrs \cup {None}] /\ lastDel' \in BOOLEAN
  BY DEF TypeOK, DelStatus, Cached, CacheKept

\* The address del_kv works on, and what it writes there.
LEMMA DelStatusWrite ==
    ASSUME TypeOK, RunningOK, OldOK, Replacing, NEW complete \in BOOLEAN, DelStatus(old, complete)
    PROVE  /\ old \in Addrs /\ NodeAt(old) # None /\ NodeAt(old).crc
           /\ \E st \in KvStatus :
                 /\ flash' = [flash EXCEPT ![old[1]][old[2]].status = st]
                 /\ flash' \in [Sectors -> [Offsets -> Nodes \cup {None}]]
<1>1. old \in Addrs /\ NodeAt(old) # None /\ NodeAt(old).crc
  BY DEF TypeOK, RunningOK, OldOK
<1>2. PICK st \in KvStatus : flash' = [flash EXCEPT ![old[1]][old[2]].status = st]
  BY DEF DelStatus, KvStatus
<1>3. flash' \in [Sectors -> [Offsets -> Nodes \cup {None}]]
  BY <1>1, <1>2, StatusWrite
<1> QED
  BY <1>1, <1>2, <1>3

LEMMA MovePreparePreserves ==
    ASSUME IInv, MovePrepare
    PROVE  IInv'
<1>1. UNCHANGED <<store, dirty, oldest, gcRequest, recovering, call, ret, new, old, gc, scan, crashes>>
      /\ pc = "move" /\ pc' = "move_alloc" /\ DelStatus(old, FALSE)
  BY DEF MovePrepare
<1>2. PICK st \in KvStatus : /\ flash' = [flash EXCEPT ![old[1]][old[2]].status = st]
                             /\ flash' \in [Sectors -> [Offsets -> Nodes \cup {None}]]
                             /\ old \in Addrs /\ NodeAt(old) # None /\ NodeAt(old).crc
  BY <1>1, DelStatusWrite DEF IInv, Replacing, MoveLabels
<1>3. CacheKept /\ cache' \in [Keys -> Addrs \cup {None}] /\ lastDel' \in BOOLEAN
  BY <1>1, DelStatusCache DEF IInv
<1>4. TypeOK'
  BY <1>1, <1>2, <1>3 DEF IInv, TypeOK, Labels
<1>5. ReturnsOK' /\ RunningOK'
  BY <1>1 DEF IInv, ReturnsOK, RunningOK, Creating, MoveLabels, GcLabels, Moving,
       Collecting, Scanning, Setting, Reserved, Replacing
<1>6. ~Reserved'
  BY <1>1 DEF Reserved
<1> QED
  BY <1>1, <1>2, <1>3, <1>4, <1>5, <1>6, StatusStepPreserves

\* Marking a sector dirty, or not, continues at next.
LEMMA ThenDirtyType ==
    ASSUME TypeOK, ReturnsOK, NEW a, NEW next \in Labels, ThenDirty(a, next)
    PROVE  /\ ret' \in [del : Labels, create : Labels, move : Labels, gc : Labels, reset : Labels]
           /\ ret'.create = ret.create /\ ret'.move = ret.move
           /\ ret'.gc = ret.gc /\ ret'.reset = ret.reset
           /\ ret'.del \in {ret.del, next}
           /\ pc' \in {"dirty", next} /\ pc' \in Labels
           /\ pc' = "dirty" => ret'.del = next \/ next = "dirty"
  BY DEF ThenDirty, TypeOK, ReturnsOK, Labels

LEMMA MoveDeletePreserves ==
    ASSUME IInv, MoveDelete
    PROVE  IInv'
<1>1. UNCHANGED <<store, dirty, oldest, gcRequest, recovering, call, new, old, gc, scan, crashes>>
      /\ pc = "move_delete" /\ DelStatus(old, TRUE) /\ ThenDirty(old, ret.move)
  BY DEF MoveDelete
<1>2. PICK st \in KvStatus : /\ flash' = [flash EXCEPT ![old[1]][old[2]].status = st]
                             /\ flash' \in [Sectors -> [Offsets -> Nodes \cup {None}]]
                             /\ old \in Addrs /\ NodeAt(old) # None /\ NodeAt(old).crc
  BY <1>1, DelStatusWrite DEF IInv, Replacing, MoveLabels
<1>3. CacheKept /\ cache' \in [Keys -> Addrs \cup {None}] /\ lastDel' \in BOOLEAN
  BY <1>1, DelStatusCache DEF IInv
<1>4. ret.move \in {"gc_kv", "load_kv"} /\ ret.move \in Labels
  BY <1>1 DEF IInv, ReturnsOK, MoveLabels, Labels
<1>5. /\ ret' \in [del : Labels, create : Labels, move : Labels, gc : Labels, reset : Labels]
      /\ ret'.create = ret.create /\ ret'.move = ret.move
      /\ ret'.gc = ret.gc /\ ret'.reset = ret.reset
      /\ ret'.del \in {ret.del, ret.move}
      /\ pc' \in {"dirty", ret.move} /\ pc' \in Labels
      /\ pc' = "dirty" => ret'.del = ret.move
  BY <1>1, <1>4, ThenDirtyType DEF IInv
<1>6. TypeOK'
  BY <1>1, <1>2, <1>3, <1>5 DEF IInv, TypeOK
<1>7. ReturnsOK' /\ RunningOK'
  BY <1>1, <1>4, <1>5 DEF IInv, ReturnsOK, RunningOK, Creating, MoveLabels, GcLabels, Moving,
       Collecting, Scanning, Setting, Reserved, Replacing
<1>8. ~Reserved' /\ ~Replacing' /\ pc' \notin {"header", "data", "commit", "gc_format", "reset_format"}
  BY <1>4, <1>5 DEF Reserved, Replacing, Creating, MoveLabels
<1> QED
  BY <1>1, <1>2, <1>3, <1>6, <1>7, <1>8, StatusStepPreserves

LEMMA SetDeletePreserves ==
    ASSUME IInv, SetDelete
    PROVE  IInv'
<1>1. UNCHANGED <<store, dirty, oldest, gcRequest, recovering, call, new, old, gc, scan, crashes>>
      /\ pc = "set_delete" /\ DelStatus(old, TRUE) /\ ThenDirty(old, "set_end")
  BY DEF SetDelete
<1>2. PICK st \in KvStatus : /\ flash' = [flash EXCEPT ![old[1]][old[2]].status = st]
                             /\ flash' \in [Sectors -> [Offsets -> Nodes \cup {None}]]
                             /\ old \in Addrs /\ NodeAt(old) # None /\ NodeAt(old).crc
  BY <1>1, DelStatusWrite DEF IInv, Replacing
<1>3. CacheKept /\ cache' \in [Keys -> Addrs \cup {None}] /\ lastDel' \in BOOLEAN
  BY <1>1, DelStatusCache DEF IInv
<1>4. "set_end" \in Labels
  BY DEF Labels
<1>5. /\ ret' \in [del : Labels, create : Labels, move : Labels, gc : Labels, reset : Labels]
      /\ ret'.create = ret.create /\ ret'.move = ret.move
      /\ ret'.gc = ret.gc /\ ret'.reset = ret.reset
      /\ ret'.del \in {ret.del, "set_end"}
      /\ pc' \in {"dirty", "set_end"} /\ pc' \in Labels
      /\ pc' = "dirty" => ret'.del = "set_end"
  BY <1>1, <1>4, ThenDirtyType DEF IInv
<1>6. TypeOK'
  BY <1>1, <1>2, <1>3, <1>5 DEF IInv, TypeOK
<1>7. ReturnsOK' /\ RunningOK'
  BY <1>1, <1>5 DEF IInv, ReturnsOK, RunningOK, Creating, MoveLabels, GcLabels, Moving,
       Collecting, Scanning, Setting, Reserved, Replacing
<1>8. ~Reserved' /\ ~Replacing' /\ pc' \notin {"header", "data", "commit", "gc_format", "reset_format"}
  BY <1>5 DEF Reserved, Replacing, Creating, MoveLabels
<1> QED
  BY <1>1, <1>2, <1>3, <1>6, <1>7, <1>8, StatusStepPreserves

LEMMA SetPreparePreserves ==
    ASSUME IInv, SetPrepare
    PROVE  IInv'
<1> DEFINE a == Find(call.key)
<1>1. UNCHANGED <<store, dirty, oldest, gcRequest, recovering, call, new, gc, scan, crashes>>
      /\ pc = "set_find" /\ pc' \in {"dirty", "sector"} /\ a # None /\ old' = a
      /\ lastDel' = TRUE
      /\ ret' = [ret EXCEPT !.create = "set_delete", !.del = "sector"]
  BY DEF SetPrepare
<1>2. call # None /\ call.key \in Keys /\ call.val \in Vals
  BY <1>1 DEF IInv, RunningOK, Setting
<1>3. a \in Addrs /\ NodeAt(a) # None /\ NodeAt(a).crc
  BY <1>1, <1>2, FindComplete DEF IInv
<1>4. cache' = [cache EXCEPT ![call.key] = a] /\ flash' = [flash EXCEPT ![a[1]][a[2]].status = "PRE_DELETE"]
  BY DEF SetPrepare, Cached
<1> HIDE DEF a
<1>5. CacheKept /\ cache' \in [Keys -> Addrs \cup {None}]
  BY <1>2, <1>3, <1>4 DEF IInv, TypeOK, CacheKept
<1>6. "PRE_DELETE" \in KvStatus
  BY DEF KvStatus
<1>7. flash' \in [Sectors -> [Offsets -> Nodes \cup {None}]]
  BY <1>3, <1>4, <1>6, StatusWrite DEF IInv
<1>8. old' # None
  BY <1>1, <1>3, NoneAssumption
<1>9. /\ ret' \in [del : Labels, create : Labels, move : Labels, gc : Labels, reset : Labels]
      /\ ret'.create = "set_delete" /\ ret'.del = "sector" /\ ret'.move = ret.move
      /\ ret'.gc = ret.gc /\ ret'.reset = ret.reset
  BY <1>1 DEF IInv, TypeOK, Labels
<1>10. TypeOK'
  BY <1>1, <1>3, <1>5, <1>7, <1>9 DEF IInv, TypeOK, Labels
<1>11. ReturnsOK' /\ RunningOK'
  BY <1>1, <1>2, <1>8, <1>9 DEF IInv, ReturnsOK, RunningOK, Creating, MoveLabels, GcLabels, Moving,
       Collecting, Scanning, Setting, Reserved, Replacing
<1>12. UNCHANGED new /\ Reserved /\ new \in NewNodes
  BY <1>1 DEF IInv, TypeOK, RunningOK, Reserved
<1>13. \E b \in Addrs : old' = b /\ NodeAt(b) # None /\ NodeAt(b).crc
  BY <1>1, <1>3
<1> QED
  BY <1>1, <1>3, <1>4, <1>5, <1>6, <1>10, <1>11, <1>12, <1>13, StatusStepPreserves

LEMMA DelFoundPreserves ==
    ASSUME IInv, DelFound
    PROVE  IInv'
<1> DEFINE a == Find(call.key)
<1>1. UNCHANGED <<store, dirty, oldest, gcRequest, recovering, new, gc, scan, crashes>>
      /\ pc = "del" /\ a # None /\ old' = a /\ lastDel' = FALSE
      /\ call' = [call EXCEPT !.done = TRUE] /\ ThenDirty(a, "end")
  BY DEF DelFound, ThenDirty
<1>2. call # None /\ call.key \in Keys
  BY <1>1 DEF IInv, RunningOK
<1>3. a \in Addrs /\ NodeAt(a) # None /\ NodeAt(a).crc
  BY <1>1, <1>2, FindComplete DEF IInv
<1>4. /\ cache' = [cache EXCEPT ![call.key] = IF lastDel THEN a ELSE None]
      /\ flash' = [flash EXCEPT ![a[1]][a[2]].status = "DELETED"]
  BY DEF DelFound, Cached
<1> HIDE DEF a
<1>5. CacheKept /\ cache' \in [Keys -> Addrs \cup {None}]
  BY <1>2, <1>3, <1>4 DEF IInv, TypeOK, CacheKept
<1>6. "DELETED" \in KvStatus /\ "end" \in Labels
  BY DEF KvStatus, Labels
<1>7. flash' \in [Sectors -> [Offsets -> Nodes \cup {None}]]
  BY <1>3, <1>4, <1>6, StatusWrite DEF IInv
<1>8. call' \in Calls
  BY <1>1, <1>2 DEF IInv, TypeOK, Calls
<1>9. /\ ret' \in [del : Labels, create : Labels, move : Labels, gc : Labels, reset : Labels]
      /\ ret'.create = ret.create /\ ret'.move = ret.move
      /\ ret'.gc = ret.gc /\ ret'.reset = ret.reset
      /\ ret'.del \in {ret.del, "end"}
      /\ pc' \in {"dirty", "end"} /\ pc' \in Labels
      /\ pc' = "dirty" => ret'.del = "end"
  BY <1>1, <1>6, ThenDirtyType DEF IInv
<1>10. TypeOK'
  BY <1>1, <1>3, <1>5, <1>7, <1>8, <1>9 DEF IInv, TypeOK
<1>11. ReturnsOK' /\ RunningOK'
  BY <1>1, <1>9 DEF IInv, ReturnsOK, RunningOK, Creating, MoveLabels, GcLabels, Moving,
       Collecting, Scanning, Setting, Reserved, Replacing
<1>12. ~Reserved' /\ ~Replacing'
  BY <1>9 DEF Reserved, Replacing, Creating, MoveLabels
<1> QED
  BY <1>1, <1>3, <1>4, <1>5, <1>6, <1>9, <1>10, <1>11, <1>12, StatusStepPreserves

LEMMA PlaceType ==
    ASSUME scan \in Walks, NEW a \in Addrs
    PROVE  Place(a) \in Nat
<1>1. Distance(scan.from, a[1]) \in Nat /\ a[2] \in Nat /\ SectorSize \in Nat
  BY FdbAssumption, DistanceType DEF Walks, Addrs, Offsets
<1> DEFINE d == Distance(scan.from, a[1])
<1> HIDE DEF d
<1>2. d * SectorSize \in Nat
  BY <1>1 DEF d
<1> QED
  BY <1>1, <1>2 DEF Place, d

\* The load comes to the next unfinished node.
LEMMA LoadKvPick ==
    ASSUME scan \in Walks, LoadKv
    PROVE  \E a \in Unfinished :
               /\ scan' = [scan EXCEPT !.done = Place(a) + 1]
               /\ cache' = CachedUpTo(Place(a))
               /\ \/ /\ NodeAt(a).status = "PRE_DELETE"
                     /\ old' = a
                     /\ ret' = [ret EXCEPT !.move = "load_kv"]
                     /\ pc' = "move_again"
                     /\ UNCHANGED flash
                  \/ /\ NodeAt(a).status = "PRE_WRITE"
                     /\ flash' = [flash EXCEPT ![a[1]][a[2]].status = "ERR_HDR"]
                     /\ pc' = "load_end"
                     /\ UNCHANGED <<old, ret>>
<1> DEFINE f == [b \in Unfinished |-> Place(b)]
           a == CHOOSE b \in Unfinished : \A c \in Unfinished : Place(b) <= Place(c)
<1>1. \A b \in Unfinished : f[b] \in Nat
  BY PlaceType DEF Unfinished, NodeAddrs
<1>2. \E b \in Unfinished : \A c \in Unfinished : f[b] <= f[c]
  BY <1>1, MinimumExists DEF LoadKv
<1>3. \E b \in Unfinished : \A c \in Unfinished : Place(b) <= Place(c)
  BY <1>2
<1>4. a \in Unfinished
  BY <1>3
<1>5. /\ scan' = [scan EXCEPT !.done = Place(a) + 1]
      /\ cache' = CachedUpTo(Place(a))
      /\ \/ /\ NodeAt(a).status = "PRE_DELETE"
            /\ old' = a
            /\ ret' = [ret EXCEPT !.move = "load_kv"]
            /\ pc' = "move_again"
            /\ UNCHANGED flash
         \/ /\ NodeAt(a).status = "PRE_WRITE"
            /\ flash' = [flash EXCEPT ![a[1]][a[2]].status = "ERR_HDR"]
            /\ pc' = "load_end"
            /\ UNCHANGED <<old, ret>>
  BY DEF LoadKv
<1> HIDE DEF a
<1> QED
  BY <1>4, <1>5

LEMMA LoadKvPreserves ==
    ASSUME IInv, LoadKv
    PROVE  IInv'
<1>1. UNCHANGED <<store, dirty, oldest, gcRequest, lastDel, recovering, call, new, gc, crashes>>
      /\ pc = "load_kv"
  BY DEF LoadKv
<1>2. scan \in Walks /\ scan # None
  BY <1>1 DEF IInv, TypeOK, RunningOK, Scanning
<1>3. PICK a \in Unfinished :
          /\ scan' = [scan EXCEPT !.done = Place(a) + 1]
          /\ cache' = CachedUpTo(Place(a))
          /\ \/ /\ NodeAt(a).status = "PRE_DELETE"
                /\ old' = a
                /\ ret' = [ret EXCEPT !.move = "load_kv"]
                /\ pc' = "move_again"
                /\ UNCHANGED flash
             \/ /\ NodeAt(a).status = "PRE_WRITE"
                /\ flash' = [flash EXCEPT ![a[1]][a[2]].status = "ERR_HDR"]
                /\ pc' = "load_end"
                /\ UNCHANGED <<old, ret>>
  BY <1>2, LoadKvPick
<1>4. /\ a \in Addrs /\ NodeAt(a) # None
      /\ NodeAt(a).status = "PRE_WRITE" \/ (NodeAt(a).status = "PRE_DELETE" /\ NodeAt(a).crc)
  BY <1>3 DEF Unfinished, NodeAddrs
<1>5. \/ /\ NodeAt(a).status = "PRE_DELETE"
         /\ old' = a
         /\ ret' = [ret EXCEPT !.move = "load_kv"]
         /\ pc' = "move_again"
         /\ UNCHANGED flash
      \/ /\ NodeAt(a).status = "PRE_WRITE"
         /\ flash' = [flash EXCEPT ![a[1]][a[2]].status = "ERR_HDR"]
         /\ pc' = "load_end"
         /\ UNCHANGED <<old, ret>>
  BY <1>3
<1>6. Place(a) \in Nat
  BY <1>2, <1>4, PlaceType
<1>7. scan' \in Walks
  BY <1>2, <1>3, <1>6 DEF Walks
<1>8. scan' # None
  BY <1>7, NoneAssumption
<1>9. CacheKept /\ cache' \in [Keys -> Addrs \cup {None}]
  BY <1>2, <1>3, <1>6, CachedUpToKept DEF IInv
<1>10. CASE NodeAt(a).status = "PRE_DELETE"
  <2>1. /\ old' = a /\ old' # None /\ ret' = [ret EXCEPT !.move = "load_kv"]
        /\ pc' = "move_again" /\ UNCHANGED flash
    BY <1>4, <1>5, <1>10, NoneAssumption
  <2>2. /\ ret' \in [del : Labels, create : Labels, move : Labels, gc : Labels, reset : Labels]
        /\ ret'.move = "load_kv" /\ ret'.del = ret.del /\ ret'.create = ret.create
        /\ ret'.gc = ret.gc /\ ret'.reset = ret.reset
    BY <2>1 DEF IInv, TypeOK, Labels
  <2>3. TypeOK'
    BY <1>1, <1>4, <1>7, <1>9, <2>1, <2>2 DEF IInv, TypeOK, Labels
  <2>4. ReturnsOK' /\ RunningOK'
    BY <1>1, <1>8, <2>1, <2>2 DEF IInv, ReturnsOK, RunningOK, Creating, MoveLabels, GcLabels, Moving,
       Collecting, Scanning, Setting, Reserved, Replacing
  <2>5. NewOK' /\ OldOK'
    BY <1>4, <1>10, <2>1 DEF NewOK, OldOK, NodeAt, Reserved, Replacing, Creating, MoveLabels
  <2> QED
    BY <1>1, <1>9, <2>1, <2>3, <2>4, <2>5, CalmStep
<1>11. CASE NodeAt(a).status = "PRE_WRITE"
  <2>1. /\ flash' = [flash EXCEPT ![a[1]][a[2]].status = "ERR_HDR"]
        /\ pc' = "load_end"
        /\ UNCHANGED <<old, ret>>
    BY <1>5, <1>11
  <2>2. "ERR_HDR" \in KvStatus
    BY DEF KvStatus
  <2>3. flash' \in [Sectors -> [Offsets -> Nodes \cup {None}]]
    BY <1>4, <2>1, <2>2, StatusWrite DEF IInv
  <2>4. TypeOK'
    BY <1>1, <1>7, <1>9, <2>1, <2>3 DEF IInv, TypeOK, Labels
  <2>5. ReturnsOK' /\ RunningOK'
    BY <1>1, <1>8, <2>1 DEF IInv, ReturnsOK, RunningOK, Creating, MoveLabels, GcLabels, Moving,
       Collecting, Scanning, Setting, Reserved, Replacing
  <2>6. ~Reserved' /\ ~Replacing'
    BY <2>1 DEF Reserved, Replacing, Creating, MoveLabels
  <2> QED
    BY <1>1, <1>4, <1>9, <2>1, <2>2, <2>4, <2>5, <2>6, StatusStepPreserves
<1> QED
  BY <1>4, <1>10, <1>11

-----------------------------------------------------------------------------
(* The creation of a node.                                                 *)

LEMMA WriteSectorPreserves ==
    ASSUME IInv, WriteSector
    PROVE  IInv'
<1>1. UNCHANGED <<dirty, flash, oldest, gcRequest, lastDel, recovering, cache, call, ret, old, gc, scan, crashes>>
      /\ pc = "sector" /\ pc' = "header"
  BY DEF WriteSector, dbVars
<1>2. new \in NewNodes
  BY <1>1 DEF IInv, TypeOK, RunningOK, Reserved
<1>3. PICK st \in {"FULL", "USING"}, full \in BOOLEAN :
         store' = [store EXCEPT ![new.sec] = st] /\ new' = [new EXCEPT !.full = full]
  BY DEF WriteSector
<1>4. new' \in NewNodes /\ new'.sec = new.sec /\ new'.off = new.off /\ new.sec \in Sectors
  BY <1>2, <1>3 DEF NewNodes
<1>5. new' # None
  BY <1>4, NoneAssumption
<1>6. store' \in [Sectors -> StoreStatus] /\ store'[new.sec] \in {"USING", "FULL"}
      /\ \A s \in Sectors : s # new.sec => store'[s] = store[s]
  BY <1>3, <1>4 DEF IInv, TypeOK, StoreStatus
<1>7. TypeOK'
  BY <1>1, <1>4, <1>6 DEF IInv, TypeOK, Labels
<1>8. ReturnsOK' /\ RunningOK'
  BY <1>1, <1>5 DEF IInv, ReturnsOK, RunningOK, Creating, MoveLabels, GcLabels, Moving,
       Collecting, Scanning, Setting, Reserved, Replacing
<1>9. BlankOK'
  BY <1>1, <1>4, <1>6 DEF IInv, BlankOK
<1>10. NewOK' /\ OldOK'
  BY <1>1, <1>4 DEF IInv, NewOK, OldOK, NodeAt, Reserved, Replacing, Creating, MoveLabels
<1>11. CacheOK' /\ CommittedIsComplete'
  BY <1>1 DEF IInv, CacheOK, CommittedIsComplete, NodeAddrs, NodeAt
<1> QED
  BY <1>7, <1>8, <1>9, <1>10, <1>11 DEF IInv

\* While a node is being created its slot is in a sector in use, and the node
\* being replaced is another one.
LEMMA SlotType ==
    ASSUME IInv, pc \in {"header", "data", "commit"}
    PROVE  /\ new \in NewNodes /\ new.key \in Keys /\ new.val \in Vals
           /\ <<new.sec, new.off>> \in Addrs
           /\ store[new.sec] \in {"USING", "FULL"}
  BY DEF IInv, TypeOK, RunningOK, BlankOK, NewNodes, Addrs, Creating

LEMMA WriteHeaderPreserves ==
    ASSUME IInv, WriteHeader
    PROVE  IInv'
<1> DEFINE a == <<new.sec, new.off>>
           n == [key |-> new.key, val |-> new.val, status |-> HeaderStatus, crc |-> FALSE]
<1>1. UNCHANGED <<store, dirty, oldest, gcRequest, lastDel, recovering, cache, call, ret, new, old, gc, scan, crashes>>
      /\ pc = "header" /\ pc' = "data"
  BY DEF WriteHeader, dbVars
<1>2. /\ new \in NewNodes /\ new.key \in Keys /\ new.val \in Vals
      /\ a \in Addrs /\ store[new.sec] \in {"USING", "FULL"}
  BY <1>1, SlotType
<1>3. n \in Nodes /\ n.status = "PRE_WRITE"
  BY <1>2 DEF Nodes, HeaderStatus, KvStatus
<1>4. n # None
  BY <1>3, NoneAssumption
<1>5. flash' = [flash EXCEPT ![a[1]] = [flash[a[1]] EXCEPT ![a[2]] = n]]
  BY DEF WriteHeader
<1> HIDE DEF a, n
<1>6. /\ flash' \in [Sectors -> [Offsets -> Nodes \cup {None}]]
      /\ \A s \in Sectors, o \in Offsets : flash'[s][o] = IF <<s, o>> = a THEN n ELSE flash[s][o]
      /\ flash'[a[1]][a[2]] = n
  BY <1>2, <1>3, <1>5, SlotWrite DEF IInv
<1>7. \A b \in Addrs : NodeAt(b)' = IF b = a THEN n ELSE NodeAt(b)
  BY <1>6 DEF NodeAt, Addrs
<1>8. TypeOK'
  BY <1>1, <1>6 DEF IInv, TypeOK, Labels
<1>9. ReturnsOK' /\ RunningOK'
  BY <1>1 DEF IInv, ReturnsOK, RunningOK, Creating, MoveLabels, GcLabels, Moving,
       Collecting, Scanning, Setting, Reserved, Replacing
<1>10. BlankOK'
  <2>1. ASSUME NEW s \in Sectors, store'[s] \in {"EMPTY", "UNUSED"}, NEW o \in Offsets
        PROVE  flash'[s][o] = None
    <3>1. flash[s][o] = None /\ s # new.sec
      BY <1>1, <1>2, <2>1 DEF IInv, BlankOK
    <3> QED
      BY <1>6, <3>1 DEF a
  <2> QED
    BY <1>1, <1>2, <2>1 DEF BlankOK
<1>11. NewOK'
  BY <1>1, <1>4, <1>6 DEF NewOK, Reserved, a
<1>12. OldOK'
  <2>1. ASSUME Replacing'
        PROVE  NodeAt(old)' # None /\ NodeAt(old)'.crc
    <3>1. Replacing
      BY <1>1, <2>1 DEF Replacing, Creating, MoveLabels
    <3>2. old \in Addrs /\ NodeAt(old) # None /\ NodeAt(old).crc
      BY <3>1 DEF IInv, TypeOK, RunningOK, OldOK
    <3>3. NodeAt(a) = None
      BY <1>1 DEF IInv, NewOK, Reserved, NodeAt, a
    <3>4. NodeAt(old)' = NodeAt(old)
      <4>1. flash'[old[1]][old[2]] = flash[old[1]][old[2]]
        BY <1>7, <3>2, <3>3 DEF NodeAt
      <4> QED
        BY <1>1, <4>1 DEF NodeAt
    <3> QED
      BY <3>2, <3>4
  <2> QED
    BY <2>1 DEF OldOK
<1>13. CacheOK'
  <2>1. ASSUME NEW k \in Keys, cache[k] # None
        PROVE  flash'[cache[k][1]][cache[k][2]] = None \/ flash'[cache[k][1]][cache[k][2]].crc \/ cache[k] = a
    <3>1. cache[k] \in Addrs /\ (NodeAt(cache[k]) = None \/ NodeAt(cache[k]).crc)
      BY <1>1, <2>1 DEF IInv, TypeOK, CacheOK
    <3> QED
      BY <1>7, <3>1 DEF NodeAt
  <2> QED
    BY <1>1, <2>1 DEF CacheOK, NodeAt, a
<1>14. CommittedIsComplete'
  BY <1>3, <1>7 DEF IInv, CommittedIsComplete, NodeAddrs
<1> QED
  BY <1>8, <1>9, <1>10, <1>11, <1>12, <1>13, <1>14 DEF IInv

LEMMA WriteDataPreserves ==
    ASSUME IInv, WriteData
    PROVE  IInv'
<1> DEFINE a == <<new.sec, new.off>>
           n == [flash[new.sec][new.off] EXCEPT !.crc = TRUE]
<1>1. UNCHANGED <<store, dirty, oldest, gcRequest, lastDel, recovering, cache, call, ret, new, old, gc, scan, crashes>>
      /\ pc = "data" /\ pc' = "commit"
  BY DEF WriteData, dbVars
<1>2. /\ new \in NewNodes /\ a \in Addrs /\ store[new.sec] \in {"USING", "FULL"}
  BY <1>1, SlotType
<1>3. NodeAt(a) # None /\ NodeAt(a) \in Nodes
  BY <1>1, <1>2, NodeType DEF IInv, NewOK, NodeAt
<1>4. n \in Nodes /\ n.crc /\ n.status = NodeAt(a).status
  BY <1>3 DEF Nodes, NodeAt
<1>5. n # None
  BY <1>4, NoneAssumption
<1>6. flash' = [flash EXCEPT ![a[1]] = [flash[a[1]] EXCEPT ![a[2]] = n]]
  BY DEF WriteData
<1> HIDE DEF a, n
<1>7. /\ flash' \in [Sectors -> [Offsets -> Nodes \cup {None}]]
      /\ \A s \in Sectors, o \in Offsets : flash'[s][o] = IF <<s, o>> = a THEN n ELSE flash[s][o]
      /\ flash'[a[1]][a[2]] = n
  BY <1>2, <1>4, <1>6, SlotWrite DEF IInv
<1>8. \A b \in Addrs : NodeAt(b)' = IF b = a THEN n ELSE NodeAt(b)
  BY <1>7 DEF NodeAt, Addrs
<1>9. TypeOK'
  BY <1>1, <1>7 DEF IInv, TypeOK, Labels
<1>10. ReturnsOK' /\ RunningOK'
  BY <1>1 DEF IInv, ReturnsOK, RunningOK, Creating, MoveLabels, GcLabels, Moving,
       Collecting, Scanning, Setting, Reserved, Replacing
<1>11. BlankOK'
  <2>1. ASSUME NEW s \in Sectors, store'[s] \in {"EMPTY", "UNUSED"}, NEW o \in Offsets
        PROVE  flash'[s][o] = None
    <3>1. flash[s][o] = None /\ s # new.sec
      BY <1>1, <1>2, <2>1 DEF IInv, BlankOK
    <3> QED
      BY <1>7, <3>1 DEF a
  <2> QED
    BY <1>1, <1>2, <2>1 DEF BlankOK
<1>12. NewOK'
  BY <1>1, <1>4, <1>5, <1>7 DEF NewOK, Reserved, a
<1>13. OldOK'
  <2>1. ASSUME Replacing'
        PROVE  flash'[old[1]][old[2]] # None /\ flash'[old[1]][old[2]].crc
    <3>1. Replacing
      BY <1>1, <2>1 DEF Replacing, Creating, MoveLabels
    <3>2. old \in Addrs /\ NodeAt(old) # None /\ NodeAt(old).crc
      BY <3>1 DEF IInv, TypeOK, RunningOK, OldOK
    <3> QED
      BY <1>4, <1>5, <1>8, <3>2 DEF NodeAt
  <2> QED
    BY <1>1, <2>1 DEF OldOK, NodeAt
<1>14. CacheOK'
  <2>1. ASSUME NEW k \in Keys, cache[k] # None
        PROVE  flash'[cache[k][1]][cache[k][2]] = None \/ flash'[cache[k][1]][cache[k][2]].crc
    <3>1. cache[k] \in Addrs /\ (NodeAt(cache[k]) = None \/ NodeAt(cache[k]).crc \/ cache[k] = a)
      BY <1>1, <2>1 DEF IInv, TypeOK, CacheOK, a
    <3> QED
      BY <1>4, <1>8, <3>1 DEF NodeAt
  <2> QED
    BY <1>1, <2>1 DEF CacheOK, NodeAt
<1>15. CommittedIsComplete'
  BY <1>4, <1>8 DEF IInv, CommittedIsComplete, NodeAddrs
<1> QED
  BY <1>9, <1>10, <1>11, <1>12, <1>13, <1>14, <1>15 DEF IInv

LEMMA WriteCommitPreserves ==
    ASSUME IInv, WriteCommit
    PROVE  IInv'
<1> DEFINE a == <<new.sec, new.off>>
<1>1. UNCHANGED <<store, dirty, oldest, lastDel, recovering, ret, old, gc, scan, crashes>>
      /\ pc = "commit" /\ pc' = ret.create /\ new' = None
      /\ flash' = [flash EXCEPT ![a[1]][a[2]].status = "WRITE"]
      /\ cache' = [cache EXCEPT ![new.key] = a]
      /\ gcRequest' = (gcRequest \/ new.full)
      /\ call' = IF ret.create = "move_delete" THEN call ELSE [call EXCEPT !.done = TRUE]
  BY DEF WriteCommit, Cached
<1>2. /\ new \in NewNodes /\ new.key \in Keys /\ a \in Addrs
  BY <1>1, SlotType
<1>3. NodeAt(a) # None /\ NodeAt(a).crc
  BY <1>1 DEF IInv, NewOK, NodeAt
<1>4. "WRITE" \in KvStatus
  BY DEF KvStatus
<1> HIDE DEF a
<1>5. CacheKept /\ cache' \in [Keys -> Addrs \cup {None}]
  BY <1>1, <1>2, <1>3 DEF IInv, TypeOK, CacheKept
<1>6. flash' \in [Sectors -> [Offsets -> Nodes \cup {None}]]
  BY <1>1, <1>2, <1>3, <1>4, StatusWrite DEF IInv
<1>7. ret.create \in {"set_end", "set_delete", "move_delete"} /\ ret.create \in Labels
  BY <1>1 DEF IInv, ReturnsOK, Creating, Labels
<1>8. /\ call' \in Calls \cup {None}
      /\ ret.create # "move_delete" =>
             call' # None /\ call'.key = call.key /\ call'.val = call.val
  <2>1. CASE ret.create = "move_delete"
    BY <1>1, <2>1 DEF IInv, TypeOK
  <2>2. CASE ret.create # "move_delete"
    <3>1. call # None
      BY <1>1, <2>2 DEF IInv, RunningOK, Setting, Creating
    <3>2. call \in Calls
      BY <3>1 DEF IInv, TypeOK
    <3>3. call' \in Calls /\ call'.key = call.key /\ call'.val = call.val
      BY <1>1, <2>2, <3>2 DEF Calls
    <3> QED
      BY <3>3, NoneAssumption
  <2> QED
    BY <2>1, <2>2
<1>9. gcRequest' \in BOOLEAN
  BY <1>1
<1>10. TypeOK'
  BY <1>1, <1>5, <1>6, <1>7, <1>8, <1>9 DEF IInv, TypeOK
<1>11. ReturnsOK' /\ RunningOK'
  BY <1>1, <1>7, <1>8 DEF IInv, ReturnsOK, RunningOK, Creating, MoveLabels, GcLabels, Moving,
       Collecting, Scanning, Setting, Reserved, Replacing
<1>12. ~Reserved' /\ pc' \notin {"header", "data", "commit", "gc_format", "reset_format"}
  BY <1>1, <1>7 DEF Reserved
<1>13. ASSUME Replacing'
       PROVE  \E b \in Addrs : old' = b /\ NodeAt(b) # None /\ NodeAt(b).crc
  <2>1. Replacing
    BY <1>1, <1>7, <1>13 DEF Replacing, Creating, MoveLabels
  <2> QED
    BY <1>1, <2>1 DEF IInv, TypeOK, RunningOK, OldOK
<1> QED
  BY <1>1, <1>2, <1>3, <1>4, <1>5, <1>10, <1>11, <1>12, <1>13, StatusStepPreserves

-----------------------------------------------------------------------------
(* Erasing and formatting a sector.                                        *)

\* Erasing a sector leaves the nodes of the other ones.
LEMMA EraseStep ==
    ASSUME IInv, NEW s \in Sectors, Erase(s), UNCHANGED cache, pc # "data"
    PROVE  /\ flash' \in [Sectors -> [Offsets -> Nodes \cup {None}]]
           /\ store' \in [Sectors -> StoreStatus] /\ dirty' \in [Sectors -> DirtyStatus]
           /\ \A t \in Sectors : store'[t] \in {"EMPTY", "UNUSED"} =>
                  \A o \in Offsets : flash'[t][o] = None
           /\ store'[s] = "UNUSED"
           /\ CacheOK' /\ CommittedIsComplete'
<1>1. \A t \in Sectors, o \in Offsets : flash'[t][o] = IF t = s THEN None ELSE flash[t][o]
  BY DEF Erase, IInv, TypeOK
<1>2. /\ flash' \in [Sectors -> [Offsets -> Nodes \cup {None}]]
      /\ store' \in [Sectors -> StoreStatus] /\ dirty' \in [Sectors -> DirtyStatus]
      /\ store'[s] = "UNUSED" /\ \A t \in Sectors : t # s => store'[t] = store[t]
  BY DEF Erase, IInv, TypeOK, StoreStatus, DirtyStatus
<1>3. \A t \in Sectors : store'[t] \in {"EMPTY", "UNUSED"} =>
          \A o \in Offsets : flash'[t][o] = None
  BY <1>1, <1>2 DEF IInv, BlankOK
<1>4. \A b \in Addrs : NodeAt(b)' = None \/ NodeAt(b)' = NodeAt(b)
  BY <1>1 DEF NodeAt, Addrs
<1>5. CacheOK'
  <2>1. ASSUME NEW k \in Keys, cache[k] # None
        PROVE  flash'[cache[k][1]][cache[k][2]] = None \/ flash'[cache[k][1]][cache[k][2]].crc
    <3>1. cache[k] \in Addrs /\ (NodeAt(cache[k]) = None \/ NodeAt(cache[k]).crc)
      BY <2>1 DEF IInv, TypeOK, CacheOK
    <3> QED
      BY <1>4, <3>1 DEF NodeAt
  <2> QED
    BY <2>1 DEF CacheOK, NodeAt
<1>6. CommittedIsComplete'
  BY <1>4 DEF IInv, CommittedIsComplete, NodeAddrs
<1> QED
  BY <1>2, <1>3, <1>5, <1>6

\* Formatting a sector without header makes it empty.
LEMMA FormatStep ==
    ASSUME IInv, NEW s \in Sectors, store[s] = "UNUSED", Format(s), UNCHANGED flash
    PROVE  /\ store' \in [Sectors -> StoreStatus] /\ dirty' \in [Sectors -> DirtyStatus]
           /\ \A t \in Sectors : store'[t] \in {"EMPTY", "UNUSED"} =>
                  \A o \in Offsets : flash'[t][o] = None
           /\ \A t \in Sectors : t # s => store'[t] = store[t]
  BY DEF IInv, TypeOK, BlankOK, Format, StoreStatus, DirtyStatus

LEMMA GcErasePreserves ==
    ASSUME IInv, GcErase
    PROVE  IInv'
<1>1. UNCHANGED <<oldest, gcRequest, lastDel, recovering, cache, call, ret, new, old, gc, scan, crashes>>
      /\ pc = "gc_kv" /\ pc' = "gc_format" /\ Erase(gc.sec)
  BY DEF GcErase, dbVars
<1>2. gc \in Collections /\ gc.sec \in Sectors
  BY <1>1 DEF IInv, TypeOK, RunningOK, Collecting, GcLabels, Collections
<1>3. /\ flash' \in [Sectors -> [Offsets -> Nodes \cup {None}]]
      /\ store' \in [Sectors -> StoreStatus] /\ dirty' \in [Sectors -> DirtyStatus]
      /\ \A t \in Sectors : store'[t] \in {"EMPTY", "UNUSED"} =>
             \A o \in Offsets : flash'[t][o] = None
      /\ store'[gc.sec] = "UNUSED"
      /\ CacheOK' /\ CommittedIsComplete'
  BY <1>1, <1>2, EraseStep
<1>4. TypeOK'
  BY <1>1, <1>3 DEF IInv, TypeOK, Labels
<1>5. ReturnsOK' /\ RunningOK'
  BY <1>1 DEF IInv, ReturnsOK, RunningOK, Creating, MoveLabels, GcLabels, Moving,
       Collecting, Scanning, Setting, Reserved, Replacing
<1>6. BlankOK'
  BY <1>1, <1>3 DEF BlankOK
<1>7. NewOK' /\ OldOK'
  BY <1>1 DEF NewOK, OldOK, Reserved, Replacing, Creating, MoveLabels
<1> QED
  BY <1>3, <1>4, <1>5, <1>6, <1>7 DEF IInv

LEMMA GcFormatPreserves ==
    ASSUME IInv, GcFormat
    PROVE  IInv'
<1>1. UNCHANGED <<flash, gcRequest, lastDel, recovering, cache, call, ret, new, old, scan, crashes>>
      /\ pc = "gc_format" /\ pc' = "gc_sector" /\ Format(gc.sec) /\ oldest' = Next1(gc.sec)
  BY DEF GcFormat
<1>2. gc \in Collections /\ gc.sec \in Sectors /\ store[gc.sec] = "UNUSED"
  BY <1>1 DEF IInv, TypeOK, RunningOK, BlankOK, Collecting, GcLabels, Collections
<1>3. PICK d \in {NumSectors, gc.done} : gc' = [gc EXCEPT !.last = gc.sec, !.done = d]
  BY DEF GcFormat
<1>4. gc' \in Collections
  <2>1. d \in 0 .. NumSectors
    BY <1>2, FdbAssumption DEF Collections
  <2> QED
    BY <1>2, <1>3, <2>1 DEF Collections
<1>5. gc' # None
  BY <1>4, NoneAssumption
<1>6. /\ store' \in [Sectors -> StoreStatus] /\ dirty' \in [Sectors -> DirtyStatus]
      /\ \A t \in Sectors : store'[t] \in {"EMPTY", "UNUSED"} =>
             \A o \in Offsets : flash'[t][o] = None
  BY <1>1, <1>2, FormatStep
<1>7. oldest' \in Sectors
  BY <1>1, <1>2, FdbAssumption DEF Next1, Sectors
<1>8. TypeOK'
  BY <1>1, <1>4, <1>6, <1>7 DEF IInv, TypeOK, Labels
<1>9. ReturnsOK' /\ RunningOK'
  BY <1>1, <1>5 DEF IInv, ReturnsOK, RunningOK, Creating, MoveLabels, GcLabels, Moving,
       Collecting, Scanning, Setting, Reserved, Replacing
<1>10. BlankOK'
  BY <1>1, <1>6 DEF BlankOK
<1>11. NewOK' /\ OldOK'
  BY <1>1 DEF NewOK, OldOK, Reserved, Replacing, Creating, MoveLabels
<1>12. CacheOK' /\ CommittedIsComplete'
  BY <1>1 DEF IInv, CacheOK, CommittedIsComplete, NodeAddrs, NodeAt
<1> QED
  BY <1>8, <1>9, <1>10, <1>11, <1>12 DEF IInv

LEMMA ResetErasePreserves ==
    ASSUME IInv, ResetErase
    PROVE  IInv'
<1>1. UNCHANGED <<oldest, gcRequest, lastDel, recovering, cache, call, ret, new, old, gc, scan, crashes>>
      /\ pc = "reset_erase" /\ pc' = "reset_format" /\ Erase(scan.done)
  BY DEF ResetErase, dbVars
<1>2. scan.done \in Sectors
  BY <1>1 DEF IInv, RunningOK
<1>3. /\ flash' \in [Sectors -> [Offsets -> Nodes \cup {None}]]
      /\ store' \in [Sectors -> StoreStatus] /\ dirty' \in [Sectors -> DirtyStatus]
      /\ \A t \in Sectors : store'[t] \in {"EMPTY", "UNUSED"} =>
             \A o \in Offsets : flash'[t][o] = None
      /\ store'[scan.done] = "UNUSED"
      /\ CacheOK' /\ CommittedIsComplete'
  BY <1>1, <1>2, EraseStep
<1>4. TypeOK'
  BY <1>1, <1>3 DEF IInv, TypeOK, Labels
<1>5. ReturnsOK' /\ RunningOK'
  BY <1>1 DEF IInv, ReturnsOK, RunningOK, Creating, MoveLabels, GcLabels, Moving,
       Collecting, Scanning, Setting, Reserved, Replacing
<1>6. BlankOK'
  BY <1>1, <1>3 DEF BlankOK
<1>7. NewOK' /\ OldOK'
  BY <1>1 DEF NewOK, OldOK, Reserved, Replacing, Creating, MoveLabels
<1> QED
  BY <1>3, <1>4, <1>5, <1>6, <1>7 DEF IInv

LEMMA ResetFormatPreserves ==
    ASSUME IInv, ResetFormat
    PROVE  IInv'
<1>1. UNCHANGED <<flash, gcRequest, lastDel, recovering, cache, call, ret, new, old, gc, crashes>>
      /\ pc = "reset_format" /\ Format(scan.done)
  BY DEF ResetFormat
<1>2. scan \in Walks /\ scan.done \in Sectors /\ store[scan.done] = "UNUSED"
  BY <1>1 DEF IInv, TypeOK, RunningOK, BlankOK, Scanning
<1>3. /\ store' \in [Sectors -> StoreStatus] /\ dirty' \in [Sectors -> DirtyStatus]
      /\ \A t \in Sectors : store'[t] \in {"EMPTY", "UNUSED"} =>
             \A o \in Offsets : flash'[t][o] = None
  BY <1>1, <1>2, FormatStep
<1>4. CASE scan.done < NumSectors - 1
  <2>1. scan' = [scan EXCEPT !.done = scan.done + 1] /\ pc' = "reset_erase" /\ UNCHANGED oldest
    BY <1>4 DEF ResetFormat
  <2>2. scan' \in Walks /\ scan'.done \in Sectors
    BY <1>2, <1>4, <2>1, FdbAssumption DEF Walks, Sectors
  <2>3. scan' # None
    BY <2>2, NoneAssumption
  <2>4. TypeOK'
    BY <1>1, <1>3, <2>1, <2>2 DEF IInv, TypeOK, Labels
  <2>5. ReturnsOK' /\ RunningOK'
    BY <1>1, <2>1, <2>2, <2>3 DEF IInv, ReturnsOK, RunningOK, Creating, MoveLabels, GcLabels, Moving,
       Collecting, Scanning, Setting, Reserved, Replacing
  <2>6. BlankOK' /\ NewOK' /\ OldOK'
    BY <1>3, <2>1 DEF BlankOK, NewOK, OldOK, Reserved, Replacing, Creating, MoveLabels
  <2> QED
    BY <1>1, <2>4, <2>5, <2>6 DEF IInv, CacheOK, CommittedIsComplete, NodeAddrs, NodeAt
<1>5. CASE ~(scan.done < NumSectors - 1)
  <2>1. scan' = None /\ pc' = ret.reset /\ oldest' = 0
    BY <1>5 DEF ResetFormat
  <2>2. ret.reset \in {"idle", "end", "load_check"} /\ oldest' \in Sectors
    BY <2>1, FdbAssumption DEF IInv, ReturnsOK, Sectors
  <2>3. TypeOK'
    BY <1>1, <1>3, <2>1, <2>2 DEF IInv, TypeOK
  <2>4. ReturnsOK' /\ RunningOK'
    BY <1>1, <2>1, <2>2 DEF IInv, ReturnsOK, RunningOK, Creating, MoveLabels, GcLabels, Moving,
       Collecting, Scanning, Setting, Reserved, Replacing
  <2>5. BlankOK' /\ NewOK' /\ OldOK'
    BY <1>3, <2>1, <2>2 DEF BlankOK, NewOK, OldOK, Reserved, Replacing, Creating, MoveLabels
  <2> QED
    BY <1>1, <2>3, <2>4, <2>5 DEF IInv, CacheOK, CommittedIsComplete, NodeAddrs, NodeAt
<1> QED
  BY <1>4, <1>5

LEMMA LoadHeaderPreserves ==
    ASSUME IInv, LoadHeader
    PROVE  IInv'
<1> DEFINE s == FirstSector(Unformatted)
<1>1. UNCHANGED <<flash, oldest, gcRequest, lastDel, recovering, cache, call, pc, ret, new, old, gc, scan, crashes>>
      /\ pc \in {"load_new", "load_headers"} /\ Format(s) /\ Unformatted # {}
  BY DEF LoadHeader, dbVars, ctlVars
<1>2. s \in Sectors /\ store[s] = "UNUSED"
  <2>1. Unformatted \subseteq Sectors
    BY DEF Unformatted
  <2>2. s \in Unformatted
    BY <1>1, <2>1, FirstSectorType DEF IInv, TypeOK
  <2> QED
    BY <2>2 DEF Unformatted
<1> HIDE DEF s
<1>3. /\ store' \in [Sectors -> StoreStatus] /\ dirty' \in [Sectors -> DirtyStatus]
      /\ \A t \in Sectors : store'[t] \in {"EMPTY", "UNUSED"} =>
             \A o \in Offsets : flash'[t][o] = None
  BY <1>1, <1>2, FormatStep
<1>4. TypeOK'
  BY <1>1, <1>3 DEF IInv, TypeOK
<1>5. ReturnsOK' /\ RunningOK'
  BY <1>1 DEF IInv, ReturnsOK, RunningOK, Creating, MoveLabels, GcLabels, Moving,
       Collecting, Scanning, Setting, Reserved, Replacing
<1>6. BlankOK' /\ NewOK' /\ OldOK'
  BY <1>1, <1>3 DEF BlankOK, NewOK, OldOK, Reserved, Replacing, Creating, MoveLabels
<1>7. CacheOK' /\ CommittedIsComplete'
  BY <1>1 DEF IInv, CacheOK, CommittedIsComplete, NodeAddrs, NodeAt
<1> QED
  BY <1>4, <1>5, <1>6, <1>7 DEF IInv

-----------------------------------------------------------------------------
(* The loss of power, the initial states, and the theorems.                *)

\* The state a loss of power leaves: the flash, and nothing in memory.
LEMMA OffOK ==
    ASSUME pc = "off", ret = NoReturn, cache = [k \in Keys |-> None]
    PROVE  ReturnsOK /\ RunningOK /\ NewOK /\ OldOK /\ CacheOK
<1>1. ReturnsOK /\ RunningOK
  BY DEF NoReturn, ReturnsOK, RunningOK, Creating, MoveLabels, GcLabels, Moving,
       Collecting, Scanning, Setting, Reserved, Replacing
<1>2. NewOK /\ OldOK /\ CacheOK
  BY DEF NewOK, OldOK, CacheOK, Reserved, Replacing, Creating, MoveLabels
<1> QED
  BY <1>1, <1>2

LEMMA CrashPreserves ==
    ASSUME IInv, Crash
    PROVE  IInv'
<1>1. UNCHANGED <<store, dirty, flash>>
      /\ oldest' = 0 /\ gcRequest' = FALSE /\ lastDel' = FALSE /\ recovering' = FALSE
      /\ cache' = [k \in Keys |-> None]
      /\ call' = None /\ pc' = "off" /\ ret' = NoReturn
      /\ new' = None /\ old' = None /\ gc' = None /\ scan' = None
      /\ crashes < MaxCrashes /\ crashes' = crashes + 1
  BY DEF Crash, flashVars
<1>2. TypeOK'
  <2>1. oldest' \in Sectors /\ crashes' \in 0 .. MaxCrashes
    BY <1>1, FdbAssumption DEF IInv, TypeOK, Sectors
  <2>2. cache' \in [Keys -> Addrs \cup {None}] /\ pc' \in Labels
        /\ ret' \in [del : Labels, create : Labels, move : Labels, gc : Labels, reset : Labels]
    BY <1>1 DEF NoReturn, Labels
  <2> QED
    BY <1>1, <2>1, <2>2 DEF IInv, TypeOK
<1>3. ReturnsOK' /\ RunningOK'
  BY <1>1 DEF NoReturn, ReturnsOK, RunningOK, Creating, MoveLabels, GcLabels, Moving,
       Collecting, Scanning, Setting, Reserved, Replacing
<1>4. NewOK' /\ OldOK' /\ CacheOK'
  BY <1>1 DEF NewOK, OldOK, CacheOK, Reserved, Replacing, Creating, MoveLabels
<1>5. BlankOK' /\ CommittedIsComplete'
  BY <1>1 DEF IInv, BlankOK, CommittedIsComplete, NodeAddrs, NodeAt
<1> QED
  BY <1>2, <1>3, <1>4, <1>5 DEF IInv

LEMMA InitInvariant == Init => IInv
<1> SUFFICES ASSUME Init PROVE IInv
  OBVIOUS
<1>1. TypeOK
  <2>1. store \in [Sectors -> StoreStatus] /\ dirty \in [Sectors -> DirtyStatus]
    BY DEF Init, StoreStatus, DirtyStatus
  <2>2. flash \in [Sectors -> [Offsets -> Nodes \cup {None}]]
    BY DEF Init
  <2>3. oldest \in Sectors /\ crashes \in 0 .. MaxCrashes
    BY FdbAssumption DEF Init, Sectors
  <2>4. cache \in [Keys -> Addrs \cup {None}] /\ pc \in Labels
        /\ ret \in [del : Labels, create : Labels, move : Labels, gc : Labels, reset : Labels]
    BY DEF Init, NoReturn, Labels
  <2> QED
    BY <2>1, <2>2, <2>3, <2>4 DEF Init, TypeOK
<1>2. ReturnsOK /\ RunningOK /\ NewOK /\ OldOK /\ CacheOK
  BY OffOK DEF Init
<1>3. BlankOK
  BY DEF Init, BlankOK
<1>4. \A a \in Addrs : NodeAt(a) = None
  BY DEF Init, NodeAt, Addrs
<1>5. CommittedIsComplete
  BY <1>4 DEF CommittedIsComplete, NodeAddrs
<1> QED
  BY <1>1, <1>2, <1>3, <1>5 DEF IInv

LEMMA StutterInvariant == IInv /\ UNCHANGED vars => IInv'
<1> SUFFICES ASSUME IInv, UNCHANGED vars PROVE IInv'
  OBVIOUS
<1>1. UNCHANGED <<store, dirty, flash, oldest, gcRequest, lastDel, recovering, cache, call, pc, ret, new, old, gc, scan, crashes>>
  BY DEF vars, flashVars, dbVars, ctlVars
<1>2. TypeOK' /\ BlankOK'
  BY <1>1 DEF IInv, TypeOK, BlankOK
<1>3. ReturnsOK' /\ RunningOK'
  BY <1>1 DEF IInv, ReturnsOK, RunningOK, Creating, MoveLabels, GcLabels, Moving,
       Collecting, Scanning, Setting, Reserved, Replacing
<1>4. NewOK' /\ OldOK' /\ CacheOK' /\ CommittedIsComplete'
  BY <1>1 DEF IInv, NewOK, OldOK, CacheOK, CommittedIsComplete, NodeAddrs, NodeAt,
     Reserved, Replacing, Creating, MoveLabels
<1> QED
  BY <1>2, <1>3, <1>4 DEF IInv

LEMMA NextInvariant == IInv /\ [Next]_vars => IInv'
<1> SUFFICES ASSUME IInv, [Next]_vars PROVE IInv'
  OBVIOUS
<1>1. CASE Work
  BY <1>1, MarkDirtyPreserves, WriteSectorPreserves, WriteHeaderPreserves, WriteDataPreserves,
     WriteCommitPreserves, MovePreparePreserves, MoveAllocPreserves, MoveDeletePreserves,
     GcBeginPreserves, GcMarkPreserves, GcEndPreserves, GcMovePreserves, GcErasePreserves,
     GcFormatPreserves, SetAllocPreserves, SetPreparePreserves, SetFreshPreserves,
     SetDeletePreserves, SetEndPreserves, DelFoundPreserves, DelMissingPreserves,
     ReturnPreserves, ResetErasePreserves, ResetFormatPreserves, BootPreserves,
     LoadHeaderPreserves, LoadHeadersEndPreserves, LoadCheckPreserves, LoadGcPreserves,
     LoadStartPreserves, LoadKvPreserves, LoadKvEndPreserves, LoadEndPreserves
     DEF Work
<1>2. CASE Calling
  BY <1>2, SetPreserves, DelPreserves, ReadPreserves, ResetPreserves DEF Calling
<1>3. CASE Crash
  BY <1>3, CrashPreserves
<1>4. CASE UNCHANGED vars
  BY <1>4, StutterInvariant
<1> QED
  BY <1>1, <1>2, <1>3, <1>4 DEF Next

LEMMA Invariant == Spec => []IInv
  BY InitInvariant, NextInvariant, PTL DEF Spec

\* Every variable keeps its type, whatever the sizes, the keys, the values and
\* the losses of power: an allocation, a move, a collection and the recovery
\* never compute an address outside the database.
THEOREM TypeInvariant == Spec => []TypeOK
<1>1. IInv => TypeOK
  BY DEF IInv
<1> QED
  BY <1>1, Invariant, PTL

\* A node whose status says it was written has its name and value in the flash,
\* after any losses of power: write_kv_hdr, the contents and the status go out
\* in that order, and no other status write reaches a half-written node.
THEOREM Completeness == Spec => []CommittedIsComplete
<1>1. IInv => CommittedIsComplete
  BY DEF IInv
<1> QED
  BY <1>1, Invariant, PTL


-----------------------------------------------------------------------------
(* Full sectors, whatever the losses of power.                             *)

\* The space behind a node that is allocated is more than the threshold.
SpaceOK == /\ \A s \in Sectors : store[s] # "FULL"
           /\ Reserved => new.remain > KvLen[new.val] + Threshold

LEMMA AllocSpace ==
    ASSUME TypeOK, NEW k, NEW v, Candidates(KvLen[v]) # {},
           NEW n, n = NewNode(FirstSector(Candidates(KvLen[v])), k, v)
    PROVE  n.remain > KvLen[n.val] + Threshold
<1> DEFINE s == FirstSector(Candidates(KvLen[v]))
<1>1. Candidates(KvLen[v]) \subseteq Sectors
  BY DEF Candidates, Roomy
<1>2. s \in Candidates(KvLen[v])
  BY <1>1, FirstSectorType DEF TypeOK
<1>3. Remain(s) > KvLen[v] + Threshold
  BY <1>2 DEF Candidates, Roomy
<1>4. n.remain = Remain(s) /\ n.val = v
  BY DEF NewNode
<1> QED
  BY <1>3, <1>4

\* A step that allocates nothing and leaves the headers alone.
LEMMA SpaceKept ==
    ASSUME SpaceOK, store' = store, Reserved' => Reserved /\ new' = new
    PROVE  SpaceOK'
  BY DEF SpaceOK

LEMMA AllocKeepsSpace ==
    ASSUME IInv, SpaceOK, MoveAlloc \/ SetAlloc
    PROVE  SpaceOK'
<1>1. store' = store
  BY DEF MoveAlloc, SetAlloc, flashVars
<1>2. ASSUME NEW k, NEW v, Candidates(KvLen[v]) # {},
             new' = NewNode(FirstSector(Candidates(KvLen[v])), k, v)
      PROVE  SpaceOK'
  <2>1. PICK n : n = new'
    OBVIOUS
  <2>2. n.remain > KvLen[n.val] + Threshold
    BY <1>2, <2>1, AllocSpace DEF IInv
  <2> QED
    BY <1>1, <2>1, <2>2 DEF SpaceOK
<1>3. CASE ~Reserved'
  BY <1>1, <1>3 DEF SpaceOK
<1>4. CASE MoveAlloc
  <2>1. \/ ~Reserved'
        \/ /\ Candidates(KvLen[NodeAt(old).val]) # {}
           /\ new' = NewNode(FirstSector(Candidates(KvLen[NodeAt(old).val])),
                             NodeAt(old).key, NodeAt(old).val)
    BY <1>4 DEF MoveAlloc, Reserved, IInv, ReturnsOK
  <2> QED
    BY <1>2, <1>3, <2>1
<1>5. CASE SetAlloc
  <2>1. \/ ~Reserved'
        \/ /\ Candidates(KvLen[call.val]) # {}
           /\ new' = NewNode(FirstSector(Candidates(KvLen[call.val])), call.key, call.val)
    BY <1>5 DEF SetAlloc, Reserved, CallGc, Idle
  <2> QED
    BY <1>2, <1>3, <2>1
<1> QED
  BY <1>4, <1>5

LEMMA WriteSectorKeepsSpace ==
    ASSUME IInv, SpaceOK, WriteSector
    PROVE  SpaceOK'
<1>1. new \in NewNodes
  BY DEF WriteSector, Reserved, IInv, RunningOK, TypeOK
<1>2. new.remain \in Nat /\ KvLen[new.val] \in Nat /\ Threshold \in Nat /\ new.sec \in Sectors
  BY <1>1, FdbAssumption DEF NewNodes
<1>3. new.remain > KvLen[new.val] + Threshold
  BY DEF SpaceOK, Reserved, WriteSector
<1>4. ~(new.remain < Threshold \/ new.remain - KvLen[new.val] < Threshold)
  BY <1>2, <1>3
<1>5. store' = [store EXCEPT ![new.sec] = "USING"]
  BY <1>4 DEF WriteSector
<1>6. new'.remain = new.remain /\ new'.val = new.val
  BY <1>1 DEF WriteSector, NewNodes
<1>7. \A s \in Sectors : store'[s] # "FULL"
  BY <1>2, <1>5 DEF SpaceOK, IInv, TypeOK
<1> QED
  BY <1>3, <1>6, <1>7 DEF SpaceOK

LEMMA FormatKeepsSpace ==
    ASSUME IInv, SpaceOK, GcErase \/ GcFormat \/ ResetErase \/ ResetFormat \/ LoadHeader
    PROVE  SpaceOK'
<1>1. \A s \in Sectors : store'[s] \in {store[s], "UNUSED", "EMPTY"}
  BY DEF GcErase, GcFormat, ResetErase, ResetFormat, LoadHeader, Erase, Format, IInv, TypeOK
<1>2. ~Reserved'
  BY DEF GcErase, GcFormat, ResetErase, ResetFormat, LoadHeader, Reserved, ctlVars,
         IInv, ReturnsOK
<1> QED
  BY <1>1, <1>2 DEF SpaceOK

LEMMA WriteKeepsSpace ==
    ASSUME IInv, SpaceOK, \/ MarkDirty \/ SetPrepare \/ SetFresh \/ WriteHeader \/ WriteData
                          \/ WriteCommit \/ SetDelete \/ MovePrepare \/ MoveDelete \/ DelFound
    PROVE  SpaceOK'
<1>1. store' = store
  BY DEF MarkDirty, SetPrepare, SetFresh, WriteHeader, WriteData, WriteCommit, SetDelete,
         MovePrepare, MoveDelete, DelFound, flashVars
<1>2. Reserved' => Reserved /\ new' = new
  <2>1. CASE MarkDirty
    BY <2>1 DEF MarkDirty, Reserved, IInv, ReturnsOK
  <2>2. CASE SetPrepare \/ SetFresh
    BY <2>2 DEF SetPrepare, SetFresh, Reserved
  <2>3. CASE WriteHeader \/ WriteData \/ WriteCommit \/ MovePrepare
    BY <2>3 DEF WriteHeader, WriteData, WriteCommit, MovePrepare, Reserved, IInv, ReturnsOK
  <2>4. ASSUME NEW a, NEW l, l \in {"set_end", "end", "gc_kv", "load_kv", "idle"}, ThenDirty(a, l)
        PROVE  ~Reserved'
    <3>1. ret' = [ret EXCEPT !.del = l] /\ pc' = "dirty" => ret'.del = l
      BY DEF IInv, TypeOK
    <3> QED
      BY <2>4, <3>1 DEF ThenDirty, Reserved
  <2>5. CASE SetDelete \/ MoveDelete \/ DelFound
    <3>1. ret.move \in {"gc_kv", "load_kv", "idle"}
      BY DEF IInv, ReturnsOK
    <3> QED
      BY <2>4, <2>5, <3>1 DEF SetDelete, MoveDelete, DelFound
  <2> QED
    BY <2>1, <2>2, <2>3, <2>5
<1> QED
  BY <1>1, <1>2, SpaceKept

LEMMA OtherKeepsSpace ==
    ASSUME IInv, SpaceOK, \/ GcBegin \/ GcMark \/ GcEnd \/ GcMove \/ SetEnd \/ DelMissing \/ Return
                          \/ Boot \/ LoadHeadersEnd \/ LoadCheck \/ LoadGc \/ LoadStart \/ LoadKv
                          \/ LoadKvEnd \/ LoadEnd \/ Calling \/ Crash
    PROVE  SpaceOK'
<1>1. store' = store
  BY DEF GcBegin, GcMark, GcEnd, GcMove, SetEnd, DelMissing, Return, Boot, LoadHeadersEnd,
         LoadCheck, LoadGc, LoadStart, LoadKv, LoadKvEnd, LoadEnd, Calling, Set, Del, Read,
         Reset, Crash, flashVars
<1>2. ~Reserved'
  <2>1. CASE GcBegin \/ GcMark \/ GcEnd \/ GcMove \/ SetEnd \/ DelMissing \/ Return
    BY <2>1 DEF GcBegin, GcMark, GcEnd, GcMove, SetEnd, DelMissing, Return, Idle, CallGc,
           Reserved, IInv, ReturnsOK
  <2>2. CASE Boot \/ LoadHeadersEnd \/ LoadCheck \/ LoadGc \/ LoadStart \/ LoadKv
             \/ LoadKvEnd \/ LoadEnd
    BY <2>2 DEF Boot, LoadHeadersEnd, LoadCheck, LoadGc, LoadStart, LoadKv, LoadKvEnd, LoadEnd,
           CallGc, CallReset, Reserved
  <2>3. CASE Calling \/ Crash
    BY <2>3 DEF Calling, Set, Del, Read, Reset, CallReset, Crash, ctlVars, Reserved
  <2> QED
    BY <2>1, <2>2, <2>3
<1> QED
  BY <1>1, <1>2, SpaceKept

LEMMA NextKeepsSpace == IInv /\ SpaceOK /\ [Next]_vars => SpaceOK'
<1> SUFFICES ASSUME IInv, SpaceOK, [Next]_vars PROVE SpaceOK'
  OBVIOUS
<1>1. CASE Work
  BY <1>1, AllocKeepsSpace, WriteSectorKeepsSpace, FormatKeepsSpace, WriteKeepsSpace,
     OtherKeepsSpace DEF Work
<1>2. CASE Calling \/ Crash
  BY <1>2, OtherKeepsSpace
<1>3. CASE UNCHANGED vars
  <2>1. store' = store /\ new' = new /\ (Reserved' <=> Reserved)
    BY <1>3 DEF vars, flashVars, ctlVars, Reserved
  <2> QED
    BY <2>1, SpaceKept
<1> QED
  BY <1>1, <1>2, <1>3 DEF Next

\* No sector ever gets the status FULL, after any losses of power either:
\* alloc_kv_cb demands more than the threshold behind the node, and
\* update_sec_status looks for less than it.  The collection that create_kv_blob
\* asks for when its sector is full is never asked for.
THEOREM NeverFull ==
    Spec => [](/\ \A s \in Sectors : store[s] # "FULL"
               /\ Reserved => new.remain > KvLen[new.val] + Threshold)
<1>1. Init => SpaceOK
  BY DEF Init, SpaceOK, Reserved
<1>2. Spec => []IInv
  BY Invariant
<1>3. Spec => []SpaceOK
  BY <1>1, <1>2, NextKeepsSpace, PTL DEF Spec
<1> QED
  BY <1>3 DEF SpaceOK

-----------------------------------------------------------------------------
(* The reserve, whatever the losses of power.                              *)

\* More empty sectors than the reserve: one of them stays when another is opened.
LEMMA ReserveStays ==
    ASSUME Cardinality(EmptySectors) > GcThreshold, NEW s
    PROVE  EmptySectors \ {s} # {}
<1> SUFFICES ASSUME EmptySectors \subseteq {s}
             PROVE  FALSE
  OBVIOUS
<1>1. EmptySectors = {} \/ EmptySectors = {s}
  OBVIOUS
<1>2. Cardinality(EmptySectors) = 0 \/ Cardinality(EmptySectors) = 1
  BY <1>1, FS_EmptySet, FS_Singleton
<1>3. GcThreshold \in Nat /\ GcThreshold >= 1
  BY FdbAssumption
<1> QED
  BY <1>2, <1>3

\* A sector is being emptied by a collection, that of a load included.
InGc == pc = "gc_kv" \/ Moving("gc_kv")

EmptyLeft == EmptySectors # {}

\* A sector whose collection was begun is still ahead of the collection.
MarkAhead == \E s \in GcAhead : dirty[s] = "GC"

\* ... of the load's.
MarkToLoad == \E s \in Sectors : dirty[s] = "GC" /\ Distance(scan.from, s) >= scan.done

\* Where an empty sector need not be left ...
Between == {"off", "load_new", "load_headers", "load_check", "load_gc", "gc_begin", "gc_sector",
            "gc_format", "reset_format"}

\* ... there is one that a collection or a format is about to empty.
LeftOK ==
    /\ pc \notin Between /\ ~InGc => EmptyLeft
    /\ pc \in {"off", "load_headers"} =>
           EmptyLeft \/ Unformatted # {} \/ \E s \in Sectors : dirty[s] = "GC"
    /\ pc = "load_new" => EmptyLeft \/ Unformatted # {}
    /\ pc = "load_check" => EmptyLeft \/ \E s \in Sectors : dirty[s] = "GC"
    /\ pc = "load_gc" => EmptyLeft \/ MarkToLoad
    /\ pc \in {"gc_begin", "gc_sector"} => EmptyLeft \/ MarkAhead
    /\ InGc => dirty[gc.sec] = "GC"

\* Outside a collection a node does not take the last empty sector.
TakenOK == Reserved /\ ~InGc => EmptySectors \ {new.sec} # {}

\* A collection is asked for only in one, or when the load is to run one.
AskedOK == /\ gcRequest => Collecting \/ pc = "load_end"
           /\ pc \in {"header", "data", "commit"} => ~new.full

\* A sector is marked dirty only when it is clean.
CleanOK == pc = "dirty" => dirty[old[1]] = "FALSE"

BeginOK == pc = "gc_begin" => gc.done = 0

LeftInv == LeftOK /\ TakenOK /\ AskedOK /\ CleanOK /\ BeginOK

LEMMA EmptyKept ==
    ASSUME store' = store
    PROVE  EmptySectors' = EmptySectors /\ (EmptyLeft' <=> EmptyLeft) /\ Unformatted' = Unformatted
  BY DEF EmptySectors, EmptyLeft, Unformatted

LEMMA CollectingIn == pc \notin Between => (Collecting <=> InGc)
  BY DEF Between, Collecting, InGc, GcLabels

LEMMA CollectingInNext == pc' \notin Between => (Collecting' <=> InGc')
  BY DEF Between, Collecting, InGc, GcLabels

\* A step that leaves the headers alone, inside a collection or outside of one.
LEMMA LeftStays ==
    ASSUME LeftInv, store' = store, dirty' = dirty, pc \notin Between, pc' \notin Between,
           InGc' <=> InGc, InGc => gc'.sec = gc.sec,
           gcRequest' => gcRequest, pc # "load_end",
           Reserved' /\ ~InGc' => Reserved /\ new'.sec = new.sec,
           pc' \in {"header", "data", "commit"} => ~new'.full,
           pc' = "dirty" => dirty[old'[1]] = "FALSE"
    PROVE  LeftInv'
<1>1. EmptySectors' = EmptySectors /\ (EmptyLeft' <=> EmptyLeft)
  BY EmptyKept
<1>2. /\ pc' \notin {"off", "load_new", "load_headers", "load_check", "load_gc", "gc_begin",
                      "gc_sector"}
  BY DEF Between
<1>3. InGc => dirty[gc.sec] = "GC"
  BY DEF LeftInv, LeftOK
<1>4. InGc' => dirty'[gc'.sec] = "GC"
  BY <1>3
<1>5. LeftOK'
  BY <1>1, <1>2, <1>4 DEF LeftInv, LeftOK
<1>6. TakenOK'
  <2>1. Reserved' /\ ~InGc' => EmptySectors \ {new.sec} # {}
    BY DEF LeftInv, TakenOK
  <2> QED
    BY <1>1, <2>1 DEF TakenOK
<1>7. AskedOK'
  BY CollectingIn, CollectingInNext DEF LeftInv, AskedOK
<1>8. CleanOK' /\ BeginOK'
  BY <1>2 DEF CleanOK, BeginOK
<1> QED
  BY <1>5, <1>6, <1>7, <1>8 DEF LeftInv

\* The steps of sets, deletions, reads and moves between two allocations.
LEMMA QuietLeft ==
    ASSUME IInv, LeftInv, NEW k, NEW v,
           \/ Set(k, v) \/ Del(k) \/ Read(k) \/ Reset
           \/ SetFresh \/ DelMissing \/ Return \/ LoadStart \/ LoadKvEnd
    PROVE  LeftInv'
<1>1. store' = store /\ dirty' = dirty /\ gcRequest' = gcRequest
  BY DEF Set, Del, Read, Reset, SetFresh, DelMissing, Return, LoadStart, LoadKvEnd,
         flashVars, dbVars
<1>2. /\ pc \in {"idle", "set_find", "del", "end", "load_start", "load_kv"}
      /\ pc' \in {"idle", "set_alloc", "del", "reset_erase", "sector", "load_kv", "load_end"}
      /\ pc' = "sector" => pc = "set_find" /\ new' = new /\ ret'.create = "set_end"
  BY DEF Set, Del, Read, Reset, CallReset, SetFresh, DelMissing, Return, Idle, LoadStart,
         LoadKvEnd, ctlVars, IInv, TypeOK
<1>3. pc \notin Between /\ pc' \notin Between /\ ~InGc /\ ~InGc'
  BY <1>2 DEF Between, InGc, Moving, MoveLabels, Creating
<1>4. Reserved' => Reserved /\ new' = new
  BY <1>2 DEF Reserved
<1> QED
  BY <1>1, <1>2, <1>3, <1>4, LeftStays

LEMMA SetPrepareLeft ==
    ASSUME IInv, LeftInv, SetPrepare
    PROVE  LeftInv'
<1>1. /\ pc = "set_find" /\ store' = store /\ dirty' = dirty /\ gcRequest' = gcRequest
      /\ new' = new /\ ret' = [ret EXCEPT !.create = "set_delete", !.del = "sector"]
      /\ pc' = IF dirty[old'[1]] = "FALSE" THEN "dirty" ELSE "sector"
  BY DEF SetPrepare
<1>2. ret'.create = "set_delete" /\ ret'.del = "sector"
  BY <1>1 DEF IInv, TypeOK
<1>3. pc \notin Between /\ pc' \notin Between /\ ~InGc /\ ~InGc' /\ Reserved
  BY <1>1, <1>2 DEF Between, InGc, Moving, MoveLabels, Creating, Reserved
<1> QED
  BY <1>1, <1>3, LeftStays

\* The deletions mark the sector dirty, or go on where they return to.
LEMMA DeleteLeft ==
    ASSUME IInv, LeftInv, SetDelete \/ DelFound
    PROVE  LeftInv'
<1>1. PICK l \in {"set_end", "end"} :
         \/ pc' = "dirty" /\ ret' = [ret EXCEPT !.del = l] /\ dirty[old'[1]] = "FALSE"
         \/ pc' = l
  BY DEF SetDelete, DelFound, ThenDirty
<1>2. /\ pc \in {"set_delete", "del"} /\ store' = store /\ dirty' = dirty /\ gcRequest' = gcRequest
  BY DEF SetDelete, DelFound
<1>3. ret' = [ret EXCEPT !.del = l] => ret'.del = l
  BY DEF IInv, TypeOK
<1>4. \/ pc' = "dirty" /\ ret'.del = l /\ dirty[old'[1]] = "FALSE"
      \/ pc' = l
  BY <1>1, <1>3
<1>5. /\ pc \notin Between /\ pc' \notin Between /\ ~InGc /\ ~InGc' /\ ~Reserved'
  BY <1>2, <1>4 DEF Between, InGc, Moving, MoveLabels, Creating, Reserved
<1> QED
  BY <1>2, <1>4, <1>5, LeftStays

LEMMA MoveDeleteLeft ==
    ASSUME IInv, LeftInv, MoveDelete
    PROVE  LeftInv'
<1>1. /\ pc = "move_delete" /\ store' = store /\ dirty' = dirty /\ gcRequest' = gcRequest
      /\ gc' = gc /\ old' = old /\ ThenDirty(old, ret.move)
  BY DEF MoveDelete
<1>2. ret.move \in {"gc_kv", "load_kv"}
  BY <1>1 DEF IInv, ReturnsOK, MoveLabels
<1>3. ret' = [ret EXCEPT !.del = ret.move] => ret'.del = ret.move
  BY DEF IInv, TypeOK
<1>4. \/ pc' = "dirty" /\ ret'.del = ret.move /\ dirty[old'[1]] = "FALSE"
      \/ pc' = ret.move
  BY <1>1, <1>3 DEF ThenDirty
<1>5. /\ InGc <=> ret.move = "gc_kv"
      /\ InGc' <=> ret.move = "gc_kv"
      /\ pc \notin Between /\ pc' \notin Between /\ ~Reserved'
      /\ pc' \notin {"header", "data", "commit"} /\ pc # "load_end"
  BY <1>1, <1>2, <1>4 DEF InGc, Moving, MoveLabels, Creating, Between, Reserved
<1>6. pc' = "dirty" => dirty[old'[1]] = "FALSE"
  BY <1>1, <1>2, <1>4
<1> QED
  BY <1>1, <1>5, <1>6, LeftStays

LEMMA WriteLeft ==
    ASSUME IInv, LeftInv, WriteHeader \/ WriteData \/ WriteCommit \/ MovePrepare
    PROVE  LeftInv'
<1>1. /\ store' = store /\ dirty' = dirty /\ gc' = gc /\ ret' = ret
      /\ \/ pc = "header" /\ pc' = "data" /\ new' = new
         \/ pc = "data" /\ pc' = "commit" /\ new' = new
         \/ pc = "commit" /\ pc' = ret.create
         \/ pc = "move" /\ pc' = "move_alloc"
  BY DEF WriteHeader, WriteData, WriteCommit, MovePrepare
<1>2. gcRequest' => gcRequest
  BY DEF WriteHeader, WriteData, WriteCommit, MovePrepare, dbVars, LeftInv, AskedOK
<1>3. pc = "commit" => ret.create \in {"set_end", "set_delete", "move_delete"}
  BY DEF IInv, ReturnsOK, Creating
<1>4. pc \notin Between /\ pc' \notin Between /\ ~Reserved' /\ pc' # "dirty" /\ pc # "load_end"
  BY <1>1, <1>3 DEF Between, Reserved
<1>5. InGc' <=> InGc
  BY <1>1, <1>3 DEF InGc, Moving, MoveLabels, Creating
<1>6. pc' \in {"header", "data", "commit"} => ~new'.full
  BY <1>1, <1>3 DEF LeftInv, AskedOK
<1> QED
  BY <1>1, <1>2, <1>4, <1>5, <1>6, LeftStays

LEMMA GcMoveLeft ==
    ASSUME IInv, LeftInv, GcMove
    PROVE  LeftInv'
<1>1. /\ pc = "gc_kv" /\ store' = store /\ dirty' = dirty /\ gcRequest' = gcRequest
      /\ pc' \in {"move", "move_again"} /\ ret' = [ret EXCEPT !.move = "gc_kv"]
      /\ gc' = [gc EXCEPT !.pos = Least(Movable)]
  BY DEF GcMove, flashVars, dbVars
<1>2. ret'.move = "gc_kv"
  BY <1>1 DEF IInv, TypeOK
<1>3. gc \in Collections
  BY <1>1 DEF IInv, RunningOK, TypeOK, Collecting, GcLabels
<1>4. gc'.sec = gc.sec
  BY <1>1, <1>3 DEF Collections
<1>5. InGc /\ InGc' /\ pc \notin Between /\ pc' \notin Between /\ ~Reserved'
  BY <1>1, <1>2 DEF InGc, Moving, MoveLabels, Between, Reserved
<1> QED
  BY <1>1, <1>4, <1>5, LeftStays

LEMMA LoadKvLeft ==
    ASSUME IInv, LeftInv, LoadKv
    PROVE  LeftInv'
<1>1. /\ pc = "load_kv" /\ store' = store /\ dirty' = dirty /\ gcRequest' = gcRequest
      /\ \/ pc' = "move_again" /\ ret' = [ret EXCEPT !.move = "load_kv"]
         \/ pc' = "load_end"
  BY DEF LoadKv
<1>2. ret' = [ret EXCEPT !.move = "load_kv"] => ret'.move = "load_kv"
  BY DEF IInv, TypeOK
<1>3. ~InGc /\ ~InGc' /\ pc \notin Between /\ pc' \notin Between /\ ~Reserved'
  BY <1>1, <1>2 DEF InGc, Moving, MoveLabels, Creating, Between, Reserved
<1> QED
  BY <1>1, <1>3, LeftStays

LEMMA MarkDirtyLeft ==
    ASSUME IInv, LeftInv, MarkDirty
    PROVE  LeftInv'
<1>1. /\ pc = "dirty" /\ pc' = ret.del /\ dirty' = [dirty EXCEPT ![old[1]] = "TRUE"]
      /\ store' = store /\ gcRequest' = gcRequest /\ gc' = gc /\ new' = new /\ ret' = ret
  BY DEF MarkDirty, dbVars
<1>2. ret.del \in {"sector", "set_end", "end", "gc_kv", "load_kv"}
      /\ (ret.del = "sector" => ret.create = "set_delete")
  BY <1>1 DEF IInv, ReturnsOK
<1>3. /\ pc \notin Between /\ pc' \notin Between
      /\ InGc <=> ret.del = "gc_kv"
      /\ InGc' <=> ret.del = "gc_kv"
      /\ Reserved' => Reserved
  BY <1>1, <1>2 DEF Between, InGc, Moving, MoveLabels, Creating, Reserved
<1>4. EmptySectors' = EmptySectors /\ (EmptyLeft' <=> EmptyLeft)
  BY <1>1, EmptyKept
<1>5. InGc' => dirty'[gc'.sec] = "GC"
  <2>1. InGc => dirty[gc.sec] = "GC" /\ dirty[old[1]] = "FALSE"
    BY <1>1 DEF LeftInv, LeftOK, CleanOK
  <2>2. InGc => gc \in Collections
    BY <1>1 DEF IInv, RunningOK, TypeOK, Collecting, InGc, GcLabels
  <2>3. InGc => gc.sec \in Sectors
    BY <2>2 DEF Collections
  <2> QED
    BY <1>1, <1>3, <2>1, <2>3 DEF IInv, TypeOK
<1>6. LeftOK'
  BY <1>3, <1>4, <1>5 DEF Between, LeftInv, LeftOK
<1>7. TakenOK'
  BY <1>1, <1>3, <1>4 DEF LeftInv, TakenOK
<1>8. AskedOK' /\ CleanOK' /\ BeginOK'
  BY <1>1, <1>2, <1>3, CollectingIn, CollectingInNext DEF LeftInv, AskedOK, CleanOK, BeginOK
<1> QED
  BY <1>6, <1>7, <1>8 DEF LeftInv

\* An allocation that is not for a collection does not take the last empty sector.
LEMMA AllocLeaves ==
    ASSUME TypeOK, ~gcRequest, EmptyLeft, NEW len, Candidates(len) # {}
    PROVE  EmptySectors \ {FirstSector(Candidates(len))} # {}
<1>1. Candidates(len) \subseteq Sectors
  BY DEF Candidates, Roomy
<1>2. FirstSector(Candidates(len)) \in Candidates(len)
  BY <1>1, FirstSectorType DEF TypeOK
<1>3. CASE Roomy("USING", len) # {}
  BY <1>2, <1>3 DEF Candidates, Roomy, EmptySectors, EmptyLeft
<1>4. CASE Roomy("USING", len) = {}
  BY <1>4, ReserveStays DEF Candidates, MayOpenEmpty
<1> QED
  BY <1>3, <1>4

LEMMA MoveAllocLeft ==
    ASSUME IInv, LeftInv, MoveAlloc
    PROVE  LeftInv'
<1> DEFINE len == KvLen[NodeAt(old).val]
<1>1. /\ pc \in {"move_alloc", "move_again"} /\ store' = store /\ dirty' = dirty /\ gc' = gc
      /\ gcRequest' = (gcRequest \/ AllocAsksGc(len))
      /\ \/ /\ Candidates(len) = {} /\ ret' = ret
            /\ pc' = IF ret.move = "load_kv" THEN "load_end" ELSE ret.move
         \/ pc' = "move_delete" /\ ret' = ret /\ Candidates(len) # {}
         \/ /\ pc' = "sector" /\ Candidates(len) # {} /\ ret' = [ret EXCEPT !.create = "move_delete"]
            /\ new'.sec = FirstSector(Candidates(len))
  BY DEF MoveAlloc, flashVars, NewNode
<1> HIDE DEF len
<1>2. ret.move \in {"gc_kv", "load_kv"}
  BY <1>1 DEF IInv, ReturnsOK, MoveLabels
<1>3. ret' = [ret EXCEPT !.create = "move_delete"] => ret'.create = "move_delete" /\ ret'.move = ret.move
  BY DEF IInv, TypeOK
<1>4. /\ pc' \in {"load_end", "gc_kv", "move_delete", "sector"}
      /\ pc' = "load_end" => ret.move = "load_kv"
      /\ InGc <=> ret.move = "gc_kv"
      /\ InGc' <=> ret.move = "gc_kv"
      /\ pc \notin Between /\ pc' \notin Between
      /\ Reserved' => pc' = "sector"
  BY <1>1, <1>2, <1>3 DEF InGc, Moving, MoveLabels, Creating, Between, Reserved
<1>5. EmptySectors' = EmptySectors /\ (EmptyLeft' <=> EmptyLeft)
  BY <1>1, EmptyKept
<1>6. LeftOK'
  BY <1>1, <1>4, <1>5 DEF Between, LeftInv, LeftOK
<1>7. ~InGc => ~gcRequest /\ EmptyLeft
  BY <1>1, <1>4, CollectingIn DEF LeftInv, AskedOK, LeftOK
<1>8. TakenOK'
  <2>1. SUFFICES ASSUME pc' = "sector", ~InGc
                 PROVE  EmptySectors \ {new'.sec} # {}
    BY <1>4, <1>5 DEF TakenOK
  <2>2. Candidates(len) # {} /\ new'.sec = FirstSector(Candidates(len))
    BY <1>1, <1>2, <2>1
  <2>3. TypeOK /\ ~gcRequest /\ EmptyLeft
    BY <1>7, <2>1 DEF IInv
  <2> QED
    BY <2>2, <2>3, AllocLeaves
<1>9. AllocAsksGc(len) /\ ~gcRequest => Candidates(len) = {}
  BY DEF AllocAsksGc, Candidates
<1>10. ~InGc /\ gcRequest' => pc' = "load_end"
  BY <1>1, <1>2, <1>4, <1>7, <1>9
<1>11. AskedOK' /\ CleanOK' /\ BeginOK'
  BY <1>4, <1>10, CollectingInNext DEF AskedOK, CleanOK, BeginOK
<1> QED
  BY <1>6, <1>8, <1>11 DEF LeftInv

LEMMA SetAllocLeft ==
    ASSUME IInv, LeftInv, SetAlloc
    PROVE  LeftInv'
<1> DEFINE len == KvLen[call.val]
<1>1. /\ pc \in {"set_alloc", "set_retry"} /\ store' = store /\ dirty' = dirty
      /\ \/ /\ Candidates(len) # {} /\ new'.sec = FirstSector(Candidates(len))
            /\ pc' = "set_find" /\ gcRequest' = gcRequest
         \/ pc' = "gc_begin" /\ gc'.done = 0
         \/ pc' = "idle" /\ gcRequest' = FALSE
  BY DEF SetAlloc, flashVars, NewNode, CallGc, Idle
<1> HIDE DEF len
<1>2. pc \notin Between /\ ~InGc /\ pc # "load_end"
  BY <1>1 DEF Between, InGc, Moving, MoveLabels, Creating
<1>3. ~gcRequest /\ EmptyLeft
  BY <1>2, CollectingIn DEF LeftInv, AskedOK, LeftOK
<1>4. EmptySectors' = EmptySectors /\ EmptyLeft'
  BY <1>1, <1>3, EmptyKept
<1>5. ~InGc' /\ (Reserved' => pc' = "set_find") /\ (pc' = "gc_begin" => Collecting')
  BY <1>1 DEF InGc, Moving, MoveLabels, Creating, Reserved, Collecting, GcLabels
<1>6. LeftOK'
  BY <1>1, <1>4, <1>5 DEF LeftOK
<1>7. TakenOK'
  BY <1>1, <1>3, <1>4, <1>5, AllocLeaves DEF IInv, TakenOK
<1>8. AskedOK' /\ CleanOK' /\ BeginOK'
  BY <1>1, <1>3, <1>5 DEF AskedOK, CleanOK, BeginOK
<1> QED
  BY <1>6, <1>7, <1>8 DEF LeftInv

LEMMA SetEndLeft ==
    ASSUME IInv, LeftInv, SetEnd
    PROVE  LeftInv'
<1>1. pc = "set_end" /\ store' = store /\ dirty' = dirty /\ gcRequest' = gcRequest
  BY DEF SetEnd, flashVars, dbVars
<1>2. pc \notin Between /\ ~InGc
  BY <1>1 DEF Between, InGc, Moving, MoveLabels, Creating
<1>3. ~gcRequest
  BY <1>1, <1>2, CollectingIn DEF LeftInv, AskedOK
<1>4. pc' = "idle"
  BY <1>3 DEF SetEnd, Idle
<1>5. pc' \notin Between /\ ~InGc' /\ ~Reserved'
  BY <1>4 DEF Between, InGc, Moving, MoveLabels, Creating, Reserved
<1> QED
  BY <1>1, <1>2, <1>4, <1>5, LeftStays

\* The node takes its sector, which is not the last empty one outside a collection.
LEMMA WriteSectorLeft ==
    ASSUME IInv, SpaceOK, LeftInv, WriteSector
    PROVE  LeftInv'
<1>1. new \in NewNodes
  BY DEF WriteSector, Reserved, IInv, RunningOK, TypeOK
<1>2. new.remain \in Nat /\ KvLen[new.val] \in Nat /\ Threshold \in Nat /\ new.sec \in Sectors
  BY <1>1, FdbAssumption DEF NewNodes
<1>3. new.remain > KvLen[new.val] + Threshold
  BY DEF SpaceOK, Reserved, WriteSector
<1>4. ~(new.remain < Threshold \/ new.remain - KvLen[new.val] < Threshold)
  BY <1>2, <1>3
<1>5. /\ store' = [store EXCEPT ![new.sec] = "USING"]
      /\ new' = [new EXCEPT !.full = FALSE]
  BY <1>4 DEF WriteSector
<1>6. new'.sec = new.sec /\ ~new'.full
  BY <1>1, <1>5 DEF NewNodes
<1>7. /\ pc = "sector" /\ pc' = "header" /\ dirty' = dirty /\ gc' = gc /\ ret' = ret
      /\ gcRequest' = gcRequest
  BY DEF WriteSector, dbVars
<1>8. EmptySectors' = EmptySectors \ {new.sec}
  BY <1>2, <1>5 DEF EmptySectors, IInv, TypeOK
<1>9. /\ pc \notin Between /\ pc' \notin Between /\ Reserved /\ (InGc' <=> InGc)
  BY <1>7 DEF Between, Reserved, InGc, Moving, MoveLabels, Creating
<1>10. ~InGc => EmptySectors \ {new.sec} # {}
  BY <1>9 DEF LeftInv, TakenOK
<1>11. LeftOK'
  BY <1>7, <1>8, <1>9, <1>10 DEF Between, LeftInv, LeftOK, EmptyLeft
<1>12. TakenOK'
  BY <1>6, <1>8, <1>9, <1>10 DEF TakenOK
<1>13. AskedOK' /\ CleanOK' /\ BeginOK'
  BY <1>6, <1>7, <1>9, CollectingIn, CollectingInNext DEF LeftInv, AskedOK, CleanOK, BeginOK
<1> QED
  BY <1>11, <1>12, <1>13 DEF LeftInv

\* A step to a place where nothing is allocated and no sector is being emptied.
LEMMA LeftAt ==
    ASSUME ~InGc', ~Reserved', pc' # "dirty", pc' \notin {"header", "data", "commit"},
           pc' = "gc_begin" => gc'.done = 0,
           gcRequest' => pc' \in GcLabels \cup {"load_end"},
           EmptyLeft'
    PROVE  LeftInv'
<1>1. LeftOK' /\ TakenOK'
  BY DEF LeftOK, TakenOK
<1>2. AskedOK' /\ CleanOK' /\ BeginOK'
  BY DEF AskedOK, CleanOK, BeginOK, Collecting
<1> QED
  BY <1>1, <1>2 DEF LeftInv

\* Where no collection runs, none is asked for.
LEMMA NotAsked ==
    ASSUME LeftInv, pc \in {"off", "idle", "reset_erase", "reset_format", "load_new", "load_headers",
                            "load_check", "load_gc"}
    PROVE  ~gcRequest
  BY DEF LeftInv, AskedOK, Collecting, GcLabels, Moving, MoveLabels, Creating

\* A collection that leaves an empty sector returns.
LEMMA GcReturns ==
    ASSUME IInv, EmptyLeft, store' = store, pc' = ret.gc, ~gcRequest'
    PROVE  LeftInv'
<1>1. pc' \in {"idle", "set_retry", "end", "load_gc", "load_start"}
  BY DEF IInv, ReturnsOK
<1>2. ~InGc' /\ ~Reserved'
  BY <1>1 DEF InGc, Moving, MoveLabels, Creating, Reserved
<1>3. EmptyLeft'
  BY EmptyKept
<1> QED
  BY <1>1, <1>2, <1>3, LeftAt

LEMMA GcBeginLeft ==
    ASSUME IInv, LeftInv, GcBegin
    PROVE  LeftInv'
<1>1. pc = "gc_begin" /\ store' = store /\ dirty' = dirty
  BY DEF GcBegin, flashVars
<1>2. CASE Cardinality(EmptySectors) > GcThreshold
  <2>1. EmptyLeft
    BY <1>2, ReserveStays DEF EmptyLeft
  <2>2. ~(Cardinality(EmptySectors) <= GcThreshold)
    <3>1. IsFiniteSet(Sectors) /\ EmptySectors \subseteq Sectors
      BY FS_Interval, FdbAssumption DEF Sectors, EmptySectors
    <3>2. Cardinality(EmptySectors) \in Nat
      BY <3>1, FS_Subset, FS_CardinalityType
    <3> QED
      BY <1>2, <3>2, FdbAssumption
  <2> QED
    BY <1>1, <2>1, <2>2, GcReturns DEF GcBegin
<1>3. CASE Cardinality(EmptySectors) <= GcThreshold
  <2>1. gc \in Collections
    BY <1>1 DEF IInv, RunningOK, TypeOK, Collecting, GcLabels
  <2>2. /\ pc' = "gc_sector" /\ gcRequest' = gcRequest
        /\ gc'.from = gc.from /\ gc'.done = gc.done
    BY <1>3, <2>1 DEF GcBegin, Collections
  <2>3. GcAhead' = GcAhead /\ (MarkAhead' <=> MarkAhead)
    BY <1>1, <2>2 DEF GcAhead, MarkAhead
  <2>4. EmptyLeft' <=> EmptyLeft
    BY <1>1, EmptyKept
  <2>5. ~InGc' /\ ~Reserved' /\ Collecting'
    BY <2>2 DEF InGc, Moving, MoveLabels, Creating, Reserved, Collecting, GcLabels
  <2>6. LeftOK'
    BY <1>1, <2>2, <2>3, <2>4, <2>5 DEF LeftInv, LeftOK, Between
  <2> QED
    BY <2>2, <2>5, <2>6 DEF LeftInv, TakenOK, AskedOK, CleanOK, BeginOK
<1>4. Cardinality(EmptySectors) \in Nat /\ GcThreshold \in Nat
  <2>1. IsFiniteSet(Sectors) /\ EmptySectors \subseteq Sectors
    BY FS_Interval, FdbAssumption DEF Sectors, EmptySectors
  <2> QED
    BY <2>1, FS_Subset, FS_CardinalityType, FdbAssumption
<1> QED
  BY <1>2, <1>3, <1>4

LEMMA GcMarkLeft ==
    ASSUME IInv, LeftInv, GcMark
    PROVE  LeftInv'
<1>1. gc \in Collections
  BY DEF GcMark, IInv, RunningOK, TypeOK, Collecting, GcLabels
<1>2. \E s \in GcAhead : \A u \in GcAhead : Distance(gc.from, s) <= Distance(gc.from, u)
  <2> DEFINE f == [s \in GcAhead |-> Distance(gc.from, s)]
  <2>1. \A s \in GcAhead : f[s] \in Nat
    BY <1>1, DistanceType, FdbAssumption DEF GcAhead, Collections
  <2>2. \E s \in GcAhead : \A u \in GcAhead : f[s] <= f[u]
    BY <2>1, MinimumExists DEF GcMark
  <2> QED
    BY <2>2
<1>3. PICK s \in GcAhead :
         /\ dirty' = [dirty EXCEPT ![s] = "GC"]
         /\ gc' = [gc EXCEPT !.sec = s, !.pos = -1, !.done = Distance(gc.from, s) + 1]
  BY <1>2 DEF GcMark
<1>4. gc'.sec = s /\ s \in Sectors
  BY <1>1, <1>3 DEF Collections, GcAhead
<1>5. dirty'[gc'.sec] = "GC"
  BY <1>3, <1>4 DEF IInv, TypeOK
<1>6. pc' = "gc_kv" /\ gcRequest' = gcRequest
  BY DEF GcMark, dbVars
<1>7. InGc' /\ Collecting' /\ ~Reserved'
  BY <1>6 DEF InGc, Collecting, GcLabels, Reserved
<1> QED
  BY <1>5, <1>6, <1>7 DEF LeftInv, LeftOK, TakenOK, AskedOK, CleanOK, BeginOK

\* A walk that finds nothing more to collect leaves an empty sector.
LEMMA GcEndLeft ==
    ASSUME IInv, LeftInv, GcEnd
    PROVE  LeftInv'
<1>1. EmptyLeft
  BY DEF GcEnd, LeftInv, LeftOK, MarkAhead
<1> QED
  BY <1>1, GcReturns DEF GcEnd, flashVars

LEMMA GcEraseLeft ==
    ASSUME IInv, LeftInv, GcErase
    PROVE  LeftInv'
<1>1. pc' = "gc_format"
  BY DEF GcErase
<1>2. ~InGc' /\ ~Reserved' /\ Collecting'
  BY <1>1 DEF InGc, Moving, MoveLabels, Creating, Reserved, Collecting, GcLabels
<1> QED
  BY <1>1, <1>2 DEF Between, LeftInv, LeftOK, TakenOK, AskedOK, CleanOK, BeginOK

\* A formatted sector is empty.
LEMMA FormatLeaves ==
    ASSUME IInv, NEW s \in Sectors, Format(s)
    PROVE  EmptyLeft'
<1>1. store'[s] = "EMPTY"
  BY DEF Format, IInv, TypeOK
<1> QED
  BY <1>1 DEF EmptyLeft, EmptySectors

LEMMA GcFormatLeft ==
    ASSUME IInv, LeftInv, GcFormat
    PROVE  LeftInv'
<1>1. gc \in Collections
  BY DEF GcFormat, IInv, RunningOK, TypeOK, Collecting, GcLabels
<1>2. EmptyLeft'
  BY <1>1, FormatLeaves DEF GcFormat, Collections
<1>3. pc' = "gc_sector"
  BY DEF GcFormat
<1>4. ~InGc' /\ ~Reserved' /\ pc' \in GcLabels
  BY <1>3 DEF InGc, Moving, MoveLabels, Creating, Reserved, GcLabels
<1> QED
  BY <1>2, <1>3, <1>4, LeftAt

LEMMA ResetLeft ==
    ASSUME IInv, LeftInv, ResetErase \/ ResetFormat
    PROVE  LeftInv'
<1>1. ~gcRequest'
  BY NotAsked DEF ResetErase, ResetFormat, dbVars
<1>2. CASE ResetErase
  <2>1. pc' = "reset_format"
    BY <1>2 DEF ResetErase
  <2>2. ~InGc' /\ ~Reserved'
    BY <2>1 DEF InGc, Moving, MoveLabels, Creating, Reserved
  <2> QED
    BY <1>1, <2>1, <2>2 DEF Between, LeftInv, LeftOK, TakenOK, AskedOK, CleanOK, BeginOK
<1>3. CASE ResetFormat
  <2>1. scan.done \in Sectors
    BY <1>3 DEF ResetFormat, IInv, RunningOK
  <2>2. EmptyLeft'
    BY <1>3, <2>1, FormatLeaves DEF ResetFormat
  <2>3. pc' \in {"reset_erase", "idle", "end", "load_check"}
    BY <1>3 DEF ResetFormat, IInv, ReturnsOK
  <2>4. ~InGc' /\ ~Reserved'
    BY <2>3 DEF InGc, Moving, MoveLabels, Creating, Reserved
  <2> QED
    BY <1>1, <2>2, <2>3, <2>4, LeftAt
<1> QED
  BY <1>2, <1>3

LEMMA BootLeft ==
    ASSUME IInv, LeftInv, Boot
    PROVE  LeftInv'
<1>1. /\ pc = "off" /\ store' = store /\ dirty' = dirty /\ gcRequest' = gcRequest
      /\ \/ pc' = "load_new" /\ Unformatted = Sectors
         \/ pc' = "load_headers"
  BY DEF Boot, flashVars
<1>2. ~gcRequest'
  BY <1>1, NotAsked
<1>3. ~InGc' /\ ~Reserved' /\ pc' \in Between
  BY <1>1 DEF InGc, Moving, MoveLabels, Creating, Reserved, Between
<1>4. (EmptyLeft' <=> EmptyLeft) /\ Unformatted' = Unformatted
  BY <1>1, EmptyKept
<1>5. Sectors # {}
  BY FdbAssumption DEF Sectors
<1>6. LeftOK'
  BY <1>1, <1>3, <1>4, <1>5 DEF LeftInv, LeftOK
<1> QED
  BY <1>1, <1>2, <1>3, <1>6 DEF LeftInv, TakenOK, AskedOK, CleanOK, BeginOK

LEMMA LoadHeaderLeft ==
    ASSUME IInv, LeftInv, LoadHeader
    PROVE  LeftInv'
<1>1. FirstSector(Unformatted) \in Sectors
  <2>1. oldest \in Sectors /\ Unformatted \subseteq Sectors /\ Unformatted # {}
    BY DEF LoadHeader, Unformatted, IInv, TypeOK
  <2> QED
    BY <2>1, FirstSectorType
<1>2. EmptyLeft'
  BY <1>1, FormatLeaves DEF LoadHeader
<1>3. pc' = pc /\ pc \in {"load_new", "load_headers"} /\ gcRequest' = gcRequest
  BY DEF LoadHeader, ctlVars, dbVars
<1>4. ~gcRequest'
  BY <1>3, NotAsked
<1>5. ~InGc' /\ ~Reserved'
  BY <1>3 DEF InGc, Moving, MoveLabels, Creating, Reserved
<1> QED
  BY <1>2, <1>3, <1>4, <1>5, LeftAt

LEMMA LoadHeadersEndLeft ==
    ASSUME IInv, LeftInv, LoadHeadersEnd
    PROVE  LeftInv'
<1>1. /\ Unformatted = {} /\ store' = store /\ dirty' = dirty /\ gcRequest' = gcRequest
      /\ \/ pc = "load_new" /\ pc' = "reset_erase"
         \/ pc = "load_headers" /\ pc' = "load_check"
  BY DEF LoadHeadersEnd, CallReset, flashVars
<1>2. ~gcRequest'
  BY <1>1, NotAsked
<1>3. ~InGc' /\ ~Reserved'
  BY <1>1 DEF InGc, Moving, MoveLabels, Creating, Reserved
<1>4. EmptyLeft' <=> EmptyLeft
  BY <1>1, EmptyKept
<1>5. CASE pc = "load_new"
  <2>1. EmptyLeft'
    BY <1>1, <1>4, <1>5 DEF LeftInv, LeftOK
  <2> QED
    BY <1>1, <1>2, <1>3, <1>5, <2>1, LeftAt
<1>6. CASE pc = "load_headers"
  <2>1. EmptyLeft' \/ \E s \in Sectors : dirty'[s] = "GC"
    BY <1>1, <1>4, <1>6 DEF LeftInv, LeftOK
  <2>2. pc' = "load_check" /\ pc' \in Between
    BY <1>1, <1>6 DEF Between
  <2>3. LeftOK'
    BY <1>3, <2>1, <2>2 DEF LeftOK
  <2> QED
    BY <1>2, <1>3, <2>2, <2>3 DEF LeftInv, TakenOK, AskedOK, CleanOK, BeginOK
<1> QED
  BY <1>1, <1>5, <1>6

\* Every sector is within the walk that begins.
LEMMA WalkBegins ==
    ASSUME NEW from \in Sectors, NEW s \in Sectors
    PROVE  Distance(from, s) >= 0
  BY DistanceType

LEMMA LoadCheckLeft ==
    ASSUME IInv, LeftInv, LoadCheck
    PROVE  LeftInv'
<1>1. /\ pc = "load_check" /\ pc' = "load_gc" /\ scan' = [from |-> oldest, done |-> 0]
      /\ store' = store /\ dirty' = dirty /\ gcRequest' = gcRequest
  BY DEF LoadCheck, flashVars, dbVars
<1>2. ~gcRequest'
  BY <1>1, NotAsked
<1>3. ~InGc' /\ ~Reserved' /\ pc' \in Between
  BY <1>1 DEF InGc, Moving, MoveLabels, Creating, Reserved, Between
<1>4. EmptyLeft' <=> EmptyLeft
  BY <1>1, EmptyKept
<1>5. oldest \in Sectors
  BY DEF IInv, TypeOK
<1>6. (\E s \in Sectors : dirty[s] = "GC") => MarkToLoad'
  BY <1>1, <1>5, WalkBegins DEF MarkToLoad
<1>7. LeftOK'
  BY <1>1, <1>3, <1>4, <1>6 DEF LeftInv, LeftOK
<1> QED
  BY <1>1, <1>2, <1>3, <1>7 DEF LeftInv, TakenOK, AskedOK, CleanOK, BeginOK

LEMMA LoadGcLeft ==
    ASSUME IInv, LeftInv, LoadGc
    PROVE  LeftInv'
<1> DEFINE ahead == {s \in Sectors : dirty[s] = "GC" /\ Distance(scan.from, s) >= scan.done}
<1>1. /\ pc = "load_gc" /\ store' = store /\ dirty' = dirty
      /\ \/ ahead = {} /\ pc' = "load_start" /\ gcRequest' = gcRequest
         \/ pc' = "gc_begin" /\ gc'.from = oldest /\ gc'.done = 0
  BY DEF LoadGc, CallGc, flashVars
<1>2. ~InGc' /\ ~Reserved'
  BY <1>1 DEF InGc, Moving, MoveLabels, Creating, Reserved
<1>3. EmptyLeft' <=> EmptyLeft
  BY <1>1, EmptyKept
<1>4. EmptyLeft \/ ahead # {}
  BY <1>1 DEF LeftInv, LeftOK, MarkToLoad
<1>5. CASE pc' = "load_start"
  <2>1. EmptyLeft' /\ ~gcRequest'
    BY <1>1, <1>3, <1>4, <1>5, NotAsked
  <2> QED
    BY <1>2, <1>5, <2>1, LeftAt
<1>6. CASE pc' = "gc_begin"
  <2>1. oldest \in Sectors /\ gc'.from = oldest /\ gc'.done = 0
    BY <1>1, <1>6 DEF IInv, TypeOK
  <2>2. ASSUME NEW s \in ahead
        PROVE  s \in GcAhead' /\ dirty'[s] = "GC"
    BY <1>1, <2>1, <2>2, WalkBegins DEF GcAhead
  <2>3. EmptyLeft' \/ MarkAhead'
    BY <1>3, <1>4, <2>2 DEF MarkAhead
  <2>4. pc' \in Between /\ Collecting'
    BY <1>6 DEF Between, Collecting, GcLabels
  <2>5. LeftOK'
    BY <1>2, <1>6, <2>3, <2>4 DEF LeftOK
  <2> QED
    BY <1>2, <1>6, <2>1, <2>4, <2>5 DEF LeftInv, TakenOK, AskedOK, CleanOK, BeginOK
<1> QED
  BY <1>1, <1>5, <1>6

LEMMA LoadEndLeft ==
    ASSUME IInv, LeftInv, LoadEnd
    PROVE  LeftInv'
<1>1. /\ pc = "load_end" /\ store' = store /\ gcRequest' = gcRequest
      /\ \/ pc' = "gc_begin" /\ gc'.done = 0
         \/ pc' = "idle" /\ ~gcRequest
  BY DEF LoadEnd, CallGc, flashVars
<1>2. pc \notin Between /\ ~InGc
  BY <1>1 DEF Between, InGc, Moving, MoveLabels, Creating
<1>3. EmptyLeft'
  BY <1>1, <1>2, EmptyKept DEF LeftInv, LeftOK
<1>4. ~InGc' /\ ~Reserved' /\ (gcRequest' => pc' \in GcLabels)
  BY <1>1 DEF InGc, Moving, MoveLabels, Creating, Reserved, GcLabels
<1> QED
  BY <1>1, <1>3, <1>4, LeftAt

\* Wherever the power is lost, there is an empty sector or one that the load
\* will empty.
LEMMA CrashLeft ==
    ASSUME IInv, LeftInv, Crash
    PROVE  LeftInv'
<1>1. pc' = "off" /\ store' = store /\ dirty' = dirty /\ ~gcRequest'
  BY DEF Crash, flashVars
<1>2. EmptyLeft \/ Unformatted # {} \/ \E s \in Sectors : dirty[s] = "GC"
  <2>1. CASE InGc
    <3>1. gc \in Collections /\ dirty[gc.sec] = "GC"
      BY <2>1 DEF IInv, RunningOK, TypeOK, Collecting, InGc, GcLabels, LeftInv, LeftOK
    <3> QED
      BY <3>1 DEF Collections
  <2>2. CASE pc \notin Between /\ ~InGc
    BY <2>2 DEF LeftInv, LeftOK
  <2>3. CASE pc = "gc_format"
    <3>1. gc \in Collections /\ store[gc.sec] = "UNUSED"
      BY <2>3 DEF IInv, RunningOK, BlankOK, TypeOK, Collecting, GcLabels
    <3> QED
      BY <3>1 DEF Collections, Unformatted
  <2>4. CASE pc = "reset_format"
    BY <2>4 DEF IInv, RunningOK, BlankOK, Unformatted
  <2>5. CASE pc \in Between \ {"gc_format", "reset_format"}
    BY <2>5 DEF Between, LeftInv, LeftOK, MarkAhead, MarkToLoad, GcAhead
  <2> QED
    BY <2>1, <2>2, <2>3, <2>4, <2>5
<1>3. (EmptyLeft' <=> EmptyLeft) /\ Unformatted' = Unformatted
  BY <1>1, EmptyKept
<1>4. ~InGc' /\ ~Reserved' /\ pc' \in Between
  BY <1>1 DEF InGc, Moving, MoveLabels, Creating, Reserved, Between
<1>5. LeftOK'
  BY <1>1, <1>2, <1>3, <1>4 DEF LeftOK
<1> QED
  BY <1>1, <1>4, <1>5 DEF LeftInv, TakenOK, AskedOK, CleanOK, BeginOK

LEMMA InitLeft ==
    ASSUME Init
    PROVE  LeftInv
<1>1. Unformatted = Sectors
  BY DEF Init, Unformatted
<1>2. 0 \in Sectors
  BY FdbAssumption DEF Sectors
<1>3. ~InGc /\ ~Reserved /\ pc = "off"
  BY DEF Init, InGc, Moving, MoveLabels, Creating, Reserved
<1> QED
  BY <1>1, <1>2, <1>3 DEF Init, Between, LeftInv, LeftOK, TakenOK, AskedOK, CleanOK, BeginOK

LEMMA StutterLeft ==
    ASSUME LeftInv, UNCHANGED vars
    PROVE  LeftInv'
  BY DEF vars, flashVars, dbVars, ctlVars, LeftInv, LeftOK, TakenOK, AskedOK, CleanOK, BeginOK,
         EmptyLeft, EmptySectors, Unformatted, MarkAhead, MarkToLoad, GcAhead, InGc, Moving,
         Reserved, Collecting

LEMMA NextLeft == IInv /\ SpaceOK /\ LeftInv /\ [Next]_vars => LeftInv'
<1> SUFFICES ASSUME IInv, SpaceOK, LeftInv, [Next]_vars PROVE LeftInv'
  OBVIOUS
<1>1. CASE MarkDirty \/ WriteSector \/ WriteHeader \/ WriteData \/ WriteCommit
  BY <1>1, MarkDirtyLeft, WriteSectorLeft, WriteLeft
<1>2. CASE MovePrepare \/ MoveAlloc \/ MoveDelete
  BY <1>2, WriteLeft, MoveAllocLeft, MoveDeleteLeft
<1>3. CASE GcBegin \/ GcMark \/ GcEnd \/ GcMove \/ GcErase \/ GcFormat
  BY <1>3, GcBeginLeft, GcMarkLeft, GcEndLeft, GcMoveLeft, GcEraseLeft, GcFormatLeft
<1>4. CASE SetAlloc \/ SetPrepare \/ SetDelete \/ SetEnd \/ DelFound
  BY <1>4, SetAllocLeft, SetPrepareLeft, DeleteLeft, SetEndLeft
<1>5. CASE SetFresh \/ DelMissing \/ Return \/ LoadStart \/ LoadKvEnd \/ Calling
  BY <1>5, QuietLeft DEF Calling
<1>6. CASE ResetErase \/ ResetFormat
  BY <1>6, ResetLeft
<1>7. CASE Boot \/ LoadHeader \/ LoadHeadersEnd \/ LoadCheck \/ LoadGc \/ LoadKv \/ LoadEnd
  BY <1>7, BootLeft, LoadHeaderLeft, LoadHeadersEndLeft, LoadCheckLeft, LoadGcLeft, LoadKvLeft,
     LoadEndLeft
<1>8. CASE Crash
  BY <1>8, CrashLeft
<1>9. CASE UNCHANGED vars
  BY <1>9, StutterLeft
<1> QED
  BY <1>1, <1>2, <1>3, <1>4, <1>5, <1>6, <1>7, <1>8, <1>9 DEF Next, Work

LEMMA LeftInvariant == Spec => []LeftInv
<1>1. Init => SpaceOK
  BY DEF Init, SpaceOK, Reserved
<1>2. Spec => []IInv
  BY Invariant
<1>3. Spec => []SpaceOK
  BY <1>1, <1>2, NextKeepsSpace, PTL DEF Spec
<1> QED
  BY <1>2, <1>3, InitLeft, NextLeft, PTL DEF Spec

\* Between calls there is an empty sector for the garbage collection, wherever
\* the power was lost before: in a set, in a collection between the mark, the
\* erase and the format of a sector, in a reset or in a load.
THEOREM ReserveAlwaysKept == Spec => []ReserveKept
<1>1. LeftInv => ReserveKept
  BY DEF LeftInv, LeftOK, ReserveKept, Between, InGc, Moving, MoveLabels, Creating, EmptyLeft
<1> QED
  BY <1>1, LeftInvariant, PTL

=============================================================================
